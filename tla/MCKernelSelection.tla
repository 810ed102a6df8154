------------------------- MODULE MCKernelSelection -------------------------
(***************************************************************************)
(* An op with a general key and a specialised one, whose siblings have a   *)
(* key of their own; above it composites, ops with all its keys and ops    *)
(* that lack one; one replacement, which serves prefill only.              *)
(***************************************************************************)
EXTENDS KernelSelection

CONSTANTS general, narrow, sibling, stale, g0, n0, mine, prefill, decode

ShippedMap == [name \in {general, narrow} |-> IF name = general THEN g0 ELSE n0]
ParentMaps == {{}, {general, narrow, sibling}, {narrow, sibling}}
Regions == [c \in {g0, n0, mine} |->
              CASE c = g0 -> {prefill, decode} [] c = n0 -> {decode} [] OTHER -> {prefill}]
=============================================================================
