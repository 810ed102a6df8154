----------------------------- MODULE MCOpInstance -----------------------------
(***************************************************************************)
(* Two targets, of which one serves every device that a detector claims;   *)
(* one role with an in-tree implementation and one without.                *)
(***************************************************************************)
EXTENDS OpInstance

CONSTANTS vendor, other, absent, gpu, cpu

Claims == [d \in Devices |-> IF d = gpu THEN vendor ELSE NoTarget]
=============================================================================
