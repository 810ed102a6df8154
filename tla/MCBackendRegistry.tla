------------------------- MODULE MCBackendRegistry -------------------------
(***************************************************************************)
(* Installed backends for TLC.                                             *)
(***************************************************************************)
EXTENDS BackendRegistryProperties

CONSTANTS acme, borg, core, plug, kit, T1, T2, op1, gpu

Detector(T) == [kind |-> "detector", target |-> T]
Builder(T) == [kind |-> "builder", op |-> op1, target |-> T]
Default(T) == [kind |-> "default", target |-> T]
Imports(m) == [kind |-> "import", module |-> m]
RaiseNow == [kind |-> "raise"]

Installed == <<acme, borg, core>>
Claiming == [m \in {acme, borg, core, plug, kit} |-> IF m = kit THEN {} ELSE {gpu}]

\* acme raises half way, after choosing itself as the default; borg keeps a builder in kit;
\* core imports kit too, and contests a cell borg holds.
Contested ==
    [m \in {acme, borg, core, plug, kit} |->
       CASE m = acme -> <<Detector(T1), Default(T1), RaiseNow>>
         [] m = borg -> <<Detector(T1), Imports(kit), Default(T1)>>
         [] m = kit -> <<Builder(T1)>>
         [] m = core -> <<Builder(T2), Imports(kit), Detector(T1)>>
         [] OTHER -> <<>>]

\* Every backend is sound; an interrupt may hit any of them, and the program imports plug,
\* which contests a cell of core.
Whole ==
    [m \in {acme, borg, core, plug, kit} |->
       CASE m = acme -> <<Detector(T1), Builder(T1)>>
         [] m = borg -> <<Detector(T2), Default(T2)>>
         [] m = core -> <<Builder(T2)>>
         [] m = plug -> <<Builder(T2)>>
         [] OTHER -> <<>>]

\* acme and borg keep builders in kit; the program imports plug, which contests a cell of
\* core.
Packaged ==
    [m \in {acme, borg, core, plug, kit} |->
       CASE m = acme -> <<Detector(T1), Imports(kit)>>
         [] m = kit -> <<Builder(T1)>>
         [] m = borg -> <<Imports(kit), Default(T1)>>
         [] m = core -> <<Detector(T2), Builder(T2)>>
         [] m = plug -> <<Builder(T2)>>
         [] OTHER -> <<>>]
=============================================================================
