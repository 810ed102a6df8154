---------------------------- MODULE MCTraceTimeline ----------------------------
(***************************************************************************)
(* Two threads; the code of the first one's scopes runs on both, that of   *)
(* the second one's on itself.  One declared group.                        *)
(***************************************************************************)
EXTENDS TraceTimeline

Mixed == [t \in Threads |-> IF t = 0 THEN Threads ELSE {t}]

\* Bound: a build after the first is shorter, and its kernel is run more briefly.
Later ==
    builds = MaxBuilds =>
        /\ Building => Cardinality(build.body) <= 2
        /\ run # NoRun => run.clock <= 2

Symmetry == Permutations(Names) \cup Permutations(Lanes)
=============================================================================
