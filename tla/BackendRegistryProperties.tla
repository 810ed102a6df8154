--------------------- MODULE BackendRegistryProperties ---------------------
(***************************************************************************)
(* What the backend registry must keep true.                               *)
(***************************************************************************)
EXTENDS BackendRegistry

CONSTANT Unpublished

\* What a reader can learn of the registry; no such tables are the sentinel.
Tables ==
    [detectors : [Targets -> Claim], builders : [Ops \X Targets -> Claim],
     loadFailures : Seq(Modules), defaultTarget : Targets \cup {None, Builtin}]

ASSUME UnpublishedAssumption == Unpublished \notin Tables

LoadState ==
    [active : BOOLEAN, entry : Nat \ {0}, checkpoint : RegistryState,
     restored : 0..Assignments, failed : Seq(Modules)]
Frame == [module : Modules, at : Nat \ {0}]
Labels ==
    {"idle", "enter", "acquire", "discover", "load", "import", "rollback", "abandon", "warn",
     "serve", "reread", "store", "answered"}

\* Every variable has its type, and a thread is executing module bodies exactly while
\* its pc says so.
TypeOK ==
    /\ registry \in RegistryState
    /\ lock \in Threads \cup {NoThread}
    /\ load \in [Threads -> LoadState]
    /\ sysModules \in [Modules -> {"absent", "importing", "imported"}]
    /\ stack \in [Threads -> Seq(Frame)]
    /\ pc \in [Threads -> Labels]
    /\ call \in [Threads -> Request \cup {NoCall}]
    /\ interrupts \in 0..MaxInterrupts
    /\ \A t \in Threads : /\ stack[t] # <<>> <=> pc[t] = "import"
                          /\ pc[t] = "store" => call[t].kind = "setDefault"

\* No thread acts on a half-built registry: whoever got past ensure_loaded, other than
\* from a module under discovery, got there after publication (registry.py:31).
Serving_labels == {"warn", "serve", "reread", "store", "answered"}
HalfBuiltHidden == \A t \in Threads : pc[t] \in Serving_labels => registry.loaded

\* Why it holds: only the owner of LOCK discovers, it discovers an unpublished registry,
\* and it rolls back to an unpublished one.
LockInv ==
    /\ \A t \in Threads :
         /\ load[t].active <=> lock = t
         /\ pc[t] \in {"discover", "load"} \/ Rolling(t) => load[t].active
         /\ load[t].active => pc[t] \in {"discover", "load", "import"} \/ Rolling(t)
         /\ load[t].active /\ pc[t] # "discover" => load[t].entry <= Len(EntryPoints)
         /\ ~load[t].checkpoint.loaded
    /\ lock # NoThread => ~registry.loaded
    /\ HalfBuiltHidden

\* default_target() reads the process default without LOCK, discovery or not.  But for the
\* time a rollback takes, which gives the tables back before the default (registry.py:188),
\* what it reads names a target some backend registered: no failed backend stays chosen.
DefaultIsKnown ==
    (\A t \in Threads : ~Rolling(t))
        => registry.defaultTarget \in known_targets \cup {None, Builtin}

\* The modules whose registrations belong to the entry point of module m.
Family(m) == {m} \cup {Body[m][i].module : i \in
                         {i \in DOMAIN Body[m] : Body[m][i].kind = "import"}}
Complete(m) ==
    \A i \in DOMAIN Body[m] :
        LET s == Body[m][i]
        IN /\ s.kind = "detector" => registry.detectors[s.target] = m
           /\ s.kind = "builder" => registry.builders[<<s.op, s.target>>] = m
OwnsNothing(m) ==
    /\ \A T \in Targets : registry.detectors[T] # m
    /\ \A cell \in Ops \X Targets : registry.builders[cell] # m

\* Once published, a backend is in with every detector and builder its modules declare,
\* or is listed as failed and owns no cell: no load is left half way (registry.py:136).
AllOrNothing ==
    registry.loaded =>
        \A i \in DOMAIN EntryPoints :
            LET m == EntryPoints[i]
            IN IF \E j \in DOMAIN registry.loadFailures : registry.loadFailures[j] = m
               THEN OwnsNothing(m)
               ELSE \A n \in Family(m) : Complete(n)

\* LOAD_FAILURES has one line per backend that failed to import (registry.py:24): no
\* backend twice, and none that is in after all.
OneLinePerBackend ==
    /\ \A i, j \in DOMAIN registry.loadFailures :
         registry.loadFailures[i] = registry.loadFailures[j] => i = j
    /\ registry.loaded =>
         \A i \in DOMAIN registry.loadFailures :
            \/ ~Complete(registry.loadFailures[i])
            \/ \E j \in DOMAIN Body[registry.loadFailures[i]] :
                 Body[registry.loadFailures[i]][j].kind = "raise"

\* A cell is claimed once (registry.py:73): after publication no step hands it to another
\* module or takes it back, and publication is never undone.
ClaimsStay ==
    [][registry.loaded =>
         /\ registry'.loaded
         /\ \A T \in Targets : registry.detectors[T] # NoModule =>
              registry'.detectors[T] = registry.detectors[T]
         /\ \A cell \in Ops \X Targets : registry.builders[cell] # NoModule =>
              registry'.builders[cell] = registry.builders[cell]]_vars

\* A call with a device that named no target runs in tree only when no installed backend
\* claims the device.
InTreeByDetection ==
    \A t \in Threads :
        (pc[t] = "answered" /\ call[t].kind = "select") =>
            \/ call[t].requested # None
            \/ call[t].device = NoDevice
            \/ answer[t] # None
            \/ Claimed(call[t].device) = {}

\* The program resets the default between the two reads of a selection.
ResetWhileSelecting ==
    \E t, u \in Threads :
        /\ pc[t] = "reread"
        /\ pc[u] = "store" /\ call[u].target = None

\* select_target's order (dispatch.py:55), for programs that keep off the window between
\* its two reads of the default (dispatch.py:79): in that window it returns None for what
\* is no longer a default, and detection is never asked.
SelectFollowsOrder == []~ResetWhileSelecting => []InTreeByDetection

\* A thread that asked the registry is answered, or handed the exception its call raised:
\* it does not wait for the finished registry for ever (registry.py:37).
WaitersServed == \A t \in Threads : pc[t] = "enter" ~> pc[t] \in {"answered", "idle"}

Catalog == INSTANCE BackendCatalog WITH
    view <- IF registry.loaded
            THEN [detectors |-> registry.detectors, builders |-> registry.builders,
                  loadFailures |-> registry.loadFailures,
                  defaultTarget |-> registry.defaultTarget]
            ELSE Unpublished

\* Whichever thread discovers and however the others interleave, what is published is the
\* catalog that the installed entry points determine, in their fixed order (registry.py:132).
FixedOrder == Catalog!Spec
=============================================================================
