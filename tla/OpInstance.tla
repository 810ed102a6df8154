------------------------------ MODULE OpInstance ------------------------------
(***************************************************************************)
(* One op instance and who serves it (tileops/ops/op_base.py).  The first  *)
(* call settles the instance on a target, kernels are built on a miss and  *)
(* kept by role and key, and a call that fails takes both back.  A call    *)
(* traced by torch.compile writes its attributes only after its graph has  *)
(* run, so the graph settles the instance a second time.                   *)
(***************************************************************************)
EXTENDS FiniteSets

CONSTANTS
    Threads,
    Targets,        \* external targets
    Registered,     \* those that register a builder for this op
    BUILTIN, NoTarget,
    Devices, NoDevice,
    Detected,       \* the target whose detector claims a device, or NoTarget
    Roles, InTreeRoles,
    Keys,           \* dtypes and shapes
    Modes,          \* "eager", "traced"
    Interruptible,  \* Ctrl-C may hit a call
    Dicts, NoDict,  \* identities of _kernel_roles dictionaries, reused once dropped
    InTree,         \* _builder is None: the in-tree implementation
    Unresolved      \* _UNRESOLVED

ASSUME InstanceAssumption ==
    /\ Registered \subseteq Targets /\ InTreeRoles \subseteq Roles
    /\ Roles # {} /\ Keys # {}
    /\ Modes \subseteq {"eager", "traced"} /\ Interruptible \in BOOLEAN
    /\ Detected \in [Devices -> Targets \cup {NoTarget}]
    /\ BUILTIN \notin Targets /\ NoTarget \notin Targets /\ BUILTIN # NoTarget
    /\ InTree \notin Targets /\ Unresolved \notin Targets /\ InTree # Unresolved
    /\ NoDevice \notin Devices /\ NoDict \notin Dicts

VARIABLES
    target,     \* the constructor's target=
    default,    \* the process default of the registry
    _builder,
    _kernel_roles,  \* the identity of the dictionary; NoDict before the first kernel
    entries,    \* entries[d]: what dictionary d holds
    frame,      \* frame[t]: the call thread t is in
    decided,    \* history: a call has returned from a settled instance
    escaped     \* history: a call that had settled the instance ended unseen by a handler

history == <<decided, escaped>>
vars == <<target, default, _builder, _kernel_roles, entries, frame, decided, escaped>>

Requests == Targets \cup {BUILTIN, NoTarget}
Builders == Targets \cup {InTree}
Entries == [role : Roles, key : Keys, by : Builders]
Steps == {"idle", "select", "settle", "forward", "settled?", "builder", "build", "launch", "raise"}

AnyRole == CHOOSE role \in Roles : TRUE
AnyKey == CHOOSE key \in Keys : TRUE

\* mine: __call__ settled and its handler is armed; here: this kernel_for settles, and its
\* handler is armed; settled: one that did has returned; later: what a traced frame will
\* write to _builder.
Frames == [pc : Steps, mode : {"eager", "traced"}, device : Devices \cup {NoDevice}, mine : BOOLEAN,
           here : BOOLEAN, settled : BOOLEAN, choice : Requests, later : Builders \cup {Unresolved},
           dict : Dicts \cup {NoDict}, role : Roles, key : Keys, by : Builders]

\* Between calls; the fields a call has not written yet are never read.
Idle == [pc |-> "idle", mode |-> "eager", device |-> NoDevice, mine |-> FALSE, here |-> FALSE,
         settled |-> FALSE, choice |-> NoTarget, later |-> Unresolved, dict |-> NoDict,
         role |-> AnyRole, key |-> AnyKey, by |-> InTree]

Init ==
    /\ target \in Requests /\ default = NoTarget
    /\ _builder = Unresolved /\ _kernel_roles = NoDict
    /\ entries = [d \in Dicts |-> {}]
    /\ frame = [t \in Threads |-> Idle]
    /\ decided = FALSE /\ escaped = FALSE

at(t, step) == frame[t].pc = step
Step(t, step) == frame' = [frame EXCEPT ![t].pc = step]
\* An exception leaves everything of the frame but the handler of __call__.
Raise(t) ==
    frame' = [frame EXCEPT ![t] =
               [Idle EXCEPT !.pc = "raise", !.mode = frame[t].mode, !.mine = frame[t].mine]]

\* A dictionary nobody refers to any more.
Fresh == {d \in Dicts : d # _kernel_roles /\ \A t \in Threads : frame[t].dict # d}

\* Bug: what the failed call built stays.
_unsettleKeepsKernels ==
    _builder' = Unresolved /\ UNCHANGED <<_kernel_roles, entries>>

_unsettle ==
    /\ _builder' = Unresolved
    /\ _kernel_roles' \in Fresh
    /\ entries' = [d \in Dicts |-> IF d \in Fresh THEN {} ELSE entries[d]]

set_default_target(t) ==
    /\ at(t, "idle")
    /\ default' \in Requests
    /\ UNCHANGED <<target, _builder, _kernel_roles, entries, frame, history>>

-----------------------------------------------------------------------------
\* __call__: settle first, unless that was done.
__call__(t) ==
    /\ at(t, "idle")
    /\ \E mode \in Modes, device \in Devices \cup {NoDevice} :
         frame' = [frame EXCEPT ![t] =
                    [Idle EXCEPT !.pc = IF _builder = Unresolved THEN "select" ELSE "forward",
                                 !.mode = mode, !.device = device]]
    /\ UNCHANGED <<target, default, _builder, _kernel_roles, entries, history>>

\* select_target, in one read of the default.
Selected(f) ==
    CASE target # NoTarget -> target
      [] target = NoTarget /\ default # NoTarget -> default
      [] OTHER -> IF f.device = NoDevice THEN NoTarget ELSE Detected[f.device]

select_target(t) ==
    /\ at(t, "select")
    /\ frame' = [frame EXCEPT ![t] = [@ EXCEPT !.pc = "settle", !.choice = Selected(frame[t])]]
    /\ UNCHANGED <<target, default, _builder, _kernel_roles, entries, history>>

\* What an answer makes of _builder; Unresolved where nothing is written.
Decision(choice, device) ==
    CASE choice = NoTarget -> IF device = NoDevice THEN Unresolved ELSE InTree
      [] choice = BUILTIN -> InTree
      [] OTHER -> choice

_resolve_builder(t) ==
    /\ at(t, "settle")
    /\ LET f == frame[t]
           traced == f.mode = "traced" /\ ~f.here
           decision == Decision(f.choice, f.device)
       IN \/ /\ f.choice \in Targets \ Registered
             /\ Raise(t) /\ UNCHANGED _builder
          \/ /\ f.choice \notin Targets \ Registered
             /\ _builder' = IF traced \/ decision = Unresolved THEN _builder ELSE decision
             /\ frame' = [frame EXCEPT ![t] =
                           [@ EXCEPT !.pc = IF f.here THEN "builder" ELSE "forward",
                                     !.mine = f.mine \/ (~f.here /\ ~traced),
                                     !.later = IF traced THEN decision ELSE f.later]]
    /\ UNCHANGED <<target, default, _kernel_roles, entries, history>>

\* forward asks for a kernel: the dictionary is read, and made if there is none.
kernel_for(t) ==
    /\ at(t, "forward")
    /\ \E role \in Roles, key \in Keys,
          d \in (IF _kernel_roles = NoDict THEN Fresh ELSE {_kernel_roles}) :
         /\ frame' = [frame EXCEPT ![t] =
                       [@ EXCEPT !.pc = "settled?", !.role = role, !.key = key, !.dict = d]]
         /\ _kernel_roles' = d
    /\ UNCHANGED <<target, default, _builder, entries, history>>

\* Bug: kernel_for trusts __call__ to have settled the instance.
SettledHereTrusts(t) ==
    /\ at(t, "settled?")
    /\ frame' = [frame EXCEPT ![t] = [@ EXCEPT !.pc = "builder", !.here = FALSE]]
    /\ UNCHANGED <<target, default, _builder, _kernel_roles, entries, history>>

SettledHere(t) ==
    /\ at(t, "settled?")
    /\ frame' = [frame EXCEPT ![t] =
                  [@ EXCEPT !.pc = IF _builder = Unresolved THEN "select" ELSE "builder",
                            !.here = (_builder = Unresolved)]]
    /\ UNCHANGED <<target, default, _builder, _kernel_roles, entries, history>>

ReadBuilder(t) ==
    /\ at(t, "builder")
    /\ frame' = [frame EXCEPT ![t] =
                  [@ EXCEPT !.pc = "build",
                            !.by = IF _builder = Unresolved THEN InTree ELSE _builder]]
    /\ UNCHANGED <<target, default, _builder, _kernel_roles, entries, history>>

\* In-tree entries are keyed by class, external ones by device, dtype and shape: those of
\* two targets meet.
Hits(f) ==
    {e \in entries[f.dict] : /\ e.role = f.role /\ e.key = f.key
                             /\ e.by = InTree <=> f.by = InTree}

Servable(f) ==
    /\ f.by = InTree => f.role \in InTreeRoles
    /\ f.by # InTree => f.device # NoDevice

Build(t) ==
    /\ at(t, "build") /\ Servable(frame[t])
    /\ \E by \in Builders :
         /\ frame' = [frame EXCEPT ![t] =
                       [@ EXCEPT !.pc = "launch", !.settled = frame[t].settled \/ frame[t].here,
                                 !.by = by]]
         /\ \/ /\ \E hit \in Hits(frame[t]) : by = hit.by
               /\ UNCHANGED entries
            \/ /\ Hits(frame[t]) = {} /\ by = frame[t].by
               /\ entries' = [entries EXCEPT ![frame[t].dict] =
                               @ \cup {[role |-> frame[t].role, key |-> frame[t].key, by |-> by]}]
    /\ UNCHANGED <<target, default, _builder, _kernel_roles, history>>

\* A compiled graph fails after a kernel_for that settled the instance has returned: no
\* handler is left to see it.
Unseen(f) == f.mode = "traced" /\ f.settled

\* Bug: kernel_for leaves the failure to the handler of __call__.
BuildRaisesUnhandled(t) ==
    /\ at(t, "build")
    /\ escaped' = (escaped \/ (Unseen(frame[t]) /\ ~frame[t].here))
    /\ Raise(t)
    /\ UNCHANGED <<target, default, _builder, _kernel_roles, entries, decided>>

\* The identity, the builder or the checks raise: whoever settled it unsettles it.
BuildRaises(t) ==
    /\ at(t, "build")
    /\ IF frame[t].here THEN _unsettle ELSE UNCHANGED <<_builder, _kernel_roles, entries>>
    /\ escaped' = (escaped \/ (Unseen(frame[t]) /\ ~frame[t].here))
    /\ Raise(t)
    /\ UNCHANGED <<target, default, decided>>

Launch(t) ==
    /\ at(t, "launch")
    /\ frame' = [frame EXCEPT ![t] = [@ EXCEPT !.pc = "forward", !.here = FALSE,
                                  !.dict = NoDict, !.role = AnyRole, !.key = AnyKey, !.by = InTree]]
    /\ UNCHANGED <<target, default, _builder, _kernel_roles, entries, history>>

\* forward's own checks, or a launch, raise.
ForwardRaises(t) ==
    /\ at(t, "forward") \/ at(t, "launch")
    /\ escaped' = (escaped \/ Unseen(frame[t]))
    /\ Raise(t)
    /\ UNCHANGED <<target, default, _builder, _kernel_roles, entries, decided>>

Leave(t) == frame' = [frame EXCEPT ![t] = Idle]

\* Bug: the handler is armed for a call on a settled instance too.
UnwindAlways(t) ==
    /\ at(t, "raise")
    /\ _unsettle
    /\ Leave(t)
    /\ UNCHANGED <<target, default, history>>

\* The handler of __call__; a traced call does not arm it.
Unwind(t) ==
    /\ at(t, "raise")
    /\ IF frame[t].mine THEN _unsettle ELSE UNCHANGED <<_builder, _kernel_roles, entries>>
    /\ Leave(t)
    /\ UNCHANGED <<target, default, history>>

\* A traced frame's writes land now.
Return(t) ==
    /\ at(t, "forward")
    /\ _builder' = IF frame[t].later = Unresolved THEN _builder ELSE frame[t].later
    /\ decided' = (decided \/ _builder' # Unresolved)
    /\ Leave(t)
    /\ UNCHANGED <<target, default, _kernel_roles, entries, escaped>>

\* KeyboardInterrupt is no Exception: neither handler runs.
Interrupt(t) ==
    /\ Interruptible /\ ~at(t, "idle")
    /\ escaped' = (escaped \/ frame[t].mine \/ frame[t].here \/ frame[t].settled)
    /\ Leave(t)
    /\ UNCHANGED <<target, default, _builder, _kernel_roles, entries, decided>>

Next ==
    \E t \in Threads :
        \/ set_default_target(t) \/ __call__(t)
        \/ select_target(t) \/ _resolve_builder(t)
        \/ kernel_for(t) \/ SettledHere(t) \/ ReadBuilder(t)
        \/ Build(t) \/ BuildRaises(t) \/ Launch(t) \/ ForwardRaises(t)
        \/ Unwind(t) \/ Return(t) \/ Interrupt(t)

Spec == Init /\ [][Next]_vars

-----------------------------------------------------------------------------
InKernelFor(f) ==
    \/ f.pc \in {"settled?", "builder", "build", "launch"}
    \/ f.pc \in {"select", "settle"} /\ f.here

\* Types; a kernel runs only from a dictionary, and there is always one to spare.
TypeOK ==
    /\ target \in Requests /\ default \in Requests
    /\ _builder \in Builders \cup {Unresolved}
    /\ _kernel_roles \in Dicts \cup {NoDict}
    /\ entries \in [Dicts -> SUBSET Entries]
    /\ frame \in [Threads -> Frames]
    /\ decided \in BOOLEAN /\ escaped \in BOOLEAN
    /\ \A t \in Threads : InKernelFor(frame[t]) => frame[t].dict \in Dicts

\* An op constructed for a target runs that target's kernels and no others: no failed call,
\* no change of the default and no traced frame makes it run the in-tree ones
\* (op_base.py:786).
TargetHonoured ==
    \A t \in Threads : target \in Targets /\ at(t, "launch") => frame[t].by = target

Serving == IF _builder = Unresolved THEN InTree ELSE _builder

\* The kernel a call runs was built by the target the instance is settled on; a failed
\* call leaves none behind for the target settled next (op_base.py:754, 762).
ServedBySettled ==
    \A t \in Threads : at(t, "launch") => frame[t].by = Serving

\* Calls that failed, any number of them, aim the instance at nothing (op_base.py:697).
FailureSettlesNothing ==
    ~decided /\ (\A t \in Threads : at(t, "idle")) => _builder = Unresolved

\* They do not, traced by torch.compile or not, unless one settled the instance itself and
\* then was interrupted, or failed in its compiled graph after the kernel_for that settled
\* it had returned (op_base.py:479, 706).
CaughtFailureSettlesNothing == escaped \/ FailureSettlesNothing

\* Once a call has returned from a settled instance, the target does not change
\* (op_base.py:762).
SettledStays == [][decided => _builder' = _builder]_<<_builder, decided>>

\* Why, as long as one thread uses the instance.  A call settles what is unsettled, the
\* answer is the same outside and inside a traced graph, and the dictionary in use is the
\* instance's; what it holds of external targets was built by the one that serves.
FrameInv(f) ==
    /\ f.pc = "idle" => f = Idle
    /\ f.pc \in {"select", "settle"} => _builder = Unresolved
    /\ f.pc = "settle" => f.choice = Selected(f)
    /\ f.pc \in {"select", "settle"} /\ ~f.here => ~f.mine /\ f.later = Unresolved
    /\ f.later # Unresolved =>
         /\ f.later = Decision(Selected(f), f.device)
         /\ _builder \in {Unresolved, f.later}
    /\ InKernelFor(f) => f.dict = _kernel_roles
    /\ f.pc \in {"build", "launch"} => f.by = Serving
    /\ target \in Targets =>
         /\ f.later \in {Unresolved, target}
         /\ f.pc \in {"builder", "build", "launch"} => _builder = target
    /\ decided => ~f.mine /\ ~f.here /\ f.later = Unresolved
KernelsBelong ==
    /\ _kernel_roles = NoDict => \A d \in Dicts : entries[d] = {}
    /\ _kernel_roles \in Dicts => \A e \in entries[_kernel_roles] : e.by \in {InTree, _builder}
OneCallerInv ==
    /\ \A t \in Threads : FrameInv(frame[t])
    /\ KernelsBelong
    /\ target \in Targets => _builder \in {Unresolved, target}
    /\ decided => _builder # Unresolved

\* Why a failure a handler sees settles nothing: one is armed from the moment the instance
\* is settled, that of __call__ until the call returns, that of kernel_for until it does.
Armed(f) ==
    \/ f.mine \/ decided
    \/ f.pc \in {"idle", "select", "settle", "raise"} /\ ~f.here /\ _builder = Unresolved
    \/ /\ f.mode = "traced" /\ f.pc # "raise"
       /\ \/ _builder = Unresolved \/ f.settled
          \/ f.here /\ f.pc \in {"builder", "build"}
ArmedInv == ~escaped => \A t \in Threads : Armed(frame[t])
=============================================================================
