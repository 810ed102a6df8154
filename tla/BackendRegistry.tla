--------------------------- MODULE BackendRegistry ---------------------------
(***************************************************************************)
(* The backend registry (tileops/backend/registry.py) and the dispatcher   *)
(* that reads it (tileops/backend/dispatch.py): process-wide tables filled *)
(* once, by importing every declared backend module, and read by every     *)
(* thread that runs an op.                                                 *)
(*                                                                         *)
(* A backend module is its top level, a sequence of statements.  Python's  *)
(* import system is external, modelled by what the registry relies on: a   *)
(* module body is executed once, by one thread; a second importer waits    *)
(* for the first; an import that raises takes the modules it was executing *)
(* out of sys.modules and leaves the ones it had finished.                 *)
(***************************************************************************)
EXTENDS Naturals, Sequences

CONSTANTS
    Threads,        \* threads of the process
    Modules,        \* Python modules that may register something
    EntryPoints,    \* the modules of the entry points, in their sorted order
    Body,           \* Body[m]: the statements of m's top level
    Targets, Ops, Devices,
    Claims,         \* Claims[m]: the devices the detector of module m answers True for
    RudeDetectors,  \* modules whose detector raises instead of answering
    DirectModules,  \* modules the program also imports by itself, outside discovery
    DefaultChoices, \* what the program hands to set_default_target
    MaxInterrupts,  \* bound: interrupts (BaseException) delivered to an import
    NoThread, NoModule, NoDevice, NoAnswer, None, Builtin

Statements ==
    [kind : {"detector"}, target : Targets]
        \cup [kind : {"builder"}, op : Ops, target : Targets]
        \cup [kind : {"default"}, target : Targets]
        \cup [kind : {"import"}, module : Modules]
        \cup [kind : {"raise"}]

ASSUME RegistryAssumption ==
    /\ EntryPoints \in Seq(Modules)
    /\ Body \in [Modules -> Seq(Statements)]
    /\ Claims \in [Modules -> SUBSET Devices]
    /\ RudeDetectors \subseteq Modules
    /\ DefaultChoices \subseteq Targets \cup {None, Builtin}
    /\ MaxInterrupts \in Nat

ASSUME SentinelAssumption ==
    /\ NoThread \notin Threads
    /\ NoModule \notin Modules
    /\ NoDevice \notin Devices
    /\ None \notin Targets \cup {Builtin}
    /\ Builtin \notin Targets

\* An exception out of a selection is not the answer None.
ASSUME RefusalAssumption == None \notin {"detector raised", "ambiguous target"}

\* A module the program imports by itself does not choose the process default.
ASSUME DirectAssumption ==
    /\ DirectModules \subseteq Modules
    /\ \A m \in DirectModules : \A i \in 1..Len(Body[m]) : Body[m][i].kind # "default"

VARIABLES
    registry,       \* DETECTORS, BUILDERS, LOAD_FAILURES, default_target and _loaded
    lock,           \* LOCK: the thread that owns it, or NoThread
    load,           \* per thread: _LOADING.active and the locals of _load_all
    sysModules,     \* external: sys.modules and the import lock of each module
    stack,          \* per thread: the module bodies it is executing, innermost first
    pc, call, answer,
    interrupts

user == <<call, answer>>
vars == <<registry, lock, load, sysModules, stack, pc, user, interrupts>>

\* A cell holds the module whose detector or builder claimed it.
Claim == Modules \cup {NoModule}
RegistryState ==
    [detectors : [Targets -> Claim], builders : [Ops \X Targets -> Claim],
     loadFailures : Seq(Modules), defaultTarget : Targets \cup {None, Builtin},
     loaded : BOOLEAN]

Request ==
    [kind : {"select"}, requested : Targets \cup {None, Builtin},
     device : Devices \cup {NoDevice}]
        \cup [kind : {"lookup"}, op : Ops, target : Targets]
        \cup [kind : {"setDefault"}, target : DefaultChoices]
        \cup [kind : {"failures"}]
NoCall == [kind |-> "none"]

known_targets ==
    {T \in Targets : \/ registry.detectors[T] # NoModule
                     \/ \E op \in Ops : registry.builders[<<op, T>>] # NoModule}

Empty ==
    [detectors |-> [T \in Targets |-> NoModule],
     builders |-> [cell \in Ops \X Targets |-> NoModule],
     loadFailures |-> <<>>, defaultTarget |-> None, loaded |-> FALSE]

Init ==
    /\ registry = Empty
    /\ lock = NoThread
    /\ load = [t \in Threads |->
                 [active |-> FALSE, entry |-> 1, checkpoint |-> Empty, restored |-> 0,
                  failed |-> <<>>]]
    /\ sysModules = [m \in Modules |-> "absent"]
    /\ stack = [t \in Threads |-> <<>>]
    /\ pc = [t \in Threads |-> "idle"]
    /\ call = [t \in Threads |-> NoCall]
    /\ answer = [t \in Threads |-> NoAnswer]
    /\ interrupts = 0

Goto(t, label) == pc' = [pc EXCEPT ![t] = label]

-----------------------------------------------------------------------------
(* ensure_loaded: what every reader of the tables calls first.             *)

Call(t) ==
    /\ pc[t] = "idle"
    /\ \E request \in Request : call' = [call EXCEPT ![t] = request]
    /\ Goto(t, "enter")
    /\ UNCHANGED <<registry, lock, load, sysModules, stack, answer, interrupts>>

\* Bug: _LOADING is an ordinary global, so every thread sees discovery as its own.
FastPathSharedFlag(t) ==
    /\ pc[t] = "enter"
    /\ Goto(t, IF registry.loaded \/ \E u \in Threads : load[u].active
               THEN "serve" ELSE "acquire")
    /\ UNCHANGED <<registry, lock, load, sysModules, stack, user, interrupts>>

\* The unlocked reads of _loaded and of the thread's own _LOADING.active.
FastPath(t) ==
    /\ pc[t] = "enter"
    /\ Goto(t, IF registry.loaded \/ load[t].active THEN "serve" ELSE "acquire")
    /\ UNCHANGED <<registry, lock, load, sysModules, stack, user, interrupts>>

\* Bug: _loaded is not read again once LOCK is held.
BeginDiscoveryUnchecked(t) ==
    /\ pc[t] = "acquire" /\ lock = NoThread
    /\ lock' = t
    /\ load' = [load EXCEPT ![t].active = TRUE, ![t].entry = 1, ![t].failed = <<>>]
    /\ Goto(t, "discover")
    /\ UNCHANGED <<registry, sysModules, stack, user, interrupts>>

\* LOCK taken and _loaded still unset: this thread discovers.
BeginDiscovery(t) ==
    /\ pc[t] = "acquire" /\ lock = NoThread /\ ~registry.loaded
    /\ lock' = t
    /\ load' = [load EXCEPT ![t].active = TRUE, ![t].entry = 1, ![t].failed = <<>>]
    /\ Goto(t, "discover")
    /\ UNCHANGED <<registry, sysModules, stack, user, interrupts>>

\* LOCK taken after somebody else published: released at once.
FoundLoaded(t) ==
    /\ pc[t] = "acquire" /\ lock = NoThread /\ registry.loaded
    /\ Goto(t, "serve")
    /\ UNCHANGED <<registry, lock, load, sysModules, stack, user, interrupts>>

\* Every entry point was tried: published, and LOCK released, before any warning.
Publish(t) ==
    /\ pc[t] = "discover" /\ load[t].entry > Len(EntryPoints)
    /\ registry' = [registry EXCEPT !.loaded = TRUE]
    /\ lock' = NoThread
    /\ load' = [load EXCEPT ![t].active = FALSE]
    /\ Goto(t, "warn")
    /\ UNCHANGED <<sysModules, stack, user, interrupts>>

\* One warning per failure; under -W error the first is raised out of the call.
Warn(t) ==
    /\ pc[t] = "warn"
    /\ \/ /\ load' = [load EXCEPT ![t].failed = <<>>]
          /\ Goto(t, "serve")
          /\ UNCHANGED call
       \/ /\ load[t].failed # <<>>
          /\ load' = [load EXCEPT ![t].failed = <<>>]
          /\ Goto(t, "idle")
          /\ call' = [call EXCEPT ![t] = NoCall]
    /\ UNCHANGED <<registry, lock, sysModules, stack, answer, interrupts>>

-----------------------------------------------------------------------------
(* _load_all: one entry point at a time, each a transaction.               *)

NextEntryPoint(t) ==
    /\ pc[t] = "discover" /\ load[t].entry <= Len(EntryPoints)
    /\ load' = [load EXCEPT ![t].checkpoint = registry]
    /\ Goto(t, "load")
    /\ UNCHANGED <<registry, lock, sysModules, stack, user, interrupts>>

\* Bug: entry points are tried in the reverse order.
LoadingReversed(t) == EntryPoints[Len(EntryPoints) + 1 - load[t].entry]

Loading(t) == EntryPoints[load[t].entry]

\* ep.load() of a module that sys.modules already holds executes nothing.
LoadCached(t) ==
    /\ pc[t] = "load" /\ sysModules[Loading(t)] = "imported"
    /\ load' = [load EXCEPT ![t].entry = @ + 1]
    /\ Goto(t, "discover")
    /\ UNCHANGED <<registry, lock, sysModules, stack, user, interrupts>>

\* Module m starts executing on top of the frames in rest.
Import(t, m, rest) ==
    /\ sysModules[m] = "absent"
    /\ sysModules' = [sysModules EXCEPT ![m] = "importing"]
    /\ stack' = [stack EXCEPT ![t] = <<[module |-> m, at |-> 1]>> \o rest]
    /\ Goto(t, "import")
    /\ UNCHANGED <<registry, lock, load, user, interrupts>>

Load(t) == pc[t] = "load" /\ Import(t, Loading(t), <<>>)

\* The program imports a backend package by itself, holding only its import lock.
DirectImport(t) == pc[t] = "idle" /\ \E m \in DirectModules : Import(t, m, <<>>)

-----------------------------------------------------------------------------
(* Executing the body of a module.                                         *)

Importing(t) == pc[t] = "import"
Current(t) == Head(stack[t]).module
AtStatement(t, kind) ==
    /\ Importing(t)
    /\ Head(stack[t]).at <= Len(Body[Current(t)])
    /\ Body[Current(t)][Head(stack[t]).at].kind = kind
Statement(t) == Body[Current(t)][Head(stack[t]).at]
Advanced(t) == <<[Head(stack[t]) EXCEPT !.at = @ + 1]>> \o Tail(stack[t])
Advance(t) ==
    /\ stack' = [stack EXCEPT ![t] = Advanced(t)]
    /\ UNCHANGED <<load, sysModules, pc>>

OnStack(t) == {stack[t][i].module : i \in DOMAIN stack[t]}

\* The modules being executed leave sys.modules; the ones already finished stay.
Unwind(t) ==
    /\ sysModules' = [m \in Modules |-> IF m \in OnStack(t) THEN "absent" ELSE sysModules[m]]
    /\ stack' = [stack EXCEPT ![t] = <<>>]

\* An Exception leaves the import.  Discovery rolls back before it goes on; a direct
\* import hands it to the program and undoes nothing.
Raise(t) ==
    /\ Unwind(t)
    /\ IF load[t].active
       THEN load' = [load EXCEPT ![t].restored = 0] /\ Goto(t, "rollback")
       ELSE load' = load /\ Goto(t, "idle")
    /\ UNCHANGED registry

\* Registration is under LOCK; the discovery thread, which owns it, re-enters.
register_detector(t) ==
    /\ AtStatement(t, "detector") /\ lock \in {t, NoThread}
    /\ LET target == Statement(t).target
       IN IF registry.detectors[target] = NoModule
          THEN registry' = [registry EXCEPT !.detectors[target] = Current(t)] /\ Advance(t)
          ELSE Raise(t)
    /\ UNCHANGED <<lock, user, interrupts>>

\* Bug: the last module to register a cell takes it.
register_kernel_builderLast(t) ==
    /\ AtStatement(t, "builder") /\ lock \in {t, NoThread}
    /\ registry' = [registry EXCEPT
                      !.builders[<<Statement(t).op, Statement(t).target>>] = Current(t)]
    /\ Advance(t)
    /\ UNCHANGED <<lock, user, interrupts>>

register_kernel_builder(t) ==
    /\ AtStatement(t, "builder") /\ lock \in {t, NoThread}
    /\ LET cell == <<Statement(t).op, Statement(t).target>>
       IN IF registry.builders[cell] = NoModule
          THEN registry' = [registry EXCEPT !.builders[cell] = Current(t)] /\ Advance(t)
          ELSE Raise(t)
    /\ UNCHANGED <<lock, user, interrupts>>

\* set_default_target from a module under discovery: _LOADING.active lets it read the
\* partial tables.
DefaultAtImport(t) ==
    /\ AtStatement(t, "default") /\ load[t].active
    /\ LET target == Statement(t).target
       IN IF target \in known_targets
          THEN registry' = [registry EXCEPT !.defaultTarget = target] /\ Advance(t)
          ELSE Raise(t)
    /\ UNCHANGED <<lock, user, interrupts>>

\* An import statement executes a module nobody imported, waits for another thread
\* importing it, and takes its own half-executed ancestor as it is.
ImportStatement(t) ==
    /\ AtStatement(t, "import")
    /\ LET m == Statement(t).module
       IN \/ Import(t, m, Advanced(t))
          \/ /\ sysModules[m] = "imported" \/ m \in OnStack(t)
             /\ Advance(t)
             /\ UNCHANGED <<registry, lock, user, interrupts>>

RaiseStatement(t) ==
    /\ AtStatement(t, "raise")
    /\ Raise(t)
    /\ UNCHANGED <<lock, user, interrupts>>

\* The end of a module's body; the outermost one ends the import.
FinishModule(t) ==
    /\ Importing(t) /\ Head(stack[t]).at > Len(Body[Current(t)])
    /\ sysModules' = [sysModules EXCEPT ![Current(t)] = "imported"]
    /\ stack' = [stack EXCEPT ![t] = Tail(@)]
    /\ \/ Len(stack[t]) > 1 /\ UNCHANGED <<pc, load>>
       \/ /\ Len(stack[t]) = 1 /\ load[t].active
          /\ Goto(t, "discover")
          /\ load' = [load EXCEPT ![t].entry = @ + 1]
       \/ /\ Len(stack[t]) = 1 /\ ~load[t].active
          /\ Goto(t, "idle")
          /\ UNCHANGED load
    /\ UNCHANGED <<registry, lock, user, interrupts>>

\* KeyboardInterrupt or SystemExit out of ep.load(); out of a direct import: just raised.
Interrupt(t) ==
    /\ pc[t] \in {"load", "import"} /\ interrupts < MaxInterrupts
    /\ interrupts' = interrupts + 1
    /\ Unwind(t)
    /\ IF load[t].active
       THEN load' = [load EXCEPT ![t].restored = 0] /\ Goto(t, "abandon")
       ELSE load' = load /\ Goto(t, "idle")
    /\ UNCHANGED <<registry, lock, user>>

-----------------------------------------------------------------------------
(* The two except clauses of _load_all: restore, then go on or give up.    *)

Rolling(t) == pc[t] \in {"rollback", "abandon"}

\* What restore assigns, in its order: a table is emptied before it is filled again, and
\* the default, which default_target() reads without LOCK, follows the tables.
Assignments == 7
Restored(r, saved, n) ==
    CASE n = 1 -> [r EXCEPT !.detectors = Empty.detectors]
      [] n = 2 -> [r EXCEPT !.detectors = saved.detectors]
      [] n = 3 -> [r EXCEPT !.builders = Empty.builders]
      [] n = 4 -> [r EXCEPT !.builders = saved.builders]
      [] n = 5 -> [r EXCEPT !.loadFailures = saved.loadFailures]
      [] n = 6 -> [r EXCEPT !.defaultTarget = saved.defaultTarget]
      [] n = 7 -> [r EXCEPT !.loaded = saved.loaded]

\* Bug: the checkpoint leaves out the process default.
restoreNoDefault(t) ==
    /\ Rolling(t) /\ load[t].restored < Assignments
    /\ load' = [load EXCEPT ![t].restored = @ + 1]
    /\ registry' = [Restored(registry, load[t].checkpoint, load[t].restored + 1)
                      EXCEPT !.defaultTarget = registry.defaultTarget]
    /\ UNCHANGED <<lock, sysModules, stack, pc, user, interrupts>>

\* Bug: the checkpoint shares the table of detectors instead of copying it.
restoreNoDetectors(t) ==
    /\ Rolling(t) /\ load[t].restored < Assignments
    /\ load' = [load EXCEPT ![t].restored = @ + 1]
    /\ registry' = [Restored(registry, load[t].checkpoint, load[t].restored + 1)
                      EXCEPT !.detectors = registry.detectors]
    /\ UNCHANGED <<lock, sysModules, stack, pc, user, interrupts>>

restore(t) ==
    /\ Rolling(t) /\ load[t].restored < Assignments
    /\ load' = [load EXCEPT ![t].restored = @ + 1]
    /\ registry' = Restored(registry, load[t].checkpoint, load[t].restored + 1)
    /\ UNCHANGED <<lock, sysModules, stack, pc, user, interrupts>>

\* Bug: a backend that failed is tried again instead of being recorded.
RetryFailed(t) ==
    /\ pc[t] = "rollback" /\ load[t].restored = Assignments
    /\ Goto(t, "discover")
    /\ UNCHANGED <<registry, lock, load, sysModules, stack, user, interrupts>>

\* An Exception is recorded once the tables are back, and discovery goes on.
RecordFailure(t) ==
    /\ pc[t] = "rollback" /\ load[t].restored = Assignments
    /\ registry' = [registry EXCEPT !.loadFailures = Append(@, Loading(t))]
    /\ load' = [load EXCEPT ![t].failed = Append(@, Loading(t)), ![t].entry = @ + 1]
    /\ Goto(t, "discover")
    /\ UNCHANGED <<lock, sysModules, stack, user, interrupts>>

\* Bug: _LOADING.active is not reset on the way out.
AbandonActive(t) ==
    /\ pc[t] = "abandon" /\ load[t].restored = Assignments
    /\ load' = [load EXCEPT ![t].failed = <<>>]
    /\ lock' = NoThread
    /\ call' = [call EXCEPT ![t] = NoCall]
    /\ Goto(t, "idle")
    /\ UNCHANGED <<registry, sysModules, stack, answer, interrupts>>

\* An interrupt is not recorded: LOCK is released and it is raised out of the call.
Abandon(t) ==
    /\ pc[t] = "abandon" /\ load[t].restored = Assignments
    /\ load' = [load EXCEPT ![t].active = FALSE, ![t].failed = <<>>]
    /\ lock' = NoThread
    /\ call' = [call EXCEPT ![t] = NoCall]
    /\ Goto(t, "idle")
    /\ UNCHANGED <<registry, sysModules, stack, answer, interrupts>>

-----------------------------------------------------------------------------
(* dispatch.py: the readers, once ensure_loaded returned.                  *)

Reading == UNCHANGED <<registry, lock, load, sysModules, stack, call, interrupts>>
Serving(t, kind) == pc[t] = "serve" /\ call[t].kind = kind
Answer(t, value) == answer' = [answer EXCEPT ![t] = value] /\ Goto(t, "answered")

\* detect_target asks every detector: the targets that claim the device.
Claimed(device) ==
    {T \in Targets : /\ registry.detectors[T] # NoModule
                     /\ device \in Claims[registry.detectors[T]]}
Raising == {T \in Targets : registry.detectors[T] \in RudeDetectors}
detect_target(device) ==
    IF Raising # {} THEN "detector raised"
    ELSE IF Claimed(device) = {} THEN None
    ELSE IF \E T \in Claimed(device) : Claimed(device) = {T}
    THEN CHOOSE T \in Claimed(device) : TRUE
    ELSE "ambiguous target"

select_target(t) ==
    /\ Serving(t, "select")
    /\ LET requested == call[t].requested
           device == call[t].device
       IN \/ /\ requested # None
             /\ Answer(t, IF requested \in known_targets \cup {Builtin}
                          THEN requested ELSE "unknown target")
          \/ /\ requested = None /\ registry.defaultTarget = None
             /\ Answer(t, IF device = NoDevice THEN None ELSE detect_target(device))
          \/ /\ requested = None /\ registry.defaultTarget # None
             /\ Goto(t, "reread") /\ UNCHANGED answer
    /\ Reading

\* Having seen a default, select_target reads it a second time to return it.
RereadDefault(t) ==
    /\ pc[t] = "reread"
    /\ Answer(t, registry.defaultTarget)
    /\ Reading

registered_kernel_builder(t) ==
    /\ Serving(t, "lookup")
    /\ Answer(t, registry.builders[<<call[t].op, call[t].target>>])
    /\ Reading

load_failures(t) ==
    /\ Serving(t, "failures")
    /\ Answer(t, registry.loadFailures)
    /\ Reading

\* set_default_target: the check, then the store, with no lock over the two.
CheckDefault(t) ==
    /\ Serving(t, "setDefault")
    /\ IF call[t].target \in known_targets \cup {None, Builtin}
       THEN Goto(t, "store") /\ UNCHANGED answer
       ELSE Answer(t, "unknown target")
    /\ Reading

\* Bug: BUILTIN is stored the way None is.
StoreDefaultConflated(t) ==
    /\ pc[t] = "store"
    /\ registry' = [registry EXCEPT !.defaultTarget =
                      IF call[t].target = Builtin THEN None ELSE call[t].target]
    /\ Answer(t, call[t].target)
    /\ UNCHANGED <<lock, load, sysModules, stack, call, interrupts>>

StoreDefault(t) ==
    /\ pc[t] = "store"
    /\ registry' = [registry EXCEPT !.defaultTarget = call[t].target]
    /\ Answer(t, call[t].target)
    /\ UNCHANGED <<lock, load, sysModules, stack, call, interrupts>>

Return(t) ==
    /\ pc[t] = "answered"
    /\ Goto(t, "idle")
    /\ call' = [call EXCEPT ![t] = NoCall]
    /\ answer' = [answer EXCEPT ![t] = NoAnswer]
    /\ UNCHANGED <<registry, lock, load, sysModules, stack, interrupts>>

-----------------------------------------------------------------------------
Discover(t) ==
    \/ FastPath(t) \/ BeginDiscovery(t) \/ FoundLoaded(t) \/ Publish(t) \/ Warn(t)
    \/ NextEntryPoint(t) \/ LoadCached(t) \/ Load(t)
Execute(t) ==
    \/ register_detector(t) \/ register_kernel_builder(t) \/ DefaultAtImport(t)
    \/ ImportStatement(t) \/ RaiseStatement(t) \/ FinishModule(t)
Undo(t) == restore(t) \/ RecordFailure(t) \/ Abandon(t)
Read(t) ==
    \/ select_target(t) \/ RereadDefault(t) \/ registered_kernel_builder(t)
    \/ load_failures(t) \/ CheckDefault(t) \/ StoreDefault(t) \/ Return(t)

\* What a thread does once it has entered a call or an import.
Step(t) == Discover(t) \/ Execute(t) \/ Undo(t) \/ Read(t)

Next == \E t \in Threads : Call(t) \/ DirectImport(t) \/ Interrupt(t) \/ Step(t)

Spec == Init /\ [][Next]_vars

\* The interpreter runs every thread that can run.  Nothing obliges a thread to make a
\* call, nor an interrupt to arrive.
Fairness == \A t \in Threads : WF_vars(Step(t))
FairSpec == Spec /\ Fairness
=============================================================================
