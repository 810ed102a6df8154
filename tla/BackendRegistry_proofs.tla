----------------------- MODULE BackendRegistry_proofs -----------------------
(***************************************************************************)
(* Proofs about the backend registry, for any threads, modules, bodies and *)
(* entry points: types, publication, the claims of a cell, the process     *)
(* default, whole backends, the order of a selection, and the catalog that *)
(* discovery publishes.                                                    *)
(***************************************************************************)
EXTENDS BackendRegistryProperties, SequenceTheorems, WellFoundedInduction, TLAPS

Inv == TypeOK /\ LockInv

-----------------------------------------------------------------------------
(* Sequences and the bodies of modules.                                    *)

\* An element put in front of a sequence gives a non-empty sequence.
LEMMA PushSeq ==
  ASSUME NEW S, NEW s \in Seq(S), NEW x \in S
  PROVE  <<x>> \o s \in Seq(S) /\ <<x>> \o s # <<>>
<1>1. <<x>> \in Seq(S) /\ Len(<<x>>) = 1
  OBVIOUS
<1>2. <<x>> \o s \in Seq(S) /\ Len(<<x>> \o s) = 1 + Len(s)
  BY <1>1, ConcatProperties
<1>3. Len(s) \in Nat
  BY LenProperties
<1> QED
  BY <1>2, <1>3, EmptySeq

\* A thread executing a body has an innermost frame, and advancing it or popping it
\* leaves a sequence of frames.
LEMMA FrameType ==
  ASSUME TypeOK, NEW t \in Threads, pc[t] = "import"
  PROVE  /\ stack[t] \in Seq(Frame) /\ stack[t] # <<>>
         /\ Head(stack[t]) \in Frame
         /\ Current(t) \in Modules
         /\ Tail(stack[t]) \in Seq(Frame)
         /\ Len(Tail(stack[t])) = Len(stack[t]) - 1
         /\ Advanced(t) \in Seq(Frame) /\ Advanced(t) # <<>>
<1>1. stack[t] \in Seq(Frame) /\ stack[t] # <<>>
  BY DEF TypeOK
<1>2. /\ Head(stack[t]) \in Frame /\ Tail(stack[t]) \in Seq(Frame)
      /\ Len(Tail(stack[t])) = Len(stack[t]) - 1
  BY <1>1, HeadTailProperties
<1>3. [Head(stack[t]) EXCEPT !.at = @ + 1] \in Frame
  BY <1>2 DEF Frame
<1>4. Advanced(t) \in Seq(Frame) /\ Advanced(t) # <<>>
  BY <1>2, <1>3, PushSeq DEF Advanced
<1>5. Current(t) \in Modules
  BY <1>2 DEF Frame, Current
<1> QED
  BY <1>1, <1>2, <1>4, <1>5

\* The statement a thread executes is one of the body's, with the fields of its kind.
LEMMA StatementType ==
  ASSUME TypeOK, NEW t \in Threads, NEW kind, AtStatement(t, kind)
  PROVE  /\ pc[t] = "import"
         /\ Statement(t).kind = kind
         /\ kind \in {"detector", "default"} => Statement(t).target \in Targets
         /\ kind = "builder" => <<Statement(t).op, Statement(t).target>> \in Ops \X Targets
         /\ kind = "import" => Statement(t).module \in Modules
<1>1. pc[t] = "import" /\ Statement(t).kind = kind
  BY DEF AtStatement, Importing, Statement
<1>2. Head(stack[t]) \in Frame /\ Current(t) \in Modules
  BY <1>1, FrameType
<1>3. Body[Current(t)] \in Seq(Statements)
  BY <1>2, RegistryAssumption
<1>4. Head(stack[t]).at \in 1..Len(Body[Current(t)])
  BY <1>2, <1>3, LenProperties DEF AtStatement, Frame
<1>5. Statement(t) \in Statements
  BY <1>3, <1>4, ElementOfSeq DEF Statement
<1> QED
  BY <1>1, <1>5 DEF Statements

\* The entry point being tried names a module.
LEMMA LoadingType ==
  ASSUME Inv, NEW t \in Threads, load[t].active, pc[t] # "discover"
  PROVE  Loading(t) \in Modules
<1>1. load[t].entry \in Nat \ {0} /\ load[t].entry <= Len(EntryPoints)
  BY DEF Inv, TypeOK, LockInv, LoadState
<1>2. EntryPoints \in Seq(Modules) /\ Len(EntryPoints) \in Nat
  BY RegistryAssumption, LenProperties
<1>3. load[t].entry \in 1..Len(EntryPoints)
  BY <1>1, <1>2
<1> QED
  BY <1>2, <1>3, ElementOfSeq DEF Loading

-----------------------------------------------------------------------------
(* What each kind of step does to the types.                               *)

\* The part of TypeOK that an import touches.
LoadOK ==
    /\ registry \in RegistryState
    /\ load \in [Threads -> LoadState]
    /\ sysModules \in [Modules -> {"absent", "importing", "imported"}]
    /\ stack \in [Threads -> Seq(Frame)]
    /\ pc \in [Threads -> Labels]
    /\ \A t \in Threads : stack[t] # <<>> <=> pc[t] = "import"

\* One entry point further.
LEMMA EntryType ==
  ASSUME NEW l \in LoadState
  PROVE  [l EXCEPT !.entry = l.entry + 1] \in LoadState
<1> DEFINE e == l.entry + 1
<1>1. e \in Nat \ {0}
  BY DEF LoadState
<1>2. [l EXCEPT !.entry = e] \in LoadState
  <2> HIDE DEF e
  <2> QED
    BY <1>1 DEF LoadState
<1> QED
  BY <1>2

\* The other updates of a thread's discovery state.
LEMMA LoadUpdate ==
  ASSUME NEW l \in LoadState, NEW b \in BOOLEAN, NEW r \in RegistryState
  PROVE  /\ [l EXCEPT !.active = b] \in LoadState
         /\ [l EXCEPT !.failed = <<>>] \in LoadState
         /\ [l EXCEPT !.active = b, !.failed = <<>>] \in LoadState
         /\ [l EXCEPT !.active = b, !.entry = 1, !.failed = <<>>] \in LoadState
         /\ [l EXCEPT !.checkpoint = r] \in LoadState
         /\ [l EXCEPT !.restored = 0] \in LoadState
         /\ l.restored < Assignments =>
              [l EXCEPT !.restored = l.restored + 1] \in LoadState
<1>1. <<>> \in Seq(Modules) /\ 1 \in Nat \ {0}
  OBVIOUS
<1>2. 0 \in 0..Assignments /\ l.restored \in 0..Assignments
  BY DEF LoadState, Assignments
<1>3. ASSUME l.restored < Assignments
      PROVE  [l EXCEPT !.restored = l.restored + 1] \in LoadState
  <2> DEFINE n == l.restored + 1
  <2>1. n \in 0..Assignments
    BY <1>2, <1>3 DEF Assignments
  <2>2. [l EXCEPT !.restored = n] \in LoadState
    <3> HIDE DEF n
    <3> QED
      BY <2>1 DEF LoadState
  <2> QED
    BY <2>2
<1> QED
  BY <1>1, <1>2, <1>3 DEF LoadState

\* What a rollback assigns keeps the tables well-formed.
LEMMA RestoredType ==
  ASSUME NEW r \in RegistryState, NEW saved \in RegistryState, NEW n \in 1..Assignments
  PROVE  Restored(r, saved, n) \in RegistryState
<1>1. Empty \in RegistryState
  BY DEF Empty, RegistryState, Claim
<1>2. \/ n = 1 \/ n = 2 \/ n = 3 \/ n = 4 \/ n = 5 \/ n = 6 \/ n = 7
  BY DEF Assignments
<1> QED
  BY <1>1, <1>2 DEF Restored, RegistryState

\* One more failure, one entry point further.
LEMMA FailedType ==
  ASSUME NEW l \in LoadState, NEW f \in Seq(Modules)
  PROVE  [l EXCEPT !.failed = f, !.entry = l.entry + 1] \in LoadState
<1>1. l.entry + 1 \in Nat \ {0}
  BY DEF LoadState
<1> DEFINE e == l.entry + 1
<1>2. [l EXCEPT !.failed = f, !.entry = e] \in LoadState
  <2>1. e \in Nat \ {0}
    BY <1>1
  <2> HIDE DEF e
  <2> QED
    BY <2>1 DEF LoadState
<1> QED
  BY <1>2

\* An exception leaves the types intact, and what was registered to the rollback.
LEMMA RaiseType ==
  ASSUME Inv, NEW t \in Threads, pc[t] = "import", Raise(t)
  PROVE  LoadOK' /\ UNCHANGED registry
<1>1. /\ sysModules' \in [Modules -> {"absent", "importing", "imported"}]
      /\ stack' \in [Threads -> Seq(Frame)]
      /\ stack' = [stack EXCEPT ![t] = <<>>]
      /\ registry' = registry
  BY DEF Raise, Unwind, Inv, TypeOK
<1>2. load' \in [Threads -> LoadState]
  <2>1. load[t] \in LoadState /\ [load[t] EXCEPT !.restored = 0] \in LoadState
    BY LoadUpdate DEF Inv, TypeOK
  <2>2. load' = load \/ load' = [load EXCEPT ![t] = [load[t] EXCEPT !.restored = 0]]
    BY DEF Raise
  <2> QED
    BY <2>1, <2>2 DEF Inv, TypeOK
<1>3. pc' = [pc EXCEPT ![t] = "rollback"] \/ pc' = [pc EXCEPT ![t] = "idle"]
  BY DEF Raise, Goto
<1> QED
  BY <1>1, <1>2, <1>3 DEF LoadOK, Inv, TypeOK, Labels

\* A module that starts executing is pushed on a sequence of frames.
LEMMA ImportType ==
  ASSUME TypeOK, NEW t \in Threads, NEW m \in Modules, NEW rest \in Seq(Frame),
         Import(t, m, rest)
  PROVE  LoadOK'
<1>1. [module |-> m, at |-> 1] \in Frame
  BY DEF Frame
<1>2. /\ <<[module |-> m, at |-> 1]>> \o rest \in Seq(Frame)
      /\ <<[module |-> m, at |-> 1]>> \o rest # <<>>
  BY <1>1, PushSeq
<1> QED
  BY <1>2 DEF Import, Goto, LoadOK, TypeOK, Labels

\* Advancing keeps the frames.
LEMMA AdvanceType ==
  ASSUME TypeOK, NEW t \in Threads, pc[t] = "import", Advance(t),
         registry' \in RegistryState
  PROVE  LoadOK'
<1>1. Advanced(t) \in Seq(Frame) /\ Advanced(t) # <<>>
  BY FrameType
<1> QED
  BY <1>1 DEF Advance, LoadOK, TypeOK

-----------------------------------------------------------------------------
(* Types and publication together are inductive.                           *)

LEMMA InitInv == Init => Inv
<1> SUFFICES ASSUME Init PROVE Inv
  OBVIOUS
<1>1. Empty \in RegistryState
  BY DEF Empty, RegistryState, Claim
<1>2. TypeOK
  BY <1>1, RegistryAssumption DEF Init, TypeOK, LoadState, Labels, NoCall, Assignments
<1>3. LockInv
  BY SentinelAssumption DEF Init, LockInv, HalfBuiltHidden, Serving_labels, Empty, Rolling
<1> QED
  BY <1>2, <1>3 DEF Inv

\* Every step that executes a body keeps the types.
LEMMA ExecuteType ==
  ASSUME Inv, NEW t \in Threads, Execute(t)
  PROVE  LoadOK'
<1> USE DEF Inv
<1>1. CASE register_detector(t)
  <2> DEFINE target == Statement(t).target
  <2>1. target \in Targets /\ pc[t] = "import" /\ Current(t) \in Modules
    BY <1>1, StatementType, FrameType DEF register_detector
  <2>2. CASE registry.detectors[target] = NoModule
    <3>1. registry' = [registry EXCEPT !.detectors[target] = Current(t)] /\ Advance(t)
      BY <1>1, <2>2 DEF register_detector
    <3>2. registry' \in RegistryState
      BY <2>1, <3>1 DEF TypeOK, RegistryState, Claim
    <3> QED
      BY <2>1, <3>1, <3>2, AdvanceType
  <2>3. CASE registry.detectors[target] # NoModule
    BY <1>1, <2>1, <2>3, RaiseType DEF register_detector
  <2> QED
    BY <2>2, <2>3
<1>2. CASE register_kernel_builder(t)
  <2> DEFINE cell == <<Statement(t).op, Statement(t).target>>
  <2>1. cell \in Ops \X Targets /\ pc[t] = "import" /\ Current(t) \in Modules
    BY <1>2, StatementType, FrameType DEF register_kernel_builder
  <2>2. CASE registry.builders[cell] = NoModule
    <3>1. registry' = [registry EXCEPT !.builders[cell] = Current(t)] /\ Advance(t)
      BY <1>2, <2>2 DEF register_kernel_builder
    <3> HIDE DEF cell
    <3>2. registry' \in RegistryState
      BY <2>1, <3>1 DEF TypeOK, RegistryState, Claim
    <3> QED
      BY <2>1, <3>1, <3>2, AdvanceType
  <2>3. CASE registry.builders[cell] # NoModule
    BY <1>2, <2>1, <2>3, RaiseType DEF register_kernel_builder
  <2> QED
    BY <2>2, <2>3
<1>3. CASE DefaultAtImport(t)
  <2> DEFINE target == Statement(t).target
  <2>1. target \in Targets /\ pc[t] = "import"
    BY <1>3, StatementType DEF DefaultAtImport
  <2>2. CASE target \in known_targets
    <3>1. registry' = [registry EXCEPT !.defaultTarget = target] /\ Advance(t)
      BY <1>3, <2>2 DEF DefaultAtImport
    <3>2. registry' \in RegistryState
      BY <2>1, <3>1 DEF TypeOK, RegistryState
    <3> QED
      BY <2>1, <3>1, <3>2, AdvanceType
  <2>3. CASE target \notin known_targets
    BY <1>3, <2>1, <2>3, RaiseType DEF DefaultAtImport
  <2> QED
    BY <2>2, <2>3
<1>4. CASE ImportStatement(t)
  <2> DEFINE m == Statement(t).module
  <2>1. m \in Modules /\ pc[t] = "import" /\ Advanced(t) \in Seq(Frame)
    BY <1>4, StatementType, FrameType DEF ImportStatement
  <2>2. CASE Import(t, m, Advanced(t))
    BY <2>1, <2>2, ImportType
  <2>3. CASE Advance(t) /\ UNCHANGED registry
    BY <2>1, <2>3, AdvanceType DEF TypeOK
  <2> QED
    BY <1>4, <2>2, <2>3 DEF ImportStatement
<1>5. CASE RaiseStatement(t)
  BY <1>5, StatementType, RaiseType DEF RaiseStatement
<1>6. CASE FinishModule(t)
  <2>1. pc[t] = "import"
    BY <1>6 DEF FinishModule, Importing
  <2>2. /\ Tail(stack[t]) \in Seq(Frame) /\ Len(Tail(stack[t])) = Len(stack[t]) - 1
        /\ Current(t) \in Modules
    BY <2>1, FrameType
  <2>3. /\ registry' \in RegistryState
        /\ sysModules' \in [Modules -> {"absent", "importing", "imported"}]
        /\ stack' = [stack EXCEPT ![t] = Tail(stack[t])]
        /\ stack' \in [Threads -> Seq(Frame)]
    BY <1>6, <2>2 DEF FinishModule, TypeOK
  <2>6. Len(stack[t]) \in Nat
    BY <2>1, FrameType, LenProperties
  <2>4. CASE Len(stack[t]) > 1 /\ UNCHANGED <<pc, load>>
    <3>1. Tail(stack[t]) # <<>>
      <4> DEFINE rest == Len(Tail(stack[t]))
                 all == Len(stack[t])
      <4>1. rest = all - 1 /\ all > 1 /\ all \in Nat
        BY <2>2, <2>4, <2>6
      <4>2. Len(Tail(stack[t])) # 0
        <5>1. rest # 0
          <6> HIDE DEF rest, all
          <6> QED
            BY <4>1
        <5> QED
          BY <5>1
      <4> QED
        BY <4>2, EmptySeq
    <3> QED
      BY <2>1, <2>3, <2>4, <3>1 DEF TypeOK, LoadOK
  <2>5. CASE Len(stack[t]) = 1
    <3>1. Tail(stack[t]) = <<>>
      <4>1. Len(Tail(stack[t])) = 0
        BY <2>2, <2>5, <2>6
      <4> QED
        BY <2>2, <4>1, EmptySeq
    <3>2. \/ pc' = [pc EXCEPT ![t] = "discover"]
          \/ pc' = [pc EXCEPT ![t] = "idle"]
      BY <1>6, <2>5 DEF FinishModule, Goto
    <3>3. load' \in [Threads -> LoadState]
      <4>1. load[t] \in LoadState /\ [load[t] EXCEPT !.entry = load[t].entry + 1] \in LoadState
        BY EntryType DEF TypeOK
      <4>2. \/ load' = [load EXCEPT ![t] = [load[t] EXCEPT !.entry = load[t].entry + 1]]
            \/ UNCHANGED load
        BY <1>6, <2>5 DEF FinishModule
      <4> QED
        BY <4>1, <4>2 DEF TypeOK
    <3> QED
      BY <2>1, <2>3, <3>1, <3>2, <3>3 DEF TypeOK, LoadOK, Labels
  <2> QED
    BY <1>6, <2>4, <2>5 DEF FinishModule
<1> QED
  BY <1>1, <1>2, <1>3, <1>4, <1>5, <1>6 DEF Execute

\* Reading the tables changes the default and the caller's own state only.
LEMMA ReadType ==
  ASSUME Inv, NEW t \in Threads, Read(t)
  PROVE  /\ LoadOK'
         /\ call' \in [Threads -> Request \cup {NoCall}]
         /\ UNCHANGED <<lock, load, stack>>
         /\ pc[t] \in {"serve", "reread", "store", "answered"}
         /\ \E label \in {"reread", "store", "answered", "idle"} :
              pc' = [pc EXCEPT ![t] = label]
         /\ registry'.loaded = registry.loaded
<1> USE DEF Inv
<1>1. CASE pc[t] = "store" /\ StoreDefault(t)
  <2>1. call[t] \in Request \cup {NoCall}
    BY DEF TypeOK
  <2>2. registry' = [registry EXCEPT !.defaultTarget = call[t].target]
    BY <1>1 DEF StoreDefault
  <2>3. PICK d : registry' = [registry EXCEPT !.defaultTarget = d] /\ d = call[t].target
    BY <2>2
  <2>4. call[t].kind = "setDefault" /\ call[t].target \in DefaultChoices
    BY <1>1, <2>1 DEF TypeOK, Request, NoCall
  <2>5. d \in Targets \cup {None, Builtin}
    BY <2>3, <2>4, RegistryAssumption
  <2>6. registry' \in RegistryState /\ registry'.loaded = registry.loaded
    BY <2>3, <2>5 DEF TypeOK, RegistryState
  <2> QED
    BY <1>1, <2>6 DEF StoreDefault, Answer, Goto, TypeOK, LoadOK, Labels
<1>2. CASE Return(t)
  BY <1>2 DEF Return, Goto, TypeOK, LoadOK, Labels
<1>3. CASE \/ select_target(t) \/ RereadDefault(t) \/ registered_kernel_builder(t)
           \/ load_failures(t) \/ CheckDefault(t)
  BY <1>3 DEF select_target, RereadDefault, registered_kernel_builder, load_failures,
              CheckDefault, Reading, Serving, Answer, Goto, TypeOK, LoadOK, Labels
<1> QED
  BY <1>1, <1>2, <1>3 DEF Read, StoreDefault

\* A body statement neither takes nor releases LOCK for good, and ends in one of three
\* places.
LEMMA ExecutePlace ==
  ASSUME Inv, NEW t \in Threads, Execute(t)
  PROVE  /\ UNCHANGED <<lock, call, answer, interrupts>>
         /\ pc[t] = "import"
         /\ \/ UNCHANGED pc
            \/ pc' = [pc EXCEPT ![t] = "import"]
            \/ load[t].active /\ pc' = [pc EXCEPT ![t] = "discover"]
            \/ load[t].active /\ pc' = [pc EXCEPT ![t] = "rollback"]
            \/ ~load[t].active /\ pc' = [pc EXCEPT ![t] = "idle"]
<1>1. CASE FinishModule(t)
  BY <1>1 DEF FinishModule, Goto, user, Importing
<1>2. CASE \/ register_detector(t) \/ register_kernel_builder(t) \/ DefaultAtImport(t)
           \/ ImportStatement(t) \/ RaiseStatement(t)
  BY <1>2 DEF register_detector, register_kernel_builder, DefaultAtImport, ImportStatement,
       RaiseStatement, AtStatement, Importing, Advance, Raise, Import, Goto, user
<1> QED
  BY <1>1, <1>2 DEF Execute

\* A body statement keeps _loaded, what every thread may roll back to, and the progress of
\* the other threads; the entry point advances only together with the discovery, and the
\* rollback starts from its beginning.
LEMMA ExecuteEffect ==
  ASSUME Inv, NEW t \in Threads, Execute(t)
  PROVE  /\ registry'.loaded = registry.loaded
         /\ \A u \in Threads : /\ load'[u].active = load[u].active
                               /\ load'[u].checkpoint = load[u].checkpoint
         /\ \A u \in Threads \ {t} : load'[u] = load[u]
         /\ \/ UNCHANGED load
            \/ load[t].active /\ pc'[t] = "discover"
            \/ /\ load[t].active /\ pc'[t] = "rollback" /\ load'[t].restored = 0
               /\ load'[t].entry = load[t].entry
<1> USE DEF Inv
<1>1. ASSUME pc[t] = "import", Raise(t)
      PROVE  /\ registry'.loaded = registry.loaded
             /\ \A u \in Threads : /\ load'[u].active = load[u].active
                                   /\ load'[u].checkpoint = load[u].checkpoint
             /\ \A u \in Threads \ {t} : load'[u] = load[u]
             /\ \/ UNCHANGED load
                \/ /\ load[t].active /\ pc'[t] = "rollback" /\ load'[t].restored = 0
                   /\ load'[t].entry = load[t].entry
  <2>1. CASE load[t].active
    <3>1. /\ load' = [load EXCEPT ![t] = [load[t] EXCEPT !.restored = 0]]
          /\ registry' = registry /\ pc' = [pc EXCEPT ![t] = "rollback"]
      BY <1>1, <2>1 DEF Raise, Goto
    <3>2. load[t] \in LoadState
      BY DEF TypeOK
    <3> QED
      BY <2>1, <3>1, <3>2 DEF TypeOK, LoadState
  <2>2. CASE ~load[t].active
    BY <1>1, <2>2 DEF Raise
  <2> QED
    BY <2>1, <2>2
<1>2. CASE register_detector(t)
  <2>1. pc[t] = "import"
    BY <1>2, ExecutePlace
  <2>2. CASE Raise(t)
    BY <1>1, <2>1, <2>2
  <2>3. CASE ~Raise(t)
    BY <1>2, <2>3 DEF register_detector, Advance, TypeOK, RegistryState
  <2> QED
    BY <2>2, <2>3
<1>3. CASE register_kernel_builder(t)
  <2>1. pc[t] = "import"
    BY <1>3, ExecutePlace
  <2>2. CASE Raise(t)
    BY <1>1, <2>1, <2>2
  <2>3. CASE ~Raise(t)
    BY <1>3, <2>3 DEF register_kernel_builder, Advance, TypeOK, RegistryState
  <2> QED
    BY <2>2, <2>3
<1>4. CASE DefaultAtImport(t)
  <2>1. pc[t] = "import"
    BY <1>4, ExecutePlace
  <2>2. CASE Raise(t)
    BY <1>1, <2>1, <2>2
  <2>3. CASE ~Raise(t)
    BY <1>4, <2>3 DEF DefaultAtImport, Advance, TypeOK, RegistryState
  <2> QED
    BY <2>2, <2>3
<1>5. CASE RaiseStatement(t)
  BY <1>1, <1>5, ExecutePlace DEF RaiseStatement
<1>6. CASE ImportStatement(t)
  BY <1>6 DEF ImportStatement, Import, Advance
<1>7. CASE FinishModule(t)
  <2>1. registry' = registry
    BY <1>7 DEF FinishModule
  <2>2. CASE UNCHANGED load
    BY <2>1, <2>2
  <2>3. CASE load[t].active /\ Goto(t, "discover")
             /\ load' = [load EXCEPT ![t].entry = load[t].entry + 1]
    BY <2>1, <2>3 DEF Goto, TypeOK, LoadState
  <2> QED
    BY <1>7, <2>2, <2>3 DEF FinishModule
<1> QED
  BY <1>2, <1>3, <1>4, <1>5, <1>6, <1>7 DEF Execute

\* What a step of a rollback does: an assignment of restore, or, after the last one, the end
\* of the except clause.
LEMMA UndoEffect ==
  ASSUME Inv, NEW t \in Threads, Undo(t)
  PROVE  /\ LoadOK' /\ UNCHANGED <<sysModules, stack, answer, interrupts>>
         /\ Rolling(t) /\ load[t].active /\ load[t].entry <= Len(EntryPoints)
         /\ registry'.loaded = FALSE
         /\ \A u \in Threads \ {t} : load'[u] = load[u]
         /\ load'[t].checkpoint = load[t].checkpoint
         /\ \/ /\ restore(t) /\ UNCHANGED <<lock, pc, call>>
               /\ load'[t].active /\ load'[t].entry = load[t].entry
               /\ load[t].restored + 1 \in 1..Assignments
               /\ load'[t].restored = load[t].restored + 1
            \/ /\ RecordFailure(t) /\ UNCHANGED <<lock, call>> /\ load'[t].active
               /\ pc' = [pc EXCEPT ![t] = "discover"]
               /\ load'[t].entry = load[t].entry + 1
               /\ load[t].restored = Assignments
               /\ Loading(t) \in Modules
               /\ registry'.loadFailures = Append(registry.loadFailures, Loading(t))
               /\ registry'.detectors = registry.detectors
               /\ registry'.builders = registry.builders
               /\ registry'.defaultTarget = registry.defaultTarget
            \/ /\ Abandon(t) /\ lock' = NoThread /\ ~load'[t].active
               /\ UNCHANGED registry /\ load[t].restored = Assignments
               /\ pc' = [pc EXCEPT ![t] = "idle"] /\ call' = [call EXCEPT ![t] = NoCall]
<1> USE DEF Inv
<1>1. Rolling(t) /\ pc[t] # "discover" /\ pc[t] # "import" /\ stack[t] = <<>>
  BY DEF Undo, restore, RecordFailure, Abandon, Rolling, TypeOK
<1>2. /\ load[t].active /\ load[t].entry <= Len(EntryPoints) /\ ~registry.loaded
      /\ load[t].checkpoint.loaded = FALSE /\ registry.loaded = FALSE
  BY <1>1, SentinelAssumption DEF LockInv, TypeOK, LoadState, RegistryState
<1>3. /\ load[t] \in LoadState /\ load[t].checkpoint \in RegistryState
      /\ registry \in RegistryState /\ Loading(t) \in Modules
      /\ load[t].restored \in 0..Assignments
  BY <1>1, <1>2, LoadingType DEF TypeOK, LoadState
<1>4. CASE restore(t)
  <2> DEFINE n == load[t].restored + 1
  <2>1. /\ load' = [load EXCEPT ![t] = [load[t] EXCEPT !.restored = n]]
        /\ registry' = Restored(registry, load[t].checkpoint, n)
        /\ load[t].restored < Assignments
        /\ UNCHANGED <<lock, sysModules, stack, pc, call, answer, interrupts>>
    BY <1>4 DEF restore, user
  <2>2. n \in 1..Assignments /\ [load[t] EXCEPT !.restored = n] \in LoadState
    <3>1. n \in 1..Assignments
      BY <1>3, <2>1 DEF Assignments
    <3>2. [load[t] EXCEPT !.restored = load[t].restored + 1] \in LoadState
      BY <1>3, <2>1, LoadUpdate
    <3> QED
      BY <3>1, <3>2
  <2> HIDE DEF n
  <2>3. registry' \in RegistryState
    BY <1>3, <2>1, <2>2, RestoredType
  <2>4. registry'.loaded = FALSE
    <3>1. n = 1 \/ n = 2 \/ n = 3 \/ n = 4 \/ n = 5 \/ n = 6 \/ n = 7
      BY <2>2 DEF Assignments
    <3> QED
      BY <1>2, <1>3, <2>1, <3>1 DEF Restored, RegistryState
  <2>5. /\ \A u \in Threads \ {t} : load'[u] = load[u]
        /\ load'[t].checkpoint = load[t].checkpoint /\ load'[t].active
        /\ load'[t].entry = load[t].entry /\ load'[t].restored = n
    BY <1>2, <1>3, <2>1 DEF TypeOK, LoadState
  <2>6. LoadOK'
    BY <2>1, <2>2, <2>3 DEF LoadOK, TypeOK
  <2> QED
    BY <1>1, <1>2, <1>4, <2>1, <2>2, <2>4, <2>5, <2>6 DEF n
<1>5. CASE RecordFailure(t)
  <2> DEFINE failures == Append(load[t].failed, Loading(t))
             after == [load[t] EXCEPT !.failed = failures, !.entry = load[t].entry + 1]
             lines == Append(registry.loadFailures, Loading(t))
  <2>1. failures \in Seq(Modules) /\ lines \in Seq(Modules)
    BY <1>3 DEF LoadState, RegistryState
  <2>2. after \in LoadState
    BY <1>3, <2>1, FailedType
  <2>3. /\ load' = [load EXCEPT ![t].failed = failures, ![t].entry = load[t].entry + 1]
        /\ registry' = [registry EXCEPT !.loadFailures = lines]
        /\ load[t].restored = Assignments
        /\ pc' = [pc EXCEPT ![t] = "discover"]
        /\ UNCHANGED <<lock, sysModules, stack, call, answer, interrupts>>
    BY <1>5 DEF RecordFailure, Goto, user
  <2>4. load' = [load EXCEPT ![t] = after]
    <3> HIDE DEF failures
    <3> QED
      BY <2>3
  <2>5. /\ after.active /\ after.checkpoint = load[t].checkpoint
        /\ after.entry = load[t].entry + 1
    <3> HIDE DEF failures
    <3> QED
      BY <1>2, <1>3 DEF LoadState
  <2> HIDE DEF after, lines
  <2>6. /\ registry' \in RegistryState /\ registry'.loaded = FALSE
        /\ registry'.loadFailures = lines /\ registry'.detectors = registry.detectors
        /\ registry'.builders = registry.builders
        /\ registry'.defaultTarget = registry.defaultTarget
    BY <1>2, <1>3, <2>1, <2>3 DEF RegistryState
  <2>7. (\A u \in Threads \ {t} : load'[u] = load[u]) /\ load'[t] = after
    BY <2>2, <2>4 DEF TypeOK
  <2>8. load' \in [Threads -> LoadState]
    BY <2>2, <2>4 DEF TypeOK
  <2>9. LoadOK'
    BY <1>1, <2>3, <2>6, <2>8 DEF LoadOK, TypeOK, Labels
  <2> QED
    BY <1>1, <1>2, <1>3, <1>5, <2>3, <2>5, <2>6, <2>7, <2>9 DEF lines
<1>6. CASE Abandon(t)
  <2> DEFINE after == [load[t] EXCEPT !.active = FALSE, !.failed = <<>>]
  <2>1. /\ load' = [load EXCEPT ![t] = after] /\ load[t].restored = Assignments
        /\ pc' = [pc EXCEPT ![t] = "idle"] /\ lock' = NoThread
        /\ call' = [call EXCEPT ![t] = NoCall]
        /\ UNCHANGED <<registry, sysModules, stack, answer, interrupts>>
    BY <1>6 DEF Abandon, Goto
  <2>2. after \in LoadState /\ ~after.active /\ after.checkpoint = load[t].checkpoint
    <3>1. after \in LoadState
      BY <1>3, LoadUpdate
    <3> QED
      BY <1>3, <3>1 DEF LoadState
  <2> HIDE DEF after
  <2>3. /\ \A u \in Threads \ {t} : load'[u] = load[u]
        /\ load'[t] = after /\ load' \in [Threads -> LoadState]
    BY <2>1, <2>2 DEF TypeOK
  <2>4. LoadOK'
    BY <1>1, <2>1, <2>3 DEF LoadOK, TypeOK, Labels
  <2> QED
    BY <1>1, <1>2, <1>6, <2>1, <2>2, <2>3, <2>4
<1> QED
  BY <1>4, <1>5, <1>6 DEF Undo

LEMMA TypeStep == Inv /\ [Next]_vars => TypeOK'
<1> SUFFICES ASSUME Inv, [Next]_vars PROVE TypeOK'
  OBVIOUS
<1> USE DEF Inv
<1>1. ASSUME NEW t \in Threads, Call(t) PROVE TypeOK'
  BY <1>1 DEF Call, Goto, TypeOK, Labels
<1>2. ASSUME NEW t \in Threads, DirectImport(t) PROVE TypeOK'
  <2>1. PICK m \in DirectModules : Import(t, m, <<>>)
    BY <1>2 DEF DirectImport
  <2>2. m \in Modules /\ <<>> \in Seq(Frame)
    BY DirectAssumption
  <2>3. LoadOK'
    BY <2>1, <2>2, ImportType
  <2> QED
    BY <2>1, <2>3 DEF Import, Goto, user, LoadOK, TypeOK
<1>3. ASSUME NEW t \in Threads, Interrupt(t) PROVE TypeOK'
  <2>1. /\ sysModules' \in [Modules -> {"absent", "importing", "imported"}]
        /\ stack' = [stack EXCEPT ![t] = <<>>] /\ stack' \in [Threads -> Seq(Frame)]
        /\ pc' = [pc EXCEPT ![t] = "abandon"] \/ pc' = [pc EXCEPT ![t] = "idle"]
        /\ interrupts' \in 0..MaxInterrupts
        /\ UNCHANGED <<registry, lock, call>>
    BY <1>3, RegistryAssumption DEF Interrupt, Unwind, Goto, TypeOK, user
  <2>2. load' \in [Threads -> LoadState]
    <3>1. load[t] \in LoadState /\ [load[t] EXCEPT !.restored = 0] \in LoadState
      BY LoadUpdate DEF TypeOK
    <3>2. load' = load \/ load' = [load EXCEPT ![t] = [load[t] EXCEPT !.restored = 0]]
      BY <1>3 DEF Interrupt
    <3> QED
      BY <3>1, <3>2 DEF TypeOK
  <2> QED
    BY <2>1, <2>2 DEF TypeOK, Labels
<1>4. ASSUME NEW t \in Threads, Discover(t) PROVE TypeOK'
  <2>1. CASE FastPath(t) \/ FoundLoaded(t)
    BY <2>1 DEF FastPath, FoundLoaded, Goto, user, TypeOK, Labels
  <2> DEFINE l == load[t]
  <2>10. l \in LoadState /\ registry \in RegistryState
    BY DEF TypeOK
  <2>2. CASE BeginDiscovery(t)
    <3>1. [l EXCEPT !.active = TRUE, !.entry = 1, !.failed = <<>>] \in LoadState
      BY <2>10, LoadUpdate
    <3>2. load' = [load EXCEPT ![t] = [l EXCEPT !.active = TRUE, !.entry = 1, !.failed = <<>>]]
      BY <2>2 DEF BeginDiscovery
    <3> QED
      BY <2>2, <3>1, <3>2 DEF BeginDiscovery, Goto, user, TypeOK, Labels
  <2>3. CASE Publish(t)
    <3>1. [l EXCEPT !.active = FALSE] \in LoadState
      BY <2>10, LoadUpdate
    <3>2. load' = [load EXCEPT ![t] = [l EXCEPT !.active = FALSE]]
      BY <2>3 DEF Publish
    <3>3. registry' \in RegistryState
      BY <2>3 DEF Publish, RegistryState, TypeOK
    <3> QED
      BY <2>3, <3>1, <3>2, <3>3 DEF Publish, Goto, user, TypeOK, Labels
  <2>4. CASE Warn(t)
    <3>1. [l EXCEPT !.failed = <<>>] \in LoadState
      BY <2>10, LoadUpdate
    <3>2. load' = [load EXCEPT ![t] = [l EXCEPT !.failed = <<>>]]
      BY <2>4 DEF Warn
    <3> QED
      BY <2>4, <3>1, <3>2 DEF Warn, Goto, TypeOK, Labels
  <2>5. CASE NextEntryPoint(t)
    <3>1. [l EXCEPT !.checkpoint = registry] \in LoadState
      BY <2>10, LoadUpdate
    <3>2. load' = [load EXCEPT ![t] = [l EXCEPT !.checkpoint = registry]]
      BY <2>5 DEF NextEntryPoint
    <3> QED
      BY <2>5, <3>1, <3>2 DEF NextEntryPoint, Goto, user, TypeOK, Labels
  <2>6. CASE LoadCached(t)
    <3>1. [load[t] EXCEPT !.entry = load[t].entry + 1] \in LoadState
      BY EntryType DEF TypeOK
    <3>2. load' = [load EXCEPT ![t] = [load[t] EXCEPT !.entry = load[t].entry + 1]]
      BY <2>6 DEF LoadCached
    <3> QED
      BY <2>6, <3>1, <3>2 DEF LoadCached, Goto, user, TypeOK, Labels
  <2>7. CASE Load(t)
    <3>1. Loading(t) \in Modules
      BY <2>7, LoadingType DEF Load, LockInv
    <3>2. Import(t, Loading(t), <<>>) /\ <<>> \in Seq(Frame)
      BY <2>7 DEF Load
    <3>3. LoadOK'
      BY <3>1, <3>2, ImportType
    <3> QED
      BY <2>7, <3>3 DEF Load, Import, Goto, user, LoadOK, TypeOK
  <2> QED
    BY <1>4, <2>1, <2>2, <2>3, <2>4, <2>5, <2>6, <2>7 DEF Discover
<1>5. ASSUME NEW t \in Threads, Execute(t) PROVE TypeOK'
  BY <1>5, ExecuteType, ExecutePlace DEF LoadOK, TypeOK
<1>6. ASSUME NEW t \in Threads, Read(t) PROVE TypeOK'
  <2>1. /\ LoadOK' /\ call' \in [Threads -> Request \cup {NoCall}] /\ UNCHANGED lock
    BY <1>6, ReadType
  <2>2. UNCHANGED interrupts
    BY <1>6 DEF Read, select_target, RereadDefault, registered_kernel_builder,
                load_failures, CheckDefault, StoreDefault, Return, Reading
  <2>3. \A u \in Threads : pc'[u] = "store" => call'[u].kind = "setDefault"
    BY <1>6 DEF Read, select_target, RereadDefault, registered_kernel_builder, Serving,
                load_failures, CheckDefault, StoreDefault, Return, Reading, Answer, Goto, TypeOK
  <2> QED
    BY <2>1, <2>2, <2>3 DEF LoadOK, TypeOK
<1>8. ASSUME NEW t \in Threads, Undo(t) PROVE TypeOK'
  <2>1. /\ LoadOK' /\ UNCHANGED interrupts /\ lock' \in {lock, NoThread}
        /\ call' = call \/ call' = [call EXCEPT ![t] = NoCall]
        /\ pc' = pc \/ pc' = [pc EXCEPT ![t] = "discover"] \/ pc' = [pc EXCEPT ![t] = "idle"]
        /\ Rolling(t)
    BY <1>8, UndoEffect
  <2>2. call' \in [Threads -> Request \cup {NoCall}]
    BY <2>1 DEF TypeOK
  <2>3. \A u \in Threads : pc'[u] = "store" => u # t /\ pc[u] = "store" /\ call'[u] = call[u]
    BY <2>1 DEF TypeOK, Rolling
  <2> QED
    BY <2>1, <2>2, <2>3 DEF LoadOK, TypeOK
<1>7. CASE UNCHANGED vars
  BY <1>7 DEF vars, user, TypeOK
<1> QED
  BY <1>1, <1>2, <1>3, <1>4, <1>5, <1>6, <1>7, <1>8 DEF Next, Step

-----------------------------------------------------------------------------
(* Publication.                                                            *)

\* A step that moves thread t only, and takes or releases nothing.
LEMMA LockKept ==
  ASSUME Inv, NEW t \in Threads, NEW label,
         pc' = [pc EXCEPT ![t] = label], lock' = lock, registry'.loaded = registry.loaded,
         \A u \in Threads : /\ load'[u].active = load[u].active
                            /\ load'[u].checkpoint = load[u].checkpoint,
         \A u \in Threads \ {t} : load'[u].entry = load[u].entry,
         label \in {"discover", "load", "rollback", "abandon"} => load[t].active,
         load[t].active => label \in {"discover", "load", "import", "rollback", "abandon"},
         load[t].active /\ label # "discover" => load'[t].entry <= Len(EntryPoints),
         label \in Serving_labels => registry.loaded
  PROVE  LockInv'
<1> USE DEF Inv, Serving_labels
<1>1. \A u \in Threads : pc'[u] = IF u = t THEN label ELSE pc[u]
  BY DEF TypeOK
<1>2. ASSUME NEW u \in Threads
      PROVE  /\ load'[u].active <=> lock' = u
             /\ pc'[u] \in {"discover", "load"} \/ Rolling(u)' => load'[u].active
             /\ load'[u].active => pc'[u] \in {"discover", "load", "import"} \/ Rolling(u)'
             /\ load'[u].active /\ pc'[u] # "discover" => load'[u].entry <= Len(EntryPoints)
             /\ ~load'[u].checkpoint.loaded
             /\ pc'[u] \in Serving_labels => registry'.loaded
  <2>1. CASE u = t
    BY <1>1, <2>1 DEF LockInv, Rolling
  <2>2. CASE u # t
    BY <1>1, <2>2 DEF LockInv, HalfBuiltHidden, Rolling
  <2> QED
    BY <2>1, <2>2
<1>3. lock' # NoThread => ~registry'.loaded
  BY DEF LockInv
<1> QED
  BY <1>2, <1>3 DEF LockInv, HalfBuiltHidden

LEMMA LockStep == Inv /\ [Next]_vars => LockInv'
<1> SUFFICES ASSUME Inv, [Next]_vars PROVE LockInv'
  OBVIOUS
<1> USE DEF Inv, HalfBuiltHidden, Serving_labels, Rolling
<1>1. ASSUME NEW t \in Threads, Call(t) PROVE LockInv'
  BY <1>1 DEF Call, Goto, TypeOK, LockInv
<1>2. ASSUME NEW t \in Threads, DirectImport(t) PROVE LockInv'
  BY <1>2 DEF DirectImport, Import, Goto, user, TypeOK, LockInv
<1>3. ASSUME NEW t \in Threads, Interrupt(t) PROVE LockInv'
  <2>1. pc[t] \in {"load", "import"} /\ UNCHANGED <<registry, lock>>
    BY <1>3 DEF Interrupt
  <2>2. /\ \A u \in Threads : /\ load'[u].active = load[u].active
                               /\ load'[u].checkpoint = load[u].checkpoint
                               /\ load'[u].entry = load[u].entry
        /\ \/ load[t].active /\ pc' = [pc EXCEPT ![t] = "abandon"]
           \/ ~load[t].active /\ pc' = [pc EXCEPT ![t] = "idle"]
    <3>1. CASE load[t].active
      <4>1. /\ load' = [load EXCEPT ![t] = [load[t] EXCEPT !.restored = 0]]
            /\ pc' = [pc EXCEPT ![t] = "abandon"]
        BY <1>3, <3>1 DEF Interrupt, Goto
      <4> QED
        BY <3>1, <4>1 DEF TypeOK, LoadState
    <3>2. CASE ~load[t].active
      BY <1>3, <3>2 DEF Interrupt, Goto
    <3> QED
      BY <3>1, <3>2
  <2>3. load[t].active => load[t].entry <= Len(EntryPoints)
    BY <2>1 DEF LockInv
  <2> QED
    BY <2>1, <2>2, <2>3, LockKept
<1>4. ASSUME NEW t \in Threads, Discover(t) PROVE LockInv'
  <2>1. CASE FastPath(t) \/ FoundLoaded(t)
    BY <2>1 DEF FastPath, FoundLoaded, Goto, user, TypeOK, LockInv
  <2>2. CASE BeginDiscovery(t)
    <3>1. load' = [load EXCEPT ![t] =
                    [load[t] EXCEPT !.active = TRUE, !.entry = 1, !.failed = <<>>]]
      BY <2>2 DEF BeginDiscovery
    <3>2. /\ load'[t].active /\ load'[t].checkpoint = load[t].checkpoint
          /\ \A u \in Threads \ {t} : load'[u] = load[u] /\ ~load[u].active
      BY <2>2, <3>1, SentinelAssumption DEF BeginDiscovery, TypeOK, LockInv, LoadState
    <3> QED
      BY <2>2, <3>2, SentinelAssumption DEF BeginDiscovery, Goto, user, TypeOK, LockInv
  <2>3. CASE Publish(t)
    <3>1. load' = [load EXCEPT ![t] = [load[t] EXCEPT !.active = FALSE]]
      BY <2>3 DEF Publish
    <3>2. /\ ~load'[t].active /\ load'[t].checkpoint = load[t].checkpoint
          /\ \A u \in Threads \ {t} : load'[u] = load[u] /\ ~load[u].active
      BY <2>3, <3>1 DEF Publish, TypeOK, LockInv, LoadState
    <3>3. registry'.loaded
      BY <2>3 DEF Publish, TypeOK, RegistryState
    <3> QED
      BY <2>3, <3>2, <3>3, SentinelAssumption DEF Publish, Goto, user, TypeOK, LockInv
  <2>4. CASE Warn(t)
    <3>1. load' = [load EXCEPT ![t] = [load[t] EXCEPT !.failed = <<>>]]
      BY <2>4 DEF Warn
    <3>2. \A u \in Threads : /\ load'[u].active = load[u].active
                             /\ load'[u].checkpoint = load[u].checkpoint
                             /\ load'[u].entry = load[u].entry
      BY <3>1 DEF TypeOK, LoadState
    <3> QED
      <4>1. /\ pc[t] = "warn" /\ UNCHANGED <<registry, lock>>
            /\ pc' = [pc EXCEPT ![t] = "serve"] \/ pc' = [pc EXCEPT ![t] = "idle"]
        BY <2>4 DEF Warn, Goto
      <4>2. ~load[t].active /\ registry.loaded
        BY <4>1 DEF LockInv
      <4> QED
        BY <3>2, <4>1, <4>2, LockKept
  <2>5. CASE NextEntryPoint(t)
    <3>1. load' = [load EXCEPT ![t] = [load[t] EXCEPT !.checkpoint = registry]]
      BY <2>5 DEF NextEntryPoint
    <3>2. /\ \A u \in Threads : /\ load'[u].active = load[u].active
                                /\ load'[u].entry = load[u].entry
          /\ load'[t].checkpoint = registry
          /\ \A u \in Threads \ {t} : load'[u].checkpoint = load[u].checkpoint
      BY <3>1 DEF TypeOK, LoadState
    <3>3. ~registry.loaded
      BY <2>5, SentinelAssumption DEF NextEntryPoint, TypeOK, LockInv
    <3> QED
      BY <2>5, <3>2, <3>3 DEF NextEntryPoint, Goto, user, TypeOK, LockInv
  <2>6. CASE LoadCached(t)
    <3>1. load' = [load EXCEPT ![t] = [load[t] EXCEPT !.entry = load[t].entry + 1]]
      BY <2>6 DEF LoadCached
    <3>2. /\ \A u \in Threads : /\ load'[u].active = load[u].active
                                /\ load'[u].checkpoint = load[u].checkpoint
          /\ \A u \in Threads \ {t} : load'[u].entry = load[u].entry
      BY <3>1 DEF TypeOK, LoadState
    <3> QED
      BY <2>6, <3>2 DEF LoadCached, Goto, user, TypeOK, LockInv
  <2>7. CASE Load(t)
    BY <2>7 DEF Load, Import, Goto, user, TypeOK, LockInv
  <2> QED
    BY <1>4, <2>1, <2>2, <2>3, <2>4, <2>5, <2>6, <2>7 DEF Discover
<1>5. ASSUME NEW t \in Threads, Execute(t) PROVE LockInv'
  <2>1. /\ UNCHANGED lock /\ pc[t] = "import"
        /\ \/ UNCHANGED pc
           \/ pc' = [pc EXCEPT ![t] = "import"]
           \/ load[t].active /\ pc' = [pc EXCEPT ![t] = "discover"]
           \/ load[t].active /\ pc' = [pc EXCEPT ![t] = "rollback"]
           \/ ~load[t].active /\ pc' = [pc EXCEPT ![t] = "idle"]
    BY <1>5, ExecutePlace
  <2>2. /\ registry'.loaded = registry.loaded
        /\ \A u \in Threads : /\ load'[u].active = load[u].active
                              /\ load'[u].checkpoint = load[u].checkpoint
        /\ \/ UNCHANGED load
           \/ load[t].active /\ pc'[t] = "discover"
           \/ load[t].active /\ pc'[t] = "rollback" /\ load'[t].entry = load[t].entry
        /\ \A u \in Threads \ {t} : load'[u].entry = load[u].entry
    BY <1>5, ExecuteEffect
  <2>3. pc[t] = "import" /\ pc' \in [Threads -> Labels]
    BY <1>5, ExecutePlace, ExecuteType DEF LoadOK
  <2>4. /\ load[t].active => load[t].entry <= Len(EntryPoints)
        /\ UNCHANGED load => load'[t].entry = load[t].entry
    BY <2>3 DEF LockInv
  <2>5. PICK label \in {"import", "discover", "rollback", "idle"} :
          /\ pc' = [pc EXCEPT ![t] = label] /\ label = pc'[t]
          /\ label \in {"discover", "rollback"} => load[t].active
          /\ label = "idle" => ~load[t].active
    BY <2>1, <2>3 DEF TypeOK
  <2>6. lock' = lock
    BY <2>1
  <2> QED
    BY <2>2, <2>3, <2>4, <2>5, <2>6, LockKept
<1>6. ASSUME NEW t \in Threads, Read(t) PROVE LockInv'
  <2>1. /\ UNCHANGED <<lock, load>>
        /\ registry'.loaded = registry.loaded
        /\ pc[t] \in {"serve", "reread", "store", "answered"}
    BY <1>6, ReadType
  <2>2. PICK label \in {"reread", "store", "answered", "idle"} :
          pc' = [pc EXCEPT ![t] = label]
    BY <1>6, ReadType
  <2>3. ~load[t].active /\ registry.loaded
    BY <2>1 DEF LockInv
  <2> QED
    BY <2>1, <2>2, <2>3 DEF TypeOK, LockInv
<1>8. ASSUME NEW t \in Threads, Undo(t) PROVE LockInv'
  <2>1. /\ load[t].active /\ load[t].entry <= Len(EntryPoints) /\ ~registry'.loaded
        /\ \A u \in Threads \ {t} : load'[u] = load[u] /\ ~load[u].active
        /\ load'[t].checkpoint = load[t].checkpoint
    <3>1. /\ load[t].active /\ load[t].entry <= Len(EntryPoints) /\ ~registry'.loaded
          /\ \A u \in Threads \ {t} : load'[u] = load[u]
          /\ load'[t].checkpoint = load[t].checkpoint
      BY <1>8, UndoEffect
    <3> QED
      BY <3>1 DEF LockInv
  <2>2. \/ /\ UNCHANGED <<lock, pc>> /\ load'[t].active
           /\ load'[t].entry = load[t].entry
        \/ UNCHANGED lock /\ load'[t].active /\ pc' = [pc EXCEPT ![t] = "discover"]
        \/ lock' = NoThread /\ ~load'[t].active /\ pc' = [pc EXCEPT ![t] = "idle"]
    BY <1>8, UndoEffect
  <2>3. \A u \in Threads : u # t => lock # u
    BY <2>1 DEF LockInv
  <2>4. ~registry.loaded
    BY <2>1, SentinelAssumption DEF TypeOK, LockInv
  <2> QED
    BY <2>1, <2>2, <2>3, <2>4, SentinelAssumption DEF TypeOK, LockInv
<1>7. CASE UNCHANGED vars
  BY <1>7 DEF vars, user, LockInv
<1> QED
  BY <1>1, <1>2, <1>3, <1>4, <1>5, <1>6, <1>7, <1>8 DEF Next, Step

\* The registry keeps its types, and a rollback always has a registry to go back to.
THEOREM TypeCorrect == Spec => []TypeOK
<1>1. Inv /\ [Next]_vars => Inv'
  BY TypeStep, LockStep DEF Inv
<1>2. Inv => TypeOK
  BY DEF Inv
<1> QED
  BY InitInv, <1>1, <1>2, PTL DEF Spec

\* The three facts about LOCK that make publication safe hold of every execution.
THEOREM LockInvariant == Spec => []LockInv
<1>1. Inv /\ [Next]_vars => Inv'
  BY TypeStep, LockStep DEF Inv
<1>2. Inv => LockInv
  BY DEF Inv
<1> QED
  BY InitInv, <1>1, <1>2, PTL DEF Spec

\* No thread gets past ensure_loaded before discovery is published, for any number of
\* threads, backends and interrupts (registry.py:31).
THEOREM Publication == Spec => []HalfBuiltHidden
<1>1. LockInv => HalfBuiltHidden
  BY DEF LockInv
<1> QED
  BY LockInvariant, <1>1, PTL

-----------------------------------------------------------------------------
(* Claims.                                                                 *)

ClaimsKept ==
    /\ \A T \in Targets : registry.detectors[T] # NoModule =>
         registry'.detectors[T] = registry.detectors[T]
    /\ \A cell \in Ops \X Targets : registry.builders[cell] # NoModule =>
         registry'.builders[cell] = registry.builders[cell]

\* The only step that takes a claim back is a rollback, and only LOCK's owner rolls back.
LEMMA UndoUnpublished ==
  ASSUME Inv, NEW t \in Threads, Rolling(t)
  PROVE  load[t].active /\ lock = t /\ ~registry.loaded
BY SentinelAssumption DEF Inv, LockInv, TypeOK

LEMMA ExecuteClaims ==
  ASSUME Inv, NEW t \in Threads, Execute(t), registry.loaded
  PROVE  ClaimsKept /\ registry'.defaultTarget = registry.defaultTarget
<1> USE DEF Inv
<1>1. CASE register_detector(t)
  BY <1>1 DEF register_detector, Raise, ClaimsKept, TypeOK, RegistryState
<1>2. CASE register_kernel_builder(t)
  <2> DEFINE cell == <<Statement(t).op, Statement(t).target>>
  <2>1. \/ /\ registry.builders[cell] = NoModule
           /\ registry' = [registry EXCEPT !.builders[cell] = Current(t)]
        \/ Raise(t)
    BY <1>2 DEF register_kernel_builder
  <2>2. CASE Raise(t)
    BY <2>2 DEF Raise, ClaimsKept
  <2> HIDE DEF cell
  <2> QED
    BY <2>1, <2>2, ZenonT(30) DEF ClaimsKept, TypeOK, RegistryState
<1>3. CASE DefaultAtImport(t)
  <2>1. ~load[t].active
    BY SentinelAssumption DEF LockInv, TypeOK
  <2> QED
    BY <1>3, <2>1 DEF DefaultAtImport
<1>4. CASE ImportStatement(t)
  BY <1>4 DEF ImportStatement, Import, ClaimsKept
<1>5. CASE RaiseStatement(t)
  BY <1>5 DEF RaiseStatement, Raise, ClaimsKept
<1>6. CASE FinishModule(t)
  BY <1>6 DEF FinishModule, ClaimsKept
<1> QED
  BY <1>1, <1>2, <1>3, <1>4, <1>5, <1>6 DEF Execute

LEMMA ReadClaims ==
  ASSUME Inv, NEW t \in Threads, Read(t)
  PROVE  ClaimsKept
BY DEF Read, select_target, RereadDefault, registered_kernel_builder, load_failures,
       CheckDefault, StoreDefault, Return, Reading, ClaimsKept, Inv, TypeOK, RegistryState

LEMMA ClaimsStep ==
  ASSUME Inv, [Next]_vars, registry.loaded
  PROVE  registry'.loaded /\ ClaimsKept
<1> USE DEF Inv
<1>1. ASSUME NEW t \in Threads, Call(t) \/ DirectImport(t)
      PROVE  registry'.loaded /\ ClaimsKept
  BY <1>1 DEF Call, DirectImport, Import, ClaimsKept
<1>2. ASSUME NEW t \in Threads, Interrupt(t)
      PROVE  registry'.loaded /\ ClaimsKept
  BY <1>2 DEF Interrupt, ClaimsKept
<1>3. ASSUME NEW t \in Threads, Discover(t)
      PROVE  registry'.loaded /\ ClaimsKept
  <2>1. CASE Publish(t)
    BY <2>1 DEF Publish, ClaimsKept, TypeOK, RegistryState
  <2>2. CASE ~Publish(t)
    BY <1>3, <2>2 DEF Discover, FastPath, BeginDiscovery, FoundLoaded, Warn, NextEntryPoint,
                      LoadCached, Load, Import, ClaimsKept
  <2> QED
    BY <2>1, <2>2
<1>4. ASSUME NEW t \in Threads, Execute(t)
      PROVE  registry'.loaded /\ ClaimsKept
  BY <1>4, ExecuteClaims, ExecuteEffect
<1>5. ASSUME NEW t \in Threads, Read(t)
      PROVE  registry'.loaded /\ ClaimsKept
  BY <1>5, ReadClaims, ReadType
<1>6. \A t \in Threads : ~Undo(t)
  BY UndoEffect, UndoUnpublished
<1>7. CASE UNCHANGED vars
  BY <1>7 DEF vars, ClaimsKept
<1> QED
  BY <1>1, <1>2, <1>3, <1>4, <1>5, <1>6, <1>7 DEF Next, Step

\* Once published, a cell keeps its owner and the registry stays published, whatever is
\* imported, interrupted or registered later (registry.py:73).
THEOREM ClaimsPermanent == Spec => ClaimsStay
<1>1. Inv /\ [Next]_vars => Inv'
  BY TypeStep, LockStep DEF Inv
<1>2. Inv /\ [Next]_vars =>
        [registry.loaded =>
          /\ registry'.loaded
          /\ \A T \in Targets : registry.detectors[T] # NoModule =>
               registry'.detectors[T] = registry.detectors[T]
          /\ \A cell \in Ops \X Targets : registry.builders[cell] # NoModule =>
               registry'.builders[cell] = registry.builders[cell]]_vars
  BY ClaimsStep DEF ClaimsKept
<1> QED
  BY InitInv, <1>1, <1>2, PTL DEF Spec, ClaimsStay

-----------------------------------------------------------------------------
(* The process default.                                                    *)

KnownIn(r) ==
    {T \in Targets : \/ r.detectors[T] # NoModule
                     \/ \E op \in Ops : r.builders[<<op, T>>] # NoModule}
Nameable(r) == KnownIn(r) \cup {None, Builtin}

\* The default is nameable now and in whatever a rollback restores, and so is the target a
\* thread has checked and not yet stored.
DefaultInv ==
    /\ (\A t \in Threads : ~Rolling(t)) => registry.defaultTarget \in Nameable(registry)
    /\ \A t \in Threads :
         /\ load[t].checkpoint.defaultTarget \in Nameable(load[t].checkpoint)
         /\ pc[t] = "store" => call[t].target \in Nameable(registry)

\* How far a rollback has come: what it has assigned is the checkpoint's.
Rolled(t) ==
    LET saved == load[t].checkpoint
        n == load[t].restored
    IN /\ n >= 2 => registry.detectors = saved.detectors
       /\ n >= 4 => registry.builders = saved.builders
       /\ n >= 5 => registry.loadFailures = saved.loadFailures
       /\ n >= 6 => registry.defaultTarget = saved.defaultTarget
RolledInv == \A t \in Threads : Rolling(t) => Rolled(t)

LEMMA KnownTargets == known_targets = KnownIn(registry)
BY DEF known_targets, KnownIn

\* While claims are kept, no name stops being nameable.
LEMMA NameableKept ==
  ASSUME TypeOK, registry' \in RegistryState, ClaimsKept, SentinelAssumption
  PROVE  Nameable(registry) \subseteq Nameable(registry')
<1>1. ASSUME NEW T \in Targets, registry.detectors[T] # NoModule
      PROVE  registry'.detectors[T] # NoModule
  BY <1>1 DEF ClaimsKept
<1>2. ASSUME NEW T \in Targets, NEW op \in Ops, registry.builders[<<op, T>>] # NoModule
      PROVE  registry'.builders[<<op, T>>] # NoModule
  BY <1>2 DEF ClaimsKept
<1> QED
  BY <1>1, <1>2 DEF Nameable, KnownIn

\* One assignment further.
LEMMA RolledStep ==
  ASSUME NEW r \in RegistryState, NEW saved \in RegistryState, NEW n \in 0..Assignments,
         NEW q, n + 1 \in 1..Assignments, q = Restored(r, saved, n + 1),
         n >= 2 => r.detectors = saved.detectors,
         n >= 4 => r.builders = saved.builders,
         n >= 5 => r.loadFailures = saved.loadFailures,
         n >= 6 => r.defaultTarget = saved.defaultTarget
  PROVE  /\ n + 1 >= 2 => q.detectors = saved.detectors
         /\ n + 1 >= 4 => q.builders = saved.builders
         /\ n + 1 >= 5 => q.loadFailures = saved.loadFailures
         /\ n + 1 >= 6 => q.defaultTarget = saved.defaultTarget
<1>1. n = 0 \/ n = 1 \/ n = 2 \/ n = 3 \/ n = 4 \/ n = 5 \/ n = 6
  BY DEF Assignments
<1> QED
  BY <1>1 DEF Restored, RegistryState

\* Nobody but the thread that rolls back touches the tables meanwhile.
LEMMA TablesRest ==
  ASSUME Inv, NEW t \in Threads, Rolling(t), [Next]_vars, ~Undo(t)
  PROVE  UNCHANGED registry /\ load'[t] = load[t] /\ pc'[t] = pc[t]
<1> USE DEF Inv
<1>1. lock = t /\ ~registry.loaded /\ load[t].active
  BY UndoUnpublished
<1>2. ASSUME NEW u \in Threads, u # t
      PROVE  ~load[u].active /\ pc[u] \notin {"discover", "load"} \cup Serving_labels
  BY <1>1, <1>2 DEF LockInv, HalfBuiltHidden
<1>3. ASSUME NEW u \in Threads, Discover(u) PROVE UNCHANGED registry /\ load'[t] = load[t] /\ pc'[t] = pc[t]
  <2>1. u # t
    BY <1>3 DEF Discover, FastPath, BeginDiscovery, FoundLoaded, Publish, Warn, NextEntryPoint,
                LoadCached, Load, Rolling
  <2>2. FastPath(u)
    BY <1>1, <1>2, <1>3, <2>1, SentinelAssumption
       DEF Discover, BeginDiscovery, FoundLoaded, Publish, Warn, NextEntryPoint,
           LoadCached, Load, Serving_labels
  <2> QED
    BY <2>1, <2>2 DEF FastPath, Goto, TypeOK
<1>4. ASSUME NEW u \in Threads, Execute(u) PROVE UNCHANGED registry /\ load'[t] = load[t] /\ pc'[t] = pc[t]
  <2>1. u # t /\ pc[u] = "import"
    BY <1>4, ExecutePlace DEF Rolling
  <2>2. registry' = registry
    BY <1>1, <1>2, <1>4, <2>1, SentinelAssumption
       DEF Execute, register_detector, register_kernel_builder, DefaultAtImport,
           ImportStatement, RaiseStatement, FinishModule, Raise, Import
  <2>3. load'[t] = load[t]
    BY <1>4, <2>1, ExecuteEffect
  <2>4. pc'[t] = pc[t]
    BY <1>4, <2>1, ExecutePlace DEF TypeOK
  <2> QED
    BY <2>2, <2>3, <2>4
<1>5. ASSUME NEW u \in Threads, Read(u) PROVE FALSE
  BY <1>1, <1>5, ReadType DEF LockInv, HalfBuiltHidden, Serving_labels
<1>6. ASSUME NEW u \in Threads, Undo(u) PROVE FALSE
  BY <1>1, <1>6, UndoEffect, UndoUnpublished
<1>7. ASSUME NEW u \in Threads, Call(u) \/ DirectImport(u) \/ Interrupt(u)
      PROVE  UNCHANGED registry /\ load'[t] = load[t] /\ pc'[t] = pc[t]
  <2>1. u # t
    BY <1>7 DEF Call, DirectImport, Interrupt, Rolling
  <2> QED
    BY <1>7, <2>1, <1>2 DEF Call, DirectImport, Interrupt, Import, Goto, TypeOK
<1>8. CASE UNCHANGED vars
  BY <1>8 DEF vars
<1> QED
  BY <1>3, <1>4, <1>5, <1>6, <1>7, <1>8 DEF Next, Step

LEMMA RolledInvStep ==
  ASSUME Inv, RolledInv, [Next]_vars
  PROVE  RolledInv'
<1> SUFFICES ASSUME NEW t \in Threads, Rolling(t)' PROVE Rolled(t)'
  BY DEF RolledInv
<1> USE DEF Inv
<1>1. CASE Undo(t)
  <2>1. restore(t)
    <3>1. pc'[t] \in {"rollback", "abandon"}
      BY DEF Rolling
    <3>2. /\ pc' # [pc EXCEPT ![t] = "discover"]
          /\ pc' # [pc EXCEPT ![t] = "idle"]
      BY <3>1 DEF TypeOK
    <3> QED
      BY <1>1, <3>2, UndoEffect
  <2>2. /\ load'[t].checkpoint = load[t].checkpoint
        /\ load'[t].restored = load[t].restored + 1
        /\ load[t].restored + 1 \in 1..Assignments
        /\ registry' = Restored(registry, load[t].checkpoint, load[t].restored + 1)
    <3>1. ~RecordFailure(t) /\ ~Abandon(t)
      BY <2>1 DEF restore, RecordFailure, Abandon, Assignments
    <3> QED
      BY <1>1, <2>1, <3>1, UndoEffect DEF restore
  <2>3. /\ registry \in RegistryState /\ load[t].checkpoint \in RegistryState
        /\ load[t].restored \in 0..Assignments
    BY DEF TypeOK, LoadState
  <2>4. Rolled(t)
    BY <1>1, UndoEffect DEF RolledInv
  <2> QED
    BY <2>2, <2>3, <2>4, RolledStep DEF Rolled
<1>2. CASE Rolling(t) /\ ~Undo(t)
  <2>1. UNCHANGED registry /\ load'[t] = load[t]
    BY <1>2, TablesRest
  <2> QED
    BY <1>2, <2>1 DEF RolledInv, Rolled
<1>3. CASE ~Rolling(t)
  <2>1. load'[t].restored = 0
    <3>1. ASSUME NEW u \in Threads, Execute(u) PROVE load'[t].restored = 0
      <4>1. u = t
        BY <1>3, <3>1, ExecutePlace DEF Rolling, TypeOK
      <4>2. pc'[t] # "discover" /\ pc'[t] # pc[t] /\ pc[t] = "import"
        BY <1>3, <3>1, <4>1, ExecutePlace DEF Rolling
      <4> QED
        BY <1>3, <3>1, <4>1, <4>2 DEF Execute, register_detector, register_kernel_builder, Rolling,
             DefaultAtImport, ImportStatement, RaiseStatement, FinishModule, Raise, Import, Advance,
             Goto, TypeOK, LoadState
    <3>2. ASSUME NEW u \in Threads, Interrupt(u) PROVE load'[t].restored = 0
      BY <1>3, <3>2 DEF Interrupt, Goto, Rolling, TypeOK, LoadState
    <3>3. ASSUME NEW u \in Threads, Read(u) PROVE FALSE
      BY <1>3, <3>3, ReadType DEF Rolling, TypeOK
    <3>4. ASSUME NEW u \in Threads, Undo(u) PROVE FALSE
      BY <1>3, <3>4, UndoEffect DEF Rolling, TypeOK
    <3>5. ASSUME NEW u \in Threads, Call(u) \/ DirectImport(u) \/ Discover(u) PROVE FALSE
      BY <1>3, <3>5 DEF Call, DirectImport, Discover, FastPath, BeginDiscovery, FoundLoaded,
           Publish, Warn, NextEntryPoint, LoadCached, Load, Import, Goto, Rolling, TypeOK
    <3>6. CASE UNCHANGED vars
      BY <1>3, <3>6 DEF vars, Rolling
    <3> QED
      BY <3>1, <3>2, <3>3, <3>4, <3>5, <3>6 DEF Next, Step
  <2> QED
    BY <2>1 DEF Rolled
<1> QED
  BY <1>1, <1>2, <1>3

\* At the end of a rollback the tables are the checkpoint.
LEMMA RolledEnd ==
  ASSUME Inv, RolledInv, NEW t \in Threads, Rolling(t), load[t].restored = Assignments
  PROVE  registry = load[t].checkpoint
<1>1. /\ registry.detectors = load[t].checkpoint.detectors
      /\ registry.builders = load[t].checkpoint.builders
      /\ registry.loadFailures = load[t].checkpoint.loadFailures
      /\ registry.defaultTarget = load[t].checkpoint.defaultTarget
  BY DEF RolledInv, Rolled, Assignments
<1>2. registry.loaded = load[t].checkpoint.loaded
  BY UndoUnpublished DEF Inv, LockInv, TypeOK, LoadState, RegistryState
<1>3. registry \in RegistryState /\ load[t].checkpoint \in RegistryState
  BY DEF Inv, TypeOK, LoadState
<1> QED
  BY <1>1, <1>2, <1>3 DEF RegistryState

\* Executing a body keeps the default nameable.
LEMMA ExecuteDefault ==
  ASSUME Inv, registry.defaultTarget \in Nameable(registry), NEW t \in Threads, Execute(t)
  PROVE  registry'.defaultTarget \in Nameable(registry')
<1> USE DEF Inv
<1>1. registry' \in RegistryState /\ pc[t] = "import"
  BY ExecuteType, ExecutePlace DEF LoadOK
<1>2. ASSUME Raise(t) PROVE registry'.defaultTarget \in Nameable(registry')
  BY <1>2 DEF Raise, Nameable, KnownIn
<1>3. ASSUME ClaimsKept, registry'.defaultTarget = registry.defaultTarget
      PROVE  registry'.defaultTarget \in Nameable(registry')
  BY <1>1, <1>3, NameableKept, SentinelAssumption
<1>4. CASE register_detector(t)
  <2>1. CASE Raise(t)
    BY <1>2, <2>1
  <2>2. CASE ~Raise(t)
    <3>1. ClaimsKept /\ registry'.defaultTarget = registry.defaultTarget
      BY <1>4, <2>2 DEF register_detector, ClaimsKept, TypeOK, RegistryState
    <3> QED
      BY <1>3, <3>1
  <2> QED
    BY <2>1, <2>2
<1>5. CASE register_kernel_builder(t)
  <2>1. CASE Raise(t)
    BY <1>2, <2>1
  <2>2. CASE ~Raise(t)
    <3> DEFINE cell == <<Statement(t).op, Statement(t).target>>
    <3>1. /\ registry.builders[cell] = NoModule
          /\ registry' = [registry EXCEPT !.builders[cell] = Current(t)]
      BY <1>5, <2>2 DEF register_kernel_builder
    <3>2. ClaimsKept /\ registry'.defaultTarget = registry.defaultTarget
      <4> HIDE DEF cell
      <4> QED
        BY <3>1 DEF ClaimsKept, TypeOK, RegistryState
    <3> QED
      BY <1>3, <3>2
  <2> QED
    BY <2>1, <2>2
<1>6. CASE DefaultAtImport(t)
  <2>1. CASE Raise(t)
    BY <1>2, <2>1
  <2>2. CASE ~Raise(t)
    <3> DEFINE target == Statement(t).target
    <3>1. /\ target \in KnownIn(registry)
          /\ registry' = [registry EXCEPT !.defaultTarget = target]
      BY <1>6, <2>2, KnownTargets DEF DefaultAtImport
    <3> HIDE DEF target
    <3>2. /\ registry'.defaultTarget = target
          /\ registry'.detectors = registry.detectors
          /\ registry'.builders = registry.builders
      BY <3>1 DEF TypeOK, RegistryState
    <3> QED
      BY <3>1, <3>2 DEF Nameable, KnownIn
  <2> QED
    BY <2>1, <2>2
<1>7. CASE RaiseStatement(t)
  BY <1>2, <1>7 DEF RaiseStatement
<1>8. CASE ImportStatement(t) \/ FinishModule(t)
  BY <1>8 DEF ImportStatement, FinishModule, Import, Advance, Nameable, KnownIn
<1> QED
  BY <1>4, <1>5, <1>6, <1>7, <1>8 DEF Execute

LEMMA DefaultStep ==
  ASSUME Inv, Inv', RolledInv, DefaultInv, [Next]_vars
  PROVE  DefaultInv'
<1> USE DEF Inv
<1>1. registry' \in RegistryState
  BY DEF TypeOK
<1>9. CASE \E t \in Threads : Undo(t)
  <2>1. PICK t \in Threads : Undo(t)
    BY <1>9
  <2>2. /\ ~registry.loaded /\ ~registry'.loaded
        /\ \A u \in Threads : load'[u].checkpoint = load[u].checkpoint
    BY <2>1, UndoEffect, UndoUnpublished
  <2>3. \A u \in Threads : pc'[u] # "store"
    BY <2>2 DEF LockInv, HalfBuiltHidden, Serving_labels
  <2>4. ASSUME \A u \in Threads : ~Rolling(u)'
        PROVE  registry'.defaultTarget \in Nameable(registry')
    <3>1. /\ registry'.defaultTarget = registry.defaultTarget
          /\ registry'.detectors = registry.detectors /\ registry'.builders = registry.builders
          /\ Rolling(t) /\ load[t].restored = Assignments
      BY <2>1, <2>4, UndoEffect DEF Rolling
    <3>2. registry = load[t].checkpoint
      BY <3>1, RolledEnd
    <3>3. registry.defaultTarget \in Nameable(registry)
      BY <3>2 DEF DefaultInv
    <3> QED
      BY <3>1, <3>3 DEF Nameable, KnownIn
  <2> QED
    BY <2>2, <2>3, <2>4 DEF DefaultInv
<1> SUFFICES ASSUME \A t \in Threads : ~Undo(t) PROVE DefaultInv'
  BY <1>9
<1>11. (\A u \in Threads : ~Rolling(u)')
        => registry.defaultTarget \in Nameable(registry)
  BY TablesRest DEF Rolling, DefaultInv
<1>2. ASSUME registry.loaded
      PROVE  Nameable(registry) \subseteq Nameable(registry')
  BY <1>1, <1>2, ClaimsStep, NameableKept, SentinelAssumption
<1>3. ASSUME NEW t \in Threads, Call(t) \/ DirectImport(t)
      PROVE  DefaultInv'
  <2>1. UNCHANGED <<registry, load>>
    BY <1>3 DEF Call, DirectImport, Import
  <2>2. pc[t] = "idle" /\ (pc' = [pc EXCEPT ![t] = "enter"] \/ pc' = [pc EXCEPT ![t] = "import"])
    BY <1>3 DEF Call, DirectImport, Import, Goto
  <2>3. \A u \in Threads \ {t} : call'[u] = call[u]
    BY <1>3 DEF Call, DirectImport, Import, user, TypeOK
  <2>4. \A u \in Threads : pc'[u] = "store" => pc[u] = "store" /\ call'[u] = call[u]
    BY <2>2, <2>3 DEF TypeOK
  <2> QED
    BY <1>11, <2>1, <2>4 DEF DefaultInv, Nameable, KnownIn
<1>4. ASSUME NEW t \in Threads, Interrupt(t)
      PROVE  DefaultInv'
  <2>1. UNCHANGED <<registry, call>>
    BY <1>4 DEF Interrupt, user
  <2>2. \A u \in Threads : load'[u].checkpoint = load[u].checkpoint
    <3>1. load' = load \/ load' = [load EXCEPT ![t] = [load[t] EXCEPT !.restored = 0]]
      BY <1>4 DEF Interrupt
    <3>2. load[t] \in LoadState /\ load \in [Threads -> LoadState]
      BY DEF TypeOK
    <3>3. [load[t] EXCEPT !.restored = 0].checkpoint = load[t].checkpoint
      BY <3>2 DEF LoadState
    <3> QED
      BY <3>1, <3>2, <3>3
  <2>3. \A u \in Threads : pc'[u] = "store" => pc[u] = "store"
    BY <1>4 DEF Interrupt, Goto, TypeOK
  <2> QED
    BY <1>11, <2>1, <2>2, <2>3 DEF DefaultInv, Nameable, KnownIn
<1>5. ASSUME NEW t \in Threads, Discover(t)
      PROVE  DefaultInv'
  <2>1. /\ registry'.detectors = registry.detectors
        /\ registry'.builders = registry.builders
        /\ registry'.defaultTarget = registry.defaultTarget
    BY <1>5 DEF Discover, FastPath, BeginDiscovery, FoundLoaded, Publish, Warn,
                NextEntryPoint, LoadCached, Load, Import, TypeOK, RegistryState
  <2>2. Nameable(registry') = Nameable(registry)
    BY <2>1 DEF Nameable, KnownIn
  <2>3. \A u \in Threads : \/ load'[u].checkpoint = load[u].checkpoint
                           \/ load'[u].checkpoint = registry /\ pc[t] = "discover"
    <3>1. \/ UNCHANGED load
          \/ /\ load' = [load EXCEPT ![t] = [load[t] EXCEPT !.checkpoint = registry]]
             /\ pc[t] = "discover"
          \/ load' = [load EXCEPT ![t] = [load[t] EXCEPT !.active = FALSE]]
          \/ load' = [load EXCEPT ![t] = [load[t] EXCEPT !.failed = <<>>]]
          \/ load' = [load EXCEPT ![t] = [load[t] EXCEPT !.entry = load[t].entry + 1]]
          \/ load' = [load EXCEPT ![t] =
                        [load[t] EXCEPT !.active = TRUE, !.entry = 1, !.failed = <<>>]]
      <4>1. CASE Publish(t) \/ NextEntryPoint(t) \/ LoadCached(t)
        BY <4>1 DEF Publish, NextEntryPoint, LoadCached
      <4>2. CASE BeginDiscovery(t) \/ Warn(t)
        BY <4>2 DEF BeginDiscovery, Warn
      <4>3. CASE FastPath(t) \/ FoundLoaded(t) \/ Load(t)
        BY <4>3 DEF FastPath, FoundLoaded, Load, Import
      <4> QED
        BY <1>5, <4>1, <4>2, <4>3 DEF Discover
    <3>2. load \in [Threads -> LoadState] /\ load[t] \in LoadState
      BY DEF TypeOK
    <3>3. ASSUME NEW after, load' = [load EXCEPT ![t] = after],
                 \/ after.checkpoint = load[t].checkpoint
                 \/ after.checkpoint = registry /\ pc[t] = "discover"
          PROVE  \A u \in Threads : \/ load'[u].checkpoint = load[u].checkpoint
                                    \/ load'[u].checkpoint = registry /\ pc[t] = "discover"
      <4>1. load'[t] = after /\ \A u \in Threads : u # t => load'[u] = load[u]
        BY <3>2, <3>3
      <4> QED
        BY <3>3, <4>1
    <3>4. /\ [load[t] EXCEPT !.checkpoint = registry].checkpoint = registry
          /\ [load[t] EXCEPT !.active = FALSE].checkpoint = load[t].checkpoint
          /\ [load[t] EXCEPT !.failed = <<>>].checkpoint = load[t].checkpoint
          /\ [load[t] EXCEPT !.entry = load[t].entry + 1].checkpoint = load[t].checkpoint
          /\ [load[t] EXCEPT !.active = TRUE, !.entry = 1, !.failed = <<>>].checkpoint
               = load[t].checkpoint
      BY <3>2 DEF LoadState
    <3> QED
      BY <3>1, <3>3, <3>4
  <2>4. \A u \in Threads : pc'[u] = "store" => pc[u] = "store" /\ call'[u] = call[u]
    BY <1>5 DEF Discover, FastPath, BeginDiscovery, FoundLoaded, Publish, Warn, TypeOK,
                NextEntryPoint, LoadCached, Load, Import, Goto, user
  <2>5. \A u \in Threads : load'[u].checkpoint.defaultTarget \in Nameable(load'[u].checkpoint)
    <3> SUFFICES ASSUME NEW u \in Threads
                 PROVE  load'[u].checkpoint.defaultTarget \in Nameable(load'[u].checkpoint)
      OBVIOUS
    <3>1. CASE load'[u].checkpoint = load[u].checkpoint
      BY <3>1 DEF DefaultInv
    <3>2. CASE load'[u].checkpoint # load[u].checkpoint
      <4>2. pc[t] = "discover"
        BY <2>3, <3>2
      <4>3. \A v \in Threads : ~Rolling(v)
        BY <4>2, UndoUnpublished, SentinelAssumption DEF LockInv, Rolling
      <4> QED
        BY <2>3, <3>2, <4>3 DEF DefaultInv
    <3> QED
      BY <3>1, <3>2
  <2> QED
    BY <1>11, <2>1, <2>2, <2>4, <2>5 DEF DefaultInv
<1>6. ASSUME NEW t \in Threads, Execute(t)
      PROVE  DefaultInv'
  <2>1. (\A u \in Threads : ~Rolling(u)') => registry'.defaultTarget \in Nameable(registry')
    BY <1>6, <1>11, ExecuteDefault
  <2>2. /\ \A u \in Threads : load'[u].checkpoint = load[u].checkpoint
        /\ UNCHANGED call
        /\ \A u \in Threads : pc'[u] = "store" => pc[u] = "store"
    <3>1. \A u \in Threads : load'[u].checkpoint = load[u].checkpoint
      BY <1>6, ExecuteEffect
    <3>2. /\ UNCHANGED call
          /\ \/ UNCHANGED pc
             \/ pc' = [pc EXCEPT ![t] = "import"]
             \/ pc' = [pc EXCEPT ![t] = "discover"]
             \/ pc' = [pc EXCEPT ![t] = "rollback"]
             \/ pc' = [pc EXCEPT ![t] = "idle"]
      BY <1>6, ExecutePlace
    <3>3. \A u \in Threads : pc'[u] = "store" => pc[u] = "store"
      BY <3>2 DEF TypeOK
    <3> QED
      BY <3>1, <3>2, <3>3
  <2>3. \A u \in Threads : pc[u] = "store" => registry.loaded
    BY DEF LockInv, HalfBuiltHidden, Serving_labels
  <2> QED
    BY <1>2, <2>1, <2>2, <2>3 DEF DefaultInv
<1>7. ASSUME NEW t \in Threads, Read(t)
      PROVE  DefaultInv'
  <2>1. UNCHANGED load /\ pc[t] \in {"serve", "reread", "store", "answered"}
    BY <1>7, ReadType
  <2>2. Nameable(registry) \subseteq Nameable(registry')
    BY <1>2, <2>1 DEF LockInv, HalfBuiltHidden, Serving_labels
  <2>3. CASE CheckDefault(t)
    <3>1. UNCHANGED <<registry, call>>
      BY <2>3 DEF CheckDefault, Reading
    <3>2. \/ /\ call[t].target \in Nameable(registry)
             /\ pc' = [pc EXCEPT ![t] = "store"]
          \/ pc' = [pc EXCEPT ![t] = "answered"]
      BY <2>3, KnownTargets DEF CheckDefault, Answer, Goto, Nameable
    <3>3. \A u \in Threads : pc'[u] = "store" =>
            pc[u] = "store" \/ call[u].target \in Nameable(registry)
      BY <3>2 DEF TypeOK
    <3> QED
      BY <1>11, <2>1, <3>1, <3>3 DEF DefaultInv, Nameable, KnownIn
  <2>4. CASE StoreDefault(t)
    <3>1. pc[t] = "store" /\ call' = call
      BY <2>4 DEF StoreDefault
    <3>2. registry'.defaultTarget = call[t].target
      BY <2>4 DEF StoreDefault, TypeOK, RegistryState
    <3>3. \A u \in Threads : pc'[u] = "store" => pc[u] = "store"
      BY <2>4 DEF StoreDefault, Answer, Goto, TypeOK
    <3> QED
      BY <2>1, <2>2, <3>1, <3>2, <3>3 DEF DefaultInv
  <2>5. CASE \/ select_target(t) \/ RereadDefault(t) \/ registered_kernel_builder(t)
             \/ load_failures(t) \/ Return(t)
    <3>1. UNCHANGED registry
      BY <2>5 DEF select_target, RereadDefault, registered_kernel_builder, load_failures,
                  Return, Reading
    <3>2. \A u \in Threads : pc'[u] = "store" => pc[u] = "store" /\ call'[u] = call[u]
      BY <2>5, ZenonT(30) DEF select_target, RereadDefault, registered_kernel_builder, load_failures,
                  Return, Reading, Answer, Goto, TypeOK
    <3> QED
      BY <1>11, <2>1, <3>1, <3>2 DEF DefaultInv, Nameable, KnownIn
  <2> QED
    BY <1>7, <2>3, <2>4, <2>5 DEF Read
<1>8. CASE UNCHANGED vars
  BY <1>8, <1>11 DEF vars, user, DefaultInv, Nameable, KnownIn, Rolling
<1> QED
  BY <1>3, <1>4, <1>5, <1>6, <1>7, <1>8 DEF Next, Step

\* Whatever fails, is interrupted or rolled back, the default names a target that some
\* backend has registered, whenever no rollback is under way (registry.py:188,
\* dispatch.py:110).
THEOREM DefaultKnown == Spec => []DefaultIsKnown
<1>1. Init => DefaultInv /\ RolledInv
  BY DEF Init, DefaultInv, RolledInv, Rolling, Nameable, Empty
<1>2. Inv /\ [Next]_vars => Inv'
  BY TypeStep, LockStep DEF Inv
<1>3. Inv /\ RolledInv /\ [Next]_vars => RolledInv'
  BY RolledInvStep
<1>4. Inv /\ Inv' /\ RolledInv /\ DefaultInv /\ [Next]_vars => DefaultInv'
  BY DefaultStep
<1>5. DefaultInv => DefaultIsKnown
  BY KnownTargets DEF DefaultInv, DefaultIsKnown, Nameable
<1> QED
  BY InitInv, <1>1, <1>2, <1>3, <1>4, <1>5, PTL DEF Spec

-----------------------------------------------------------------------------
(* All or nothing.                                                         *)

Entries == {EntryPoints[i] : i \in DOMAIN EntryPoints}

\* Each entry point names a backend of one module, which only discovery imports.
SelfContained ==
    /\ \A i, j \in DOMAIN EntryPoints : EntryPoints[i] = EntryPoints[j] => i = j
    /\ Entries \cap DirectModules = {}
    /\ \A m \in Entries \cup DirectModules : \A i \in DOMAIN Body[m] : Body[m][i].kind # "import"

\* A backend that failed would fail again: no interrupt makes discovery start over, or no
\* backend's success depends on what the earlier attempt left to be named as a default.
Repeatable ==
    \/ MaxInterrupts = 0
    \/ \A m \in Entries : \A i \in DOMAIN Body[m] : Body[m][i].kind # "default"

\* A cell of the tables, named by the statement that claims it, and its owner.
Cells ==
    [kind : {"detector"}, target : Targets] \cup [kind : {"builder"}, op : Ops, target : Targets]
Owner(r, c) ==
    IF c.kind = "detector" THEN r.detectors[c.target] ELSE r.builders[<<c.op, c.target>>]

Listed(r, m) == \E j \in DOMAIN r.loadFailures : r.loadFailures[j] = m
Clean(r, m) == \A c \in Cells : Owner(r, c) # m

\* Body[m] up to its statement at: what it claimed is its own, it owns nothing else, and
\* nothing in it could have failed.
Done(r, m, at) ==
    \A i \in DOMAIN Body[m] : i < at /\ Body[m][i] \in Cells => Owner(r, Body[m][i]) = m
Only(r, m, at) ==
    \A c \in Cells : Owner(r, c) = m => \E i \in DOMAIN Body[m] : i < at /\ Body[m][i] = c
Passed(m, at) ==
    \A i \in DOMAIN Body[m] : i < at =>
        /\ Body[m][i].kind # "raise"
        /\ Body[m][i] \in Cells => \A j \in DOMAIN Body[m] : j < i => Body[m][j] # Body[m][i]

\* Why m fails however often it is tried: it raises, claims a cell twice, or claims a cell
\* of another module.
Barred(r, m) ==
    \E i \in DOMAIN Body[m] :
        \/ Body[m][i].kind = "raise"
        \/ /\ Body[m][i] \in Cells
           /\ \/ Owner(r, Body[m][i]) \notin {m, NoModule}
              \/ \E j \in DOMAIN Body[m] : j < i /\ Body[m][j] = Body[m][i]

\* From r to q the claims of r stay, and the new ones are n's.
Grown(r, q, n) ==
    \A c \in Cells : \/ Owner(q, c) = Owner(r, c)
                     \/ Owner(r, c) = NoModule /\ Owner(q, c) = n

\* A backend nobody is executing, in the tables r, given sys.modules: executed to its end
\* and in, or not and out.
Decided(s, r, m) ==
    /\ s[m] \in {"absent", "imported"}
    /\ s[m] = "imported" => Done(r, m, Len(Body[m]) + 1) /\ ~Listed(r, m)
    /\ s[m] = "absent" => Clean(r, m)
    /\ Listed(r, m) /\ MaxInterrupts # 0 => Barred(r, m)

\* A backend executing its statement at: the tables r are those before it, r0, and its own.
Underway(s, r0, r, m, at) ==
    /\ s[m] = "importing"
    /\ Clean(r0, m)
    /\ Listed(r0, m) /\ MaxInterrupts # 0 => Barred(r0, m)
    /\ r.loadFailures = r0.loadFailures
    /\ Grown(r0, r, m)
    /\ Done(r, m, at) /\ Only(r, m, at) /\ Passed(m, at)

Tried(s, r, m) == s[m] = "imported" \/ Listed(r, m)
Trying(t) == load[t].active /\ pc[t] = "import"

\* What the invariant says of thread t: a discovering thread can roll back to tables that
\* decide every backend but the one it executes, and has tried the entry points before it;
\* any other thread executes only what the program imports by itself.
ThreadInv(t) ==
    /\ load[t].active /\ pc[t] = "load" => load[t].checkpoint = registry
    /\ Trying(t) =>
         /\ \A m \in Entries \ {Loading(t)} : Decided(sysModules, load[t].checkpoint, m)
         /\ Len(stack[t]) = 1 /\ Current(t) = Loading(t)
         /\ Underway(sysModules, load[t].checkpoint, registry, Loading(t), Head(stack[t]).at)
    /\ pc[t] = "import" /\ ~load[t].active => OnStack(t) \subseteq DirectModules
    /\ load[t].active =>
         \A i \in DOMAIN EntryPoints :
           /\ i < load[t].entry => Tried(sysModules, registry, EntryPoints[i])
           /\ MaxInterrupts = 0 /\ i >= load[t].entry => ~Listed(registry, EntryPoints[i])

\* With no interrupt nothing is listed before discovery, and nothing twice.
OnceInv ==
    /\ lock = NoThread /\ ~registry.loaded => registry.loadFailures = <<>>
    /\ \A i, j \in DOMAIN registry.loadFailures :
         registry.loadFailures[i] = registry.loadFailures[j] => i = j

BackendInv ==
    /\ \A j \in DOMAIN registry.loadFailures : registry.loadFailures[j] \in Entries
    /\ \A m \in Entries :
         (\A t \in Threads : Trying(t) => m # Loading(t)) => Decided(sysModules, registry, m)
    /\ \A t \in Threads : ThreadInv(t)
    /\ registry.loaded => \A m \in Entries : Tried(sysModules, registry, m)
    /\ MaxInterrupts = 0 => OnceInv

\* The cells of two tables have the same owners.
SameCells(r, q) == \A c \in Cells : Owner(q, c) = Owner(r, c)

LEMMA StatementCell ==
  ASSUME NEW m \in Modules, NEW i \in DOMAIN Body[m]
  PROVE  /\ Body[m][i] \in Statements
         /\ i \in Nat /\ 1 <= i /\ i <= Len(Body[m])
         /\ Body[m][i] \in Cells <=> Body[m][i].kind \in {"detector", "builder"}
<1>1. Body[m] \in Seq(Statements) /\ Len(Body[m]) \in Nat
  BY RegistryAssumption, LenProperties
<1>2. DOMAIN Body[m] = 1..Len(Body[m])
  BY <1>1, LenProperties
<1>3. Body[m][i] \in Statements /\ i \in Nat /\ 1 <= i /\ i <= Len(Body[m])
  BY <1>1, <1>2, ElementOfSeq
<1> QED
  BY <1>3 DEF Statements, Cells

LEMMA EntryModule ==
  ASSUME NEW m \in Entries
  PROVE  m \in Modules /\ m # NoModule
<1>1. PICK i \in DOMAIN EntryPoints : m = EntryPoints[i]
  BY DEF Entries
<1>2. EntryPoints \in Seq(Modules)
  BY RegistryAssumption
<1>3. EntryPoints[i] \in Modules
  BY <1>2, ElementOfSeq, LenProperties
<1> QED
  BY <1>1, <1>3, SentinelAssumption

\* What owning nothing and being complete say of the cells.
LEMMA CleanOwns ==
  ASSUME NEW m, Clean(registry, m)
  PROVE  OwnsNothing(m)
<1>1. ASSUME NEW T \in Targets PROVE registry.detectors[T] # m
  <2> DEFINE c == [kind |-> "detector", target |-> T]
  <2>1. c \in Cells /\ Owner(registry, c) = registry.detectors[T]
    BY DEF Cells, Owner
  <2> QED
    BY <2>1 DEF Clean
<1>2. ASSUME NEW cell \in Ops \X Targets PROVE registry.builders[cell] # m
  <2>1. PICK op \in Ops, T \in Targets : cell = <<op, T>>
    OBVIOUS
  <2> DEFINE c == [kind |-> "builder", op |-> op, target |-> T]
  <2>2. c \in Cells /\ Owner(registry, c) = registry.builders[<<op, T>>]
    BY DEF Cells, Owner
  <2> QED
    BY <2>1, <2>2 DEF Clean
<1> QED
  BY <1>1, <1>2 DEF OwnsNothing

LEMMA DoneComplete ==
  ASSUME NEW m \in Modules, Done(registry, m, Len(Body[m]) + 1)
  PROVE  Complete(m)
<1> SUFFICES ASSUME NEW i \in DOMAIN Body[m]
             PROVE  /\ Body[m][i].kind = "detector" => registry.detectors[Body[m][i].target] = m
                    /\ Body[m][i].kind = "builder" =>
                         registry.builders[<<Body[m][i].op, Body[m][i].target>>] = m
  BY DEF Complete
<1>1. Body[m] \in Seq(Statements) /\ Len(Body[m]) \in Nat
  BY RegistryAssumption, LenProperties
<1>2. i < Len(Body[m]) + 1 /\ (Body[m][i] \in Cells <=> Body[m][i].kind \in {"detector", "builder"})
  BY <1>1, StatementCell
<1>3. Body[m][i].kind \in {"detector", "builder"} => Owner(registry, Body[m][i]) = m
  BY <1>2 DEF Done
<1> QED
  BY <1>3 DEF Owner

\* A module that owns nothing and declares something is not complete.
LEMMA CleanIncomplete ==
  ASSUME NEW m \in Modules, Clean(registry, m),
         NEW i \in DOMAIN Body[m], Body[m][i].kind \in {"detector", "builder"}
  PROVE  ~Complete(m)
<1>1. Body[m][i] \in Cells
  BY StatementCell
<1>2. Owner(registry, Body[m][i]) # m
  BY <1>1 DEF Clean
<1> QED
  BY <1>2 DEF Complete, Owner

-----------------------------------------------------------------------------
(* What the other backends' claims, failures and rollbacks do to one.      *)

LEMMA DecidedSame ==
  ASSUME NEW s, NEW z, NEW r, NEW q, NEW m, Decided(s, r, m), z[m] = s[m],
         SameCells(r, q), q.loadFailures = r.loadFailures
  PROVE  Decided(z, q, m)
<1>1. Listed(q, m) <=> Listed(r, m)
  BY DEF Listed
<1>2. Done(r, m, Len(Body[m]) + 1) => Done(q, m, Len(Body[m]) + 1)
  BY DEF Done, SameCells
<1>3. Clean(r, m) => Clean(q, m)
  BY DEF Clean, SameCells
<1>4. Barred(r, m) => Barred(q, m)
  BY DEF Barred, SameCells
<1> QED
  BY <1>1, <1>2, <1>3, <1>4 DEF Decided

LEMMA DecidedGrown ==
  ASSUME NEW s, NEW r, NEW q, NEW m, NEW n, Decided(s, r, m), Grown(r, q, n), n # m,
         m # NoModule, q.loadFailures = r.loadFailures
  PROVE  Decided(s, q, m)
<1>1. Listed(q, m) <=> Listed(r, m)
  BY DEF Listed
<1>2. Done(r, m, Len(Body[m]) + 1) => Done(q, m, Len(Body[m]) + 1)
  BY DEF Done, Grown
<1>3. Clean(r, m) => Clean(q, m)
  BY DEF Clean, Grown
<1>4. Barred(r, m) => Barred(q, m)
  BY DEF Barred, Grown
<1> QED
  BY <1>1, <1>2, <1>3, <1>4 DEF Decided

\* One more line in the list of failures.
LEMMA FailuresMore ==
  ASSUME NEW f \in Seq(Modules), NEW n \in Modules, NEW g, g = Append(f, n)
  PROVE  /\ g \in Seq(Modules) /\ Len(f) \in Nat /\ Len(g) = Len(f) + 1
         /\ DOMAIN f = 1..Len(f) /\ DOMAIN g = 1..(Len(f) + 1)
         /\ \A j \in 1..Len(f) : g[j] = f[j]
         /\ g[Len(f) + 1] = n
BY LenProperties, AppendProperties

LEMMA ListedMore ==
  ASSUME NEW r \in RegistryState, NEW q, NEW n \in Modules,
         q.loadFailures = Append(r.loadFailures, n)
  PROVE  \A m : Listed(q, m) <=> Listed(r, m) \/ m = n
<1> DEFINE f == r.loadFailures
           g == q.loadFailures
<1>1. f \in Seq(Modules) /\ g = Append(f, n)
  BY DEF RegistryState
<1>2. /\ Len(f) \in Nat /\ DOMAIN f = 1..Len(f) /\ DOMAIN g = 1..(Len(f) + 1)
      /\ \A j \in 1..Len(f) : g[j] = f[j]
      /\ g[Len(f) + 1] = n
  <2> HIDE DEF f, g
  <2> QED
    BY <1>1, FailuresMore
<1> SUFFICES ASSUME NEW m PROVE Listed(q, m) <=> Listed(r, m) \/ m = n
  OBVIOUS
<1>3. ASSUME Listed(q, m) PROVE Listed(r, m) \/ m = n
  <2>1. PICK j \in DOMAIN g : g[j] = m
    BY <1>3 DEF Listed
  <2>2. j \in 1..Len(f) \/ j = Len(f) + 1
    BY <1>2, <2>1
  <2> QED
    BY <1>2, <2>1, <2>2 DEF Listed
<1>4. ASSUME Listed(r, m) PROVE Listed(q, m)
  <2>1. PICK j \in DOMAIN f : f[j] = m
    BY <1>4 DEF Listed
  <2>2. j \in DOMAIN g /\ g[j] = m
    BY <1>2, <2>1
  <2> QED
    BY <2>2 DEF Listed
<1>5. Listed(q, n)
  <2>1. Len(f) + 1 \in DOMAIN g
    BY <1>2
  <2> QED
    BY <1>2, <2>1 DEF Listed
<1> QED
  BY <1>3, <1>4, <1>5

LEMMA DecidedMore ==
  ASSUME NEW s, NEW z, NEW r \in RegistryState, NEW q, NEW m, NEW n \in Modules,
         Decided(s, r, m), z[m] = s[m], n # m, SameCells(r, q),
         q.loadFailures = Append(r.loadFailures, n)
  PROVE  Decided(z, q, m)
<1>1. Listed(q, m) <=> Listed(r, m)
  <2>1. \A x : Listed(q, x) <=> Listed(r, x) \/ x = n
    BY ListedMore
  <2> QED
    BY <2>1
<1>2. Done(r, m, Len(Body[m]) + 1) => Done(q, m, Len(Body[m]) + 1)
  BY DEF Done, SameCells
<1>3. Clean(r, m) => Clean(q, m)
  BY DEF Clean, SameCells
<1>4. Barred(r, m) => Barred(q, m)
  BY DEF Barred, SameCells
<1> QED
  BY <1>1, <1>2, <1>3, <1>4 DEF Decided

-----------------------------------------------------------------------------
(* The life of one backend under discovery.                                *)

LEMMA StartUnderway ==
  ASSUME NEW s, NEW z, NEW r, NEW m \in Entries, Decided(s, r, m), s[m] = "absent",
         z[m] = "importing"
  PROVE  Underway(z, r, r, m, 1)
<1>1. \A i \in DOMAIN Body[m] : ~(i < 1)
  BY StatementCell, EntryModule
<1>2. Done(r, m, 1) /\ Passed(m, 1)
  BY <1>1 DEF Done, Passed
<1>3. Clean(r, m)
  BY DEF Decided
<1>4. Only(r, m, 1)
  BY <1>3 DEF Only, Clean
<1>5. Grown(r, r, m)
  BY DEF Grown
<1> QED
  BY <1>2, <1>3, <1>4, <1>5 DEF Underway, Decided

\* Executing statement at: it claims its cell, or it is not about cells.
LEMMA UnderwayStep ==
  ASSUME NEW s, NEW r0, NEW r, NEW q, NEW m \in Entries, NEW at \in DOMAIN Body[m],
         Underway(s, r0, r, m, at), Body[m][at].kind # "raise",
         q.loadFailures = r.loadFailures,
         \/ /\ Body[m][at] \in Cells
            /\ Owner(r, Body[m][at]) = NoModule /\ Owner(q, Body[m][at]) = m
            /\ \A c \in Cells : c # Body[m][at] => Owner(q, c) = Owner(r, c)
         \/ Body[m][at] \notin Cells /\ SameCells(r, q)
  PROVE  Underway(s, r0, q, m, at + 1) /\ Grown(r, q, m)
<1> DEFINE body == Body[m]
<1>1. /\ at \in Nat /\ \A i \in DOMAIN body : i \in Nat /\ (i < at + 1 <=> i < at \/ i = at)
      /\ m # NoModule
  <2>1. m \in Modules /\ m # NoModule
    BY EntryModule
  <2>2. \A i \in DOMAIN body : i \in Nat
    BY <2>1, StatementCell
  <2> QED
    BY <2>1, <2>2
<1>2. Grown(r, q, m)
  BY DEF Grown, SameCells
<1>3. Grown(r0, r, m) /\ Done(r, m, at) /\ Only(r, m, at) /\ Passed(m, at)
  BY DEF Underway
<1>4. Grown(r0, q, m)
  BY <1>1, <1>2, <1>3 DEF Grown
<1>5. Done(q, m, at + 1)
  <2> SUFFICES ASSUME NEW i \in DOMAIN body, i < at \/ i = at, body[i] \in Cells
               PROVE  Owner(q, body[i]) = m
    BY <1>1 DEF Done
  <2>1. CASE i = at
    BY <2>1
  <2>2. CASE i < at
    <3>1. Owner(r, body[i]) = m
      BY <1>3, <2>2 DEF Done
    <3> QED
      BY <1>1, <1>2, <3>1 DEF Grown
  <2> QED
    BY <2>1, <2>2
<1>6. Only(q, m, at + 1)
  <2> SUFFICES ASSUME NEW c \in Cells, Owner(q, c) = m
               PROVE  \E i \in DOMAIN body : i < at + 1 /\ body[i] = c
    BY DEF Only
  <2>1. CASE c = body[at]
    BY <1>1, <2>1
  <2>2. CASE c # body[at]
    <3>1. Owner(r, c) = m
      BY <2>2 DEF SameCells
    <3> QED
      BY <1>1, <1>3, <3>1 DEF Only
  <2> QED
    BY <2>1, <2>2
<1>7. Passed(m, at + 1)
  <2> SUFFICES ASSUME NEW i \in DOMAIN body, i < at \/ i = at
               PROVE  /\ body[i].kind # "raise"
                      /\ body[i] \in Cells => \A j \in DOMAIN body : j < i => body[j] # body[i]
    BY <1>1 DEF Passed
  <2>1. CASE i < at
    BY <1>3, <2>1 DEF Passed
  <2>2. CASE i = at
    <3>1. ASSUME body[at] \in Cells, NEW j \in DOMAIN body, j < at, body[j] = body[at]
          PROVE  FALSE
      BY <1>1, <1>3, <3>1 DEF Done
    <3> QED
      BY <2>2, <3>1
  <2> QED
    BY <2>1, <2>2
<1> QED
  BY <1>2, <1>4, <1>5, <1>6, <1>7 DEF Underway

\* Executed to its end: it is in, and was not doomed to fail.
LEMMA UnderwayEnds ==
  ASSUME NEW s, NEW z, NEW r0, NEW r, NEW m \in Entries, NEW at \in Nat,
         Underway(s, r0, r, m, at), at > Len(Body[m]), z[m] = "imported",
         MaxInterrupts = 0 => ~Listed(r, m)
  PROVE  Decided(z, r, m)
<1>1. m \in Modules /\ m # NoModule
  BY EntryModule
<1>2. Body[m] \in Seq(Statements) /\ Len(Body[m]) \in Nat
  BY <1>1, RegistryAssumption, LenProperties
<1>3. \A i \in DOMAIN Body[m] : i < at
  <2> SUFFICES ASSUME NEW i \in DOMAIN Body[m] PROVE i < at
    OBVIOUS
  <2>1. i \in Nat /\ i <= Len(Body[m])
    BY <1>1, StatementCell
  <2> QED
    BY <1>2, <2>1
<1>4. \A i \in DOMAIN Body[m] : Body[m][i] \in Cells => Owner(r, Body[m][i]) = m
  BY <1>3 DEF Underway, Done
<1>5. ~Barred(r0, m)
  <2> SUFFICES ASSUME NEW i \in DOMAIN Body[m],
                      \/ Body[m][i].kind = "raise"
                      \/ /\ Body[m][i] \in Cells
                         /\ \/ Owner(r0, Body[m][i]) \notin {m, NoModule}
                            \/ \E j \in DOMAIN Body[m] : j < i /\ Body[m][j] = Body[m][i]
               PROVE  FALSE
    BY DEF Barred
  <2>1. /\ Body[m][i].kind # "raise"
        /\ Body[m][i] \in Cells => \A j \in DOMAIN Body[m] : j < i => Body[m][j] # Body[m][i]
    BY <1>3 DEF Underway, Passed
  <2>2. Body[m][i] \in Cells /\ Owner(r0, Body[m][i]) \notin {m, NoModule}
    BY <2>1
  <2>3. Owner(r, Body[m][i]) = Owner(r0, Body[m][i])
    BY <2>2 DEF Underway, Grown
  <2> QED
    BY <1>4, <2>2, <2>3
<1>6. Listed(r, m) <=> Listed(r0, m)
  BY DEF Underway, Listed
<1>7. ~Listed(r, m)
  BY <1>5, <1>6 DEF Underway
<1>8. Done(r, m, Len(Body[m]) + 1)
  BY <1>4 DEF Done
<1> QED
  BY <1>7, <1>8 DEF Decided

\* Failed at its statement at, for a reason that will still be there.
LEMMA UnderwayBarred ==
  ASSUME NEW s, NEW r0, NEW r, NEW m \in Entries, NEW at \in DOMAIN Body[m],
         Underway(s, r0, r, m, at),
         \/ Body[m][at].kind = "raise"
         \/ Body[m][at] \in Cells /\ Owner(r, Body[m][at]) # NoModule
  PROVE  Barred(r0, m)
<1>1. ASSUME Body[m][at] \in Cells, Owner(r, Body[m][at]) # NoModule
      PROVE  Barred(r0, m)
  <2> DEFINE c == Body[m][at]
  <2>1. CASE Owner(r, c) = m
    <3>1. PICK j \in DOMAIN Body[m] : j < at /\ Body[m][j] = c
      BY <1>1, <2>1 DEF Underway, Only
    <3> QED
      BY <1>1, <3>1 DEF Barred
  <2>2. CASE Owner(r, c) # m
    <3>1. Owner(r0, c) = Owner(r, c)
      BY <1>1, <2>2 DEF Underway, Grown
    <3> QED
      BY <1>1, <2>2, <3>1 DEF Barred
  <2> QED
    BY <2>1, <2>2
<1> QED
  BY <1>1 DEF Barred

\* Interrupted: out, and as listed as it was.
LEMMA UnderwayInterrupted ==
  ASSUME NEW s, NEW z, NEW r0, NEW r, NEW q, NEW m, NEW at,
         Underway(s, r0, r, m, at), z[m] = "absent", SameCells(r0, q),
         q.loadFailures = r0.loadFailures
  PROVE  Decided(z, q, m)
<1>1. Clean(q, m)
  BY DEF Underway, Clean, SameCells
<1>2. Listed(q, m) <=> Listed(r0, m)
  BY DEF Listed
<1>3. Barred(r0, m) => Barred(q, m)
  BY DEF Barred, SameCells
<1> QED
  BY <1>1, <1>2, <1>3 DEF Decided, Underway

-----------------------------------------------------------------------------
(* The invariant over the threads.                                         *)

\* Of the threads only LOCK's owner discovers, and only before publication.
LEMMA OneActive ==
  ASSUME Inv, NEW t \in Threads, load[t].active
  PROVE  /\ lock = t /\ ~registry.loaded
         /\ \A u \in Threads : u # t => ~load[u].active
BY SentinelAssumption DEF Inv, LockInv, TypeOK

LEMMA BackendInit == Init => BackendInv
<1> SUFFICES ASSUME Init PROVE BackendInv
  OBVIOUS
<1>1. ASSUME NEW c \in Cells PROVE Owner(registry, c) = NoModule
  BY DEF Cells, Owner, Init, Empty
<1>2. registry.loadFailures = <<>> /\ ~registry.loaded
  BY DEF Init, Empty
<1>3. \A m : ~Listed(registry, m)
  BY <1>2 DEF Listed
<1>4. ASSUME NEW m \in Entries PROVE Decided(sysModules, registry, m)
  <2>1. m \in Modules /\ m # NoModule
    BY EntryModule
  <2>2. sysModules[m] = "absent"
    BY <2>1 DEF Init
  <2> QED
    BY <1>1, <1>3, <2>1, <2>2 DEF Decided, Clean
<1>5. \A t \in Threads : ~load[t].active /\ pc[t] = "idle"
  BY DEF Init
<1> QED
  BY <1>2, <1>4, <1>5 DEF BackendInv, ThreadInv, OnceInv, Trying

\* What discovery sees of the step of another thread: nothing but claims.
Aside ==
    /\ lock' = lock
    /\ \A m \in Entries : sysModules'[m] = sysModules[m]
    /\ \A u \in Threads :
         /\ load'[u].active = load[u].active
         /\ load[u].active => load'[u] = load[u] /\ pc'[u] = pc[u] /\ stack'[u] = stack[u]
    /\ registry'.loaded = registry.loaded

\* A step outside discovery: it leaves the entry points' modules and the thread in discovery
\* as they were, and the tables too, but for what a module that is no entry point claims.
LEMMA QuietStep ==
  ASSUME Inv, BackendInv, lock' = lock, NEW n, n \notin Entries,
         registry' = registry \/ \A u \in Threads : ~load[u].active,
         registry'.loaded = registry.loaded,
         registry'.loadFailures = registry.loadFailures,
         Grown(registry, registry', n),
         \A m \in Entries : sysModules'[m] = sysModules[m],
         \A u \in Threads : /\ load'[u].active = load[u].active
                            /\ load[u].active => /\ load'[u] = load[u] /\ pc'[u] = pc[u]
                                                 /\ stack'[u] = stack[u]
                            /\ pc'[u] = "import" /\ ~load[u].active =>
                                 {stack'[u][i].module : i \in DOMAIN stack'[u]}
                                   \subseteq DirectModules
  PROVE  BackendInv' /\ Aside
<1>1. \A m : Listed(registry', m) <=> Listed(registry, m)
  BY DEF Listed
<1>2. \A m \in Entries : Tried(sysModules', registry', m) <=> Tried(sysModules, registry, m)
  BY <1>1 DEF Tried
<1>3. \A u \in Threads : /\ Trying(u)' <=> Trying(u)
                         /\ Trying(u) => Loading(u)' = Loading(u)
  BY DEF Trying, Loading
<1>4. ASSUME NEW m \in Entries, NEW r, Decided(sysModules, r, m)
      PROVE  Decided(sysModules', r, m)
  BY <1>4, DecidedSame DEF SameCells
<1>5. ASSUME NEW m \in Entries, \A t \in Threads : Trying(t)' => m # Loading(t)'
      PROVE  Decided(sysModules', registry', m)
  <2>1. Decided(sysModules, registry, m)
    BY <1>3, <1>5 DEF BackendInv, ThreadInv, OnceInv
  <2>2. Decided(sysModules, registry', m)
    BY <2>1, EntryModule, DecidedGrown
  <2> QED
    BY <1>4, <2>2
<1>6. ASSUME NEW t \in Threads PROVE ThreadInv(t)'
  <2>1. CASE ~load[t].active
    BY <2>1 DEF ThreadInv, OnStack, Trying
  <2>2. CASE load[t].active
    <3>1. registry' = registry /\ load'[t] = load[t] /\ pc'[t] = pc[t] /\ stack'[t] = stack[t]
      BY <2>2
    <3>2. \A i \in DOMAIN EntryPoints :
            Tried(sysModules, registry, EntryPoints[i])
              => Tried(sysModules', registry', EntryPoints[i])
      BY <1>2 DEF Entries
    <3>3. ASSUME Trying(t)
          PROVE  /\ \A m \in Entries \ {Loading(t)'} :
                      Decided(sysModules', load'[t].checkpoint, m)
                 /\ Len(stack'[t]) = 1 /\ Current(t)' = Loading(t)'
                 /\ Underway(sysModules', load'[t].checkpoint, registry', Loading(t)',
                              Head(stack'[t]).at)
      <4>1. Loading(t) \in Entries /\ Loading(t)' = Loading(t)
        <5>1. load[t].entry \in Nat \ {0} /\ load[t].entry <= Len(EntryPoints)
          BY <2>2, <3>3 DEF Inv, TypeOK, LockInv, LoadState, Trying
        <5>2. DOMAIN EntryPoints = 1..Len(EntryPoints) /\ Len(EntryPoints) \in Nat
          BY RegistryAssumption, LenProperties
        <5> QED
          BY <1>3, <3>3, <5>1, <5>2 DEF Loading, Entries
      <4>2. /\ \A m \in Entries \ {Loading(t)} : Decided(sysModules, load[t].checkpoint, m)
            /\ Len(stack[t]) = 1 /\ Current(t) = Loading(t)
            /\ Underway(sysModules, load[t].checkpoint, registry, Loading(t), Head(stack[t]).at)
        BY <3>3 DEF BackendInv, ThreadInv, OnceInv
      <4>3. Current(t)' = Current(t)
        BY <3>1 DEF Current
      <4>4. Underway(sysModules', load[t].checkpoint, registry, Loading(t), Head(stack[t]).at)
        BY <4>1, <4>2 DEF Underway
      <4> QED
        BY <1>4, <3>1, <4>1, <4>2, <4>3, <4>4
    <3> QED
      BY <1>1, <1>3, <2>2, <3>1, <3>2, <3>3 DEF BackendInv, ThreadInv, OnceInv
  <2> QED
    BY <2>1, <2>2
<1>7. registry'.loaded => \A m \in Entries : Tried(sysModules', registry', m)
  BY <1>2 DEF BackendInv, ThreadInv, OnceInv
<1>8. Aside
  BY DEF Aside
<1> QED
  BY <1>5, <1>6, <1>7, <1>8 DEF BackendInv, ThreadInv, OnceInv

\* Advancing keeps the module of every frame, and moves the innermost one statement on.
LEMMA AdvancedFrames ==
  ASSUME Inv, NEW t \in Threads, pc[t] = "import"
  PROVE  /\ Len(Advanced(t)) = Len(stack[t]) /\ Len(stack[t]) \in Nat \ {0}
         /\ Head(Advanced(t)).module = Current(t)
         /\ Head(Advanced(t)).at = Head(stack[t]).at + 1
         /\ Head(stack[t]).at \in Nat \ {0}
         /\ Current(t) \in OnStack(t)
         /\ {Advanced(t)[i].module : i \in DOMAIN Advanced(t)} \subseteq OnStack(t)
         /\ {Tail(stack[t])[i].module : i \in DOMAIN Tail(stack[t])} \subseteq OnStack(t)
<1> DEFINE s == stack[t]
           f == [Head(s) EXCEPT !.at = @ + 1]
<1>1. /\ s \in Seq(Frame) /\ s # <<>> /\ Head(s) \in Frame /\ Tail(s) \in Seq(Frame)
      /\ Len(Tail(s)) = Len(s) - 1 /\ Advanced(t) \in Seq(Frame) /\ Advanced(t) # <<>>
  BY FrameType DEF Inv
<1>2. Len(s) \in Nat \ {0} /\ DOMAIN s = 1..Len(s) /\ Head(s) = s[1]
  BY <1>1, EmptySeq, LenProperties
<1>3. f.module = Head(s).module /\ f.at = Head(s).at + 1 /\ f \in Frame /\ Head(s).at \in Nat \ {0}
  BY <1>1 DEF Frame
<1> HIDE DEF f
<1>4. <<f>> \in Seq(Frame) /\ Len(<<f>>) = 1 /\ <<f>>[1] = f
  BY <1>3
<1>5. Advanced(t) = <<f>> \o Tail(s)
  BY DEF Advanced, f
<1>6. /\ Len(Advanced(t)) = Len(s)
      /\ \A i \in 1..Len(s) : Advanced(t)[i] = IF i <= 1 THEN <<f>>[i] ELSE Tail(s)[i - 1]
  BY <1>1, <1>2, <1>4, <1>5, ConcatProperties
<1>7. \A i \in 1..Len(Tail(s)) : Tail(s)[i] = s[i + 1]
  BY <1>1, HeadTailProperties
<1>8. DOMAIN Advanced(t) = 1..Len(s) /\ DOMAIN Tail(s) = 1..(Len(s) - 1)
  BY <1>1, <1>6, LenProperties
<1>9. Head(Advanced(t)) = f
  <2>1. Head(Advanced(t)) = Advanced(t)[1]
    BY <1>1
  <2> QED
    BY <1>2, <1>4, <1>6, <2>1
<1>10. \A i \in DOMAIN Tail(s) : i + 1 \in DOMAIN s /\ Tail(s)[i] = s[i + 1]
  BY <1>1, <1>2, <1>7, <1>8
<1>11. \A i \in DOMAIN Advanced(t) : i \in DOMAIN s /\ Advanced(t)[i].module = s[i].module
  <2> SUFFICES ASSUME NEW i \in DOMAIN Advanced(t)
               PROVE  i \in DOMAIN s /\ Advanced(t)[i].module = s[i].module
    OBVIOUS
  <2>1. i \in 1..Len(s) /\ i \in DOMAIN s
    BY <1>2, <1>8
  <2>2. CASE i = 1
    BY <1>2, <1>3, <1>4, <1>6, <2>1, <2>2
  <2>3. CASE i # 1
    <3>1. Advanced(t)[i] = Tail(s)[i - 1] /\ i - 1 \in DOMAIN Tail(s)
      BY <1>2, <1>6, <1>8, <2>1, <2>3
    <3>2. Tail(s)[i - 1] = s[i]
      BY <1>2, <1>10, <2>1, <3>1
    <3> QED
      BY <2>1, <3>1, <3>2
  <2> QED
    BY <2>2, <2>3
<1>12. 1 \in DOMAIN s /\ Current(t) = s[1].module
  BY <1>2 DEF Current
<1> QED
  BY <1>2, <1>3, <1>6, <1>9, <1>10, <1>11, <1>12 DEF OnStack, Current

\* What the statement being executed is, and where.
LEMMA StatementAt ==
  ASSUME Inv, NEW t \in Threads, NEW kind, AtStatement(t, kind)
  PROVE  /\ pc[t] = "import" /\ Current(t) \in Modules
         /\ Head(stack[t]).at \in DOMAIN Body[Current(t)]
         /\ Statement(t) = Body[Current(t)][Head(stack[t]).at]
         /\ Statement(t).kind = kind
         /\ Statement(t) \in Cells <=> kind \in {"detector", "builder"}
<1>1. pc[t] = "import" /\ Statement(t).kind = kind
  BY StatementType DEF Inv
<1>2. Head(stack[t]) \in Frame /\ Current(t) \in Modules
  BY <1>1, FrameType DEF Inv
<1>3. Body[Current(t)] \in Seq(Statements)
  BY <1>2, RegistryAssumption
<1>4. Head(stack[t]).at \in 1..Len(Body[Current(t)])
  BY <1>2, <1>3, LenProperties DEF AtStatement, Frame
<1>5. Head(stack[t]).at \in DOMAIN Body[Current(t)]
  BY <1>3, <1>4, LenProperties
<1> QED
  BY <1>1, <1>2, <1>5, StatementCell DEF Statement

\* A registration claims the cell of its statement, or raises because it is claimed.
LEMMA RegisterCell ==
  ASSUME Inv, NEW t \in Threads, register_detector(t) \/ register_kernel_builder(t)
  PROVE  /\ Statement(t) \in Cells /\ Statement(t).kind # "raise"
         /\ pc[t] = "import" /\ lock \in {t, NoThread} /\ UNCHANGED <<lock, user, interrupts>>
         /\ \/ /\ Owner(registry, Statement(t)) = NoModule
               /\ Owner(registry', Statement(t)) = Current(t)
               /\ \A c \in Cells : c # Statement(t) => Owner(registry', c) = Owner(registry, c)
               /\ registry'.loadFailures = registry.loadFailures
               /\ registry'.loaded = registry.loaded
               /\ Advance(t)
            \/ Owner(registry, Statement(t)) # NoModule /\ Raise(t)
<1>1. CASE register_detector(t)
  <2> DEFINE T == Statement(t).target
  <2>1. /\ AtStatement(t, "detector") /\ T \in Targets /\ Statement(t).kind = "detector"
        /\ pc[t] = "import" /\ Statement(t) \in Cells
    BY <1>1, StatementAt, StatementType DEF register_detector, Inv
  <2>2. Owner(registry, Statement(t)) = registry.detectors[T]
    BY <2>1 DEF Owner
  <2>3. CASE registry.detectors[T] = NoModule
    <3>1. registry' = [registry EXCEPT !.detectors[T] = Current(t)] /\ Advance(t)
      BY <1>1, <2>3 DEF register_detector
    <3>2. /\ registry'.detectors = [registry.detectors EXCEPT ![T] = Current(t)]
          /\ registry'.builders = registry.builders
          /\ registry'.loadFailures = registry.loadFailures
          /\ registry'.loaded = registry.loaded
      BY <3>1 DEF Inv, TypeOK, RegistryState
    <3>3. registry'.detectors[T] = Current(t)
          /\ \A V \in Targets \ {T} : registry'.detectors[V] = registry.detectors[V]
      BY <2>1, <3>2 DEF Inv, TypeOK, RegistryState
    <3>4. ASSUME NEW c \in Cells, c # Statement(t)
          PROVE  Owner(registry', c) = Owner(registry, c)
      <4>1. CASE c.kind = "detector"
        <5>1. c = [kind |-> "detector", target |-> c.target] /\ c.target \in Targets
          BY <4>1 DEF Cells
        <5>2. Statement(t) = [kind |-> "detector", target |-> T]
          BY <2>1 DEF Cells
        <5>3. c.target # T
          BY <3>4, <5>1, <5>2
        <5> QED
          BY <3>3, <4>1, <5>1, <5>3 DEF Owner
      <4>2. CASE c.kind # "detector"
        BY <3>2, <4>2 DEF Owner
      <4> QED
        BY <4>1, <4>2
    <3> QED
      BY <1>1, <2>1, <2>2, <2>3, <3>1, <3>2, <3>3, <3>4 DEF Owner, register_detector
  <2>4. CASE registry.detectors[T] # NoModule
    BY <1>1, <2>1, <2>2, <2>4 DEF register_detector
  <2> QED
    BY <2>3, <2>4
<1>2. CASE register_kernel_builder(t)
  <2> DEFINE cell == <<Statement(t).op, Statement(t).target>>
  <2>1. /\ AtStatement(t, "builder") /\ cell \in Ops \X Targets /\ Statement(t).kind = "builder"
        /\ pc[t] = "import" /\ Statement(t) \in Cells
    BY <1>2, StatementAt, StatementType DEF register_kernel_builder, Inv
  <2>2. Owner(registry, Statement(t)) = registry.builders[cell]
    BY <2>1 DEF Owner
  <2>3. CASE registry.builders[cell] = NoModule
    <3>1. registry' = [registry EXCEPT !.builders[cell] = Current(t)] /\ Advance(t)
      BY <1>2, <2>3 DEF register_kernel_builder
    <3>2. /\ registry'.builders = [registry.builders EXCEPT ![cell] = Current(t)]
          /\ registry'.detectors = registry.detectors
          /\ registry'.loadFailures = registry.loadFailures
          /\ registry'.loaded = registry.loaded
      <4> HIDE DEF cell
      <4> QED
        BY <3>1 DEF Inv, TypeOK, RegistryState
    <3>3. registry'.builders[cell] = Current(t)
          /\ \A d \in (Ops \X Targets) \ {cell} : registry'.builders[d] = registry.builders[d]
      <4> HIDE DEF cell
      <4> QED
        BY <2>1, <3>2 DEF Inv, TypeOK, RegistryState
    <3>4. ASSUME NEW c \in Cells, c # Statement(t)
          PROVE  Owner(registry', c) = Owner(registry, c)
      <4>1. CASE c.kind # "detector"
        <5>1. /\ c = [kind |-> "builder", op |-> c.op, target |-> c.target]
              /\ c.target \in Targets /\ c.op \in Ops
          BY <4>1 DEF Cells
        <5>2. Statement(t) = [kind |-> "builder", op |-> Statement(t).op,
                              target |-> Statement(t).target]
          BY <2>1 DEF Cells
        <5>3. <<c.op, c.target>> # cell
          BY <3>4, <5>1, <5>2
        <5> QED
          BY <3>3, <4>1, <5>1, <5>3 DEF Owner
      <4>2. CASE c.kind = "detector"
        BY <3>2, <4>2 DEF Owner
      <4> QED
        BY <4>1, <4>2
    <3> QED
      BY <1>2, <2>1, <2>2, <2>3, <3>1, <3>2, <3>3, <3>4 DEF Owner, register_kernel_builder
  <2>4. CASE registry.builders[cell] # NoModule
    BY <1>2, <2>1, <2>2, <2>4 DEF register_kernel_builder
  <2> QED
    BY <2>3, <2>4
<1> QED
  BY <1>1, <1>2

\* Unchanged tables, or tables with another default, have grown by nothing.
LEMMA SameGrown ==
  ASSUME NEW r, NEW q, q.detectors = r.detectors, q.builders = r.builders
  PROVE  /\ \A n : Grown(r, q, n)
         /\ SameCells(r, q)
         /\ NoModule \notin Entries
BY EntryModule DEF Grown, SameCells, Owner

\* Executing a module the program imports by itself.
LEMMA DirectExecute ==
  ASSUME Inv, BackendInv, SelfContained, NEW t \in Threads, ~load[t].active, Execute(t)
  PROVE  /\ BackendInv' /\ Aside
         /\ registry' = registry \/ register_detector(t) \/ register_kernel_builder(t)
<1>1. pc[t] = "import" /\ UNCHANGED <<lock, call, answer, interrupts>>
  BY ExecutePlace
<1>2. OnStack(t) \subseteq DirectModules /\ Current(t) \in DirectModules
  BY <1>1, AdvancedFrames DEF BackendInv, ThreadInv, OnceInv
<1>3. /\ Current(t) \notin Entries
      /\ \A i \in DOMAIN Body[Current(t)] : Body[Current(t)][i].kind # "import"
  BY <1>2 DEF SelfContained
<1>4. \A u \in Threads : load[u].active => u # t
  OBVIOUS
<1>5. ASSUME registry' = registry, load' = load,
             \A m \in Entries : sysModules'[m] = sysModules[m],
             \A u \in Threads \ {t} : pc'[u] = pc[u] /\ stack'[u] = stack[u],
             pc'[t] = "import" => {stack'[t][i].module : i \in DOMAIN stack'[t]} \subseteq OnStack(t)
      PROVE  BackendInv' /\ Aside
  <2>1. \A u \in Threads :
          /\ load'[u].active = load[u].active
          /\ load[u].active => load'[u] = load[u] /\ pc'[u] = pc[u] /\ stack'[u] = stack[u]
          /\ pc'[u] = "import" /\ ~load[u].active =>
               {stack'[u][i].module : i \in DOMAIN stack'[u]} \subseteq DirectModules
    <3> SUFFICES ASSUME NEW u \in Threads
                 PROVE  /\ load'[u].active = load[u].active
                        /\ load[u].active => load'[u] = load[u] /\ pc'[u] = pc[u] /\ stack'[u] = stack[u]
                        /\ pc'[u] = "import" /\ ~load[u].active =>
                             {stack'[u][i].module : i \in DOMAIN stack'[u]} \subseteq DirectModules
      OBVIOUS
    <3>1. CASE u = t
      BY <1>2, <1>5, <3>1
    <3>2. CASE u # t
      <4>1. pc'[u] = pc[u] /\ stack'[u] = stack[u] /\ load' = load
        BY <1>5, <3>2
      <4>2. pc[u] = "import" /\ ~load[u].active => OnStack(u) \subseteq DirectModules
        BY DEF BackendInv, ThreadInv, OnceInv
      <4> QED
        BY <4>1, <4>2 DEF OnStack
    <3> QED
      BY <3>1, <3>2
  <2>2. Grown(registry, registry', NoModule) /\ NoModule \notin Entries
    BY <1>5, SameGrown
  <2> QED
    BY <1>1, <1>5, <2>1, <2>2, QuietStep
<1>6. ASSUME Raise(t) PROVE BackendInv' /\ Aside /\ registry' = registry
  <2>1. /\ registry' = registry /\ load' = load /\ pc' = [pc EXCEPT ![t] = "idle"]
        /\ stack' = [stack EXCEPT ![t] = <<>>]
    BY <1>6 DEF Raise, Goto, Unwind
  <2>2. \A m \in Entries : sysModules'[m] = sysModules[m]
    <3> SUFFICES ASSUME NEW m \in Entries PROVE sysModules'[m] = sysModules[m]
      OBVIOUS
    <3>1. m \in Modules /\ m \notin OnStack(t)
      BY <1>2, EntryModule DEF SelfContained
    <3> QED
      BY <1>6, <3>1 DEF Raise, Unwind
  <2>3. /\ \A u \in Threads \ {t} : pc'[u] = pc[u] /\ stack'[u] = stack[u]
        /\ pc'[t] = "idle"
    BY <2>1 DEF Inv, TypeOK
  <2> QED
    BY <1>5, <2>1, <2>2, <2>3
<1>7. CASE register_detector(t) \/ register_kernel_builder(t)
  <2>1. CASE Raise(t)
    BY <1>6, <2>1
  <2>2. CASE ~Raise(t)
    <3>1. /\ lock \in {t, NoThread}
          /\ Owner(registry, Statement(t)) = NoModule
          /\ Owner(registry', Statement(t)) = Current(t)
          /\ \A c \in Cells : c # Statement(t) => Owner(registry', c) = Owner(registry, c)
          /\ registry'.loadFailures = registry.loadFailures
          /\ registry'.loaded = registry.loaded
          /\ Advance(t)
      BY <1>7, <2>2, RegisterCell
    <3>2. \A u \in Threads : ~load[u].active
      BY <3>1, SentinelAssumption DEF Inv, LockInv
    <3>3. Grown(registry, registry', Current(t))
      BY <3>1 DEF Grown
    <3>4. /\ stack' = [stack EXCEPT ![t] = Advanced(t)] /\ load' = load
          /\ sysModules' = sysModules /\ pc' = pc
      BY <3>1 DEF Advance
    <3>5. \A u \in Threads : pc'[u] = "import" /\ ~load[u].active =>
               {stack'[u][i].module : i \in DOMAIN stack'[u]} \subseteq DirectModules
      <4> SUFFICES ASSUME NEW u \in Threads, pc[u] = "import", ~load[u].active
                   PROVE  {stack'[u][i].module : i \in DOMAIN stack'[u]} \subseteq DirectModules
        BY <3>4
      <4>1. CASE u = t
        <5>1. stack'[t] = Advanced(t)
          BY <3>4 DEF Inv, TypeOK
        <5> QED
          BY <1>1, <1>2, <4>1, <5>1, AdvancedFrames
      <4>2. CASE u # t
        <5>1. stack'[u] = stack[u]
          BY <3>4, <4>2
        <5> QED
          BY <5>1 DEF BackendInv, ThreadInv, OnceInv, OnStack
      <4> QED
        BY <4>1, <4>2
    <3>6. BackendInv' /\ Aside
      BY <1>1, <1>3, <3>1, <3>2, <3>3, <3>4, <3>5, QuietStep
    <3> QED
      BY <1>7, <3>6
  <2> QED
    BY <2>1, <2>2
<1>8. CASE DefaultAtImport(t) \/ RaiseStatement(t)
  BY <1>6, <1>8 DEF DefaultAtImport, RaiseStatement
<1>9. CASE ImportStatement(t)
  <2>1. AtStatement(t, "import")
    BY <1>9 DEF ImportStatement
  <2> QED
    BY <1>3, <2>1, StatementAt
<1>10. CASE FinishModule(t)
  <2>1. /\ registry' = registry /\ load' = load
        /\ sysModules' = [sysModules EXCEPT ![Current(t)] = "imported"]
        /\ stack' = [stack EXCEPT ![t] = Tail(stack[t])]
        /\ pc' = pc \/ pc' = [pc EXCEPT ![t] = "idle"]
    BY <1>10 DEF FinishModule, Goto
  <2>2. \A m \in Entries : sysModules'[m] = sysModules[m]
    BY <1>3, <2>1
  <2>3. stack'[t] = Tail(stack[t])
    BY <2>1 DEF Inv, TypeOK
  <2>4. {stack'[t][i].module : i \in DOMAIN stack'[t]} \subseteq OnStack(t)
    BY <1>1, <2>3, AdvancedFrames
  <2>5. \A u \in Threads \ {t} : pc'[u] = pc[u] /\ stack'[u] = stack[u]
    BY <2>1 DEF Inv, TypeOK
  <2> QED
    BY <1>5, <2>1, <2>2, <2>4, <2>5
<1> QED
  BY <1>7, <1>8, <1>9, <1>10 DEF Execute

\* The other steps of threads that do not discover.
LEMMA OtherSteps ==
  ASSUME Inv, BackendInv, SelfContained, NEW t \in Threads,
         \/ Call(t) \/ DirectImport(t) \/ FastPath(t) \/ FoundLoaded(t) \/ Warn(t)
         \/ Read(t) \/ (Interrupt(t) /\ ~load[t].active)
  PROVE  /\ BackendInv' /\ Aside /\ SameCells(registry, registry')
         /\ registry' = registry \/ registry.loaded
<1>1. ~load[t].active
  <2>1. CASE Read(t)
    BY <2>1, ReadType DEF Inv, LockInv, Rolling
  <2>2. CASE ~Read(t)
    BY <2>2 DEF Call, DirectImport, Import, FastPath, FoundLoaded, Warn, Inv, LockInv, Rolling
  <2> QED
    BY <2>1, <2>2
<1>2. \A u \in Threads \ {t} : pc'[u] = pc[u] /\ stack'[u] = stack[u] /\ load'[u] = load[u]
  <2>1. /\ \E label : pc' = [pc EXCEPT ![t] = label]
        /\ UNCHANGED stack \/ \E s : stack' = [stack EXCEPT ![t] = s]
        /\ UNCHANGED load \/ \E l : load' = [load EXCEPT ![t] = l]
    <3>1. CASE Read(t)
      BY <3>1, ReadType
    <3>2. CASE DirectImport(t)
      BY <3>2 DEF DirectImport, Import, Goto
    <3>3. CASE Warn(t)
      BY <3>3 DEF Warn, Goto
    <3>4. CASE Call(t) \/ FastPath(t) \/ FoundLoaded(t)
      BY <3>4 DEF Call, FastPath, FoundLoaded, Goto
    <3>5. CASE Interrupt(t)
      BY <1>1, <3>5 DEF Interrupt, Unwind, Goto
    <3> QED
      BY <3>1, <3>2, <3>3, <3>4, <3>5
  <2> QED
    BY <2>1 DEF Inv, TypeOK
<1>3. load'[t].active = load[t].active
  <2>1. CASE Warn(t)
    BY <2>1 DEF Warn, Inv, TypeOK, LoadState
  <2>2. CASE Read(t)
    BY <2>2, ReadType
  <2>3. CASE ~Warn(t) /\ ~Read(t)
    BY <1>1, <2>3 DEF Call, DirectImport, Import, FastPath, FoundLoaded, Interrupt
  <2> QED
    BY <2>1, <2>2, <2>3
<1>4. /\ lock' = lock
      /\ registry'.detectors = registry.detectors /\ registry'.builders = registry.builders
      /\ registry'.loaded = registry.loaded /\ registry'.loadFailures = registry.loadFailures
      /\ registry' = registry \/ registry.loaded
  <2>1. CASE Read(t)
    <3>1. CASE StoreDefault(t)
      <4>1. pc[t] = "store" /\ lock' = lock /\ registry.loaded
        BY <3>1 DEF StoreDefault, Inv, LockInv, HalfBuiltHidden, Serving_labels
      <4>2. PICK d : registry' = [registry EXCEPT !.defaultTarget = d]
        BY <3>1 DEF StoreDefault
      <4> QED
        BY <4>1, <4>2 DEF Inv, TypeOK, RegistryState
    <3>2. CASE ~StoreDefault(t)
      BY <2>1, <3>2 DEF Read, select_target, RereadDefault, registered_kernel_builder,
                        load_failures, CheckDefault, Return, Reading
    <3> QED
      BY <3>1, <3>2
  <2>2. CASE ~Read(t)
    BY <1>1, <2>2 DEF Call, DirectImport, Import, FastPath, FoundLoaded, Interrupt, Warn
  <2> QED
    BY <2>1, <2>2
<1>5. \A m \in Entries : sysModules'[m] = sysModules[m]
  <2> SUFFICES ASSUME NEW m \in Entries PROVE sysModules'[m] = sysModules[m]
    OBVIOUS
  <2>1. CASE DirectImport(t)
    <3>1. PICK n \in DirectModules : Import(t, n, <<>>)
      BY <2>1 DEF DirectImport
    <3>2. n # m
      BY DEF SelfContained
    <3> QED
      BY <3>1, <3>2 DEF Import
  <2>2. CASE Interrupt(t)
    <3>1. pc[t] = "import" /\ OnStack(t) \subseteq DirectModules
      BY <1>1, <2>2 DEF Interrupt, Inv, LockInv, BackendInv, ThreadInv, OnceInv
    <3>2. m \in Modules /\ m \notin OnStack(t)
      BY <3>1, EntryModule DEF SelfContained
    <3> QED
      BY <2>2, <3>2 DEF Interrupt, Unwind
  <2>3. CASE ~DirectImport(t) /\ ~Interrupt(t)
    BY <2>3 DEF Call, FastPath, FoundLoaded, Warn, Read, select_target, RereadDefault,
                registered_kernel_builder, load_failures, CheckDefault, StoreDefault, Return, Reading
  <2> QED
    BY <2>1, <2>2, <2>3
<1>6. pc'[t] = "import" => {stack'[t][i].module : i \in DOMAIN stack'[t]} \subseteq DirectModules
  <2>1. CASE DirectImport(t)
    <3>1. PICK n \in DirectModules : Import(t, n, <<>>)
      BY <2>1 DEF DirectImport
    <3>2. stack'[t] = <<[module |-> n, at |-> 1]>> \o <<>>
      BY <3>1 DEF Import, Inv, TypeOK
    <3>3. stack'[t] = <<[module |-> n, at |-> 1]>>
      <4>1. <<[module |-> n, at |-> 1]>> \in Seq({[module |-> n, at |-> 1]})
        OBVIOUS
      <4> QED
        BY <3>2, <4>1, ConcatEmptySeq
    <3>4. \A i \in DOMAIN stack'[t] : stack'[t][i].module = n
      BY <3>3
    <3> QED
      BY <3>4
  <2>2. CASE ~DirectImport(t)
    <3>1. pc'[t] # "import"
      <4>1. CASE Read(t)
        BY <4>1, ReadType DEF Inv, TypeOK
      <4>2. CASE ~Read(t)
        BY <2>2, <4>2 DEF Call, FastPath, FoundLoaded, Warn, Interrupt, Goto, Inv, TypeOK
      <4> QED
        BY <4>1, <4>2
    <3> QED
      BY <3>1
  <2> QED
    BY <2>1, <2>2
<1>7. \A u \in Threads :
        /\ load'[u].active = load[u].active
        /\ load[u].active => load'[u] = load[u] /\ pc'[u] = pc[u] /\ stack'[u] = stack[u]
        /\ pc'[u] = "import" /\ ~load[u].active =>
             {stack'[u][i].module : i \in DOMAIN stack'[u]} \subseteq DirectModules
  <2> SUFFICES ASSUME NEW u \in Threads
               PROVE  /\ load'[u].active = load[u].active
                      /\ load[u].active => load'[u] = load[u] /\ pc'[u] = pc[u] /\ stack'[u] = stack[u]
                      /\ pc'[u] = "import" /\ ~load[u].active =>
                           {stack'[u][i].module : i \in DOMAIN stack'[u]} \subseteq DirectModules
    OBVIOUS
  <2>1. CASE u = t
    BY <1>1, <1>3, <1>6, <2>1
  <2>2. CASE u # t
    <3>1. pc[u] = "import" /\ ~load[u].active => OnStack(u) \subseteq DirectModules
      BY DEF BackendInv, ThreadInv, OnceInv
    <3> QED
      BY <1>2, <2>2, <3>1 DEF OnStack
  <2> QED
    BY <2>1, <2>2
<1>8. Grown(registry, registry', NoModule) /\ NoModule \notin Entries /\ SameCells(registry, registry')
  BY <1>4, SameGrown
<1>9. registry' = registry \/ \A u \in Threads : ~load[u].active
  BY <1>4, OneActive
<1> QED
  BY <1>4, <1>5, <1>7, <1>8, <1>9, QuietStep

\* What a thread outside discovery executes is imported by the program itself.
DirectFrames ==
    \A t \in Threads : pc[t] = "import" /\ ~load[t].active => OnStack(t) \subseteq DirectModules

\* A step of the discovering thread t: only what it touches is left to show.
LEMMA DiscoveryResumes ==
  ASSUME DirectFrames, NEW t \in Threads,
         \A u \in Threads : u # t => /\ ~load[u].active /\ load'[u] = load[u]
                                     /\ pc'[u] = pc[u] /\ stack'[u] = stack[u],
         \A j \in DOMAIN registry'.loadFailures : registry'.loadFailures[j] \in Entries,
         \A m \in Entries : ~(Trying(t)' /\ m = Loading(t)') => Decided(sysModules', registry', m),
         ThreadInv(t)',
         registry'.loaded => \A m \in Entries : Tried(sysModules', registry', m),
         MaxInterrupts = 0 => OnceInv'
  PROVE  BackendInv'
<1>1. ASSUME NEW u \in Threads, u # t PROVE ThreadInv(u)'
  <2>1. ~load'[u].active /\ pc'[u] = pc[u] /\ stack'[u] = stack[u] /\ ~load[u].active
    BY <1>1
  <2>2. pc[u] = "import" => OnStack(u) \subseteq DirectModules
    BY <2>1 DEF DirectFrames
  <2> QED
    BY <2>1, <2>2 DEF ThreadInv, Trying, OnStack
<1>2. \A u \in Threads : ThreadInv(u)'
  BY <1>1
<1>3. ASSUME NEW m \in Entries, \A u \in Threads : Trying(u)' => m # Loading(u)'
      PROVE  Decided(sysModules', registry', m)
  BY <1>3
<1> QED
  BY <1>2, <1>3 DEF BackendInv

LEMMA BackendFrames == BackendInv => DirectFrames
BY DEF BackendInv, ThreadInv, DirectFrames

LEMMA DiscoveryStep ==
  ASSUME BackendInv, NEW t \in Threads,
         \A u \in Threads : u # t => /\ ~load[u].active /\ load'[u] = load[u]
                                     /\ pc'[u] = pc[u] /\ stack'[u] = stack[u],
         \A j \in DOMAIN registry'.loadFailures : registry'.loadFailures[j] \in Entries,
         \A m \in Entries : ~(Trying(t)' /\ m = Loading(t)') => Decided(sysModules', registry', m),
         ThreadInv(t)',
         registry'.loaded => \A m \in Entries : Tried(sysModules', registry', m),
         MaxInterrupts = 0 => OnceInv'
  PROVE  BackendInv'
BY BackendFrames, DiscoveryResumes

\* The entry point being tried is one.
LEMMA LoadingEntry ==
  ASSUME Inv, NEW t \in Threads, load[t].active, pc[t] # "discover"
  PROVE  /\ Loading(t) \in Entries /\ load[t].entry \in DOMAIN EntryPoints
         /\ Loading(t) = EntryPoints[load[t].entry]
<1>1. load[t].entry \in Nat \ {0} /\ load[t].entry <= Len(EntryPoints)
  BY DEF Inv, TypeOK, LockInv, LoadState
<1>2. DOMAIN EntryPoints = 1..Len(EntryPoints) /\ Len(EntryPoints) \in Nat
  BY RegistryAssumption, LenProperties
<1> QED
  BY <1>1, <1>2 DEF Loading, Entries

\* While nothing is executed, every backend is decided.
LEMMA AllDecided ==
  ASSUME Inv, BackendInv, NEW t \in Threads, load[t].active \/ lock = NoThread, pc[t] # "import"
  PROVE  \A m \in Entries : Decided(sysModules, registry, m)
<1>1. \A u \in Threads : ~Trying(u)
  BY OneActive, SentinelAssumption DEF Trying, Inv, LockInv
<1> QED
  BY <1>1 DEF BackendInv

LEMMA BeginStep ==
  ASSUME Inv, BackendInv, NEW t \in Threads, BeginDiscovery(t)
  PROVE  BackendInv'
<1>1. /\ pc[t] = "acquire" /\ lock = NoThread /\ ~registry.loaded /\ lock' = t
      /\ pc' = [pc EXCEPT ![t] = "discover"] /\ registry' = registry /\ stack' = stack
      /\ sysModules' = sysModules
      /\ load' = [load EXCEPT ![t] = [load[t] EXCEPT !.active = TRUE, !.entry = 1, !.failed = <<>>]]
  BY DEF BeginDiscovery, Goto
<1>2. /\ \A u \in Threads : u # t => /\ ~load[u].active /\ load'[u] = load[u]
                                     /\ pc'[u] = pc[u] /\ stack'[u] = stack[u]
      /\ pc'[t] = "discover"
      /\ load'[t].active /\ load'[t].entry = 1
  BY <1>1, SentinelAssumption DEF Inv, LockInv, TypeOK, LoadState
<1>3. \A m \in Entries : Decided(sysModules', registry', m)
  BY <1>1, AllDecided
<1>4. \A i \in DOMAIN EntryPoints : ~(i < 1)
  BY RegistryAssumption, LenProperties
<1>5. MaxInterrupts = 0 => \A m : ~Listed(registry', m)
  BY <1>1 DEF BackendInv, OnceInv, Listed
<1>6. ThreadInv(t)'
  BY <1>2, <1>4, <1>5 DEF ThreadInv, Trying
<1>7. MaxInterrupts = 0 => OnceInv'
  BY <1>1, SentinelAssumption DEF BackendInv, OnceInv
<1> QED
  BY <1>1, <1>2, <1>3, <1>6, <1>7, DiscoveryStep DEF BackendInv

LEMMA PublishStep ==
  ASSUME Inv, BackendInv, NEW t \in Threads, Publish(t)
  PROVE  BackendInv'
<1>1. /\ pc[t] = "discover" /\ load[t].entry > Len(EntryPoints)
      /\ registry' = [registry EXCEPT !.loaded = TRUE]
      /\ pc' = [pc EXCEPT ![t] = "warn"] /\ stack' = stack /\ sysModules' = sysModules
      /\ load' = [load EXCEPT ![t] = [load[t] EXCEPT !.active = FALSE]]
  BY DEF Publish, Goto
<1>2. load[t].active /\ \A u \in Threads : u # t => ~load[u].active
  BY <1>1, OneActive DEF Inv, LockInv
<1>3. /\ \A u \in Threads : u # t => /\ ~load[u].active /\ load'[u] = load[u]
                                     /\ pc'[u] = pc[u] /\ stack'[u] = stack[u]
      /\ pc'[t] = "warn" /\ ~load'[t].active
      /\ registry'.loadFailures = registry.loadFailures
      /\ registry'.detectors = registry.detectors /\ registry'.builders = registry.builders
      /\ registry'.loaded
  BY <1>1, <1>2 DEF Inv, TypeOK, LoadState, RegistryState
<1>4. ASSUME NEW m \in Entries PROVE Decided(sysModules', registry', m)
  <2>1. Decided(sysModules, registry, m)
    BY <1>1, <1>2, AllDecided
  <2> QED
    BY <1>1, <1>3, <2>1, SameGrown, DecidedSame
<1>5. ASSUME NEW m \in Entries PROVE Tried(sysModules', registry', m)
  <2>1. PICK i \in DOMAIN EntryPoints : m = EntryPoints[i]
    BY DEF Entries
  <2>2. i < load[t].entry
    <3>1. DOMAIN EntryPoints = 1..Len(EntryPoints) /\ Len(EntryPoints) \in Nat
      BY RegistryAssumption, LenProperties
    <3>2. load[t].entry \in Nat
      BY DEF Inv, TypeOK, LoadState
    <3> QED
      BY <1>1, <3>1, <3>2
  <2>3. Tried(sysModules, registry, m)
    BY <1>2, <2>1, <2>2 DEF BackendInv, ThreadInv
  <2> QED
    BY <1>1, <1>3, <2>3 DEF Tried, Listed
<1>6. ThreadInv(t)'
  BY <1>3 DEF ThreadInv, Trying
<1>7. MaxInterrupts = 0 => OnceInv'
  BY <1>3 DEF BackendInv, OnceInv
<1> QED
  BY <1>3, <1>4, <1>5, <1>6, <1>7, DiscoveryStep DEF BackendInv

LEMMA NextEntryStep ==
  ASSUME Inv, BackendInv, NEW t \in Threads, NextEntryPoint(t)
  PROVE  BackendInv'
<1>1. /\ pc[t] = "discover" /\ registry' = registry /\ lock' = lock
      /\ pc' = [pc EXCEPT ![t] = "load"] /\ stack' = stack /\ sysModules' = sysModules
      /\ load' = [load EXCEPT ![t] = [load[t] EXCEPT !.checkpoint = registry]]
  BY DEF NextEntryPoint, Goto
<1>2. load[t].active /\ \A u \in Threads : u # t => ~load[u].active
  BY <1>1, OneActive DEF Inv, LockInv
<1>3. /\ \A u \in Threads : u # t => /\ ~load[u].active /\ load'[u] = load[u]
                                     /\ pc'[u] = pc[u] /\ stack'[u] = stack[u]
      /\ pc'[t] = "load" /\ load'[t].active /\ load'[t].checkpoint = registry
      /\ load'[t].entry = load[t].entry
  BY <1>1, <1>2 DEF Inv, TypeOK, LoadState
<1>4. \A m \in Entries : Decided(sysModules', registry', m)
  BY <1>1, <1>2, AllDecided
<1>5. ThreadInv(t)'
  BY <1>1, <1>2, <1>3 DEF BackendInv, ThreadInv, Trying
<1>6. MaxInterrupts = 0 => OnceInv'
  BY <1>1 DEF BackendInv, OnceInv
<1> QED
  BY <1>1, <1>3, <1>4, <1>5, <1>6, DiscoveryStep DEF BackendInv

LEMMA LoadCachedStep ==
  ASSUME Inv, BackendInv, NEW t \in Threads, LoadCached(t)
  PROVE  BackendInv'
<1>1. /\ pc[t] = "load" /\ registry' = registry /\ lock' = lock
      /\ sysModules[Loading(t)] = "imported"
      /\ pc' = [pc EXCEPT ![t] = "discover"] /\ stack' = stack /\ sysModules' = sysModules
      /\ load' = [load EXCEPT ![t] = [load[t] EXCEPT !.entry = load[t].entry + 1]]
  BY DEF LoadCached, Goto
<1>2. load[t].active /\ \A u \in Threads : u # t => ~load[u].active
  BY <1>1, OneActive DEF Inv, LockInv
<1>3. /\ \A u \in Threads : u # t => /\ ~load[u].active /\ load'[u] = load[u]
                                     /\ pc'[u] = pc[u] /\ stack'[u] = stack[u]
      /\ pc'[t] = "discover" /\ load'[t].active
      /\ load'[t].entry = load[t].entry + 1 /\ load[t].entry \in Nat
  BY <1>1, <1>2 DEF Inv, TypeOK, LoadState
<1>4. \A m \in Entries : Decided(sysModules', registry', m)
  BY <1>1, <1>2, AllDecided
<1>5. ASSUME NEW i \in DOMAIN EntryPoints
      PROVE  /\ i < load'[t].entry => Tried(sysModules', registry', EntryPoints[i])
             /\ MaxInterrupts = 0 /\ i >= load'[t].entry => ~Listed(registry', EntryPoints[i])
  <2>1. /\ i < load[t].entry => Tried(sysModules, registry, EntryPoints[i])
        /\ MaxInterrupts = 0 /\ i >= load[t].entry => ~Listed(registry, EntryPoints[i])
    BY <1>2 DEF BackendInv, ThreadInv
  <2>2. i \in Nat
    BY RegistryAssumption, LenProperties
  <2>3. i = load[t].entry => Tried(sysModules, registry, EntryPoints[i])
    BY <1>1 DEF Tried, Loading
  <2> QED
    BY <1>1, <1>3, <2>1, <2>2, <2>3
<1>6. ThreadInv(t)'
  BY <1>3, <1>5 DEF ThreadInv, Trying
<1>7. MaxInterrupts = 0 => OnceInv'
  BY <1>1 DEF BackendInv, OnceInv
<1> QED
  BY <1>1, <1>3, <1>4, <1>6, <1>7, DiscoveryStep DEF BackendInv

LEMMA LoadStep ==
  ASSUME Inv, BackendInv, NEW t \in Threads, Load(t)
  PROVE  BackendInv'
<1> DEFINE m == Loading(t)
<1>1. /\ pc[t] = "load" /\ registry' = registry /\ lock' = lock /\ load' = load
      /\ sysModules[m] = "absent"
      /\ sysModules' = [sysModules EXCEPT ![m] = "importing"]
      /\ pc' = [pc EXCEPT ![t] = "import"]
      /\ stack' = [stack EXCEPT ![t] = <<[module |-> m, at |-> 1]>> \o <<>>]
  BY DEF Load, Import, Goto, user
<1>2. load[t].active /\ \A u \in Threads : u # t => ~load[u].active
  BY <1>1, OneActive DEF Inv, LockInv
<1>3. m \in Entries /\ m \in Modules /\ load[t].checkpoint = registry
  BY <1>1, <1>2, LoadingEntry, EntryModule DEF BackendInv, ThreadInv
<1>4. stack'[t] = <<[module |-> m, at |-> 1]>>
  <2>1. <<[module |-> m, at |-> 1]>> \in Seq({[module |-> m, at |-> 1]})
    OBVIOUS
  <2> QED
    BY <1>1, <2>1, ConcatEmptySeq DEF Inv, TypeOK
<1>5. /\ \A u \in Threads : u # t => /\ ~load[u].active /\ load'[u] = load[u]
                                     /\ pc'[u] = pc[u] /\ stack'[u] = stack[u]
      /\ pc'[t] = "import" /\ load'[t] = load[t]
      /\ Loading(t)' = m /\ Trying(t)'
  BY <1>1, <1>2 DEF Inv, TypeOK, Trying, Loading
<1>6. Len(stack'[t]) = 1 /\ Current(t)' = m /\ Head(stack'[t]).at = 1
  BY <1>4 DEF Current
<1>7. sysModules'[m] = "importing" /\ \A n \in Entries : n # m => sysModules'[n] = sysModules[n]
  BY <1>1, <1>3 DEF Inv, TypeOK
<1>8. \A n \in Entries : Decided(sysModules, registry, n)
  BY <1>1, <1>2, AllDecided
<1>9. ASSUME NEW n \in Entries, n # m PROVE Decided(sysModules', registry, n)
  <2>1. Decided(sysModules, registry, n)
    BY <1>8
  <2> QED
    BY <1>7, <1>9, <2>1, SameGrown, DecidedSame
<1>10. Underway(sysModules', registry, registry, m, 1)
  BY <1>1, <1>3, <1>7, <1>8, StartUnderway
<1>11. ASSUME NEW n \in Entries, Tried(sysModules, registry, n)
       PROVE  Tried(sysModules', registry', n)
  BY <1>1, <1>7, <1>11 DEF Tried
<1>12. \A i \in DOMAIN EntryPoints : EntryPoints[i] \in Entries
  BY DEF Entries
<1>13. ThreadInv(t)'
  BY <1>1, <1>2, <1>3, <1>5, <1>6, <1>9, <1>10, <1>11, <1>12 DEF BackendInv, ThreadInv
<1>14. MaxInterrupts = 0 => OnceInv'
  BY <1>1 DEF BackendInv, OnceInv
<1>15. ~registry.loaded
  BY <1>2, OneActive
<1> QED
  BY <1>1, <1>5, <1>9, <1>13, <1>14, <1>15, DiscoveryStep DEF BackendInv

\* What is known of the backend that discovery is executing.
LEMMA TryingBackend ==
  ASSUME Inv, BackendInv, NEW t \in Threads, Trying(t)
  PROVE  /\ load[t].active /\ pc[t] = "import"
         /\ Loading(t) \in Entries /\ Loading(t) \in Modules
         /\ load[t].entry \in DOMAIN EntryPoints /\ Loading(t) = EntryPoints[load[t].entry]
         /\ \A u \in Threads : u # t => ~load[u].active
         /\ lock = t /\ ~registry.loaded
         /\ Len(stack[t]) = 1 /\ Current(t) = Loading(t) /\ Head(stack[t]).at \in Nat
         /\ Underway(sysModules, load[t].checkpoint, registry, Loading(t), Head(stack[t]).at)
         /\ \A m \in Entries : m # Loading(t) =>
              /\ Decided(sysModules, load[t].checkpoint, m)
              /\ Decided(sysModules, registry, m)
<1>1. /\ load[t].active /\ pc[t] = "import"
      /\ \A u \in Threads : u # t => ~load[u].active
      /\ lock = t /\ ~registry.loaded
  BY OneActive DEF Trying
<1>2. ASSUME NEW m \in Entries, m # Loading(t) PROVE Decided(sysModules, registry, m)
  BY <1>1, <1>2 DEF BackendInv, Trying
<1>3. Head(stack[t]).at \in Nat
  BY <1>1, AdvancedFrames
<1> QED
  BY <1>1, <1>2, <1>3, LoadingEntry, EntryModule DEF BackendInv, ThreadInv

\* Its frame is the only one.
LEMMA OneFrame ==
  ASSUME Inv, NEW t \in Threads, pc[t] = "import", Len(stack[t]) = 1
  PROVE  OnStack(t) = {Current(t)}
<1>1. stack[t] \in Seq(Frame) /\ stack[t] # <<>> /\ DOMAIN stack[t] = {1}
  BY FrameType, LenProperties DEF Inv
<1>2. Head(stack[t]) = stack[t][1]
  BY <1>1
<1> QED
  BY <1>1, <1>2 DEF OnStack, Current

\* It executes a statement that does not fail.
LEMMA AdvanceStep ==
  ASSUME Inv, BackendInv, NEW t \in Threads, Trying(t), Advance(t), lock' = lock,
         NEW at, at = Head(stack[t]).at, NEW m, m = Loading(t),
         at \in DOMAIN Body[m], Body[m][at].kind # "raise",
         registry'.loadFailures = registry.loadFailures,
         registry'.loaded = registry.loaded,
         \/ /\ Body[m][at] \in Cells
            /\ Owner(registry, Body[m][at]) = NoModule /\ Owner(registry', Body[m][at]) = m
            /\ \A c \in Cells : c # Body[m][at] => Owner(registry', c) = Owner(registry, c)
         \/ Body[m][at] \notin Cells /\ SameCells(registry, registry')
  PROVE  BackendInv'
<1>1. /\ load[t].active /\ pc[t] = "import" /\ m \in Entries /\ ~registry.loaded
      /\ \A u \in Threads : u # t => ~load[u].active
      /\ Underway(sysModules, load[t].checkpoint, registry, m, at)
      /\ Current(t) = m /\ Len(stack[t]) = 1
      /\ \A n \in Entries : n # m => /\ Decided(sysModules, load[t].checkpoint, n)
                                     /\ Decided(sysModules, registry, n)
  BY TryingBackend
<1>2. /\ stack' = [stack EXCEPT ![t] = Advanced(t)]
      /\ load' = load /\ sysModules' = sysModules /\ pc' = pc
  BY DEF Advance
<1>3. /\ \A u \in Threads : u # t => /\ ~load[u].active /\ load'[u] = load[u]
                                     /\ pc'[u] = pc[u] /\ stack'[u] = stack[u]
      /\ stack'[t] = Advanced(t) /\ Loading(t)' = m /\ Trying(t)'
  BY <1>1, <1>2 DEF Inv, TypeOK, Trying, Loading
<1>4. Len(stack'[t]) = 1 /\ Current(t)' = m /\ Head(stack'[t]).at = at + 1
  BY <1>1, <1>3, AdvancedFrames DEF Current
<1>5. Underway(sysModules, load[t].checkpoint, registry', m, at + 1) /\ Grown(registry, registry', m)
  BY <1>1, UnderwayStep
<1>6. ASSUME NEW n \in Entries, n # m PROVE Decided(sysModules', registry', n)
  <2>1. Decided(sysModules, registry, n) /\ n # NoModule
    BY <1>1, <1>6, EntryModule
  <2> QED
    BY <1>2, <1>5, <1>6, <2>1, DecidedGrown
<1>7. \A n : (Listed(registry', n) <=> Listed(registry, n))
             /\ (Tried(sysModules', registry', n) <=> Tried(sysModules, registry, n))
  BY <1>2 DEF Listed, Tried
<1>8. ThreadInv(t)'
  BY <1>1, <1>2, <1>3, <1>4, <1>5, <1>7 DEF BackendInv, ThreadInv
<1>9. MaxInterrupts = 0 => OnceInv'
  BY DEF BackendInv, OnceInv
<1> QED
  BY <1>1, <1>3, <1>6, <1>8, <1>9, DiscoveryStep DEF BackendInv

\* It reached its end.
LEMMA FinishStep ==
  ASSUME Inv, BackendInv, NEW t \in Threads, Trying(t), FinishModule(t)
  PROVE  BackendInv'
<1> DEFINE m == Loading(t)
           at == Head(stack[t]).at
<1>1. /\ load[t].active /\ pc[t] = "import" /\ m \in Entries /\ ~registry.loaded
      /\ load[t].entry \in DOMAIN EntryPoints /\ m = EntryPoints[load[t].entry]
      /\ \A u \in Threads : u # t => ~load[u].active
      /\ Underway(sysModules, load[t].checkpoint, registry, m, at)
      /\ Current(t) = m /\ Len(stack[t]) = 1 /\ at \in Nat /\ m \in Modules
      /\ \A n \in Entries : n # m => Decided(sysModules, registry, n)
  BY TryingBackend
<1>2. /\ registry' = registry /\ lock' = lock
      /\ sysModules' = [sysModules EXCEPT ![m] = "imported"]
      /\ stack' = [stack EXCEPT ![t] = Tail(stack[t])]
      /\ at > Len(Body[m])
      /\ pc' = [pc EXCEPT ![t] = "discover"]
      /\ load' = [load EXCEPT ![t] = [load[t] EXCEPT !.entry = load[t].entry + 1]]
  BY <1>1 DEF FinishModule, Goto
<1>3. /\ \A u \in Threads : u # t => /\ ~load[u].active /\ load'[u] = load[u]
                                     /\ pc'[u] = pc[u] /\ stack'[u] = stack[u]
      /\ pc'[t] = "discover" /\ load'[t].active /\ load'[t].entry = load[t].entry + 1
      /\ load[t].entry \in Nat
      /\ sysModules'[m] = "imported"
      /\ \A n \in Entries : n # m => sysModules'[n] = sysModules[n]
  BY <1>1, <1>2 DEF Inv, TypeOK, LoadState
<1>4. MaxInterrupts = 0 => ~Listed(registry, m)
  BY <1>1, <1>3 DEF BackendInv, ThreadInv
<1>5. ASSUME NEW n \in Entries PROVE Decided(sysModules', registry', n)
  <2>1. CASE n = m
    <3> HIDE DEF m, at
    <3>1. Decided(sysModules', registry, m)
      BY <1>1, <1>2, <1>3, <1>4, UnderwayEnds
    <3> QED
      BY <1>2, <2>1, <3>1
  <2>2. CASE n # m
    <3>1. Decided(sysModules, registry, n)
      BY <1>1, <2>2
    <3> QED
      BY <1>2, <1>3, <2>2, <3>1, SameGrown, DecidedSame
  <2> QED
    BY <2>1, <2>2
<1>6. ASSUME NEW i \in DOMAIN EntryPoints
      PROVE  /\ i < load'[t].entry => Tried(sysModules', registry', EntryPoints[i])
             /\ MaxInterrupts = 0 /\ i >= load'[t].entry => ~Listed(registry', EntryPoints[i])
  <2>1. /\ i < load[t].entry => Tried(sysModules, registry, EntryPoints[i])
        /\ MaxInterrupts = 0 /\ i >= load[t].entry => ~Listed(registry, EntryPoints[i])
    BY <1>1 DEF BackendInv, ThreadInv
  <2>2. i \in Nat /\ EntryPoints[i] \in Entries
    BY RegistryAssumption, LenProperties DEF Entries
  <2>3. i = load[t].entry => Tried(sysModules', registry', EntryPoints[i])
    BY <1>1, <1>3 DEF Tried
  <2>4. Tried(sysModules, registry, EntryPoints[i]) => Tried(sysModules', registry', EntryPoints[i])
    BY <1>2, <1>3, <2>2 DEF Tried
  <2> QED
    BY <1>2, <1>3, <2>1, <2>2, <2>3, <2>4
<1>7. ThreadInv(t)'
  BY <1>3, <1>6 DEF ThreadInv, Trying
<1>8. MaxInterrupts = 0 => OnceInv'
  BY <1>2 DEF BackendInv, OnceInv
<1> QED
  BY <1>1, <1>2, <1>3, <1>5, <1>7, <1>8, DiscoveryStep DEF BackendInv

-----------------------------------------------------------------------------
(* While a backend is rolled back: the invariant is about the checkpoint.  *)

\* What the program imports by itself imports nothing.
DirectLeaves == \A m \in DirectModules : \A i \in DOMAIN Body[m] : Body[m][i].kind # "import"
\* A module the program imports executes no module but itself.
LEMMA DirectFramesStep ==
  ASSUME Inv, DirectLeaves, DirectFrames, [Next]_vars
  PROVE  DirectFrames'
<1>1. ASSUME NEW u \in Threads, pc'[u] = pc[u], stack'[u] = stack[u],
             load'[u].active = load[u].active
      PROVE  pc'[u] = "import" /\ ~load'[u].active => OnStack(u)' \subseteq DirectModules
  BY <1>1 DEF DirectFrames, OnStack
<1>2. ASSUME NEW t \in Threads, Execute(t)
      PROVE  DirectFrames'
  <2>1. /\ pc[t] = "import" /\ \A u \in Threads : load'[u].active = load[u].active
        /\ \A u \in Threads : u # t => pc'[u] = pc[u]
    <3>1. \A u \in Threads : load'[u].active = load[u].active
      BY <1>2, ExecuteEffect
    <3>2. /\ pc[t] = "import"
          /\ UNCHANGED pc \/ \E label : pc' = [pc EXCEPT ![t] = label]
      BY <1>2, ExecutePlace
    <3> QED
      BY <3>1, <3>2 DEF Inv, TypeOK
  <2>2. /\ \A u \in Threads : u # t => stack'[u] = stack[u]
        /\ \/ stack'[t] = Advanced(t)
           \/ stack'[t] = <<>>
           \/ stack'[t] = Tail(stack[t])
           \/ AtStatement(t, "import")
    <3>1. ASSUME Raise(t) PROVE stack' = [stack EXCEPT ![t] = <<>>]
      BY <3>1 DEF Raise, Unwind
    <3>2. \/ stack' = [stack EXCEPT ![t] = Advanced(t)]
          \/ stack' = [stack EXCEPT ![t] = <<>>]
          \/ stack' = [stack EXCEPT ![t] = Tail(stack[t])]
          \/ /\ AtStatement(t, "import")
             /\ stack' = [stack EXCEPT ![t] =
                            <<[module |-> Statement(t).module, at |-> 1]>> \o Advanced(t)]
      <4>1. CASE register_detector(t)
        BY <3>1, <4>1 DEF register_detector, Advance
      <4>2. CASE register_kernel_builder(t)
        BY <3>1, <4>2 DEF register_kernel_builder, Advance
      <4>3. CASE DefaultAtImport(t)
        BY <3>1, <4>3 DEF DefaultAtImport, Advance
      <4>4. CASE ImportStatement(t)
        BY <4>4 DEF ImportStatement, Import, Advance
      <4>5. CASE RaiseStatement(t)
        BY <3>1, <4>5 DEF RaiseStatement
      <4>6. CASE FinishModule(t)
        BY <4>6 DEF FinishModule
      <4> QED
        BY <1>2, <4>1, <4>2, <4>3, <4>4, <4>5, <4>6 DEF Execute
    <3> QED
      BY <3>2 DEF Inv, TypeOK
  <2>3. ASSUME ~load[t].active
        PROVE  {stack'[t][i].module : i \in DOMAIN stack'[t]} \subseteq DirectModules
    <3>1. OnStack(t) \subseteq DirectModules /\ Current(t) \in DirectModules
      BY <2>1, <2>3, AdvancedFrames DEF DirectFrames
    <3>2. ~AtStatement(t, "import")
      BY <3>1, StatementAt DEF DirectLeaves
    <3>3. CASE stack'[t] = Advanced(t)
      BY <2>1, <3>1, <3>3, AdvancedFrames
    <3>4. CASE stack'[t] = Tail(stack[t])
      BY <2>1, <3>1, <3>4, AdvancedFrames
    <3>5. CASE stack'[t] = <<>>
      BY <3>5
    <3> QED
      BY <2>2, <3>2, <3>3, <3>4, <3>5
  <2> QED
    BY <1>1, <2>1, <2>2, <2>3 DEF DirectFrames, OnStack
<1>3. ASSUME NEW t \in Threads, DirectImport(t)
      PROVE  DirectFrames'
  <2>1. PICK n \in DirectModules : Import(t, n, <<>>)
    BY <1>3 DEF DirectImport
  <2>2. /\ stack' = [stack EXCEPT ![t] = <<[module |-> n, at |-> 1]>> \o <<>>]
        /\ pc' = [pc EXCEPT ![t] = "import"] /\ load' = load
    BY <2>1 DEF Import, Goto
  <2>3. stack'[t] = <<[module |-> n, at |-> 1]>>
    <3>1. <<[module |-> n, at |-> 1]>> \in Seq({[module |-> n, at |-> 1]})
      OBVIOUS
    <3> QED
      BY <2>2, <3>1, ConcatEmptySeq DEF Inv, TypeOK
  <2>4. \A i \in DOMAIN stack'[t] : stack'[t][i].module = n
    BY <2>3
  <2>5. \A u \in Threads : u # t => pc'[u] = pc[u] /\ stack'[u] = stack[u]
    BY <2>2 DEF Inv, TypeOK
  <2> QED
    BY <1>1, <2>2, <2>4, <2>5 DEF DirectFrames, OnStack
<1>4. ASSUME NEW t \in Threads, Call(t) \/ Interrupt(t) \/ Discover(t) \/ Read(t)
      PROVE  DirectFrames'
  <2>1. \A u \in Threads : u # t => /\ pc'[u] = pc[u] /\ stack'[u] = stack[u]
                                    /\ load'[u].active = load[u].active
    <3>1. CASE Read(t)
      BY <3>1, ReadType DEF Inv, TypeOK
    <3>2. CASE Call(t)
      BY <3>2 DEF Call, Goto, Inv, TypeOK
    <3>3. CASE Interrupt(t)
      BY <3>3 DEF Interrupt, Unwind, Goto, Inv, TypeOK
    <3>4. CASE Discover(t)
      <4>1. /\ \E label : pc' = [pc EXCEPT ![t] = label]
            /\ UNCHANGED stack \/ \E s : stack' = [stack EXCEPT ![t] = s]
            /\ UNCHANGED load \/ \E l : load' = [load EXCEPT ![t] = l]
        <5>1. CASE FastPath(t) \/ FoundLoaded(t) \/ Warn(t)
          BY <5>1 DEF FastPath, FoundLoaded, Warn, Goto
        <5>2. CASE Publish(t) \/ NextEntryPoint(t) \/ LoadCached(t)
          BY <5>2 DEF Publish, NextEntryPoint, LoadCached, Goto
        <5>3. CASE BeginDiscovery(t)
          <6>1. load' = [load EXCEPT ![t] =
                          [load[t] EXCEPT !.active = TRUE, !.entry = 1, !.failed = <<>>]]
            BY <5>3 DEF BeginDiscovery
          <6> QED
            BY <5>3, <6>1 DEF BeginDiscovery, Goto
        <5>4. CASE Load(t)
          BY <5>4 DEF Load, Import, Goto
        <5> QED
          BY <3>4, <5>1, <5>2, <5>3, <5>4 DEF Discover
      <4> QED
        BY <4>1 DEF Inv, TypeOK
    <3> QED
      BY <1>4, <3>1, <3>2, <3>3, <3>4
  <2>2. pc'[t] # "import" \/ load'[t].active
    <3>1. CASE Read(t)
      BY <3>1, ReadType DEF Inv, TypeOK
    <3>2. CASE Load(t)
      BY <3>2 DEF Load, Import, Inv, LockInv
    <3>3. CASE ~Read(t) /\ ~Load(t)
      BY <1>4, <3>3 DEF Call, Interrupt, Discover, FastPath, BeginDiscovery, FoundLoaded, Publish,
                        Warn, NextEntryPoint, LoadCached, Goto, Inv, TypeOK
    <3> QED
      BY <3>1, <3>2, <3>3
  <2> QED
    BY <1>1, <2>1, <2>2 DEF DirectFrames
<1>5. CASE UNCHANGED vars
  BY <1>5 DEF vars, DirectFrames, OnStack
<1>6. ASSUME NEW t \in Threads, Undo(t)
      PROVE  DirectFrames'
  <2>1. /\ stack' = stack /\ \A u \in Threads : u # t => pc'[u] = pc[u] /\ load'[u] = load[u]
        /\ pc'[t] # "import"
    <3>1. /\ UNCHANGED stack /\ Rolling(t)
          /\ UNCHANGED pc \/ pc' = [pc EXCEPT ![t] = "discover"] \/ pc' = [pc EXCEPT ![t] = "idle"]
          /\ \A u \in Threads \ {t} : load'[u] = load[u]
      BY <1>6, UndoEffect
    <3> QED
      BY <3>1 DEF Rolling, Inv, TypeOK
  <2> QED
    BY <1>1, <2>1 DEF DirectFrames
<1> QED
  BY <1>2, <1>3, <1>4, <1>5, <1>6 DEF Next, Step

\* While thread t rolls back: the tables it goes back to decide every backend, the one that
\* failed is out and would fail again, and the entry points before it were tried.
RollbackInv(t) ==
    LET saved == load[t].checkpoint
    IN /\ DirectFrames
       /\ registry.loadFailures = saved.loadFailures
       /\ \A j \in DOMAIN saved.loadFailures : saved.loadFailures[j] \in Entries
       /\ \A m \in Entries : Decided(sysModules, saved, m)
       /\ \A i \in DOMAIN EntryPoints :
            /\ i < load[t].entry => Tried(sysModules, saved, EntryPoints[i])
            /\ MaxInterrupts = 0 /\ i >= load[t].entry => ~Listed(saved, EntryPoints[i])
       /\ MaxInterrupts = 0 =>
            \A i, j \in DOMAIN saved.loadFailures :
              saved.loadFailures[i] = saved.loadFailures[j] => i = j
       /\ pc[t] = "rollback" => /\ sysModules[Loading(t)] = "absent"
                                /\ MaxInterrupts # 0 => Barred(saved, Loading(t))
       /\ pc[t] = "abandon" => MaxInterrupts # 0

\* The backends are decided in the tables, or in those a rollback goes back to.
BackendsInv ==
    /\ (\A t \in Threads : ~Rolling(t)) => BackendInv
    /\ \A t \in Threads : Rolling(t) => RollbackInv(t)

\* Only a thread in discovery begins to roll back.
LEMMA StartsRolling ==
  ASSUME Inv, [Next]_vars, NEW t \in Threads, ~Rolling(t), Rolling(t)'
  PROVE  load[t].active /\ (Execute(t) \/ Interrupt(t))
<1> USE DEF Inv
<1>1. ASSUME NEW u \in Threads, Execute(u) PROVE u = t /\ load[t].active
  <2>1. /\ pc[u] = "import"
        /\ UNCHANGED pc \/ \E label : pc' = [pc EXCEPT ![u] = label]
    BY <1>1, ExecutePlace
  <2>2. u = t
    BY <2>1 DEF Rolling, TypeOK
  <2>3. pc'[t] = "rollback" \/ pc'[t] = "abandon"
    BY DEF Rolling
  <2> QED
    BY <1>1, <2>1, <2>2, <2>3, ExecutePlace DEF TypeOK
<1>2. ASSUME NEW u \in Threads, Interrupt(u) PROVE u = t /\ load[t].active
  BY <1>2 DEF Interrupt, Goto, Rolling, TypeOK, LoadState
<1>3. ASSUME NEW u \in Threads, Read(u) PROVE FALSE
  BY <1>3, ReadType DEF Rolling, TypeOK
<1>4. ASSUME NEW u \in Threads, Undo(u) PROVE FALSE
  BY <1>4, UndoEffect DEF Rolling, TypeOK
<1>5. ASSUME NEW u \in Threads, Call(u) \/ DirectImport(u) \/ Discover(u) PROVE FALSE
  BY <1>5 DEF Call, DirectImport, Discover, FastPath, BeginDiscovery, FoundLoaded,
       Publish, Warn, NextEntryPoint, LoadCached, Load, Import, Goto, Rolling, TypeOK
<1>6. ~UNCHANGED vars
  BY DEF vars, Rolling
<1> QED
  BY <1>1, <1>2, <1>3, <1>4, <1>5, <1>6 DEF Next, Step

\* One thread rolls back at a time.
LEMMA OneRolling ==
  ASSUME Inv', NEW t \in Threads, Rolling(t)'
  PROVE  \A u \in Threads : Rolling(u)' => u = t
BY SentinelAssumption DEF Inv, LockInv, TypeOK

\* Meanwhile the other threads execute no entry point.
LEMMA EntriesRest ==
  ASSUME Inv, SelfContained, DirectFrames, NEW t \in Threads, Rolling(t), [Next]_vars
  PROVE  \A m \in Entries : sysModules'[m] = sysModules[m]
<1> USE DEF Inv
<1> SUFFICES ASSUME NEW m \in Entries PROVE sysModules'[m] = sysModules[m]
  OBVIOUS
<1>1. m \in Modules /\ m \notin DirectModules
  BY EntryModule DEF SelfContained
<1>2. /\ lock = t /\ ~registry.loaded
      /\ \A u \in Threads : u # t => ~load[u].active /\ pc[u] \notin {"discover", "load"}
  BY UndoUnpublished, SentinelAssumption DEF LockInv
<1>3. ASSUME NEW u \in Threads, Unwind(u), pc[u] = "import", u # t
      PROVE  sysModules'[m] = sysModules[m]
  <2>1. m \notin OnStack(u)
    BY <1>1, <1>2, <1>3 DEF DirectFrames
  <2> QED
    BY <1>1, <1>3, <2>1 DEF Unwind
<1>4. ASSUME NEW u \in Threads, Execute(u)
      PROVE  sysModules'[m] = sysModules[m]
  <2>1. u # t /\ pc[u] = "import" /\ ~load[u].active
    BY <1>2, <1>4, ExecutePlace DEF Rolling
  <2>2. Current(u) \in DirectModules
    BY <2>1, AdvancedFrames DEF DirectFrames
  <2>3. ~AtStatement(u, "import")
    BY <2>2, StatementAt DEF SelfContained
  <2>4. CASE FinishModule(u)
    BY <1>1, <2>2, <2>4 DEF FinishModule, TypeOK
  <2>5. CASE Raise(u)
    BY <1>3, <2>1, <2>5 DEF Raise
  <2>6. CASE ~FinishModule(u) /\ ~Raise(u)
    BY <1>4, <2>3, <2>6 DEF Execute, register_detector, register_kernel_builder, DefaultAtImport,
         ImportStatement, RaiseStatement, Advance
  <2> QED
    BY <2>4, <2>5, <2>6
<1>5. ASSUME NEW u \in Threads, DirectImport(u)
      PROVE  sysModules'[m] = sysModules[m]
  BY <1>1, <1>5 DEF DirectImport, Import, TypeOK
<1>6. ASSUME NEW u \in Threads, Interrupt(u)
      PROVE  sysModules'[m] = sysModules[m]
  <2>1. u # t /\ pc[u] = "import"
    BY <1>2, <1>6 DEF Interrupt, Rolling
  <2> QED
    BY <1>3, <1>6, <2>1 DEF Interrupt
<1>7. ASSUME NEW u \in Threads, Discover(u)
      PROVE  sysModules' = sysModules
  <2>1. ~Load(u)
    BY <1>2 DEF Load, Rolling
  <2> QED
    BY <1>7, <2>1 DEF Discover, FastPath, BeginDiscovery, FoundLoaded, Publish, Warn,
         NextEntryPoint, LoadCached
<1>8. ASSUME NEW u \in Threads, Call(u) \/ Read(u) \/ Undo(u)
      PROVE  sysModules' = sysModules
  BY <1>8 DEF Call, Read, select_target, RereadDefault, registered_kernel_builder,
       load_failures, CheckDefault, StoreDefault, Return, Reading, Undo, restore,
       RecordFailure, Abandon
<1>9. CASE UNCHANGED vars
  BY <1>9 DEF vars
<1> QED
  BY <1>4, <1>5, <1>6, <1>7, <1>8, <1>9 DEF Next, Step

\* So a rollback under way keeps what it goes back to.
LEMMA RollbackKept ==
  ASSUME Inv, SelfContained, NEW t \in Threads, Rolling(t), RollbackInv(t), [Next]_vars,
         restore(t) \/ ~Undo(t)
  PROVE  RollbackInv(t)' /\ Rolling(t)' /\ \A u \in Threads : Rolling(u)' => u = t
<1>1. /\ load'[t].checkpoint = load[t].checkpoint /\ load'[t].entry = load[t].entry
      /\ pc'[t] = pc[t]
  <2>1. CASE Undo(t)
    <3>1. ~RecordFailure(t) /\ ~Abandon(t)
      BY <2>1 DEF restore, RecordFailure, Abandon, Assignments
    <3> QED
      BY <2>1, <3>1, UndoEffect
  <2> QED
    BY <2>1, TablesRest
<1>2. \A m \in Entries : sysModules'[m] = sysModules[m]
  BY EntriesRest DEF RollbackInv
<1>3. DirectFrames'
  BY DirectFramesStep DEF RollbackInv, SelfContained, DirectLeaves
<1>4. /\ Loading(t)' = Loading(t) /\ Loading(t) \in Entries
      /\ \A i \in DOMAIN EntryPoints : EntryPoints[i] \in Entries
  <2>1. load[t].active /\ pc[t] # "discover"
    BY UndoUnpublished DEF Rolling
  <2> QED
    BY <1>1, <2>1, LoadingEntry DEF Loading, Entries
<1>5. ASSUME NEW m \in Entries PROVE Decided(sysModules', load[t].checkpoint, m)
  BY <1>2, <1>5, DecidedSame DEF RollbackInv, SameCells
<1>6. ASSUME NEW m \in Entries, Tried(sysModules, load[t].checkpoint, m)
      PROVE  Tried(sysModules', load[t].checkpoint, m)
  BY <1>2, <1>6 DEF Tried
<1>11. registry'.loadFailures = load[t].checkpoint.loadFailures
  <2>1. CASE Undo(t)
    <3>1. restore(t) /\ load[t].restored + 1 \in 1..Assignments
      <4>1. ~RecordFailure(t) /\ ~Abandon(t)
        BY <2>1 DEF restore, RecordFailure, Abandon, Assignments
      <4> QED
        BY <2>1, <4>1, UndoEffect
    <3> DEFINE n == load[t].restored + 1
    <3>2. /\ registry' = Restored(registry, load[t].checkpoint, n)
          /\ registry \in RegistryState
          /\ n \in 1..Assignments /\ registry.loadFailures = load[t].checkpoint.loadFailures
      BY <3>1 DEF restore, Inv, TypeOK, RollbackInv
    <3> HIDE DEF n
    <3>3. n = 1 \/ n = 2 \/ n = 3 \/ n = 4 \/ n = 5 \/ n = 6 \/ n = 7
      BY <3>2 DEF Assignments
    <3> QED
      BY <3>2, <3>3 DEF Restored, RegistryState
  <2>2. CASE ~Undo(t)
    BY <2>2, TablesRest DEF RollbackInv
  <2> QED
    BY <2>1, <2>2
<1>7. RollbackInv(t)'
  BY <1>1, <1>2, <1>3, <1>4, <1>5, <1>6, <1>11 DEF RollbackInv
<1>8. Rolling(t)'
  BY <1>1 DEF Rolling
<1>9. \A u \in Threads : u # t => ~load[u].active /\ ~Rolling(u)
  BY UndoUnpublished, SentinelAssumption DEF Inv, LockInv
<1>10. \A u \in Threads : Rolling(u)' => u = t
  BY <1>9, StartsRolling
<1> QED
  BY <1>7, <1>8, <1>10

-----------------------------------------------------------------------------
(* The backend that failed, and the interrupt.                             *)

\* It failed: discovery begins to roll back.
LEMMA FailStep ==
  ASSUME Inv, BackendInv, NEW t \in Threads, Trying(t), Raise(t), [Next]_vars, SelfContained,
         NEW at, at = Head(stack[t]).at, NEW m, m = Loading(t), at \in DOMAIN Body[m],
         MaxInterrupts # 0 =>
           \/ Body[m][at].kind = "raise"
           \/ Body[m][at] \in Cells /\ Owner(registry, Body[m][at]) # NoModule
  PROVE  RollbackInv(t)' /\ pc'[t] = "rollback"
<1> DEFINE r0 == load[t].checkpoint
<1>1. /\ load[t].active /\ pc[t] = "import" /\ m \in Entries /\ m \in Modules
      /\ Underway(sysModules, r0, registry, m, at)
      /\ Current(t) = m /\ Len(stack[t]) = 1
      /\ \A n \in Entries : n # m => Decided(sysModules, r0, n)
  BY TryingBackend
<1>2. /\ sysModules' = [n \in Modules |-> IF n \in OnStack(t) THEN "absent" ELSE sysModules[n]]
      /\ pc'[t] = "rollback" /\ load'[t].checkpoint = r0 /\ load'[t].entry = load[t].entry
      /\ registry' = registry
  BY <1>1 DEF Raise, Unwind, Goto, Inv, TypeOK, LoadState
<1>3. OnStack(t) = {m}
  BY <1>1, OneFrame
<1>4. /\ sysModules'[m] = "absent"
      /\ \A n \in Entries : n # m => sysModules'[n] = sysModules[n]
  BY <1>1, <1>2, <1>3, EntryModule
<1>5. SameCells(r0, r0) /\ Loading(t)' = m
  BY <1>2 DEF SameCells, Loading
<1>6. DirectFrames'
  BY BackendFrames, DirectFramesStep DEF SelfContained, DirectLeaves
<1> HIDE DEF r0
<1>7. ASSUME NEW n \in Entries PROVE Decided(sysModules', r0, n)
  <2>1. CASE n = m
    BY <1>1, <1>4, <1>5, <2>1, UnderwayInterrupted
  <2>2. CASE n # m
    BY <1>1, <1>4, <1>5, <2>2, DecidedSame
  <2> QED
    BY <2>1, <2>2
<1>8. MaxInterrupts # 0 => Barred(r0, m)
  BY <1>1, <1>5, UnderwayBarred
<1>9. registry.loadFailures = r0.loadFailures /\ \A n : Listed(r0, n) <=> Listed(registry, n)
  BY <1>1 DEF Underway, Listed
<1>10. \A j \in DOMAIN r0.loadFailures : r0.loadFailures[j] \in Entries
  BY <1>9 DEF BackendInv
<1>11. ASSUME NEW i \in DOMAIN EntryPoints
       PROVE  /\ i < load[t].entry => Tried(sysModules', r0, EntryPoints[i])
              /\ MaxInterrupts = 0 /\ i >= load[t].entry => ~Listed(r0, EntryPoints[i])
  <2>1. /\ i < load[t].entry => Tried(sysModules, registry, EntryPoints[i])
        /\ MaxInterrupts = 0 /\ i >= load[t].entry => ~Listed(registry, EntryPoints[i])
    BY <1>1 DEF BackendInv, ThreadInv
  <2>2. EntryPoints[i] \in Entries
    BY DEF Entries
  <2>3. sysModules[m] = "importing"
    BY <1>1 DEF Underway
  <2>4. Tried(sysModules, registry, EntryPoints[i]) => Tried(sysModules', r0, EntryPoints[i])
    BY <1>4, <1>9, <2>2, <2>3 DEF Tried
  <2> QED
    BY <1>9, <2>1, <2>4
<1>12. MaxInterrupts = 0 => \A i, j \in DOMAIN r0.loadFailures :
                              r0.loadFailures[i] = r0.loadFailures[j] => i = j
  BY <1>9 DEF BackendInv, OnceInv
<1> QED
  BY <1>2, <1>4, <1>5, <1>6, <1>7, <1>8, <1>9, <1>10, <1>11, <1>12 DEF RollbackInv, r0

\* An interrupt takes the whole discovery back to its last checkpoint.
LEMMA InterruptStep ==
  ASSUME Inv, BackendInv, SelfContained, NEW t \in Threads, load[t].active, Interrupt(t),
         [Next]_vars
  PROVE  RollbackInv(t)' /\ pc'[t] = "abandon"
<1> DEFINE r0 == load[t].checkpoint
<1>1. /\ pc[t] \in {"load", "import"} /\ interrupts < MaxInterrupts
      /\ sysModules' = [n \in Modules |-> IF n \in OnStack(t) THEN "absent" ELSE sysModules[n]]
      /\ pc'[t] = "abandon" /\ load'[t].checkpoint = r0 /\ load'[t].entry = load[t].entry
      /\ registry' = registry
  BY DEF Interrupt, Unwind, Goto, Inv, TypeOK, LoadState
<1>2. MaxInterrupts # 0
  BY <1>1, RegistryAssumption DEF Inv, TypeOK
<1>3. r0.loadFailures = registry.loadFailures /\ \A n : Listed(r0, n) <=> Listed(registry, n)
  <2>1. CASE pc[t] = "load"
    BY <2>1 DEF BackendInv, ThreadInv
  <2>2. CASE pc[t] = "import"
    BY <2>2, TryingBackend DEF Trying, Underway, Listed
  <2> QED
    BY <1>1, <2>1, <2>2
<1>4. SameCells(r0, r0)
  BY DEF SameCells
<1>5. DirectFrames'
  BY BackendFrames, DirectFramesStep DEF SelfContained, DirectLeaves
<1> HIDE DEF r0
<1>6. ASSUME NEW n \in Entries
      PROVE  /\ Decided(sysModules', r0, n)
             /\ sysModules[n] = "imported" => sysModules'[n] = "imported"
  <2>1. CASE pc[t] = "load"
    <3>1. Decided(sysModules, r0, n)
      BY <2>1, AllDecided DEF BackendInv, ThreadInv, r0
    <3>2. OnStack(t) = {}
      <4>1. stack[t] = <<>>
        BY <2>1 DEF Inv, TypeOK
      <4> QED
        BY <4>1 DEF OnStack
    <3>3. sysModules'[n] = sysModules[n]
      BY <1>1, <3>2, EntryModule
    <3> QED
      BY <1>4, <3>1, <3>3, DecidedSame
  <2>2. CASE pc[t] = "import"
    <3> DEFINE m == Loading(t)
    <3>1. /\ m \in Entries /\ m \in Modules
          /\ Underway(sysModules, r0, registry, m, Head(stack[t]).at)
          /\ Current(t) = m /\ Len(stack[t]) = 1
          /\ \A x \in Entries : x # m => Decided(sysModules, r0, x)
      BY <2>2, TryingBackend DEF Trying, r0
    <3>2. OnStack(t) = {m}
      BY <2>2, <3>1, OneFrame
    <3> HIDE DEF m
    <3>3. CASE n = m
      <4>1. sysModules'[m] = "absent" /\ sysModules[m] = "importing"
        BY <1>1, <3>1, <3>2 DEF Underway
      <4>2. Decided(sysModules', r0, m)
        BY <1>4, <3>1, <4>1, UnderwayInterrupted
      <4> QED
        BY <3>3, <4>1, <4>2
    <3>4. CASE n # m
      <4>1. sysModules'[n] = sysModules[n] /\ Decided(sysModules, r0, n)
        BY <1>1, <3>1, <3>2, <3>4, EntryModule
      <4> QED
        BY <1>4, <4>1, DecidedSame
    <3> QED
      BY <3>3, <3>4
  <2> QED
    BY <1>1, <2>1, <2>2
<1>7. \A j \in DOMAIN r0.loadFailures : r0.loadFailures[j] \in Entries
  BY <1>3 DEF BackendInv
<1>8. ASSUME NEW i \in DOMAIN EntryPoints, i < load[t].entry
      PROVE  Tried(sysModules', r0, EntryPoints[i])
  <2>1. Tried(sysModules, registry, EntryPoints[i]) /\ EntryPoints[i] \in Entries
    BY <1>8 DEF BackendInv, ThreadInv, Entries
  <2> QED
    BY <1>3, <1>6, <2>1 DEF Tried
<1> QED
  BY <1>1, <1>2, <1>3, <1>5, <1>6, <1>7, <1>8 DEF RollbackInv, r0

\* The tables are back: the failed backend is out, and listed.
LEMMA RecordStep ==
  ASSUME Inv, RolledInv, SelfContained, NEW t \in Threads, Rolling(t), RollbackInv(t),
         RecordFailure(t)
  PROVE  BackendInv'
<1> DEFINE r0 == load[t].checkpoint
           m == Loading(t)
<1>1. Undo(t) /\ pc[t] = "rollback"
  BY DEF Undo, RecordFailure
<1>2. ~restore(t) /\ ~Abandon(t)
  BY DEF RecordFailure, restore, Abandon, Assignments
<1>3. /\ UNCHANGED <<sysModules, stack, lock>> /\ load[t].active
      /\ registry'.loaded = FALSE
      /\ \A u \in Threads \ {t} : load'[u] = load[u]
      /\ load'[t].active /\ pc' = [pc EXCEPT ![t] = "discover"]
      /\ load'[t].entry = load[t].entry + 1 /\ load[t].restored = Assignments
      /\ m \in Modules
      /\ registry'.loadFailures = Append(registry.loadFailures, m)
      /\ registry'.detectors = registry.detectors
      /\ registry'.builders = registry.builders
  BY <1>1, <1>2, UndoEffect
<1>4. registry = r0
  BY <1>3, RolledEnd
<1>5. /\ lock = t /\ \A u \in Threads : u # t => ~load[u].active
      /\ m \in Entries /\ load[t].entry \in DOMAIN EntryPoints /\ m = EntryPoints[load[t].entry]
      /\ load[t].entry \in Nat
  BY <1>1, <1>3, OneActive, LoadingEntry DEF Inv, TypeOK, LoadState
<1>6. /\ \A u \in Threads : u # t => /\ ~load[u].active /\ load'[u] = load[u]
                                     /\ pc'[u] = pc[u] /\ stack'[u] = stack[u]
      /\ pc'[t] = "discover"
  BY <1>3, <1>5 DEF Inv, TypeOK
<1>7. SameCells(registry, registry') /\ registry \in RegistryState
  BY <1>3, SameGrown DEF Inv, TypeOK
<1>8. sysModules[m] = "absent" /\ (MaxInterrupts # 0 => Barred(registry, m))
  BY <1>1, <1>4 DEF RollbackInv
<1> HIDE DEF m
<1>9. \A n : Listed(registry', n) <=> Listed(registry, n) \/ n = m
  BY <1>3, <1>7, ListedMore
<1>10. ASSUME NEW n \in Entries PROVE Decided(sysModules', registry', n)
  <2>1. Decided(sysModules, registry, n)
    BY <1>4 DEF RollbackInv
  <2>2. CASE n = m
    <3>1. Clean(registry, m)
      BY <1>8, <2>1, <2>2 DEF Decided
    <3>2. Clean(registry', m) /\ (Barred(registry, m) => Barred(registry', m))
      BY <1>7, <3>1 DEF Clean, Barred, SameCells
    <3> QED
      BY <1>3, <1>8, <2>2, <3>2 DEF Decided
  <2>3. CASE n # m
    BY <1>3, <1>7, <2>1, <2>3, DecidedMore
  <2> QED
    BY <2>2, <2>3
<1>11. ASSUME NEW i \in DOMAIN EntryPoints
      PROVE  /\ i < load'[t].entry => Tried(sysModules', registry', EntryPoints[i])
             /\ MaxInterrupts = 0 /\ i >= load'[t].entry => ~Listed(registry', EntryPoints[i])
  <2>1. /\ i < load[t].entry => Tried(sysModules, registry, EntryPoints[i])
        /\ MaxInterrupts = 0 /\ i >= load[t].entry => ~Listed(registry, EntryPoints[i])
    BY <1>4 DEF RollbackInv
  <2>2. i \in Nat
    BY RegistryAssumption, LenProperties
  <2>3. EntryPoints[i] = m => i = load[t].entry
    BY <1>5 DEF SelfContained
  <2>4. Tried(sysModules, registry, EntryPoints[i]) => Tried(sysModules', registry', EntryPoints[i])
    BY <1>3, <1>9 DEF Tried
  <2>5. i = load[t].entry => Tried(sysModules', registry', EntryPoints[i])
    BY <1>5, <1>9 DEF Tried
  <2> QED
    BY <1>3, <1>5, <1>9, <2>1, <2>2, <2>3, <2>4, <2>5
<1>12. ThreadInv(t)'
  BY <1>3, <1>6, <1>11 DEF ThreadInv, Trying
<1>13. \A j \in DOMAIN registry'.loadFailures :
         \/ j \in DOMAIN registry.loadFailures /\ registry'.loadFailures[j] = registry.loadFailures[j]
         \/ j = Len(registry.loadFailures) + 1 /\ registry'.loadFailures[j] = m
  <2> DEFINE f == registry.loadFailures
             g == registry'.loadFailures
  <2>1. f \in Seq(Modules) /\ m \in Modules /\ g = Append(f, m)
    BY <1>3, <1>7 DEF RegistryState
  <2> HIDE DEF f, g
  <2>2. /\ Len(f) \in Nat /\ DOMAIN f = 1..Len(f) /\ DOMAIN g = 1..(Len(f) + 1)
        /\ \A j \in 1..Len(f) : g[j] = f[j]
        /\ g[Len(f) + 1] = m
    BY <2>1, FailuresMore
  <2>3. \A j \in DOMAIN g : (j \in DOMAIN f /\ g[j] = f[j]) \/ (j = Len(f) + 1 /\ g[j] = m)
    BY <2>2
  <2> QED
    BY <2>3 DEF f, g
<1>14. \A j \in DOMAIN registry'.loadFailures : registry'.loadFailures[j] \in Entries
  BY <1>4, <1>5, <1>13 DEF RollbackInv
<1>15. ASSUME MaxInterrupts = 0 PROVE OnceInv'
  <2>1. ~Listed(registry, m)
    BY <1>4, <1>5, <1>15 DEF RollbackInv
  <2>2. \A i, j \in DOMAIN registry.loadFailures :
          registry.loadFailures[i] = registry.loadFailures[j] => i = j
    BY <1>4, <1>15 DEF RollbackInv
  <2>3. \A i, j \in DOMAIN registry'.loadFailures :
          registry'.loadFailures[i] = registry'.loadFailures[j] => i = j
    BY <1>13, <2>1, <2>2 DEF Listed
  <2>4. lock' = t /\ t # NoThread
    BY <1>3, <1>5, SentinelAssumption
  <2> QED
    BY <2>3, <2>4 DEF OnceInv
<1>16. DirectFrames
  BY DEF RollbackInv
<1> QED
  BY <1>3, <1>6, <1>10, <1>12, <1>14, <1>15, <1>16, DiscoveryResumes

\* Interrupted: out, with the tables as they were before the entry point.
LEMMA AbandonStep ==
  ASSUME Inv, RolledInv, NEW t \in Threads, Rolling(t), RollbackInv(t), Abandon(t)
  PROVE  BackendInv'
<1>1. Undo(t) /\ pc[t] = "abandon"
  BY DEF Undo, Abandon
<1>2. ~restore(t) /\ ~RecordFailure(t)
  BY DEF RecordFailure, restore, Abandon, Assignments
<1>3. /\ UNCHANGED <<sysModules, stack, registry>> /\ load[t].active
      /\ \A u \in Threads \ {t} : load'[u] = load[u]
      /\ ~load'[t].active /\ pc' = [pc EXCEPT ![t] = "idle"]
      /\ load[t].restored = Assignments
  BY <1>1, <1>2, UndoEffect
<1>4. registry = load[t].checkpoint
  BY <1>3, RolledEnd
<1>5. ~registry.loaded /\ \A u \in Threads : u # t => ~load[u].active
  BY <1>3, OneActive
<1>6. /\ \A u \in Threads : u # t => /\ ~load[u].active /\ load'[u] = load[u]
                                     /\ pc'[u] = pc[u] /\ stack'[u] = stack[u]
      /\ pc'[t] = "idle"
  BY <1>3, <1>5 DEF Inv, TypeOK
<1>7. \A m \in Entries : Decided(sysModules', registry', m)
  BY <1>3, <1>4 DEF RollbackInv
<1>8. ThreadInv(t)'
  BY <1>3, <1>6 DEF ThreadInv, Trying
<1>9. MaxInterrupts # 0 /\ DirectFrames
  BY <1>1 DEF RollbackInv
<1>10. \A j \in DOMAIN registry'.loadFailures : registry'.loadFailures[j] \in Entries
  BY <1>3, <1>4 DEF RollbackInv
<1> QED
  BY <1>3, <1>5, <1>6, <1>7, <1>8, <1>9, <1>10, DiscoveryResumes

-----------------------------------------------------------------------------
(* All or nothing, and one line per backend.                               *)

\* Discovery executes one statement of a backend, or its end.
LEMMA TryStep ==
  ASSUME Inv, BackendInv, SelfContained, Repeatable, NEW t \in Threads, load[t].active, Execute(t),
         [Next]_vars
  PROVE  \/ BackendInv' /\ pc'[t] # "rollback"
         \/ RollbackInv(t)' /\ pc'[t] = "rollback"
<1> DEFINE m == Loading(t)
           at == Head(stack[t]).at
<1>1. Trying(t) /\ lock' = lock
  BY ExecutePlace DEF Trying
<1>2. m \in Entries /\ Current(t) = m
  BY <1>1, TryingBackend
<1>9. ASSUME Advance(t) PROVE pc'[t] # "rollback"
  BY <1>1, <1>9 DEF Advance, Trying
<1>3. ASSUME NEW kind, AtStatement(t, kind)
      PROVE  /\ at \in DOMAIN Body[m] /\ Statement(t) = Body[m][at] /\ Body[m][at].kind = kind
             /\ Body[m][at] \in Cells <=> kind \in {"detector", "builder"}
             /\ kind # "import"
             /\ kind = "default" => MaxInterrupts = 0
  <2>1. /\ at \in DOMAIN Body[m] /\ Statement(t) = Body[m][at] /\ Body[m][at].kind = kind
        /\ Body[m][at] \in Cells <=> kind \in {"detector", "builder"}
    BY <1>2, <1>3, StatementAt
  <2> QED
    BY <1>2, <2>1 DEF SelfContained, Repeatable
<1>4. CASE register_detector(t) \/ register_kernel_builder(t)
  <2>1. AtStatement(t, "detector") \/ AtStatement(t, "builder")
    BY <1>4 DEF register_detector, register_kernel_builder
  <2>2. at \in DOMAIN Body[m] /\ Statement(t) = Body[m][at] /\ Body[m][at] \in Cells
        /\ Body[m][at].kind # "raise"
    BY <1>3, <2>1
  <2>3. CASE Raise(t) /\ Owner(registry, Statement(t)) # NoModule
    BY <1>1, <2>2, <2>3, FailStep
  <2>4. CASE ~(Raise(t) /\ Owner(registry, Statement(t)) # NoModule)
    <3>1. /\ Owner(registry, Statement(t)) = NoModule
          /\ Owner(registry', Statement(t)) = Current(t)
          /\ \A c \in Cells : c # Statement(t) => Owner(registry', c) = Owner(registry, c)
          /\ registry'.loadFailures = registry.loadFailures
          /\ registry'.loaded = registry.loaded
          /\ Advance(t)
      BY <1>4, <2>4, RegisterCell
    <3> QED
      BY <1>1, <1>2, <1>9, <2>2, <3>1, AdvanceStep
  <2> QED
    BY <2>3, <2>4
<1>5. CASE DefaultAtImport(t)
  <2>1. at \in DOMAIN Body[m] /\ Body[m][at].kind = "default" /\ MaxInterrupts = 0
        /\ Body[m][at] \notin Cells
    BY <1>3, <1>5 DEF DefaultAtImport
  <2>2. CASE Raise(t)
    BY <1>1, <2>1, <2>2, FailStep
  <2>3. CASE ~Raise(t)
    <3>1. registry' = [registry EXCEPT !.defaultTarget = Statement(t).target] /\ Advance(t)
      BY <1>5, <2>3 DEF DefaultAtImport
    <3>2. PICK d : registry' = [registry EXCEPT !.defaultTarget = d]
      BY <3>1
    <3>3. /\ registry'.detectors = registry.detectors /\ registry'.builders = registry.builders
          /\ registry'.loadFailures = registry.loadFailures /\ registry'.loaded = registry.loaded
      BY <3>2 DEF Inv, TypeOK, RegistryState
    <3> QED
      BY <1>1, <1>9, <2>1, <3>1, <3>3, SameGrown, AdvanceStep
  <2> QED
    BY <2>2, <2>3
<1>6. CASE ImportStatement(t)
  BY <1>3, <1>6 DEF ImportStatement
<1>7. CASE RaiseStatement(t)
  <2>1. at \in DOMAIN Body[m] /\ Body[m][at].kind = "raise" /\ Raise(t)
    BY <1>3, <1>7 DEF RaiseStatement
  <2> QED
    BY <1>1, <2>1, FailStep
<1>8. CASE FinishModule(t)
  <2>1. pc'[t] # "rollback"
    BY <1>1, <1>8 DEF FinishModule, Goto, Trying, Inv, TypeOK
  <2> QED
    BY <1>1, <1>8, <2>1, FinishStep
<1> QED
  BY <1>4, <1>5, <1>6, <1>7, <1>8 DEF Execute

LEMMA BackendStep ==
  ASSUME SelfContained, Repeatable, Inv, Inv', RolledInv, BackendsInv, [Next]_vars
  PROVE  BackendsInv'
<1> DEFINE Quiet == \A u \in Threads : ~Rolling(u)'
<1>1. ASSUME NEW t \in Threads, Rolling(t) PROVE BackendsInv'
  <2>1. RollbackInv(t)
    BY <1>1 DEF BackendsInv
  <2>2. CASE restore(t) \/ ~Undo(t)
    BY <1>1, <2>1, <2>2, RollbackKept DEF BackendsInv
  <2>3. CASE RecordFailure(t) \/ Abandon(t)
    <3>1. BackendInv'
      BY <1>1, <2>1, <2>3, RecordStep, AbandonStep
    <3>2. Quiet
      <4>1. \A u \in Threads : u # t => ~Rolling(u)
        BY <1>1, UndoUnpublished, OneActive
      <4>2. ~Rolling(t)'
        BY <2>3 DEF RecordFailure, Abandon, Goto, Rolling, Inv, TypeOK
      <4>3. ASSUME NEW u \in Threads, u # t, Rolling(u)' PROVE FALSE
        BY <1>1, <4>1, <4>3, StartsRolling, UndoUnpublished, OneActive
      <4> QED
        BY <4>2, <4>3
    <3> QED
      BY <3>1, <3>2 DEF BackendsInv
  <2> QED
    BY <2>2, <2>3 DEF Undo
<1>2. CASE \A t \in Threads : ~Rolling(t)
  <2>1. BackendInv
    BY <1>2 DEF BackendsInv
  <2>2. ASSUME NEW t \in Threads, Rolling(t)', RollbackInv(t)' PROVE BackendsInv'
    <3>1. \A u \in Threads : Rolling(u)' => u = t
      BY <2>2, OneRolling
    <3> QED
      BY <2>2, <3>1 DEF BackendsInv
  <2>3. ASSUME BackendInv', \A t \in Threads : ~(load[t].active /\ (Execute(t) \/ Interrupt(t)))
        PROVE  BackendsInv'
    <3>1. Quiet
      BY <1>2, <2>3, StartsRolling
    <3> QED
      BY <2>3, <3>1 DEF BackendsInv
  <2>4. ASSUME NEW t \in Threads, load[t].active, Execute(t) \/ Interrupt(t)
        PROVE  BackendsInv'
    <3>1. CASE RollbackInv(t)' /\ pc'[t] \in {"rollback", "abandon"}
      BY <2>2, <3>1 DEF Rolling
    <3>2. CASE BackendInv' /\ pc'[t] # "rollback" /\ Execute(t)
      <4>1. ~Rolling(t)'
        BY <3>2, ExecutePlace DEF Rolling, Inv, TypeOK
      <4>2. \A u \in Threads : u # t => ~Rolling(u)'
        BY <1>2, <2>4, StartsRolling, OneActive
      <4> QED
        BY <3>2, <4>1, <4>2 DEF BackendsInv
    <3> QED
      BY <2>1, <2>4, <3>1, <3>2, TryStep, InterruptStep
  <2>5. ASSUME UNCHANGED vars PROVE BackendInv'
    <3>1. /\ registry' = registry /\ lock' = lock /\ load' = load /\ sysModules' = sysModules
          /\ stack' = stack /\ pc' = pc
      BY <2>5 DEF vars
    <3>2. Grown(registry, registry', NoModule) /\ NoModule \notin Entries
      BY <3>1, SameGrown
    <3>3. \A u \in Threads : pc[u] = "import" /\ ~load[u].active =>
            {stack[u][i].module : i \in DOMAIN stack[u]} \subseteq DirectModules
      BY <2>1 DEF BackendInv, ThreadInv, OnStack
    <3> QED
      BY <2>1, <3>1, <3>2, <3>3, QuietStep
  <2>6. ASSUME Next, \A t \in Threads : ~(load[t].active /\ (Execute(t) \/ Interrupt(t)))
        PROVE  BackendInv'
    <3>1. PICK t \in Threads : Call(t) \/ DirectImport(t) \/ Interrupt(t) \/ Step(t)
      BY <2>6 DEF Next
    <3>2. CASE Execute(t)
      BY <2>1, <2>6, <3>2, DirectExecute
    <3>3. CASE Interrupt(t)
      BY <2>1, <2>6, <3>3, OtherSteps
    <3>4. CASE \/ Call(t) \/ DirectImport(t) \/ FastPath(t) \/ FoundLoaded(t) \/ Warn(t) \/ Read(t)
      BY <2>1, <3>4, OtherSteps
    <3>5. CASE \/ BeginDiscovery(t) \/ Publish(t) \/ NextEntryPoint(t) \/ LoadCached(t) \/ Load(t)
      BY <2>1, <3>5, BeginStep, PublishStep, NextEntryStep, LoadCachedStep, LoadStep
    <3>6. ~Undo(t)
      BY <1>2, UndoEffect
    <3> QED
      BY <3>1, <3>2, <3>3, <3>4, <3>5, <3>6 DEF Step, Discover
  <2> QED
    BY <2>3, <2>4, <2>5, <2>6
<1> QED
  BY <1>1, <1>2

LEMMA BackendsInit == Init => BackendsInv
<1> SUFFICES ASSUME Init PROVE BackendsInv
  OBVIOUS
<1>1. \A t \in Threads : ~Rolling(t)
  BY DEF Init, Rolling
<1> QED
  BY <1>1, BackendInit DEF BackendsInv

\* Every backend that nobody is executing is in or out at every moment, through every retry
\* and concurrent import; while a rollback is under way, in the tables it goes back to.
THEOREM BackendsDecided ==
  ASSUME SelfContained, Repeatable
  PROVE  Spec => []BackendsInv
<1>1. Inv /\ [Next]_vars => Inv'
  BY TypeStep, LockStep DEF Inv
<1>2. Inv /\ RolledInv /\ [Next]_vars => RolledInv'
  BY RolledInvStep
<1>3. Init => RolledInv
  BY DEF Init, RolledInv, Rolling
<1>4. Inv /\ Inv' /\ RolledInv /\ BackendsInv /\ [Next]_vars => BackendsInv'
  BY BackendStep
<1> QED
  BY InitInv, BackendsInit, <1>1, <1>2, <1>3, <1>4, PTL DEF Spec

\* For any set of backends of one module each, every published backend is in with all it
\* declares or is listed and owns nothing (registry.py:136).
THEOREM NoHalfLoad ==
  ASSUME SelfContained, Repeatable
  PROVE  Spec => []AllOrNothing
<1>1. Inv /\ BackendsInv => AllOrNothing
  <2> SUFFICES ASSUME Inv, BackendsInv, registry.loaded, NEW i \in DOMAIN EntryPoints
               PROVE  IF \E j \in DOMAIN registry.loadFailures :
                           registry.loadFailures[j] = EntryPoints[i]
                      THEN OwnsNothing(EntryPoints[i])
                      ELSE \A n \in Family(EntryPoints[i]) : Complete(n)
    BY DEF AllOrNothing
  <2> DEFINE m == EntryPoints[i]
  <2>1. m \in Entries /\ m \in Modules
    BY EntryModule DEF Entries
  <2>2. BackendInv /\ \A t \in Threads : ~load[t].active
    BY OneActive, UndoUnpublished DEF BackendsInv
  <2>3. Decided(sysModules, registry, m) /\ Tried(sysModules, registry, m)
    BY <2>1, <2>2 DEF BackendInv, Trying
  <2>4. CASE Listed(registry, m)
    <3>1. Clean(registry, m)
      BY <2>3, <2>4 DEF Decided
    <3> QED
      BY <2>4, <3>1, CleanOwns DEF Listed
  <2>5. CASE ~Listed(registry, m)
    <3>1. Done(registry, m, Len(Body[m]) + 1)
      BY <2>3, <2>5 DEF Decided, Tried
    <3>2. Complete(m)
      BY <2>1, <3>1, DoneComplete
    <3>3. Family(m) = {m}
      BY <2>1 DEF Family, SelfContained
    <3> QED
      BY <2>5, <3>2, <3>3 DEF Listed
  <2> QED
    BY <2>4, <2>5
<1>2. Inv /\ [Next]_vars => Inv'
  BY TypeStep, LockStep DEF Inv
<1> QED
  BY InitInv, BackendsDecided, <1>1, <1>2, PTL DEF Spec

LEMMA OneListing ==
  ASSUME Inv, BackendsInv, MaxInterrupts = 0
  PROVE  \A i, j \in DOMAIN registry.loadFailures :
           registry.loadFailures[i] = registry.loadFailures[j] => i = j
<1>1. CASE \A t \in Threads : ~Rolling(t)
  BY <1>1 DEF BackendsInv, BackendInv, OnceInv
<1>2. ASSUME NEW t \in Threads, Rolling(t)
      PROVE  \A i, j \in DOMAIN registry.loadFailures :
               registry.loadFailures[i] = registry.loadFailures[j] => i = j
  BY <1>2 DEF BackendsInv, RollbackInv
<1> QED
  BY <1>1, <1>2

\* A backend declares a detector or a builder: that is what makes it one (registry.py:18).
Declaring ==
    \A m \in Entries : \E i \in DOMAIN Body[m] : Body[m][i].kind \in {"detector", "builder"}

\* With no interrupt out of discovery, LOAD_FAILURES names each failed backend once, and
\* none that is in after all (registry.py:24).
THEOREM OneLineEach ==
  ASSUME SelfContained, Declaring, MaxInterrupts = 0
  PROVE  Spec => []OneLinePerBackend
<1>1. Inv /\ BackendsInv => OneLinePerBackend
  <2> SUFFICES ASSUME Inv, BackendsInv PROVE OneLinePerBackend
    OBVIOUS
  <2>1. \A i, j \in DOMAIN registry.loadFailures :
          registry.loadFailures[i] = registry.loadFailures[j] => i = j
    BY OneListing
  <2>2. ASSUME registry.loaded, NEW k \in DOMAIN registry.loadFailures
        PROVE  ~Complete(registry.loadFailures[k])
    <3> DEFINE m == registry.loadFailures[k]
    <3>2. BackendInv /\ \A t \in Threads : ~load[t].active
      BY <2>2, OneActive, UndoUnpublished DEF BackendsInv
    <3>1. m \in Entries /\ m \in Modules
      BY <3>2, EntryModule DEF BackendInv
    <3>3. Decided(sysModules, registry, m) /\ Listed(registry, m)
      BY <3>1, <3>2 DEF BackendInv, Trying, Listed
    <3>4. Clean(registry, m)
      BY <3>3 DEF Decided
    <3>5. PICK i \in DOMAIN Body[m] : Body[m][i].kind \in {"detector", "builder"}
      BY <3>1 DEF Declaring
    <3> QED
      BY <3>1, <3>4, <3>5, CleanIncomplete
  <2> QED
    BY <2>1, <2>2 DEF OneLinePerBackend
<1>2. Inv /\ [Next]_vars => Inv'
  BY TypeStep, LockStep DEF Inv
<1>3. Repeatable
  BY DEF Repeatable
<1> QED
  BY InitInv, BackendsDecided, <1>1, <1>2, <1>3, PTL DEF Spec

-----------------------------------------------------------------------------
(* The order of a selection.                                               *)

\* What the program imports by itself registers no detector.
NoLateDetectors ==
    \A m \in DirectModules : \A i \in DOMAIN Body[m] : Body[m][i].kind \notin {"detector", "import"}

\* What a selection relies on between its steps: the default it has seen is still one.
SelectInv ==
    /\ DirectFrames /\ DOMAIN answer = Threads
    /\ \A t \in Threads : pc[t] = "reread" => registry.defaultTarget # None
    /\ InTreeByDetection

\* After publication nothing registers a detector, and only a call changes the default.
LEMMA LateDetectors ==
  ASSUME Inv, NoLateDetectors, DirectFrames, registry.loaded, [Next]_vars
  PROVE  /\ registry'.detectors = registry.detectors
         /\ \/ registry'.defaultTarget = registry.defaultTarget
            \/ \E u \in Threads : StoreDefault(u) /\ registry'.defaultTarget = call[u].target
<1>1. \A t \in Threads : ~load[t].active
  BY OneActive
<1>2. ASSUME NEW t \in Threads, Execute(t)
      PROVE  /\ registry'.detectors = registry.detectors
             /\ registry'.defaultTarget = registry.defaultTarget
  <2>1. pc[t] = "import" /\ registry'.defaultTarget = registry.defaultTarget
    BY <1>2, ExecutePlace, ExecuteClaims
  <2>2. Current(t) \in DirectModules
    BY <1>1, <2>1, AdvancedFrames DEF DirectFrames
  <2>3. ASSUME Raise(t) PROVE registry' = registry
    BY <2>3 DEF Raise
  <2>4. ~register_detector(t)
    BY <2>2, StatementAt DEF NoLateDetectors, register_detector
  <2>5. CASE register_kernel_builder(t)
    <3> DEFINE cell == <<Statement(t).op, Statement(t).target>>
    <3>1. registry' = [registry EXCEPT !.builders[cell] = Current(t)] \/ Raise(t)
      BY <2>5 DEF register_kernel_builder
    <3> HIDE DEF cell
    <3> QED
      BY <2>1, <2>3, <3>1 DEF Inv, TypeOK, RegistryState
  <2>6. CASE \/ DefaultAtImport(t) \/ ImportStatement(t) \/ RaiseStatement(t) \/ FinishModule(t)
    BY <1>1, <2>3, <2>6 DEF DefaultAtImport, ImportStatement, Import, RaiseStatement, FinishModule
  <2> QED
    BY <1>2, <2>1, <2>4, <2>5, <2>6 DEF Execute
<1>3. ASSUME NEW t \in Threads, Read(t)
      PROVE  /\ registry'.detectors = registry.detectors
             /\ \/ registry'.defaultTarget = registry.defaultTarget
                \/ StoreDefault(t) /\ registry'.defaultTarget = call[t].target
  <2>1. CASE StoreDefault(t)
    <3>1. PICK d : registry' = [registry EXCEPT !.defaultTarget = d] /\ d = call[t].target
      BY <2>1 DEF StoreDefault
    <3> QED
      BY <2>1, <3>1 DEF Inv, TypeOK, RegistryState
  <2>2. CASE ~StoreDefault(t)
    BY <1>3, <2>2 DEF Read, select_target, RereadDefault, registered_kernel_builder,
                      load_failures, CheckDefault, Return, Reading
  <2> QED
    BY <2>1, <2>2
<1>4. ASSUME NEW t \in Threads, Call(t) \/ DirectImport(t) \/ Interrupt(t) \/ Discover(t)
      PROVE  /\ registry'.detectors = registry.detectors
             /\ registry'.defaultTarget = registry.defaultTarget
  <2>1. CASE Publish(t)
    BY <2>1 DEF Publish, Inv, TypeOK, RegistryState
  <2>2. CASE ~Publish(t)
    BY <1>1, <1>4, <2>2 DEF Call, DirectImport, Import, Interrupt, Discover, FastPath,
                      BeginDiscovery, FoundLoaded, Warn, NextEntryPoint, LoadCached, Load
  <2> QED
    BY <2>1, <2>2
<1>5. CASE UNCHANGED vars
  BY <1>5 DEF vars
<1>6. ASSUME NEW t \in Threads, Undo(t) PROVE FALSE
  BY <1>1, <1>6, UndoEffect
<1> QED
  BY <1>2, <1>3, <1>4, <1>5, <1>6 DEF Next, Step

\* Detection answers None for a device no installed backend claims, and for no other.
LEMMA DetectNone ==
  ASSUME NEW device, detect_target(device) = None
  PROVE  Claimed(device) = {}
<1>1. ASSUME Claimed(device) # {}, Raising = {}, NEW T \in Claimed(device), Claimed(device) = {T}
      PROVE  (CHOOSE V \in Claimed(device) : TRUE) \in Targets
  <2>1. (CHOOSE V \in Claimed(device) : TRUE) \in Claimed(device)
    BY <1>1
  <2> QED
    BY <2>1 DEF Claimed
<1> QED
  BY <1>1, SentinelAssumption, RefusalAssumption DEF detect_target

\* How a call of select_target gets its answer.
LEMMA SelectAnswer ==
  ASSUME Inv, SelectInv, NEW t \in Threads, Read(t), pc'[t] = "answered",
         call'[t].kind = "select"
  PROVE  /\ call' = call /\ registry' = registry
         /\ \/ call[t].requested # None
            \/ call[t].device = NoDevice
            \/ answer'[t] # None
            \/ Claimed(call[t].device) = {}
<1>1. pc[t] # "idle" /\ ~Return(t)
  BY ReadType DEF Return, Goto, Inv, TypeOK
<1>2. CASE RereadDefault(t)
  <2>1. registry.defaultTarget # None /\ call' = call /\ registry' = registry
        /\ answer' = [answer EXCEPT ![t] = registry.defaultTarget]
    BY <1>2 DEF RereadDefault, SelectInv, Reading, Answer
  <2> QED
    BY <2>1 DEF SelectInv
<1>3. CASE select_target(t)
  <2>1. call' = call /\ registry' = registry
    BY <1>3 DEF select_target, Reading
  <2>2. CASE call[t].requested = None /\ call[t].device # NoDevice
    <3>1. registry.defaultTarget = None
      BY <1>3, <2>2 DEF select_target, Goto, Inv, TypeOK
    <3>2. answer' = [answer EXCEPT ![t] = detect_target(call[t].device)]
      BY <1>3, <2>2, <3>1 DEF select_target, Answer
    <3>3. PICK v : v = detect_target(call[t].device)
      OBVIOUS
    <3>4. answer'[t] = v
      BY <3>2, <3>3 DEF SelectInv
    <3> QED
      BY <2>1, <3>3, <3>4, DetectNone
  <2> QED
    BY <2>1, <2>2
<1>4. CASE \/ registered_kernel_builder(t) \/ load_failures(t) \/ CheckDefault(t)
  BY <1>4 DEF registered_kernel_builder, load_failures, CheckDefault, Serving, Reading
<1>5. CASE StoreDefault(t)
  BY <1>5 DEF StoreDefault, Inv, TypeOK
<1> QED
  BY <1>1, <1>2, <1>3, <1>4, <1>5 DEF Read

\* Only a reader comes to "reread" or "answered", and nobody moves another thread there.
LEMMA WhoAnswers ==
  ASSUME Inv, DOMAIN answer = Threads, [Next]_vars
  PROVE  /\ DOMAIN answer' = Threads
         /\ \A u \in Threads :
              \/ pc'[u] = pc[u] /\ call'[u] = call[u] /\ answer'[u] = answer[u]
              \/ Read(u)
              \/ pc'[u] \notin {"reread", "answered"}
<1>1. ASSUME NEW t \in Threads, Call(t)
      PROVE  /\ DOMAIN answer' = Threads /\ pc'[t] \notin {"reread", "answered"}
             /\ \A u \in Threads : u # t =>
                  pc'[u] = pc[u] /\ call'[u] = call[u] /\ answer'[u] = answer[u]
  BY <1>1 DEF Call, Goto, Inv, TypeOK
<1>2. ASSUME NEW t \in Threads, DirectImport(t) \/ Discover(t)
      PROVE  /\ DOMAIN answer' = Threads /\ pc'[t] \notin {"reread", "answered"}
             /\ \A u \in Threads : u # t =>
                  pc'[u] = pc[u] /\ call'[u] = call[u] /\ answer'[u] = answer[u]
  <2>1. answer' = answer
    BY <1>2 DEF DirectImport, Import, Discover, FastPath, BeginDiscovery, FoundLoaded, Publish,
                Warn, NextEntryPoint, LoadCached, Load, user
  <2>2. call' = call \/ call' = [call EXCEPT ![t] = NoCall]
    BY <1>2 DEF DirectImport, Import, Discover, FastPath, BeginDiscovery, FoundLoaded, Publish,
                Warn, NextEntryPoint, LoadCached, Load, user
  <2>3. \E label \in Labels \ {"reread", "answered"} : pc' = [pc EXCEPT ![t] = label]
    BY <1>2 DEF DirectImport, Import, Discover, FastPath, BeginDiscovery, FoundLoaded, Publish,
                Warn, NextEntryPoint, LoadCached, Load, Goto, Labels
  <2> QED
    BY <2>1, <2>2, <2>3 DEF Inv, TypeOK
<1>3. ASSUME NEW t \in Threads, Interrupt(t)
      PROVE  /\ DOMAIN answer' = Threads /\ pc'[t] \notin {"reread", "answered"}
             /\ \A u \in Threads : u # t =>
                  pc'[u] = pc[u] /\ call'[u] = call[u] /\ answer'[u] = answer[u]
  <2>1. /\ \E label \in {"idle", "abandon"} : pc' = [pc EXCEPT ![t] = label]
        /\ answer' = answer /\ call' = call
    BY <1>3 DEF Interrupt, Goto, user
  <2> QED
    BY <2>1 DEF Inv, TypeOK
<1>4. ASSUME NEW t \in Threads, Execute(t)
      PROVE  /\ DOMAIN answer' = Threads
             /\ pc'[t] \notin {"reread", "answered"}
             /\ \A u \in Threads : u # t =>
                  pc'[u] = pc[u] /\ call'[u] = call[u] /\ answer'[u] = answer[u]
  <2>1. /\ answer' = answer /\ call' = call
        /\ UNCHANGED pc \/ \E label \in {"import", "discover", "rollback", "idle"} : pc' = [pc EXCEPT ![t] = label]
        /\ pc[t] = "import"
    BY <1>4, ExecutePlace
  <2> QED
    BY <2>1 DEF Inv, TypeOK
<1>5. ASSUME NEW t \in Threads, Read(t)
      PROVE  /\ DOMAIN answer' = Threads
             /\ \A u \in Threads : u # t =>
                  pc'[u] = pc[u] /\ call'[u] = call[u] /\ answer'[u] = answer[u]
  <2>1. \A u \in Threads : u # t => pc'[u] = pc[u]
    BY <1>5, ReadType DEF Inv, TypeOK
  <2>2. /\ call' = call \/ call' = [call EXCEPT ![t] = NoCall]
        /\ UNCHANGED answer \/ \E v : answer' = [answer EXCEPT ![t] = v]
    <3>1. CASE select_target(t)
      BY <3>1 DEF select_target, Reading, Answer
    <3>2. CASE RereadDefault(t) \/ registered_kernel_builder(t) \/ load_failures(t)
      BY <3>2 DEF RereadDefault, registered_kernel_builder, load_failures, Reading, Answer
    <3>3. CASE CheckDefault(t) \/ StoreDefault(t) \/ Return(t)
      BY <3>3 DEF CheckDefault, StoreDefault, Return, Reading, Answer
    <3> QED
      BY <1>5, <3>1, <3>2, <3>3 DEF Read
  <2> QED
    BY <2>1, <2>2 DEF Inv, TypeOK
<1>6. ASSUME NEW t \in Threads, Undo(t)
      PROVE  /\ DOMAIN answer' = Threads /\ pc'[t] \notin {"reread", "answered"}
             /\ \A u \in Threads : u # t =>
                  pc'[u] = pc[u] /\ call'[u] = call[u] /\ answer'[u] = answer[u]
  <2>1. /\ answer' = answer /\ Rolling(t)
        /\ UNCHANGED pc \/ \E label \in {"discover", "idle"} : pc' = [pc EXCEPT ![t] = label]
        /\ call' = call \/ call' = [call EXCEPT ![t] = NoCall]
    BY <1>6, UndoEffect
  <2> QED
    BY <2>1 DEF Rolling, Inv, TypeOK
<1>7. CASE UNCHANGED vars
  BY <1>7 DEF vars, user
<1> QED
  BY <1>1, <1>2, <1>3, <1>4, <1>5, <1>6, <1>7 DEF Next, Step

LEMMA SelectStep ==
  ASSUME Inv, SelectInv, NoLateDetectors, ~ResetWhileSelecting, [Next]_vars
  PROVE  SelectInv'
<1>1. DirectFrames' /\ DOMAIN answer' = Threads
  BY DirectFramesStep, WhoAnswers DEF SelectInv, NoLateDetectors, DirectLeaves
<1>2. ASSUME NEW u \in Threads, pc'[u] = "reread"
      PROVE  registry'.defaultTarget # None
  <2>1. CASE pc[u] = "reread"
    <3>1. registry.loaded /\ registry.defaultTarget # None
      BY <2>1 DEF Inv, LockInv, HalfBuiltHidden, Serving_labels, SelectInv
    <3>2. ASSUME NEW w \in Threads, StoreDefault(w) PROVE call[w].target # None
      BY <2>1, <3>2 DEF ResetWhileSelecting, StoreDefault
    <3> QED
      BY <3>1, <3>2, LateDetectors DEF SelectInv
  <2>2. CASE pc[u] # "reread"
    <3>1. Read(u)
      BY <1>2, <2>2, WhoAnswers DEF SelectInv
    <3>2. select_target(u)
      BY <1>2, <3>1 DEF Read, RereadDefault, registered_kernel_builder, load_failures,
                        CheckDefault, StoreDefault, Return, Answer, Goto, Inv, TypeOK
    <3>3. registry' = registry /\ registry.defaultTarget # None
      BY <1>2, <3>2 DEF select_target, Answer, Goto, Reading, Inv, TypeOK
    <3> QED
      BY <3>3
  <2> QED
    BY <2>1, <2>2
<1>3. ASSUME NEW u \in Threads, pc'[u] = "answered", call'[u].kind = "select"
      PROVE  \/ call'[u].requested # None
             \/ call'[u].device = NoDevice
             \/ answer'[u] # None
             \/ Claimed(call[u].device)' = {} /\ call'[u] = call[u]
  <2>1. CASE Read(u)
    <3>1. /\ call' = call /\ registry' = registry
          /\ \/ call[u].requested # None
             \/ call[u].device = NoDevice
             \/ answer'[u] # None
             \/ Claimed(call[u].device) = {}
      BY <1>3, <2>1, SelectAnswer
    <3>2. Claimed(call[u].device)' = Claimed(call[u].device)
      BY <3>1 DEF Claimed
    <3> QED
      BY <3>1, <3>2
  <2>2. CASE ~Read(u)
    <3>1. pc[u] = "answered" /\ call'[u] = call[u] /\ answer'[u] = answer[u]
      BY <1>3, <2>2, WhoAnswers DEF SelectInv
    <3>2. registry.loaded
      BY <3>1 DEF Inv, LockInv, HalfBuiltHidden, Serving_labels
    <3>3. registry'.detectors = registry.detectors
      BY <3>2, LateDetectors DEF SelectInv
    <3>4. Claimed(call[u].device)' = Claimed(call[u].device)
      BY <3>1, <3>3 DEF Claimed
    <3>5. \/ call[u].requested # None
          \/ call[u].device = NoDevice
          \/ answer[u] # None
          \/ Claimed(call[u].device) = {}
      BY <1>3, <3>1 DEF SelectInv, InTreeByDetection
    <3> QED
      BY <3>1, <3>4, <3>5
  <2> QED
    BY <2>1, <2>2
<1>4. InTreeByDetection'
  <2> SUFFICES ASSUME NEW u \in Threads, pc'[u] = "answered", call'[u].kind = "select"
               PROVE  \/ call'[u].requested # None
                      \/ call'[u].device = NoDevice
                      \/ answer'[u] # None
                      \/ Claimed(call[u].device)' = {}
    BY DEF InTreeByDetection
  <2> QED
    BY <1>3
<1> QED
  BY <1>1, <1>2, <1>4 DEF SelectInv

\* For programs that do not reset the default inside a selection, nor import a detector
\* late, no call is answered "in tree" while an installed backend claims its device
\* (dispatch.py:55).
THEOREM SelectionOrder ==
  ASSUME NoLateDetectors
  PROVE  Spec => SelectFollowsOrder
<1>1. Init => SelectInv
  BY DEF Init, SelectInv, DirectFrames, InTreeByDetection
<1>2. Inv /\ [Next]_vars => Inv'
  BY TypeStep, LockStep DEF Inv
<1>3. Inv /\ SelectInv /\ ~ResetWhileSelecting /\ [Next]_vars => SelectInv'
  BY SelectStep
<1>4. SelectInv => InTreeByDetection
  BY DEF SelectInv
<1> QED
  BY InitInv, <1>1, <1>2, <1>3, <1>4, PTL DEF Spec, SelectFollowsOrder

-----------------------------------------------------------------------------
(* What the catalog computes, one entry point at a time.                   *)

LEMMA NatInductionBySets ==
  ASSUME NEW S, 0 \in S, \A n \in Nat : n \in S => n + 1 \in S
  PROVE  Nat \subseteq S
<1> SUFFICES ASSUME NEW k \in Nat, k \notin S PROVE FALSE
  OBVIOUS
<1> DEFINE Out == {n \in Nat : n \notin S}
<1>1. PICK x \in Out : \A y \in Out : ~(<<y, x>> \in OpToRel(<, Nat))
  BY NatLessThanWellFounded, WFMin
<1>2. x - 1 \in Nat /\ x - 1 < x
  OBVIOUS
<1>3. x - 1 \notin Out
  BY <1>1, <1>2 DEF OpToRel
<1>4. x - 1 \in S /\ (x - 1) + 1 = x
  BY <1>2, <1>3
<1> QED
  BY <1>2, <1>4

Last == Len(EntryPoints)
Start == [claims |-> {}, failures |-> <<>>, default |-> None]
Accepts(m, claims) ==
    Catalog!Sound(m, claims) /\ Catalog!Disjoint(Catalog!Declares(m), claims)
AfterEntry(n, before) ==
    LET m == EntryPoints[n]
    IN IF Accepts(m, before.claims)
       THEN [claims |-> before.claims \cup Catalog!Declares(m), failures |-> before.failures,
             default |-> Catalog!DefaultBefore(m, Len(Body[m]) + 1, before.default)]
       ELSE [claims |-> before.claims, failures |-> Append(before.failures, m),
             default |-> before.default]

\* The recursive definition of the catalog has a value, the one it says.
LEMMA TriedUnfolds ==
  /\ Catalog!Tried[0] = Start
  /\ \A n \in 1..Last : Catalog!Tried[n] = AfterEntry(n, Catalog!Tried[n - 1])
<1> DEFINE Upto(k, f) == f = [n \in 0..k |-> IF n = 0 THEN Start ELSE AfterEntry(n, f[n - 1])]
           Reached == {k \in Nat : \E f : Upto(k, f)}
<1>1. 0 \in Reached
  <2> DEFINE f == [n \in 0..0 |-> Start]
  <2>1. Upto(0, f)
    OBVIOUS
  <2> QED
    BY <2>1
<1>2. ASSUME NEW k \in Nat, k \in Reached PROVE k + 1 \in Reached
  <2>1. PICK f : Upto(k, f)
    BY <1>2
  <2> DEFINE g == [n \in 0..(k + 1) |-> IF n = 0 THEN Start ELSE AfterEntry(n, f[n - 1])]
  <2>2. ASSUME NEW n \in 0..(k + 1), n # 0 PROVE g[n - 1] = f[n - 1]
    <3>1. n - 1 \in 0..k /\ n - 1 \in 0..(k + 1)
      BY <2>2
    <3> HIDE DEF AfterEntry, Start
    <3>2. f[n - 1] = IF n - 1 = 0 THEN Start ELSE AfterEntry(n - 1, f[(n - 1) - 1])
      BY <2>1, <3>1
    <3> QED
      BY <3>1, <3>2
  <2>3. Upto(k + 1, g)
    <3> HIDE DEF AfterEntry, Start
    <3>1. \A n \in 0..(k + 1) :
            (IF n = 0 THEN Start ELSE AfterEntry(n, f[n - 1]))
              = (IF n = 0 THEN Start ELSE AfterEntry(n, g[n - 1]))
      BY <2>2
    <3> QED
      BY <3>1
  <2>4. \E h : Upto(k + 1, h)
    BY <2>3
  <2> QED
    BY <2>4
<1>3. Last \in Reached
  <2>1. Last \in Nat
    BY RegistryAssumption, LenProperties DEF Last
  <2>2. Nat \subseteq Reached
    BY <1>1, <1>2, NatInductionBySets
  <2> QED
    BY <2>1, <2>2
<1>4. Upto(Last, Catalog!Tried)
  <2>1. Catalog!Tried = CHOOSE f : Upto(Last, f)
    BY DEF Catalog!Tried, Last, Start, Accepts, AfterEntry
  <2>2. \E f : Upto(Last, f)
    BY <1>3
  <2> HIDE DEF Upto
  <2> QED
    BY <2>1, <2>2
<1>5. Last \in Nat
  BY RegistryAssumption, LenProperties DEF Last
<1> HIDE DEF AfterEntry, Start
<1> QED
  BY <1>4, <1>5

-----------------------------------------------------------------------------
(* The claims of a backend.                                                *)

\* The claim of a cell, as the catalog writes it.
CellClaim(c, m) ==
    [cell |-> IF c.kind = "detector" THEN <<c.target>> ELSE <<c.op, c.target>>, by |-> m]

LEMMA ClaimFacts ==
  ASSUME NEW c \in Cells, NEW m
  PROVE  /\ CellClaim(c, m).by = m
         /\ CellClaim(c, m).cell[Len(CellClaim(c, m).cell)] = c.target
         /\ \A d \in Cells : \A n : CellClaim(c, m).cell = CellClaim(d, n).cell => c = d
         /\ \A d \in Cells : \A n : CellClaim(c, m) = CellClaim(d, n) => c = d /\ m = n
<1>1. CellClaim(c, m).by = m /\ \A d \in Cells : \A n : CellClaim(d, n).by = n
  BY DEF CellClaim
<1>2. CellClaim(c, m).cell[Len(CellClaim(c, m).cell)] = c.target
  BY DEF CellClaim, Cells
<1>3. ASSUME NEW d \in Cells, NEW n, CellClaim(c, m).cell = CellClaim(d, n).cell PROVE c = d
  <2>1. CASE c.kind = "detector" /\ d.kind = "detector"
    BY <1>3, <2>1 DEF CellClaim, Cells
  <2>2. CASE c.kind = "builder" /\ d.kind = "builder"
    BY <1>3, <2>2 DEF CellClaim, Cells
  <2>3. CASE c.kind # d.kind
    <3>1. Len(CellClaim(c, m).cell) # Len(CellClaim(d, n).cell)
      BY <2>3 DEF CellClaim, Cells
    <3> QED
      BY <1>3, <3>1
  <2> QED
    BY <2>1, <2>2, <2>3 DEF Cells
<1>4. \A d \in Cells : \A n : CellClaim(c, m) = CellClaim(d, n) => c = d /\ m = n
  BY <1>1, <1>3
<1> QED
  BY <1>1, <1>2, <1>3, <1>4

\* A backend of one module declares the cells of its own statements.
OwnClaimsBefore(m, upto) ==
    {CellClaim(Body[m][i], m) : i \in {i \in DOMAIN Body[m] : i < upto /\ Body[m][i] \in Cells}}

LEMMA DeclaresOwn ==
  ASSUME SelfContained, NEW m \in Entries, NEW upto
  PROVE  /\ Catalog!Family(m) = {m}
         /\ Catalog!ClaimsBefore(m, upto) = OwnClaimsBefore(m, upto)
<1>1. m \in Modules
  BY EntryModule
<1>2. Catalog!At(m, "import") = {}
  BY DEF Catalog!At, SelfContained
<1>3. \A u : Catalog!Helpers(m, u) = {}
  BY <1>2 DEF Catalog!Helpers
<1>4. Catalog!Family(m) = {m}
  BY <1>3 DEF Catalog!Family
<1>5. Catalog!ClaimsBefore(m, upto) = Catalog!OwnClaims(m, upto)
  BY <1>3 DEF Catalog!ClaimsBefore
<1>6. ASSUME NEW x \in Catalog!OwnClaims(m, upto) PROVE x \in OwnClaimsBefore(m, upto)
  <2>1. CASE \E i \in Catalog!At(m, "detector") : i < upto /\ x = [cell |-> <<Body[m][i].target>>, by |-> m]
    <3>1. PICK i \in DOMAIN Body[m] : /\ Body[m][i].kind = "detector" /\ i < upto
                                      /\ x = [cell |-> <<Body[m][i].target>>, by |-> m]
      BY <2>1 DEF Catalog!At
    <3>2. Body[m][i] \in Cells /\ x = CellClaim(Body[m][i], m)
      BY <1>1, <3>1, StatementCell DEF CellClaim
    <3> QED
      BY <3>1, <3>2 DEF OwnClaimsBefore
  <2>2. CASE \E i \in Catalog!At(m, "builder") :
               i < upto /\ x = [cell |-> <<Body[m][i].op, Body[m][i].target>>, by |-> m]
    <3>1. PICK i \in DOMAIN Body[m] : /\ Body[m][i].kind = "builder" /\ i < upto
                                      /\ x = [cell |-> <<Body[m][i].op, Body[m][i].target>>, by |-> m]
      BY <2>2 DEF Catalog!At
    <3>2. Body[m][i] \in Cells /\ x = CellClaim(Body[m][i], m)
      BY <1>1, <3>1, StatementCell DEF CellClaim
    <3> QED
      BY <3>1, <3>2 DEF OwnClaimsBefore
  <2> QED
    BY <1>6, <2>1, <2>2 DEF Catalog!OwnClaims
<1>7. ASSUME NEW x \in OwnClaimsBefore(m, upto) PROVE x \in Catalog!OwnClaims(m, upto)
  <2>1. PICK i \in DOMAIN Body[m] : i < upto /\ Body[m][i] \in Cells /\ x = CellClaim(Body[m][i], m)
    BY <1>7 DEF OwnClaimsBefore
  <2>2. CASE Body[m][i].kind = "detector"
    <3>1. i \in Catalog!At(m, "detector") /\ x = [cell |-> <<Body[m][i].target>>, by |-> m]
      BY <2>1, <2>2 DEF Catalog!At, CellClaim
    <3> QED
      BY <2>1, <3>1 DEF Catalog!OwnClaims
  <2>3. CASE Body[m][i].kind = "builder"
    <3>1. /\ i \in Catalog!At(m, "builder")
          /\ x = [cell |-> <<Body[m][i].op, Body[m][i].target>>, by |-> m]
      BY <2>1, <2>3 DEF Catalog!At, CellClaim
    <3> QED
      BY <2>1, <3>1 DEF Catalog!OwnClaims
  <2> QED
    BY <1>1, <2>1, <2>2, <2>3, StatementCell
<1> QED
  BY <1>4, <1>5, <1>6, <1>7

-----------------------------------------------------------------------------
(* What one entry point makes of the tables.                               *)

\* The tables r hold exactly these claims.
Held(r, claims) ==
    /\ \A x \in claims : \E c \in Cells, m \in Modules : x = CellClaim(c, m)
    /\ \A c \in Cells, m \in Modules : Owner(r, c) = m <=> CellClaim(c, m) \in claims

\* The tables r are those the first n entry points leave.
Prefix(r, n) ==
    /\ Held(r, Catalog!Tried[n].claims)
    /\ r.loadFailures = Catalog!Tried[n].failures
    /\ r.defaultTarget = Catalog!Tried[n].default

\* Every default m chose before its statement at was one of a target known by then, and
\* the last of them is the default of r.
Named(m, at, claims) ==
    \A i \in DOMAIN Body[m] : i < at /\ Body[m][i].kind = "default" =>
        Body[m][i].target \in Catalog!TargetsOf(claims \cup OwnClaimsBefore(m, i))
Chose(r0, r, m, at) == r.defaultTarget = Catalog!DefaultBefore(m, at, r0.defaultTarget)

LEMMA OwnerType ==
  ASSUME NEW r \in RegistryState, NEW c \in Cells
  PROVE  Owner(r, c) \in Modules \cup {NoModule}
BY DEF Owner, Cells, RegistryState, Claim

LEMMA KnownCells ==
  ASSUME NEW r, NEW T \in Targets
  PROVE  T \in KnownIn(r) <=> \E c \in Cells : c.target = T /\ Owner(r, c) # NoModule
<1>1. ASSUME r.detectors[T] # NoModule
      PROVE  \E c \in Cells : c.target = T /\ Owner(r, c) # NoModule
  <2> DEFINE c == [kind |-> "detector", target |-> T]
  <2>1. c \in Cells /\ c.target = T /\ Owner(r, c) = r.detectors[T]
    BY DEF Cells, Owner
  <2> QED
    BY <1>1, <2>1
<1>2. ASSUME NEW op \in Ops, r.builders[<<op, T>>] # NoModule
      PROVE  \E c \in Cells : c.target = T /\ Owner(r, c) # NoModule
  <2> DEFINE c == [kind |-> "builder", op |-> op, target |-> T]
  <2>1. c \in Cells /\ c.target = T /\ Owner(r, c) = r.builders[<<op, T>>]
    BY DEF Cells, Owner
  <2> QED
    BY <1>2, <2>1
<1>3. ASSUME NEW c \in Cells, c.target = T, Owner(r, c) # NoModule
      PROVE  T \in KnownIn(r)
  BY <1>3 DEF Cells, Owner, KnownIn
<1> QED
  BY <1>1, <1>2, <1>3 DEF KnownIn

\* The targets of the claims are the known ones.
LEMMA KnownClaims ==
  ASSUME NEW r \in RegistryState, NEW claims, Held(r, claims)
  PROVE  Catalog!TargetsOf(claims) = KnownIn(r)
<1>1. ASSUME NEW x \in claims PROVE x.cell[Len(x.cell)] \in KnownIn(r)
  <2>1. PICK c \in Cells, m \in Modules : x = CellClaim(c, m)
    BY DEF Held
  <2>2. Owner(r, c) = m /\ m # NoModule
    BY <2>1, SentinelAssumption DEF Held
  <2>3. x.cell[Len(x.cell)] = c.target /\ c.target \in Targets
    BY <2>1, ClaimFacts DEF Cells
  <2> QED
    BY <2>2, <2>3, KnownCells
<1>2. ASSUME NEW T \in KnownIn(r) PROVE \E x \in claims : T = x.cell[Len(x.cell)]
  <2>1. T \in Targets
    BY DEF KnownIn
  <2>2. PICK c \in Cells : c.target = T /\ Owner(r, c) # NoModule
    BY <2>1, KnownCells
  <2>3. Owner(r, c) \in Modules
    BY <2>2, OwnerType
  <2>4. CellClaim(c, Owner(r, c)) \in claims
    BY <2>3 DEF Held
  <2> QED
    BY <2>2, <2>4, ClaimFacts
<1> QED
  BY <1>1, <1>2 DEF Catalog!TargetsOf

\* The tables of a backend underway hold the claims it found and its own so far.
LEMMA UnderwayHeld ==
  ASSUME NEW s, NEW r0 \in RegistryState, NEW r \in RegistryState, NEW m \in Entries, NEW at,
         NEW claims, Held(r0, claims), Underway(s, r0, r, m, at)
  PROVE  Held(r, claims \cup OwnClaimsBefore(m, at))
<1> DEFINE all == claims \cup OwnClaimsBefore(m, at)
<1>1. m \in Modules
  BY EntryModule
<1>2. Grown(r0, r, m) /\ Done(r, m, at) /\ Only(r, m, at) /\ Clean(r0, m)
  BY DEF Underway
<1>3. ASSUME NEW x \in all PROVE \E c \in Cells, n \in Modules : x = CellClaim(c, n)
  BY <1>1 DEF Held, OwnClaimsBefore
<1>4. ASSUME NEW c \in Cells, NEW n \in Modules, Owner(r, c) = n
      PROVE  CellClaim(c, n) \in all
  <2>1. CASE n = m
    <3>1. PICK i \in DOMAIN Body[m] : i < at /\ Body[m][i] = c
      BY <1>2, <1>4, <2>1 DEF Only
    <3> QED
      BY <2>1, <3>1 DEF OwnClaimsBefore
  <2>2. CASE n # m
    <3>1. Owner(r0, c) = n
      BY <1>2, <1>4, <2>2 DEF Grown
    <3> QED
      BY <3>1 DEF Held
  <2> QED
    BY <2>1, <2>2
<1>5. ASSUME NEW c \in Cells, NEW n \in Modules, CellClaim(c, n) \in all
      PROVE  Owner(r, c) = n
  <2>1. CASE CellClaim(c, n) \in claims
    <3>1. Owner(r0, c) = n /\ n # NoModule
      BY <2>1, SentinelAssumption DEF Held
    <3> QED
      BY <1>2, <3>1 DEF Grown
  <2>2. CASE CellClaim(c, n) \in OwnClaimsBefore(m, at)
    <3>1. PICK i \in DOMAIN Body[m] : /\ i < at /\ Body[m][i] \in Cells
                                      /\ CellClaim(c, n) = CellClaim(Body[m][i], m)
      BY <2>2 DEF OwnClaimsBefore
    <3>2. c = Body[m][i] /\ n = m
      BY <3>1, ClaimFacts
    <3> QED
      BY <1>2, <3>1, <3>2 DEF Done
  <2> QED
    BY <1>5, <2>1, <2>2
<1> QED
  BY <1>3, <1>4, <1>5 DEF Held

\* Choosing a default.
LEMMA DefaultAt ==
  ASSUME NEW m \in Modules, NEW found
  PROVE  /\ Catalog!DefaultBefore(m, 1, found) = found
         /\ \A i \in DOMAIN Body[m] :
              Catalog!DefaultBefore(m, i + 1, found)
                = IF Body[m][i].kind = "default" THEN Body[m][i].target
                  ELSE Catalog!DefaultBefore(m, i, found)
         /\ \A at \in Nat : at > Len(Body[m]) =>
              Catalog!DefaultBefore(m, at, found)
                = Catalog!DefaultBefore(m, Len(Body[m]) + 1, found)
<1> DEFINE Choices(u) == {i \in Catalog!At(m, "default") : i < u}
           Newest(S) == CHOOSE i \in S : \A j \in S : j <= i
           Value(u) == IF Choices(u) = {} THEN found ELSE Body[m][Newest(Choices(u))].target
<1>1. \A u : Catalog!DefaultBefore(m, u, found) = Value(u)
  BY DEF Catalog!DefaultBefore
<1>2. \A i \in DOMAIN Body[m] : i \in Nat /\ 1 <= i /\ i <= Len(Body[m])
  BY StatementCell
<1>3. Len(Body[m]) \in Nat
  BY RegistryAssumption, LenProperties
<1>4. \A u : \A i \in Choices(u) : i \in DOMAIN Body[m] /\ Body[m][i].kind = "default" /\ i < u
  BY DEF Catalog!At
<1>5. Choices(1) = {}
  BY <1>2, <1>4
<1>6. ASSUME NEW i \in DOMAIN Body[m], Body[m][i].kind = "default"
      PROVE  Value(i + 1) = Body[m][i].target
  <2>1. i \in Choices(i + 1) /\ \A j \in Choices(i + 1) : j <= i
    BY <1>2, <1>6 DEF Catalog!At
  <2>2. \A k \in Choices(i + 1) : (\A j \in Choices(i + 1) : j <= k) => k = i
    BY <1>2, <1>4, <2>1
  <2> HIDE DEF Choices
  <2>3. Newest(Choices(i + 1)) = i
    BY <2>1, <2>2
  <2> QED
    BY <2>1, <2>3
<1>7. ASSUME NEW i \in DOMAIN Body[m], Body[m][i].kind # "default"
      PROVE  Value(i + 1) = Value(i)
  <2>1. Choices(i + 1) = Choices(i)
    BY <1>2, <1>7 DEF Catalog!At
  <2> HIDE DEF Choices, Newest
  <2> QED
    BY <2>1
<1>8. ASSUME NEW at \in Nat, at > Len(Body[m])
      PROVE  Value(at) = Value(Len(Body[m]) + 1)
  <2>1. Choices(at) = Choices(Len(Body[m]) + 1)
    BY <1>2, <1>3, <1>8 DEF Catalog!At
  <2> HIDE DEF Choices, Newest
  <2> QED
    BY <2>1
<1>9. Value(1) = found
  BY <1>5
<1> HIDE DEF Value
<1> QED
  BY <1>1, <1>6, <1>7, <1>8, <1>9

-----------------------------------------------------------------------------
(* An entry point that ends, and one that raises.                          *)

LEMMA EntryAt ==
  ASSUME NEW n \in 1..Last
  PROVE  EntryPoints[n] \in Entries /\ EntryPoints[n] \in Modules /\ n - 1 \in 0..Last
<1>1. EntryPoints \in Seq(Modules) /\ Last \in Nat /\ n \in DOMAIN EntryPoints
  BY RegistryAssumption, LenProperties DEF Last
<1>2. EntryPoints[n] \in Entries
  BY <1>1 DEF Entries
<1> QED
  BY <1>1, <1>2, EntryModule

\* Executed to its end: the catalog accepts it, and the tables are the next ones.
LEMMA EntrySucceeds ==
  ASSUME SelfContained, NEW n \in 1..Last, NEW m, m = EntryPoints[n],
         NEW s, NEW r0 \in RegistryState, NEW r \in RegistryState,
         NEW at \in Nat, at > Len(Body[m]),
         Prefix(r0, n - 1), Underway(s, r0, r, m, at),
         Named(m, at, Catalog!Tried[n - 1].claims), Chose(r0, r, m, at)
  PROVE  Prefix(r, n)
<1> DEFINE before == Catalog!Tried[n - 1]
           claims == before.claims
           own == OwnClaimsBefore(m, Len(Body[m]) + 1)
<1>1. m \in Entries /\ m \in Modules
  BY EntryAt
<1>2. Len(Body[m]) \in Nat /\ \A i \in DOMAIN Body[m] : i \in Nat /\ i <= Len(Body[m])
  BY <1>1, RegistryAssumption, LenProperties, StatementCell
<1>3. \A i \in DOMAIN Body[m] : i < at /\ i < Len(Body[m]) + 1
  BY <1>2
<1>4. own = OwnClaimsBefore(m, at)
  BY <1>3 DEF OwnClaimsBefore
<1>5. /\ Catalog!Family(m) = {m} /\ Catalog!Declares(m) = own
      /\ \A i : Catalog!ClaimsBefore(m, i) = OwnClaimsBefore(m, i)
  BY <1>1, DeclaresOwn DEF Catalog!Declares
<1>6. Held(r, claims \cup own) /\ Held(r0, claims)
  BY <1>1, <1>4, UnderwayHeld DEF Prefix
<1>7. Done(r, m, at) /\ Passed(m, at) /\ Grown(r0, r, m) /\ r.loadFailures = r0.loadFailures
  BY DEF Underway
<1>8. Catalog!Sound(m, claims)
  <2>1. Catalog!At(m, "raise") = {}
    BY <1>3, <1>7 DEF Catalog!At, Passed
  <2>2. ASSUME NEW i \in DOMAIN Body[m], NEW j \in DOMAIN Body[m], Body[m][i] = Body[m][j],
               Body[m][i].kind \in {"detector", "builder"}
        PROVE  i = j
    <3>1. Body[m][i] \in Cells
      BY <1>1, <2>2, StatementCell
    <3>2. ~(i < j) /\ ~(j < i)
      BY <1>3, <1>7, <2>2, <3>1 DEF Passed
    <3> QED
      BY <1>2, <3>2
  <2>3. ASSUME NEW i \in Catalog!At(m, "detector"), NEW j \in Catalog!At(m, "detector"),
               Body[m][i].target = Body[m][j].target
        PROVE  i = j
    <3>1. /\ i \in DOMAIN Body[m] /\ j \in DOMAIN Body[m]
          /\ Body[m][i].kind = "detector" /\ Body[m][j].kind = "detector"
      BY DEF Catalog!At
    <3>2. Body[m][i] \in Cells /\ Body[m][j] \in Cells
      BY <1>1, <3>1, StatementCell
    <3>3. Body[m][i] = Body[m][j]
      BY <2>3, <3>1, <3>2 DEF Cells
    <3> QED
      BY <2>2, <3>1, <3>3
  <2>4. \A i, j \in Catalog!At(m, "builder") : Body[m][i] = Body[m][j] => i = j
    BY <2>2 DEF Catalog!At
  <2>5. Catalog!Disjoint(own, own)
    BY ClaimFacts DEF Catalog!Disjoint, OwnClaimsBefore
  <2>6. \A i \in Catalog!At(m, "default") :
          Body[m][i].target \in Catalog!TargetsOf(claims \cup Catalog!ClaimsBefore(m, i))
    BY <1>3, <1>5 DEF Catalog!At, Named
  <2> QED
    BY <1>5, <2>1, <2>3, <2>4, <2>5, <2>6 DEF Catalog!Sound
<1>9. Catalog!Disjoint(own, claims)
  <2> SUFFICES ASSUME NEW x \in own, NEW y \in claims, x.cell = y.cell PROVE x = y
    BY DEF Catalog!Disjoint
  <2>1. PICK i \in DOMAIN Body[m] : Body[m][i] \in Cells /\ x = CellClaim(Body[m][i], m)
    BY DEF OwnClaimsBefore
  <2>2. PICK c \in Cells, k \in Modules : y = CellClaim(c, k)
    BY <1>6 DEF Held
  <2>3. c = Body[m][i]
    BY <2>1, <2>2, ClaimFacts
  <2>4. Owner(r, c) = m
    BY <1>3, <1>7, <2>1, <2>3 DEF Done
  <2>5. Owner(r, c) = k
    BY <1>6, <2>2 DEF Held
  <2> QED
    BY <2>1, <2>2, <2>3, <2>4, <2>5
<1>10. Catalog!Tried[n] = [claims |-> claims \cup own, failures |-> before.failures,
                           default |-> Catalog!DefaultBefore(m, Len(Body[m]) + 1, before.default)]
  <2>1. Catalog!Tried[n] = AfterEntry(n, before)
    BY TriedUnfolds
  <2>2. Accepts(m, claims)
    BY <1>5, <1>8, <1>9 DEF Accepts
  <2> QED
    BY <1>5, <2>1, <2>2 DEF AfterEntry
<1>11. r.defaultTarget = Catalog!DefaultBefore(m, Len(Body[m]) + 1, before.default)
  <2>1. r.defaultTarget = Catalog!DefaultBefore(m, at, before.default)
    BY DEF Chose, Prefix
  <2> QED
    BY <1>1, <2>1, DefaultAt
<1> QED
  BY <1>6, <1>7, <1>10, <1>11 DEF Prefix

\* Raising at its statement at: the catalog refuses it, and the tables are those before
\* it with one more failure.
LEMMA EntryFails ==
  ASSUME SelfContained, NEW n \in 1..Last, NEW m, m = EntryPoints[n],
         NEW s, NEW r0 \in RegistryState, NEW r \in RegistryState, NEW q,
         NEW at \in DOMAIN Body[m],
         Prefix(r0, n - 1), Underway(s, r0, r, m, at),
         \/ Body[m][at].kind = "raise"
         \/ Body[m][at] \in Cells /\ Owner(r, Body[m][at]) # NoModule
         \/ Body[m][at].kind = "default" /\ Body[m][at].target \notin KnownIn(r),
         SameCells(r0, q), q.defaultTarget = r0.defaultTarget,
         q.loadFailures = Append(r0.loadFailures, m)
  PROVE  Prefix(q, n)
<1> DEFINE before == Catalog!Tried[n - 1]
           claims == before.claims
           own == OwnClaimsBefore(m, Len(Body[m]) + 1)
<1>1. m \in Entries /\ m \in Modules
  BY EntryAt
<1>2. Len(Body[m]) \in Nat /\ \A i \in DOMAIN Body[m] : i \in Nat /\ i <= Len(Body[m])
  BY <1>1, RegistryAssumption, LenProperties, StatementCell
<1>3. /\ Catalog!Family(m) = {m} /\ Catalog!Declares(m) = own
      /\ \A i : Catalog!ClaimsBefore(m, i) = OwnClaimsBefore(m, i)
  BY <1>1, DeclaresOwn DEF Catalog!Declares
<1>4. Held(r0, claims) /\ Held(r, claims \cup OwnClaimsBefore(m, at))
  BY <1>1, UnderwayHeld DEF Prefix
<1>5. Only(r, m, at) /\ Grown(r0, r, m)
  BY DEF Underway
<1>6. ~Accepts(m, claims)
  <2>1. CASE Body[m][at].kind = "raise"
    <3>1. at \in Catalog!At(m, "raise")
      BY <2>1 DEF Catalog!At
    <3>2. ~Catalog!Sound(m, claims)
      BY <1>3, <3>1 DEF Catalog!Sound
    <3> QED
      BY <3>2 DEF Accepts
  <2>2. CASE Body[m][at] \in Cells /\ Owner(r, Body[m][at]) = m
    <3>1. PICK j \in DOMAIN Body[m] : j < at /\ Body[m][j] = Body[m][at]
      BY <1>5, <2>2 DEF Only
    <3>2. j # at
      BY <1>2, <3>1
    <3>3. Body[m][at].kind \in {"detector", "builder"}
      BY <2>2 DEF Cells
    <3>4. ~Catalog!Sound(m, claims)
      BY <1>3, <3>1, <3>2, <3>3 DEF Catalog!Sound, Catalog!At
    <3> QED
      BY <3>4 DEF Accepts
  <2>3. CASE Body[m][at] \in Cells /\ Owner(r, Body[m][at]) \notin {m, NoModule}
    <3> DEFINE c == Body[m][at]
               k == Owner(r0, c)
    <3>1. k = Owner(r, c) /\ k \in Modules
      BY <1>5, <2>3, OwnerType DEF Grown
    <3>2. CellClaim(c, k) \in claims
      BY <1>4, <2>3, <3>1 DEF Held
    <3>3. CellClaim(c, m) \in own
      BY <1>2, <2>3 DEF OwnClaimsBefore
    <3>4. CellClaim(c, m).cell = CellClaim(c, k).cell /\ CellClaim(c, m) # CellClaim(c, k)
      BY <2>3, <3>1, ClaimFacts DEF CellClaim
    <3>5. ~Catalog!Disjoint(own, claims)
      BY <3>2, <3>3, <3>4 DEF Catalog!Disjoint
    <3> QED
      BY <1>3, <3>5 DEF Accepts
  <2>4. CASE Body[m][at].kind = "default" /\ Body[m][at].target \notin KnownIn(r)
    <3>1. at \in Catalog!At(m, "default")
      BY <2>4 DEF Catalog!At
    <3>2. Body[m][at].target \notin Catalog!TargetsOf(claims \cup Catalog!ClaimsBefore(m, at))
      BY <1>3, <1>4, <2>4, KnownClaims
    <3>3. ~Catalog!Sound(m, claims)
      BY <3>1, <3>2 DEF Catalog!Sound
    <3> QED
      BY <3>3 DEF Accepts
  <2> QED
    BY <2>1, <2>2, <2>3, <2>4
<1>7. Catalog!Tried[n] = [claims |-> claims, failures |-> Append(before.failures, m),
                          default |-> before.default]
  <2>1. Catalog!Tried[n] = AfterEntry(n, before)
    BY TriedUnfolds
  <2> QED
    BY <1>6, <2>1 DEF AfterEntry
<1>8. Held(q, claims)
  BY <1>4 DEF Held, SameCells
<1> QED
  BY <1>7, <1>8 DEF Prefix

\* One more statement that does not raise.
LEMMA NamedStep ==
  ASSUME NEW r0, NEW r \in RegistryState, NEW q, NEW m \in Entries, NEW at \in DOMAIN Body[m],
         NEW claims, Held(r, claims \cup OwnClaimsBefore(m, at)),
         Named(m, at, claims), Chose(r0, r, m, at),
         IF Body[m][at].kind = "default"
         THEN Body[m][at].target \in KnownIn(r) /\ q.defaultTarget = Body[m][at].target
         ELSE q.defaultTarget = r.defaultTarget
  PROVE  Named(m, at + 1, claims) /\ Chose(r0, q, m, at + 1)
<1>1. m \in Modules
  BY EntryModule
<1>2. \A i \in DOMAIN Body[m] : i \in Nat /\ (i < at + 1 <=> i < at \/ i = at)
  BY <1>1, StatementCell
<1>3. Body[m][at].kind = "default" =>
        Body[m][at].target \in Catalog!TargetsOf(claims \cup OwnClaimsBefore(m, at))
  BY KnownClaims
<1>4. Named(m, at + 1, claims)
  BY <1>2, <1>3 DEF Named
<1>5. Chose(r0, q, m, at + 1)
  BY <1>1, DefaultAt DEF Chose
<1> QED
  BY <1>4, <1>5

-----------------------------------------------------------------------------
(* The published catalog.                                                  *)

\* Nothing but discovery fills the tables: no interrupt takes it back, and what the program
\* imports by itself claims nothing.
Undisturbed ==
    /\ MaxInterrupts = 0
    /\ \A m \in DirectModules : \A i \in DOMAIN Body[m] :
         Body[m][i].kind \notin {"detector", "builder"}

\* What the entry point of t leaves behind once it is rolled back and listed.
Refused(t) == [load[t].checkpoint EXCEPT !.loadFailures = Append(@, Loading(t))]

\* Between entry points the tables are those of the entry points before; while one is
\* executed, its rollback goes back to them; while it is rolled back, they are to come.
CatalogThread(t) ==
    /\ load[t].entry <= Last + 1
    /\ pc[t] \in {"discover", "load"} => Prefix(registry, load[t].entry - 1)
    /\ pc[t] = "rollback" => load[t].entry <= Last /\ Prefix(Refused(t), load[t].entry)
    /\ Trying(t) =>
         /\ Prefix(load[t].checkpoint, load[t].entry - 1)
         /\ Named(Loading(t), Head(stack[t]).at, Catalog!Tried[load[t].entry - 1].claims)
         /\ Chose(load[t].checkpoint, registry, Loading(t), Head(stack[t]).at)
    /\ \A i \in DOMAIN EntryPoints :
         i > load[t].entry \/ (i = load[t].entry /\ pc[t] \in {"discover", "load"})
           => sysModules[EntryPoints[i]] = "absent"

CatalogInv ==
    /\ lock = NoThread /\ ~registry.loaded =>
         /\ Prefix(registry, 0)
         /\ \A i \in DOMAIN EntryPoints : sysModules[EntryPoints[i]] = "absent"
    /\ \A t \in Threads : load[t].active => CatalogThread(t)
    /\ registry.loaded => Held(registry, Catalog!Tried[Last].claims)

LEMMA HeldSame ==
  ASSUME NEW r, NEW q, NEW claims, SameCells(r, q), Held(r, claims)
  PROVE  Held(q, claims)
BY DEF Held, SameCells

LEMMA CatalogInit == Init => CatalogInv
<1> SUFFICES ASSUME Init PROVE CatalogInv
  OBVIOUS
<1>1. \A c \in Cells : Owner(registry, c) = NoModule
  BY DEF Cells, Owner, Init, Empty
<1>2. /\ registry.loadFailures = <<>> /\ ~registry.loaded /\ registry.defaultTarget = None
      /\ \A t \in Threads : ~load[t].active
  BY DEF Init, Empty
<1>3. Held(registry, {})
  BY <1>1, SentinelAssumption DEF Held
<1>4. Prefix(registry, 0)
  BY <1>2, <1>3, TriedUnfolds DEF Prefix, Start
<1>5. ASSUME NEW i \in DOMAIN EntryPoints PROVE sysModules[EntryPoints[i]] = "absent"
  <2>1. EntryPoints[i] \in Modules
    BY EntryModule DEF Entries
  <2> QED
    BY <2>1 DEF Init
<1> QED
  BY <1>2, <1>4, <1>5 DEF CatalogInv

LEMMA AsideCatalog ==
  ASSUME Inv, CatalogInv, Aside, SameCells(registry, registry'),
         registry' = registry \/ registry.loaded
  PROVE  CatalogInv'
<1>1. \A i \in DOMAIN EntryPoints : sysModules'[EntryPoints[i]] = sysModules[EntryPoints[i]]
  BY DEF Aside, Entries
<1>2. ASSUME NEW t \in Threads, load'[t].active PROVE CatalogThread(t)'
  <2>1. load[t].active /\ ~registry.loaded
    BY <1>2, OneActive DEF Aside
  <2>2. /\ load'[t] = load[t] /\ pc'[t] = pc[t] /\ stack'[t] = stack[t]
        /\ registry' = registry
    BY <2>1 DEF Aside
  <2>3. CatalogThread(t)
    BY <2>1 DEF CatalogInv
  <2>4. (Trying(t)' <=> Trying(t)) /\ Loading(t)' = Loading(t)
    BY <2>2 DEF Trying, Loading
  <2> QED
    BY <1>1, <2>2, <2>3, <2>4 DEF CatalogThread, Refused
<1>3. lock' = lock /\ registry'.loaded = registry.loaded
  BY DEF Aside
<1>4. registry'.loaded => Held(registry', Catalog!Tried[Last].claims)
  BY <1>3, HeldSame DEF CatalogInv
<1> QED
  BY <1>1, <1>2, <1>3, <1>4 DEF CatalogInv

\* A step of the discovering thread.
LEMMA DiscoveryCatalog ==
  ASSUME Inv', NEW t \in Threads, load'[t].active, CatalogThread(t)'
  PROVE  CatalogInv'
<1>1. lock' = t /\ t # NoThread /\ ~registry'.loaded
  BY SentinelAssumption DEF Inv, LockInv
<1>2. \A u \in Threads : load'[u].active => u = t
  BY <1>1 DEF Inv, LockInv
<1> QED
  BY <1>1, <1>2 DEF CatalogInv

LEMMA EntryRange ==
  ASSUME Inv, NEW t \in Threads
  PROVE  /\ load[t].entry \in Nat \ {0} /\ Last \in Nat /\ DOMAIN EntryPoints = 1..Last
         /\ load[t].checkpoint \in RegistryState /\ registry \in RegistryState
BY RegistryAssumption, LenProperties DEF Inv, TypeOK, LoadState, Last

LEMMA BeginCatalog ==
  ASSUME Inv, Inv', CatalogInv, NEW t \in Threads, BeginDiscovery(t)
  PROVE  CatalogInv'
<1>1. /\ pc[t] = "acquire" /\ lock = NoThread /\ ~registry.loaded
      /\ pc' = [pc EXCEPT ![t] = "discover"] /\ registry' = registry
      /\ sysModules' = sysModules
      /\ load' = [load EXCEPT ![t] = [load[t] EXCEPT !.active = TRUE, !.entry = 1, !.failed = <<>>]]
  BY DEF BeginDiscovery, Goto
<1>2. pc'[t] = "discover" /\ load'[t].active /\ load'[t].entry = 1
  BY <1>1 DEF Inv, TypeOK, LoadState
<1>3. Prefix(registry, 0) /\ \A i \in DOMAIN EntryPoints : sysModules[EntryPoints[i]] = "absent"
  BY <1>1 DEF CatalogInv
<1>4. CatalogThread(t)'
  BY <1>1, <1>2, <1>3, EntryRange DEF CatalogThread, Trying
<1> QED
  BY <1>2, <1>4, DiscoveryCatalog

LEMMA PublishCatalog ==
  ASSUME Inv, CatalogInv, NEW t \in Threads, Publish(t)
  PROVE  CatalogInv' /\ Prefix(registry, Last) /\ registry' = [registry EXCEPT !.loaded = TRUE]
<1>1. /\ pc[t] = "discover" /\ load[t].entry > Last
      /\ registry' = [registry EXCEPT !.loaded = TRUE] /\ lock' = NoThread
      /\ load' = [load EXCEPT ![t] = [load[t] EXCEPT !.active = FALSE]]
  BY DEF Publish, Last
<1>2. load[t].active /\ \A u \in Threads : u # t => ~load[u].active
  BY <1>1, OneActive DEF Inv, LockInv
<1>3. \A u \in Threads : ~load'[u].active
  BY <1>1, <1>2 DEF Inv, TypeOK, LoadState
<1>4. Prefix(registry, Last)
  <2>1. CatalogThread(t)
    BY <1>2 DEF CatalogInv
  <2>2. load[t].entry = Last + 1
    BY <1>1, <2>1, EntryRange DEF CatalogThread
  <2> QED
    BY <1>1, <2>1, <2>2, EntryRange DEF CatalogThread
<1>5. /\ registry'.detectors = registry.detectors /\ registry'.builders = registry.builders
      /\ registry'.loaded
  BY <1>1 DEF Inv, TypeOK, RegistryState
<1>6. Held(registry', Catalog!Tried[Last].claims)
  BY <1>4, <1>5, SameGrown, HeldSame DEF Prefix
<1> QED
  BY <1>1, <1>3, <1>4, <1>5, <1>6 DEF CatalogInv

LEMMA NextEntryCatalog ==
  ASSUME Inv, Inv', CatalogInv, NEW t \in Threads, NextEntryPoint(t)
  PROVE  CatalogInv'
<1>1. /\ pc[t] = "discover" /\ registry' = registry /\ sysModules' = sysModules
      /\ load' = [load EXCEPT ![t] = [load[t] EXCEPT !.checkpoint = registry]]
      /\ pc' = [pc EXCEPT ![t] = "load"]
  BY DEF NextEntryPoint, Goto
<1>2. load[t].active /\ CatalogThread(t)
  BY <1>1 DEF Inv, LockInv, CatalogInv
<1>3. pc'[t] = "load" /\ load'[t].active /\ load'[t].entry = load[t].entry
  BY <1>1, <1>2 DEF Inv, TypeOK, LoadState
<1>4. CatalogThread(t)'
  BY <1>1, <1>2, <1>3 DEF CatalogThread, Trying
<1> QED
  BY <1>3, <1>4, DiscoveryCatalog

LEMMA LoadCatalog ==
  ASSUME SelfContained, Inv, Inv', BackendInv, CatalogInv, NEW t \in Threads, Load(t)
  PROVE  CatalogInv'
<1> DEFINE m == Loading(t)
<1>1. /\ pc[t] = "load" /\ registry' = registry /\ load' = load
      /\ sysModules' = [sysModules EXCEPT ![m] = "importing"]
      /\ pc' = [pc EXCEPT ![t] = "import"]
      /\ stack' = [stack EXCEPT ![t] = <<[module |-> m, at |-> 1]>> \o <<>>]
  BY DEF Load, Import, Goto, user
<1>2. load[t].active /\ CatalogThread(t)
  BY <1>1 DEF Inv, LockInv, CatalogInv
<1>3. /\ m \in Entries /\ m \in Modules /\ load[t].checkpoint = registry
      /\ load[t].entry \in DOMAIN EntryPoints /\ m = EntryPoints[load[t].entry]
  BY <1>1, <1>2, LoadingEntry, EntryModule DEF BackendInv, ThreadInv
<1>4. Head(stack'[t]).at = 1
  <2>1. <<[module |-> m, at |-> 1]>> \in Seq({[module |-> m, at |-> 1]})
    OBVIOUS
  <2>2. stack'[t] = <<[module |-> m, at |-> 1]>>
    BY <1>1, <2>1, ConcatEmptySeq DEF Inv, TypeOK
  <2> QED
    BY <2>2
<1>5. pc'[t] = "import" /\ Loading(t)' = m /\ load'[t] = load[t]
  BY <1>1 DEF Inv, TypeOK, Loading
<1>6. \A claims : Named(m, 1, claims)
  BY <1>3, StatementCell DEF Named
<1>7. Chose(registry, registry, m, 1)
  BY <1>3, DefaultAt DEF Chose
<1>8. Prefix(registry, load[t].entry - 1)
  BY <1>1, <1>2 DEF CatalogThread
<1>9. ASSUME NEW i \in DOMAIN EntryPoints, i > load[t].entry
      PROVE  sysModules'[EntryPoints[i]] = "absent"
  <2>1. EntryPoints[i] # m
    BY <1>3, <1>9, EntryRange DEF SelfContained
  <2> QED
    BY <1>1, <1>2, <1>9, <2>1 DEF CatalogThread
<1>10. CatalogThread(t)'
  BY <1>1, <1>2, <1>3, <1>4, <1>5, <1>6, <1>7, <1>8, <1>9 DEF CatalogThread
<1> QED
  BY <1>2, <1>5, <1>10, DiscoveryCatalog

\* Where the discovering thread stands.
LEMMA TryingCatalog ==
  ASSUME Inv, BackendInv, CatalogInv, NEW t \in Threads, Trying(t),
         NEW n, n = load[t].entry, NEW m, m = Loading(t), NEW at, at = Head(stack[t]).at,
         NEW r0, r0 = load[t].checkpoint
  PROVE  /\ n \in 1..Last /\ m = EntryPoints[n] /\ m \in Entries /\ m \in Modules /\ at \in Nat
         /\ r0 \in RegistryState /\ registry \in RegistryState
         /\ Prefix(r0, n - 1) /\ Named(m, at, Catalog!Tried[n - 1].claims)
         /\ Chose(r0, registry, m, at) /\ Underway(sysModules, r0, registry, m, at)
         /\ \A i \in DOMAIN EntryPoints : i > n => sysModules[EntryPoints[i]] = "absent"
<1>1. load[t].active /\ CatalogThread(t)
  BY DEF Trying, CatalogInv
<1> QED
  BY <1>1, TryingBackend, EntryRange DEF CatalogThread

LEMMA AdvanceCatalog ==
  ASSUME Inv, Inv', BackendInv, CatalogInv, NEW t \in Threads, Trying(t), Advance(t),
         NEW at, at = Head(stack[t]).at, NEW m, m = Loading(t), at \in DOMAIN Body[m],
         IF Body[m][at].kind = "default"
         THEN /\ Body[m][at].target \in KnownIn(registry)
              /\ registry'.defaultTarget = Body[m][at].target
         ELSE registry'.defaultTarget = registry.defaultTarget
  PROVE  CatalogInv'
<1> DEFINE n == load[t].entry
           r0 == load[t].checkpoint
           claims == Catalog!Tried[n - 1].claims
<1>1. /\ n \in 1..Last /\ m \in Entries
      /\ r0 \in RegistryState /\ registry \in RegistryState
      /\ Prefix(r0, n - 1) /\ Named(m, at, claims)
      /\ Chose(r0, registry, m, at) /\ Underway(sysModules, r0, registry, m, at)
      /\ \A i \in DOMAIN EntryPoints : i > n => sysModules[EntryPoints[i]] = "absent"
  BY TryingCatalog
<1>2. /\ stack' = [stack EXCEPT ![t] = Advanced(t)]
      /\ load' = load /\ sysModules' = sysModules /\ pc' = pc
      /\ pc[t] = "import" /\ load[t].active
  BY DEF Advance, Trying
<1>3. Head(stack'[t]).at = at + 1 /\ Loading(t)' = m
  BY <1>2, AdvancedFrames DEF Inv, TypeOK, Loading
<1>4. Held(registry, claims \cup OwnClaimsBefore(m, at))
  BY <1>1, UnderwayHeld DEF Prefix
<1>5. Named(m, at + 1, claims) /\ Chose(r0, registry', m, at + 1)
  BY <1>1, <1>4, NamedStep
<1>6. CatalogThread(t)'
  BY <1>1, <1>2, <1>3, <1>5, EntryRange DEF CatalogThread, Trying
<1> QED
  BY <1>2, <1>6, DiscoveryCatalog

LEMMA FinishCatalog ==
  ASSUME SelfContained, Inv, Inv', BackendInv, CatalogInv, NEW t \in Threads, Trying(t),
         FinishModule(t)
  PROVE  CatalogInv'
<1> DEFINE n == load[t].entry
           m == Loading(t)
           at == Head(stack[t]).at
           r0 == load[t].checkpoint
<1>1. /\ n \in 1..Last /\ m = EntryPoints[n] /\ m \in Entries /\ m \in Modules /\ at \in Nat
      /\ r0 \in RegistryState /\ registry \in RegistryState
      /\ Prefix(r0, n - 1) /\ Named(m, at, Catalog!Tried[n - 1].claims)
      /\ Chose(r0, registry, m, at) /\ Underway(sysModules, r0, registry, m, at)
      /\ \A i \in DOMAIN EntryPoints : i > n => sysModules[EntryPoints[i]] = "absent"
  BY TryingCatalog
<1>2. Current(t) = m /\ Len(stack[t]) = 1 /\ load[t].active
  BY TryingBackend
<1>3. /\ registry' = registry
      /\ sysModules' = [sysModules EXCEPT ![m] = "imported"]
      /\ at > Len(Body[m])
      /\ pc' = [pc EXCEPT ![t] = "discover"]
      /\ load' = [load EXCEPT ![t] = [load[t] EXCEPT !.entry = load[t].entry + 1]]
  BY <1>2 DEF FinishModule, Goto
<1>4. pc'[t] = "discover" /\ load'[t].active /\ load'[t].entry = n + 1
  BY <1>2, <1>3 DEF Inv, TypeOK, LoadState
<1>5. Prefix(registry, n)
  <2> HIDE DEF n, m, at, r0
  <2> QED
    BY <1>1, <1>3, EntrySucceeds
<1>6. ASSUME NEW i \in DOMAIN EntryPoints, i >= n + 1
      PROVE  sysModules'[EntryPoints[i]] = "absent"
  <2>1. n \in DOMAIN EntryPoints /\ i > n /\ i # n
    BY <1>1, <1>6, EntryRange
  <2>2. EntryPoints[i] # m
    BY <1>1, <2>1 DEF SelfContained
  <2> QED
    BY <1>1, <1>3, <2>1, <2>2
<1>7. n \in Nat /\ n + 1 <= Last + 1 /\ (n + 1) - 1 = n
  BY <1>1, EntryRange
<1> HIDE DEF n
<1>8. CatalogThread(t)'
  BY <1>3, <1>4, <1>5, <1>6, <1>7, EntryRange DEF CatalogThread, Trying
<1> QED
  BY <1>4, <1>8, DiscoveryCatalog

LEMMA FailCatalog ==
  ASSUME SelfContained, Inv, Inv', BackendInv, CatalogInv, NEW t \in Threads, Trying(t), Raise(t),
         NEW at, at = Head(stack[t]).at, NEW m, m = Loading(t), at \in DOMAIN Body[m],
         \/ Body[m][at].kind = "raise"
         \/ Body[m][at] \in Cells /\ Owner(registry, Body[m][at]) # NoModule
         \/ Body[m][at].kind = "default" /\ Body[m][at].target \notin KnownIn(registry)
  PROVE  CatalogInv'
<1> DEFINE n == load[t].entry
           r0 == load[t].checkpoint
<1>1. /\ n \in 1..Last /\ m = EntryPoints[n] /\ m \in Entries /\ m \in Modules
      /\ r0 \in RegistryState /\ registry \in RegistryState
      /\ Prefix(r0, n - 1) /\ Underway(sysModules, r0, registry, m, at)
      /\ \A i \in DOMAIN EntryPoints : i > n => sysModules[EntryPoints[i]] = "absent"
  BY TryingCatalog
<1>2. load[t].active /\ Current(t) = m /\ Len(stack[t]) = 1 /\ pc[t] = "import"
  BY TryingBackend
<1>3. /\ sysModules' = [k \in Modules |-> IF k \in OnStack(t) THEN "absent" ELSE sysModules[k]]
      /\ pc'[t] = "rollback"
      /\ load'[t].active /\ load'[t].entry = n /\ load'[t].checkpoint = r0
  BY <1>2 DEF Raise, Unwind, Goto, Inv, TypeOK, LoadState
<1> DEFINE q == [r0 EXCEPT !.loadFailures = Append(r0.loadFailures, m)]
<1>4. /\ q.detectors = r0.detectors /\ q.builders = r0.builders
      /\ q.loadFailures = Append(r0.loadFailures, m) /\ q.defaultTarget = r0.defaultTarget
  BY <1>1 DEF RegistryState
<1>5. Refused(t)' = q
  BY <1>3 DEF Refused, Loading
<1> HIDE DEF q
<1>6. SameCells(r0, q)
  BY <1>4, SameGrown
<1>7. Prefix(q, n)
  <2> HIDE DEF n, r0
  <2> QED
    BY <1>1, <1>4, <1>6, EntryFails
<1>8. ASSUME NEW i \in DOMAIN EntryPoints, i > n
      PROVE  sysModules'[EntryPoints[i]] = "absent"
  <2>1. EntryPoints[i] \in Modules
    BY EntryModule DEF Entries
  <2> QED
    BY <1>1, <1>3, <1>8, <2>1
<1>9. n \in Nat /\ n <= Last /\ Last \in Nat
  <2>1. n \in 1..Last /\ Last \in Nat
    BY <1>1, EntryRange
  <2> HIDE DEF n
  <2> QED
    BY <2>1
<1>10. CatalogThread(t)'
  <2>1. ~Trying(t)'
    BY <1>3 DEF Trying
  <2> HIDE DEF n
  <2> QED
    BY <1>3, <1>5, <1>7, <1>8, <1>9, <2>1 DEF CatalogThread
<1> QED
  BY <1>3, <1>10, DiscoveryCatalog

LEMMA TryCatalog ==
  ASSUME SelfContained, Inv, Inv', BackendInv, CatalogInv, NEW t \in Threads, load[t].active,
         Execute(t)
  PROVE  CatalogInv'
<1> DEFINE m == Loading(t)
           at == Head(stack[t]).at
<1>1. Trying(t)
  BY ExecutePlace DEF Trying
<1>2. m \in Entries /\ Current(t) = m
  BY <1>1, TryingBackend
<1>3. ASSUME NEW kind, AtStatement(t, kind)
      PROVE  /\ at \in DOMAIN Body[m] /\ Statement(t) = Body[m][at] /\ Body[m][at].kind = kind
             /\ Body[m][at] \in Cells <=> kind \in {"detector", "builder"}
             /\ kind # "import"
  <2>1. /\ at \in DOMAIN Body[m] /\ Statement(t) = Body[m][at] /\ Body[m][at].kind = kind
        /\ Body[m][at] \in Cells <=> kind \in {"detector", "builder"}
    BY <1>2, <1>3, StatementAt
  <2> QED
    BY <1>2, <2>1 DEF SelfContained
<1>4. CASE register_detector(t) \/ register_kernel_builder(t)
  <2>1. AtStatement(t, "detector") \/ AtStatement(t, "builder")
    BY <1>4 DEF register_detector, register_kernel_builder
  <2>2. at \in DOMAIN Body[m] /\ Statement(t) = Body[m][at] /\ Body[m][at] \in Cells
        /\ Body[m][at].kind \in {"detector", "builder"}
    BY <1>3, <2>1
  <2>3. CASE Raise(t) /\ Owner(registry, Statement(t)) # NoModule
    BY <1>1, <2>2, <2>3, FailCatalog
  <2>4. CASE ~(Raise(t) /\ Owner(registry, Statement(t)) # NoModule)
    <3>1. Advance(t)
      BY <1>4, <2>4, RegisterCell
    <3>2. Owner(registry, Statement(t)) = NoModule
      BY <1>4, <2>4, RegisterCell
    <3>3. registry'.defaultTarget = registry.defaultTarget
      <4>1. CASE register_detector(t)
        <5>1. registry.detectors[Statement(t).target] = NoModule
          BY <2>2, <3>2, <4>1 DEF Owner, register_detector, AtStatement, Statement
        <5>2. PICK d : registry' = [registry EXCEPT !.detectors = d]
          BY <4>1, <5>1 DEF register_detector
        <5> QED
          BY <5>2 DEF Inv, TypeOK, RegistryState
      <4>2. CASE register_kernel_builder(t)
        <5>1. registry.builders[<<Statement(t).op, Statement(t).target>>] = NoModule
          BY <2>2, <3>2, <4>2 DEF Owner, register_kernel_builder, AtStatement, Statement
        <5>2. PICK d : registry' = [registry EXCEPT !.builders = d]
          BY <4>2, <5>1 DEF register_kernel_builder
        <5> QED
          BY <5>2 DEF Inv, TypeOK, RegistryState
      <4> QED
        BY <1>4, <4>1, <4>2
    <3> QED
      BY <1>1, <2>2, <3>1, <3>3, AdvanceCatalog
  <2> QED
    BY <2>3, <2>4
<1>5. CASE DefaultAtImport(t)
  <2>1. at \in DOMAIN Body[m] /\ Body[m][at].kind = "default" /\ Statement(t) = Body[m][at]
    BY <1>3, <1>5 DEF DefaultAtImport
  <2>2. CASE Statement(t).target \in known_targets
    <3>1. registry' = [registry EXCEPT !.defaultTarget = Statement(t).target] /\ Advance(t)
      BY <1>5, <2>2 DEF DefaultAtImport
    <3>2. registry'.defaultTarget = Body[m][at].target
      BY <2>1, <3>1 DEF Inv, TypeOK, RegistryState
    <3> QED
      BY <1>1, <2>1, <2>2, <3>1, <3>2, KnownTargets, AdvanceCatalog
  <2>3. CASE Statement(t).target \notin known_targets
    <3>1. Raise(t)
      BY <1>5, <2>3 DEF DefaultAtImport
    <3> QED
      BY <1>1, <2>1, <2>3, <3>1, KnownTargets, FailCatalog
  <2> QED
    BY <2>2, <2>3
<1>6. CASE ImportStatement(t)
  BY <1>3, <1>6 DEF ImportStatement
<1>7. CASE RaiseStatement(t)
  <2>1. at \in DOMAIN Body[m] /\ Body[m][at].kind = "raise" /\ Raise(t)
    BY <1>3, <1>7 DEF RaiseStatement
  <2> QED
    BY <1>1, <2>1, FailCatalog
<1>8. CASE FinishModule(t)
  BY <1>1, <1>8, FinishCatalog
<1> QED
  BY <1>4, <1>5, <1>6, <1>7, <1>8 DEF Execute

\* Executing what the program imports by itself leaves the tables alone.
LEMMA DirectQuiet ==
  ASSUME SelfContained, Undisturbed, Inv, BackendInv, NEW t \in Threads, ~load[t].active,
         Execute(t)
  PROVE  Aside /\ registry' = registry
<1>1. pc[t] = "import" /\ OnStack(t) \subseteq DirectModules
  BY ExecutePlace DEF BackendInv, ThreadInv
<1>2. Current(t) \in DirectModules
  BY <1>1, AdvancedFrames
<1>3. ~AtStatement(t, "detector") /\ ~AtStatement(t, "builder")
  BY <1>2, StatementAt DEF Undisturbed
<1>4. ~register_detector(t) /\ ~register_kernel_builder(t)
  BY <1>3 DEF register_detector, register_kernel_builder
<1> QED
  BY <1>4, DirectExecute

LEMMA NoInterrupt ==
  ASSUME Undisturbed, Inv, NEW t \in Threads
  PROVE  ~Interrupt(t)
BY DEF Undisturbed, Interrupt, Inv, TypeOK

\* While an entry point is rolled back.
LEMMA RollingCatalog ==
  ASSUME SelfContained, Undisturbed, Inv, Inv', RolledInv, CatalogInv, NEW t \in Threads,
         Rolling(t), RollbackInv(t), [Next]_vars
  PROVE  CatalogInv'
<1>1. pc[t] = "rollback" /\ load[t].active
  BY UndoUnpublished DEF Rolling, RollbackInv, Undisturbed
<1>2. CatalogThread(t) /\ load[t].entry \in Nat \ {0} /\ Last \in Nat
  BY <1>1, EntryRange DEF CatalogInv
<1>3. \A i \in DOMAIN EntryPoints : i \in Nat /\ EntryPoints[i] \in Entries
  BY EntryRange DEF Entries
<1>4. CASE RecordFailure(t)
  <2>1. Undo(t) /\ ~restore(t) /\ ~Abandon(t)
    BY <1>4 DEF Undo, RecordFailure, restore, Abandon, Assignments
  <2>2. /\ UNCHANGED sysModules /\ load'[t].active /\ pc' = [pc EXCEPT ![t] = "discover"]
        /\ load'[t].entry = load[t].entry + 1 /\ load[t].restored = Assignments
        /\ registry'.loadFailures = Append(registry.loadFailures, Loading(t))
        /\ registry'.detectors = registry.detectors /\ registry'.builders = registry.builders
        /\ registry'.defaultTarget = registry.defaultTarget
    BY <2>1, UndoEffect
  <2>3. registry = load[t].checkpoint /\ registry \in RegistryState
    BY <2>2, RolledEnd, EntryRange
  <2>4. /\ Refused(t).detectors = registry.detectors /\ Refused(t).builders = registry.builders
        /\ Refused(t).loadFailures = registry'.loadFailures
        /\ Refused(t).defaultTarget = registry.defaultTarget
    <3>1. /\ load[t].checkpoint = registry
          /\ registry'.loadFailures = Append(registry.loadFailures, Loading(t))
      BY <2>2, <2>3
    <3>2. Refused(t) = [registry EXCEPT !.loadFailures = registry'.loadFailures]
      BY <3>1 DEF Refused
    <3> QED
      BY <2>3, <3>2 DEF RegistryState
  <2>5. SameCells(Refused(t), registry')
    BY <2>2, <2>4, SameGrown
  <2>6. Prefix(registry', load[t].entry)
    <3>1. Prefix(Refused(t), load[t].entry)
      BY <1>1, <1>2 DEF CatalogThread
    <3> QED
      BY <2>2, <2>4, <2>5, <3>1, HeldSame DEF Prefix
  <2>7. pc'[t] = "discover"
    BY <2>2 DEF Inv, TypeOK
  <2>8. CatalogThread(t)'
    <3>1. load'[t].entry <= Last + 1 /\ load'[t].entry - 1 = load[t].entry
      BY <1>1, <1>2, <2>2 DEF CatalogThread
    <3>2. ASSUME NEW i \in DOMAIN EntryPoints, i >= load'[t].entry
          PROVE  sysModules'[EntryPoints[i]] = "absent"
      <4>1. i > load[t].entry
        BY <1>2, <1>3, <2>2, <3>2
      <4> QED
        BY <1>2, <2>2, <4>1 DEF CatalogThread
    <3>3. load'[t].entry \in Nat
      BY <1>2, <2>2
    <3> QED
      BY <1>3, <2>6, <2>7, <3>1, <3>2, <3>3 DEF CatalogThread, Trying
  <2> QED
    BY <2>2, <2>8, DiscoveryCatalog
<1>5. CASE ~RecordFailure(t)
  <2>1. restore(t) \/ ~Undo(t)
    BY <1>1, <1>5 DEF Undo, Abandon
  <2>2. /\ load'[t].entry = load[t].entry /\ load'[t].checkpoint = load[t].checkpoint
        /\ load'[t].active /\ pc'[t] = "rollback"
    <3>1. CASE restore(t)
      <4>1. Undo(t) /\ ~RecordFailure(t) /\ ~Abandon(t)
        BY <3>1 DEF Undo, RecordFailure, restore, Abandon, Assignments
      <4> QED
        BY <1>1, <4>1, UndoEffect
    <3>2. CASE ~Undo(t)
      BY <1>1, <3>2, TablesRest
    <3> QED
      BY <2>1, <3>1, <3>2
  <2>3. \A m \in Entries : sysModules'[m] = sysModules[m]
    BY EntriesRest DEF RollbackInv
  <2>4. Refused(t)' = Refused(t)
    BY <2>2 DEF Refused, Loading
  <2>5. CatalogThread(t)'
    BY <1>1, <1>2, <1>3, <2>2, <2>3, <2>4 DEF CatalogThread, Trying
  <2> QED
    BY <2>2, <2>5, DiscoveryCatalog
<1> QED
  BY <1>4, <1>5

LEMMA CatalogStep ==
  ASSUME SelfContained, Undisturbed, Inv, Inv', RolledInv, BackendsInv, CatalogInv, [Next]_vars
  PROVE  CatalogInv'
<1>3. CASE \E t \in Threads : Rolling(t)
  BY <1>3, RollingCatalog DEF BackendsInv
<1>4. (\A t \in Threads : ~Rolling(t)) => BackendInv /\ \A t \in Threads : ~Undo(t)
  BY UndoEffect DEF BackendsInv
<1>1. CASE UNCHANGED vars
  <2>1. /\ registry' = registry /\ lock' = lock /\ load' = load /\ sysModules' = sysModules
        /\ stack' = stack /\ pc' = pc
    BY <1>1 DEF vars
  <2>2. Aside /\ SameCells(registry, registry')
    BY <2>1, SameGrown DEF Aside
  <2> QED
    BY <2>1, <2>2, AsideCatalog
<1>2. CASE Next /\ \A t \in Threads : ~Rolling(t)
  <2>1. PICK t \in Threads : Call(t) \/ DirectImport(t) \/ Interrupt(t) \/ Step(t)
    BY <1>2 DEF Next
  <2>2. CASE Execute(t) /\ load[t].active
    BY <1>2, <1>4, <2>2, TryCatalog
  <2>3. CASE Execute(t) /\ ~load[t].active
    <3>1. Aside /\ registry' = registry
      BY <1>2, <1>4, <2>3, DirectQuiet
    <3> QED
      BY <3>1, SameGrown, AsideCatalog
  <2>4. CASE \/ Call(t) \/ DirectImport(t) \/ FastPath(t) \/ FoundLoaded(t) \/ Warn(t) \/ Read(t)
    BY <1>2, <1>4, <2>4, OtherSteps, AsideCatalog
  <2>5. CASE LoadCached(t)
    <3>1. load[t].active /\ pc[t] = "load" /\ sysModules[Loading(t)] = "imported"
      BY <2>5 DEF LoadCached, Inv, LockInv
    <3>2. load[t].entry \in DOMAIN EntryPoints /\ Loading(t) = EntryPoints[load[t].entry]
      BY <3>1, LoadingEntry
    <3>3. sysModules[Loading(t)] = "absent"
      BY <3>1, <3>2 DEF CatalogInv, CatalogThread
    <3> QED
      BY <3>1, <3>3
  <2>6. CASE BeginDiscovery(t) \/ Publish(t) \/ NextEntryPoint(t) \/ Load(t)
    BY <1>2, <1>4, <2>6, BeginCatalog, PublishCatalog, NextEntryCatalog, LoadCatalog
  <2> QED
    BY <1>2, <1>4, <2>1, <2>2, <2>3, <2>4, <2>5, <2>6, NoInterrupt DEF Step, Discover
<1> QED
  BY <1>1, <1>2, <1>3

\* The state of the abstract specification.
View ==
    IF registry.loaded
    THEN [detectors |-> registry.detectors, builders |-> registry.builders,
          loadFailures |-> registry.loadFailures, defaultTarget |-> registry.defaultTarget]
    ELSE Unpublished

\* The owner the catalog names is the owner in the tables.
LEMMA OwnerNamed ==
  ASSUME NEW r \in RegistryState, Held(r, Catalog!Complete.claims), NEW c \in Cells
  PROVE  Catalog!Owner(CellClaim(c, NoModule).cell) = Owner(r, c)
<1> DEFINE cell == CellClaim(c, NoModule).cell
           owners == {x.by : x \in {x \in Catalog!Complete.claims : x.cell = cell}}
<1>1. ASSUME NEW m \in owners PROVE m = Owner(r, c) /\ m \in Modules
  <2>1. PICK x \in Catalog!Complete.claims : x.cell = cell /\ m = x.by
    OBVIOUS
  <2>2. PICK d \in Cells, n \in Modules : x = CellClaim(d, n)
    BY DEF Held
  <2>3. d = c /\ m = n
    BY <2>1, <2>2, ClaimFacts
  <2> QED
    BY <2>1, <2>2, <2>3 DEF Held
<1>2. ASSUME Owner(r, c) # NoModule PROVE Owner(r, c) \in owners
  <2>1. Owner(r, c) \in Modules
    BY <1>2, OwnerType
  <2>2. CellClaim(c, Owner(r, c)) \in Catalog!Complete.claims
    BY <2>1 DEF Held
  <2>3. CellClaim(c, Owner(r, c)).cell = cell /\ CellClaim(c, Owner(r, c)).by = Owner(r, c)
    BY DEF CellClaim
  <2> QED
    BY <2>2, <2>3
<1>3. Catalog!Owner(cell) = IF owners = {} THEN NoModule ELSE CHOOSE m \in owners : TRUE
  BY DEF Catalog!Owner
<1>4. CASE owners = {}
  BY <1>2, <1>3, <1>4
<1>5. CASE owners # {}
  <2> HIDE DEF owners
  <2>1. (CHOOSE m \in owners : TRUE) \in owners
    BY <1>5
  <2> QED
    BY <1>1, <1>3, <1>5, <2>1
<1> QED
  BY <1>4, <1>5

LEMMA CatalogReached ==
  ASSUME NEW r \in RegistryState, Prefix(r, Last)
  PROVE  [detectors |-> r.detectors, builders |-> r.builders,
          loadFailures |-> r.loadFailures, defaultTarget |-> r.defaultTarget] = Catalog!Catalog
<1>1. Catalog!Complete = Catalog!Tried[Last]
  BY DEF Catalog!Complete, Last
<1>2. Held(r, Catalog!Complete.claims)
  BY <1>1 DEF Prefix
<1>3. r.detectors = [T \in Targets |-> Catalog!Owner(<<T>>)]
  <2>1. ASSUME NEW T \in Targets PROVE r.detectors[T] = Catalog!Owner(<<T>>)
    <3> DEFINE c == [kind |-> "detector", target |-> T]
    <3>1. c \in Cells /\ Owner(r, c) = r.detectors[T] /\ CellClaim(c, NoModule).cell = <<T>>
      BY DEF Cells, Owner, CellClaim
    <3> QED
      BY <1>2, <3>1, OwnerNamed
  <2> QED
    BY <2>1 DEF RegistryState
<1>4. r.builders = [cell \in Ops \X Targets |-> Catalog!Owner(cell)]
  <2>1. ASSUME NEW cell \in Ops \X Targets PROVE r.builders[cell] = Catalog!Owner(cell)
    <3>1. PICK op \in Ops, T \in Targets : cell = <<op, T>>
      OBVIOUS
    <3> DEFINE c == [kind |-> "builder", op |-> op, target |-> T]
    <3>2. /\ c \in Cells /\ Owner(r, c) = r.builders[<<op, T>>]
          /\ CellClaim(c, NoModule).cell = <<op, T>>
      BY DEF Cells, Owner, CellClaim
    <3> QED
      BY <1>2, <3>1, <3>2, OwnerNamed
  <2> QED
    BY <2>1 DEF RegistryState
<1> QED
  BY <1>1, <1>3, <1>4 DEF Prefix, Catalog!Catalog

\* Once published, only a default is stored, and it is of a target in the catalog.
LEMMA PublishedStep ==
  ASSUME SelfContained, Undisturbed, Inv, BackendsInv, DefaultInv, CatalogInv, registry.loaded,
         NEW t \in Threads, Call(t) \/ DirectImport(t) \/ Interrupt(t) \/ Step(t)
  PROVE  \/ registry' = registry
         \/ \E target \in Catalog!Known \cup {None, Builtin} :
              registry' = [registry EXCEPT !.defaultTarget = target]
<1>1. ~load[t].active /\ ~Undo(t) /\ BackendInv
  BY OneActive, UndoUnpublished, UndoEffect DEF BackendsInv
<1>2. CASE Execute(t)
  BY <1>1, <1>2, DirectQuiet
<1>3. CASE StoreDefault(t)
  <2>1. call[t].target \in Nameable(registry)
    BY <1>3 DEF StoreDefault, DefaultInv
  <2>2. Catalog!Known = KnownIn(registry)
    <3>1. Catalog!Complete = Catalog!Tried[Last]
      BY DEF Catalog!Complete, Last
    <3>2. Held(registry, Catalog!Complete.claims)
      BY <3>1 DEF CatalogInv
    <3> QED
      BY <3>2, KnownClaims, EntryRange DEF Catalog!Known
  <2> QED
    BY <1>3, <2>1, <2>2 DEF StoreDefault, Nameable
<1>4. CASE BeginDiscovery(t) \/ Publish(t)
  BY <1>1, <1>4 DEF BeginDiscovery, Publish, Inv, LockInv
<1>5. CASE /\ ~Execute(t) /\ ~StoreDefault(t) /\ ~BeginDiscovery(t) /\ ~Publish(t)
  <2>1. CASE Call(t) \/ DirectImport(t)
    BY <2>1 DEF Call, DirectImport, Import
  <2>2. CASE Discover(t)
    BY <1>5, <2>2 DEF Discover, FastPath, FoundLoaded, Warn, NextEntryPoint, LoadCached, Load,
                      Import
  <2>3. CASE Read(t)
    BY <1>5, <2>3 DEF Read, select_target, RereadDefault, registered_kernel_builder,
                      load_failures, CheckDefault, Return, Reading
  <2> QED
    BY <1>1, <1>5, <2>1, <2>2, <2>3, NoInterrupt DEF Step
<1> QED
  BY <1>2, <1>3, <1>4, <1>5

\* Before that, only publishing publishes.
LEMMA UnpublishedStep ==
  ASSUME SelfContained, Undisturbed, Inv, BackendsInv, ~registry.loaded, NEW t \in Threads,
         Call(t) \/ DirectImport(t) \/ Interrupt(t) \/ Step(t), ~Publish(t)
  PROVE  ~registry'.loaded
<1>1. CASE Execute(t)
  BY <1>1, ExecuteEffect
<1>2. CASE \/ Call(t) \/ DirectImport(t) \/ FastPath(t) \/ FoundLoaded(t) \/ Warn(t) \/ Read(t)
  <2>1. CASE \A u \in Threads : ~Rolling(u)
    BY <1>2, <2>1, OtherSteps DEF Aside, BackendsInv
  <2>2. ASSUME NEW u \in Threads, Rolling(u) PROVE ~registry'.loaded
    <3>1. [Next]_vars
      BY DEF Next
    <3> QED
      BY <2>2, <3>1, TablesRest, UndoEffect
  <2> QED
    BY <2>1, <2>2
<1>3. CASE BeginDiscovery(t) \/ NextEntryPoint(t) \/ LoadCached(t) \/ Load(t)
  BY <1>3 DEF BeginDiscovery, NextEntryPoint, LoadCached, Load, Import
<1>4. CASE Undo(t)
  BY <1>4, UndoEffect
<1> QED
  BY <1>1, <1>2, <1>3, <1>4, NoInterrupt DEF Step, Discover

\* Every step publishes the catalog, sets a default, or is nothing to a reader.
LEMMA CatalogRefined ==
  ASSUME SelfContained, Undisturbed, Inv, Inv', BackendsInv, DefaultInv, CatalogInv, [Next]_vars
  PROVE  Catalog!Next \/ View' = View
<1>1. CASE UNCHANGED vars
  BY <1>1 DEF vars, View
<1>2. CASE Next
  <2>1. PICK t \in Threads : Call(t) \/ DirectImport(t) \/ Interrupt(t) \/ Step(t)
    BY <1>2 DEF Next
  <2>2. CASE Publish(t)
    <3>1. /\ Prefix(registry, Last) /\ registry' = [registry EXCEPT !.loaded = TRUE]
          /\ ~registry.loaded
      BY <2>2, PublishCatalog, OneActive DEF Publish, Inv, LockInv
    <3>2. /\ registry'.detectors = registry.detectors /\ registry'.builders = registry.builders
          /\ registry'.loadFailures = registry.loadFailures /\ registry'.loaded
          /\ registry'.defaultTarget = registry.defaultTarget
      BY <3>1 DEF Inv, TypeOK, RegistryState
    <3>3. View' = Catalog!Catalog
      BY <3>1, <3>2, CatalogReached, EntryRange DEF View
    <3>4. View = Unpublished
      BY <3>1 DEF View
    <3> QED
      BY <3>3, <3>4 DEF Catalog!Next, Catalog!Publish, View
  <2>3. CASE ~registry.loaded /\ ~Publish(t)
    <3>1. ~registry'.loaded
      BY <2>1, <2>3, UnpublishedStep
    <3> QED
      BY <2>3, <3>1 DEF View
  <2>4. CASE registry.loaded
    <3>1. CASE registry' = registry
      BY <3>1 DEF View
    <3>2. CASE \E target \in Catalog!Known \cup {None, Builtin} :
                 registry' = [registry EXCEPT !.defaultTarget = target]
      <4>1. PICK target \in Catalog!Known \cup {None, Builtin} :
              registry' = [registry EXCEPT !.defaultTarget = target]
        BY <3>2
      <4>2. /\ registry'.detectors = registry.detectors /\ registry'.builders = registry.builders
            /\ registry'.loadFailures = registry.loadFailures /\ registry'.loaded
            /\ registry'.defaultTarget = target
        BY <2>4, <4>1 DEF Inv, TypeOK, RegistryState
      <4>3. View' = [View EXCEPT !.defaultTarget = target]
        BY <2>4, <4>2 DEF View
      <4>4. View # Unpublished
        <5>1. View \in Tables
          BY <2>4 DEF View, Tables, Inv, TypeOK, RegistryState
        <5> QED
          BY <5>1, UnpublishedAssumption
      <4>5. Catalog!SetDefault
        BY <4>3, <4>4 DEF Catalog!SetDefault, View
      <4> QED
        BY <4>5 DEF Catalog!Next
    <3> QED
      BY <2>1, <2>4, <3>1, <3>2, PublishedStep
  <2> QED
    BY <2>2, <2>3, <2>4
<1> QED
  BY <1>1, <1>2

\* For any number of threads and any backends of one module each, whichever thread discovers
\* and however the others interleave, what is published is the catalog the entry points
\* determine in their order, and afterwards only the default changes (registry.py:132).
THEOREM CatalogPublished ==
  ASSUME SelfContained, Undisturbed
  PROVE  Spec => FixedOrder
<1>1. Repeatable
  BY DEF Undisturbed, Repeatable
<1>2. Init => DefaultInv
  BY DEF Init, DefaultInv, Nameable, Empty
<1>3. Inv /\ [Next]_vars => Inv'
  BY TypeStep, LockStep DEF Inv
<1>4. Inv /\ Inv' /\ RolledInv /\ DefaultInv /\ [Next]_vars => DefaultInv'
  BY DefaultStep
<1>5. Inv /\ Inv' /\ RolledInv /\ BackendsInv /\ CatalogInv /\ [Next]_vars => CatalogInv'
  BY CatalogStep
<1>6. Init => Catalog!Init
  BY DEF Init, Empty, Catalog!Init
<1>7. Inv /\ Inv' /\ BackendsInv /\ DefaultInv /\ CatalogInv /\ [Next]_vars
        => Catalog!Next \/ View' = View
  BY CatalogRefined
<1>8. View' = View => UNCHANGED (IF registry.loaded
            THEN [detectors |-> registry.detectors, builders |-> registry.builders,
                  loadFailures |-> registry.loadFailures,
                  defaultTarget |-> registry.defaultTarget]
            ELSE Unpublished)
  BY DEF View
<1>9. Inv /\ RolledInv /\ [Next]_vars => RolledInv'
  BY RolledInvStep
<1>10. Init => RolledInv
  BY DEF Init, RolledInv, Rolling
<1> QED
  BY InitInv, CatalogInit, BackendsDecided, <1>9, <1>10, <1>1, <1>2, <1>3, <1>4, <1>5, <1>6, <1>7, <1>8, PTL
  DEF Spec, FixedOrder, Catalog!Spec
=============================================================================
