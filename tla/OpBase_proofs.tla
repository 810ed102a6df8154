----------------------------- MODULE OpBase_proofs -----------------------------
(***************************************************************************)
(* The two halves of an op's base class (tileops/ops/op_base.py), for      *)
(* every value of their constants.  The answer of a selection is a         *)
(* function of what is installed and of the call, for every set of keys    *)
(* and classes and every order of the scan.  An instance that one thread   *)
(* calls is served by the target it settled on.                            *)
(***************************************************************************)
EXTENDS KernelSelection, OpInstance, TLAPS

-----------------------------------------------------------------------------
\* Kernel selection

\* The constructor's map is a map of the op's own keys to classes.
LEMMA MapType ==
    ASSUME override \in Overrides
    PROVE  [name \in Own |-> IF name \in DOMAIN override THEN override[name] ELSE Shipped[name]]
             \in [Own -> Classes]
<1>1. ASSUME NEW name \in Own, name \in DOMAIN override
      PROVE  override[name] \in Classes
  BY <1>1 DEF Overrides
<1> QED
  BY <1>1, SelectionAssumption

\* What a parent hands down is again a map a caller may write.
LEMMA ForwardType ==
    ASSUME override \in Overrides, NEW names
    PROVE  [name \in DOMAIN override \cap names |-> override[name]] \in Overrides
<1>1. PICK all \in SUBSET Names : override \in [all -> Classes]
  BY DEF Overrides
<1>2. DOMAIN override = all
  BY <1>1
<1>3. [name \in all \cap names |-> override[name]] \in [all \cap names -> Classes]
  BY <1>1
<1>4. all \cap names \in SUBSET Names
  BY <1>1
<1> QED
  BY <1>2, <1>3, <1>4 DEF Overrides

LEMMA SelectionTypeInit == InitSelection => SelectionTypeOK
BY SelectionAssumption DEF InitSelection, SelectionTypeOK

LEMMA SelectionTypeStep == SelectionTypeOK /\ [NextSelection]_selectionVars => SelectionTypeOK'
<1> SUFFICES ASSUME SelectionTypeOK, [NextSelection]_selectionVars
             PROVE  SelectionTypeOK'
  OBVIOUS
<1> USE DEF SelectionTypeOK
<1>1. CASE forwarded_overrides
  <2>1. override' \in Overrides
    BY <1>1, ForwardType DEF forwarded_overrides
  <2> QED
    BY <1>1, <2>1 DEF forwarded_overrides, callVars
<1>2. CASE _install_kernel_map
  <2>1. kernel_map' \in [Own -> Classes]
    BY <1>2, MapType DEF _install_kernel_map
  <2> QED
    BY <1>2, <2>1 DEF _install_kernel_map, callVars
<1>3. CASE Ask
  BY <1>3 DEF Ask, opVars
<1>4. CASE Scan
  <2>1. /\ left' \subseteq keys
        /\ applicable' \subseteq keys \cap Own
        /\ refused' \subseteq keys \cap Own
    BY <1>4 DEF Scan, Candidate
  <2> QED
    BY <1>4, <2>1 DEF Scan, opVars
<1>5. CASE Decide
  <2>1. answer' \in Own \cup Errors
    BY <1>5 DEF Decide, Chosen, Specialised, Errors
  <2> QED
    BY <1>5, <2>1 DEF Decide, opVars
<1>6. CASE Rejected \/ UNCHANGED selectionVars
  BY <1>6 DEF Rejected, selectionVars
<1> QED
  BY <1>1, <1>2, <1>3, <1>4, <1>5, <1>6 DEF NextSelection

\* The variables stay in their types.
THEOREM SelectionTypeCorrect == SpecSelection => []SelectionTypeOK
BY SelectionTypeInit, SelectionTypeStep, PTL DEF SpecSelection

\* The scan partitions the keys it has seen, whatever order it takes them in.
LEMMA ScanStep == SelectionTypeOK /\ ScanInv /\ [NextSelection]_selectionVars => ScanInv'
<1> SUFFICES ASSUME SelectionTypeOK, ScanInv, [NextSelection]_selectionVars
             PROVE  ScanInv'
  OBVIOUS
<1>1. CASE forwarded_overrides \/ _install_kernel_map
  BY <1>1 DEF forwarded_overrides, _install_kernel_map, ScanInv
<1>2. CASE Ask
  BY <1>2 DEF Ask, ScanInv
<1>3. CASE Scan
  <2>1. PICK name \in left :
          /\ left' = left \ {name}
          /\ \/ ~Candidate(name) /\ UNCHANGED <<applicable, refused>>
             \/ /\ Candidate(name) /\ ~Refusal(name)
                /\ applicable' = applicable \cup {name}
                /\ UNCHANGED refused
             \/ /\ Candidate(name) /\ Refusal(name)
                /\ refused' = refused \cup ({name} \cap overridden)
                /\ UNCHANGED applicable
    BY <1>3 DEF Scan
  <2>2. /\ applicable = {n \in keys \ left : Candidate(n) /\ ~Refusal(n)}
        /\ refused = {n \in (keys \ left) \cap overridden : Candidate(n) /\ Refusal(n)}
    BY <1>3 DEF Scan, ScanInv
  <2>3. UNCHANGED <<kernel_map, overridden, call, keys>>
    BY <1>3 DEF Scan, opVars
  <2>4. keys \ left' = (keys \ left) \cup {name}
    BY <2>1 DEF SelectionTypeOK
  <2>5. \A n : (Candidate(n))' = Candidate(n) /\ (Refusal(n))' = Refusal(n)
    BY <2>3 DEF Candidate, Refusal
  <2>6. applicable' = {n \in keys \ left' : Candidate(n) /\ ~Refusal(n)}
    BY <2>1, <2>2, <2>4
  <2>7. refused' = {n \in (keys \ left') \cap overridden : Candidate(n) /\ Refusal(n)}
    BY <2>1, <2>2, <2>4
  <2> QED
    BY <2>3, <2>5, <2>6, <2>7 DEF ScanInv
<1>4. CASE Decide
  BY <1>4 DEF Decide, opVars, ScanInv, Candidate, Refusal
<1>5. CASE Rejected \/ UNCHANGED selectionVars
  BY <1>5 DEF Rejected, selectionVars, ScanInv, Candidate, Refusal
<1> QED
  BY <1>1, <1>2, <1>3, <1>4, <1>5 DEF NextSelection

\* Scanning any prefix of any order yields the same partition of the keys seen
\* (op_base.py:335).
THEOREM ScanPartition == SpecSelection => []ScanInv
<1>1. InitSelection => ScanInv
  BY DEF InitSelection, ScanInv
<1> QED
  BY <1>1, ScanStep, SelectionTypeCorrect, PTL DEF SpecSelection

LEMMA OrderFreeStep ==
    SelectionTypeOK /\ ScanInv /\ OrderFree /\ [NextSelection]_selectionVars => OrderFree'
<1> SUFFICES ASSUME SelectionTypeOK, ScanInv, OrderFree, [NextSelection]_selectionVars
             PROVE  OrderFree'
  OBVIOUS
<1>1. CASE forwarded_overrides \/ _install_kernel_map
  BY <1>1 DEF forwarded_overrides, _install_kernel_map, OrderFree
<1>2. CASE Ask
  BY <1>2 DEF Ask, OrderFree
<1>3. CASE Scan
  BY <1>3 DEF Scan, OrderFree
<1>4. CASE Decide
  <2>1. pc = "scan" /\ left = {} /\ UNCHANGED <<kernel_map, overridden, call, keys>>
    BY <1>4 DEF Decide, opVars
  <2>2. applicable = ServingKeys /\ refused = Refusing
    BY <2>1 DEF ScanInv, ServingKeys, Refusing
  <2>3. ServingKeys' = ServingKeys /\ Refusing' = Refusing
    BY <2>1 DEF ServingKeys, Refusing, Candidate, Refusal
  <2>4. \A names : (Chosen(names))' = Chosen(names)
    BY <2>1 DEF Chosen, Specialised
  <2>5. (Chosen(ServingKeys))' = Chosen(ServingKeys)
    BY <2>1, <2>3 DEF Chosen, Specialised
  <2>6. Chosen(ServingKeys) \subseteq Own
    BY <2>2 DEF Chosen, Specialised, SelectionTypeOK
  <2>7. \/ \E name \in Chosen(ServingKeys) :
             /\ Chosen(ServingKeys) = {name}
             /\ answer' = IF Refusing # {} /\ name \notin overridden
                          THEN "replacement refused" ELSE name
        \/ Chosen(ServingKeys) = {} /\ answer' = "no implementation"
        \/ (\E n, m \in Chosen(ServingKeys) : n # m) /\ answer' = "ambiguous"
    BY <1>4, <2>2 DEF Decide
  <2> QED
    BY <2>1, <2>3, <2>5, <2>6, <2>7 DEF OrderFree
<1>5. CASE Rejected \/ UNCHANGED selectionVars
  <2>1. UNCHANGED selectionVars
    BY <1>5 DEF Rejected
  <2> QED
    BY <2>1 DEF selectionVars, OrderFree, Chosen, Specialised, ServingKeys, Refusing, Candidate, Refusal
<1> QED
  BY <1>1, <1>2, <1>3, <1>4, <1>5 DEF NextSelection

\* Neither the order of the keys nor an implementation naming another decides the answer
\* (op_base.py:321).
THEOREM OrderDoesNotDecide == SpecSelection => []OrderFree
<1>1. InitSelection => OrderFree
  BY DEF InitSelection, OrderFree
<1> QED
  BY <1>1, OrderFreeStep, SelectionTypeCorrect, ScanPartition, PTL DEF SpecSelection

\* A shipped class never stands in for a replacement that refused the call (op_base.py:324).
THEOREM NoFallback == SpecSelection => []NoShippedStandIn
<1>1. SelectionTypeOK /\ OrderFree => NoShippedStandIn
  BY SelectionAssumption DEF SelectionTypeOK, OrderFree, NoShippedStandIn, Errors
<1> QED
  BY <1>1, SelectionTypeCorrect, OrderDoesNotDecide, PTL

\* A general implementation answers exactly when no specialised candidate serves the call
\* (op_base.py:319).
THEOREM SpecialisedWins == SpecSelection => []SpecialisedFirst
<1>1. SelectionTypeOK /\ OrderFree => SpecialisedFirst
  BY SelectionAssumption
     DEF SelectionTypeOK, OrderFree, SpecialisedFirst, Errors, Chosen, Specialised, ServingKeys, Candidate
<1> QED
  BY <1>1, SelectionTypeCorrect, OrderDoesNotDecide, PTL

-----------------------------------------------------------------------------
\* What reaches the next constructor is what the caller wrote, for the names no op on the
\* way lacked.
HandedDown ==
    pc = "construct" =>
        /\ DOMAIN override = HandedOver
        /\ \A name \in HandedOver : override[name] = given[name]

LEMMA HandedDownStep == HandedDown /\ [NextSelection]_selectionVars => HandedDown'
<1> SUFFICES ASSUME HandedDown, [NextSelection]_selectionVars PROVE HandedDown'
  OBVIOUS
<1>1. CASE forwarded_overrides
  <2>1. CASE pc' = "construct"
    <3>1. /\ DOMAIN override = HandedOver
          /\ \A name \in HandedOver : override[name] = given[name]
      BY <1>1 DEF forwarded_overrides, HandedDown
    <3>2. PICK parent \in Parents :
            /\ override' = IF parent = {} THEN override
                           ELSE [name \in DOMAIN override \cap parent |-> override[name]]
            /\ above' = above \cup {parent}
            /\ given' = given
      BY <1>1, <2>1 DEF forwarded_overrides
    <3>3. HandedOver' = IF parent = {} THEN HandedOver ELSE HandedOver \cap parent
      BY <3>2 DEF HandedOver
    <3>4. CASE parent = {}
      BY <3>1, <3>2, <3>3, <3>4 DEF HandedDown
    <3>5. CASE parent # {}
      <4>1. override' = [name \in HandedOver \cap parent |-> override[name]]
        BY <3>1, <3>2, <3>5
      <4>2. HandedOver' = HandedOver \cap parent
        BY <3>3, <3>5
      <4> QED BY <3>1, <3>2, <4>1, <4>2 DEF HandedDown
    <3> QED BY <3>4, <3>5
  <2>2. CASE pc' # "construct"
    BY <2>2 DEF HandedDown
  <2> QED BY <2>1, <2>2
<1>2. CASE _install_kernel_map
  BY <1>2 DEF _install_kernel_map, HandedDown
<1>3. CASE Ask
  BY <1>3 DEF Ask, HandedDown
<1>4. CASE Scan
  BY <1>4 DEF Scan, HandedDown
<1>5. CASE Decide
  BY <1>5 DEF Decide, HandedDown
<1>6. CASE UNCHANGED selectionVars
  BY <1>6 DEF selectionVars, HandedDown, HandedOver
<1>7. CASE Rejected
  BY <1>6, <1>7 DEF Rejected
<1> QED BY <1>1, <1>2, <1>3, <1>4, <1>5, <1>6, <1>7 DEF NextSelection

LEMMA ReplacedStep ==
    HandedDown /\ ReplacedByCaller /\ [NextSelection]_selectionVars => ReplacedByCaller'
<1> SUFFICES ASSUME HandedDown, ReplacedByCaller, [NextSelection]_selectionVars
             PROVE  ReplacedByCaller'
  OBVIOUS
<1>1. CASE forwarded_overrides
  BY <1>1 DEF forwarded_overrides, ReplacedByCaller
<1>2. CASE _install_kernel_map
  <2>1. CASE pc' = "ready"
    <3>1. /\ pc = "construct" /\ UNCHANGED <<given, above>>
          /\ overridden' = DOMAIN override \cap Own
          /\ kernel_map' = [name \in Own |->
               IF name \in DOMAIN override THEN override[name] ELSE Shipped[name]]
      BY <1>2, <2>1 DEF _install_kernel_map, opVars
    <3>2. /\ DOMAIN override = HandedOver /\ HandedOver' = HandedOver
          /\ \A name \in HandedOver : override[name] = given[name]
      BY <3>1 DEF HandedDown, HandedOver
    <3> QED BY <3>1, <3>2 DEF ReplacedByCaller
  <2>2. CASE pc' # "ready"
    BY <1>2, <2>2 DEF _install_kernel_map, ReplacedByCaller
  <2> QED BY <2>1, <2>2
<1>3. CASE Ask
  BY <1>3 DEF Ask, opVars, ReplacedByCaller, HandedOver
<1>4. CASE Scan
  BY <1>4 DEF Scan, opVars, ReplacedByCaller, HandedOver
<1>5. CASE Decide
  BY <1>5 DEF Decide, opVars, ReplacedByCaller, HandedOver
<1>6. CASE UNCHANGED selectionVars
  BY <1>6 DEF selectionVars, ReplacedByCaller, HandedOver
<1>7. CASE Rejected
  BY <1>6, <1>7 DEF Rejected
<1> QED BY <1>1, <1>2, <1>3, <1>4, <1>5, <1>6, <1>7 DEF NextSelection

\* However many ops hand the caller's map down, a key counts as replaced exactly when the
\* caller wrote it and no op on the way lacked it; it then has the caller's class
\* (op_base.py:302).
THEOREM CallerReplaces == SpecSelection => []ReplacedByCaller
<1>1. InitSelection => HandedDown /\ ReplacedByCaller
  BY DEF InitSelection, HandedDown, HandedOver, ReplacedByCaller
<1> QED BY <1>1, HandedDownStep, ReplacedStep, PTL DEF SpecSelection

-----------------------------------------------------------------------------
\* Op instance

USE DEF history

\* The values a frame starts from.
LEMMA IdleType == Idle \in Frames
<1>1. AnyRole \in Roles /\ AnyKey \in Keys
  BY InstanceAssumption DEF AnyRole, AnyKey
<1> QED
  BY <1>1 DEF Idle, Frames, Steps, Requests, Builders

LEMMA AnswerType ==
    ASSUME target \in Requests, default \in Requests, NEW f \in Frames
    PROVE  /\ Selected(f) \in Requests
           /\ Decision(f.choice, f.device) \in
                 IF f.choice \in Targets THEN {f.choice} ELSE {InTree, Unresolved}
<1>1. f.choice \in Requests /\ f.device \in Devices \cup {NoDevice}
  BY DEF Frames
<1>2. Selected(f) \in Requests
  BY <1>1, InstanceAssumption DEF Selected, Requests
<1>3. Decision(f.choice, f.device) \in
         IF f.choice \in Targets THEN {f.choice} ELSE {InTree, Unresolved}
  BY <1>1, InstanceAssumption DEF Decision, Requests
<1> QED
  BY <1>2, <1>3

\* Unsettling leaves an empty dictionary in place of the old one.
LEMMA UnsettleType ==
    ASSUME TypeOK, _unsettle
    PROVE  /\ _builder' = Unresolved
           /\ _kernel_roles' \in Dicts
           /\ entries' \in [Dicts -> SUBSET Entries]
           /\ entries'[_kernel_roles'] = {}
<1>1. _kernel_roles' \in Fresh /\ Fresh \subseteq Dicts
  BY DEF _unsettle, Fresh
<1>2. entries' = [d \in Dicts |-> IF d \in Fresh THEN {} ELSE entries[d]]
  BY DEF _unsettle
<1>3. entries' \in [Dicts -> SUBSET Entries]
  BY <1>2 DEF TypeOK
<1>4. entries'[_kernel_roles'] = {}
  BY <1>1, <1>2
<1> QED
  BY <1>1, <1>3, <1>4 DEF _unsettle

\* The part of TypeOK that is about one call.
FrameOK(f) ==
    /\ f \in Frames
    /\ InKernelFor(f) => f.dict \in Dicts

LEMMA RaiseType ==
    ASSUME NEW f \in Frames
    PROVE  FrameOK([Idle EXCEPT !.pc = "raise", !.mode = f.mode, !.mine = f.mine])
BY IdleType, ZenonT(30) DEF FrameOK, InKernelFor, Frames, Steps

LEMMA FrameTypes ==
    ASSUME frame \in [Threads -> Frames], NEW t \in Threads, NEW new,
           \A u \in Threads : FrameOK(frame[u]), FrameOK(new),
           frame' = [frame EXCEPT ![t] = new]
    PROVE  frame' \in [Threads -> Frames] /\ \A u \in Threads : FrameOK(frame'[u])
BY DEF FrameOK

LEMMA TypeInit == Init => TypeOK
<1> SUFFICES ASSUME Init
             PROVE  TypeOK
  OBVIOUS
<1>1. /\ target \in Requests /\ default \in Requests
      /\ _builder \in Builders \cup {Unresolved}
      /\ _kernel_roles \in Dicts \cup {NoDict}
      /\ entries \in [Dicts -> SUBSET Entries]
      /\ decided \in BOOLEAN /\ escaped \in BOOLEAN
  BY DEF Init, Requests
<1>2. frame \in [Threads -> Frames]
  BY IdleType DEF Init
<1>3. \A t \in Threads : frame[t].pc = "idle"
  BY DEF Init, Idle
<1> QED
  BY <1>1, <1>2, <1>3 DEF TypeOK, InKernelFor

\* What a step makes of the call it is a step of.
LEMMA FrameStep ==
    ASSUME TypeOK, NEW t \in Threads,
           \/ set_default_target(t) \/ __call__(t)
           \/ select_target(t) \/ _resolve_builder(t)
           \/ kernel_for(t) \/ SettledHere(t) \/ ReadBuilder(t)
           \/ Build(t) \/ BuildRaises(t) \/ Launch(t) \/ ForwardRaises(t)
           \/ Unwind(t) \/ Return(t) \/ Interrupt(t)
    PROVE  /\ frame' \in [Threads -> Frames]
           /\ \A u \in Threads : FrameOK(frame'[u])
<1> DEFINE f == frame[t]
<1>0. /\ frame \in [Threads -> Frames]
      /\ \A u \in Threads : FrameOK(frame[u])
  BY DEF TypeOK, FrameOK
<1>1. f \in Frames /\ FrameOK(f) /\ FrameOK(Idle)
  BY <1>0, IdleType DEF FrameOK, InKernelFor, Idle
<1>2. \A new : FrameOK(new) /\ frame' = [frame EXCEPT ![t] = new] =>
         frame' \in [Threads -> Frames] /\ \A u \in Threads : FrameOK(frame'[u])
  BY <1>0, FrameTypes
<1>3. CASE set_default_target(t)
  BY <1>0, <1>3 DEF set_default_target
<1>4. CASE __call__(t)
  <2>1. PICK mode \in Modes, device \in Devices \cup {NoDevice} :
          frame' = [frame EXCEPT ![t] =
                     [Idle EXCEPT !.pc = IF _builder = Unresolved THEN "select" ELSE "forward",
                                  !.mode = mode, !.device = device]]
    BY <1>4 DEF __call__
  <2>2. Idle.here = FALSE
    BY DEF Idle
  <2>3. FrameOK([Idle EXCEPT !.pc = IF _builder = Unresolved THEN "select" ELSE "forward",
                             !.mode = mode, !.device = device])
    BY <2>2, IdleType, InstanceAssumption DEF FrameOK, InKernelFor, Frames, Steps
  <2> QED
    BY <1>2, <2>1, <2>3
<1>5. CASE select_target(t)
  <2>1. FrameOK([f EXCEPT !.pc = "settle", !.choice = Selected(f)])
    BY <1>1, <1>5, AnswerType DEF select_target, at, TypeOK, FrameOK, InKernelFor, Frames, Steps
  <2> QED
    BY <1>2, <1>5, <2>1 DEF select_target
<1>6. CASE _resolve_builder(t)
  <2> DEFINE decision == Decision(f.choice, f.device)
             traced == f.mode = "traced" /\ ~f.here
             new == [f EXCEPT !.pc = IF f.here THEN "builder" ELSE "forward",
                              !.mine = f.mine \/ (~f.here /\ ~traced),
                              !.later = IF traced THEN decision ELSE f.later]
  <2>1. CASE Raise(t)
    BY <1>1, <1>2, <2>1, RaiseType DEF Raise
  <2>2. CASE frame' = [frame EXCEPT ![t] = new]
    <3>1. decision \in Builders \cup {Unresolved}
      BY <1>1, AnswerType DEF TypeOK, Builders
    <3>2. f.here \in BOOLEAN /\ f.mine \in BOOLEAN /\ f.later \in Builders \cup {Unresolved}
      BY <1>1 DEF Frames
    <3>3. new \in Frames
      BY <1>1, <3>1, <3>2, ZenonT(30) DEF Frames, Steps
    <3>4. new.pc = (IF f.here THEN "builder" ELSE "forward") /\ new.dict = f.dict
      BY <1>1 DEF Frames
    <3>5. f.here => f.dict \in Dicts
      BY <1>1, <1>6 DEF _resolve_builder, at, FrameOK, InKernelFor
    <3> HIDE DEF new
    <3>6. FrameOK(new)
      BY <3>3, <3>4, <3>5 DEF FrameOK, InKernelFor
    <3> QED
      BY <1>2, <2>2, <3>6
  <2>3. Raise(t) \/ frame' = [frame EXCEPT ![t] = new]
    BY <1>6 DEF _resolve_builder
  <2> QED
    BY <2>1, <2>2, <2>3
<1>7. CASE kernel_for(t)
  <2>1. PICK role \in Roles, key \in Keys, d \in Dicts :
          frame' = [frame EXCEPT ![t] =
                     [f EXCEPT !.pc = "settled?", !.role = role, !.key = key, !.dict = d]]
    BY <1>7 DEF kernel_for, Fresh, TypeOK
  <2>2. FrameOK([f EXCEPT !.pc = "settled?", !.role = role, !.key = key, !.dict = d])
    BY <1>1 DEF FrameOK, InKernelFor, Frames, Steps
  <2> QED
    BY <1>2, <2>1, <2>2
<1>8. CASE SettledHere(t)
  <2>1. f.dict \in Dicts
    BY <1>1, <1>8 DEF SettledHere, at, FrameOK, InKernelFor
  <2>2. FrameOK([f EXCEPT !.pc = IF _builder = Unresolved THEN "select" ELSE "builder",
                          !.here = (_builder = Unresolved)])
    BY <1>1, <2>1 DEF FrameOK, InKernelFor, Frames, Steps
  <2> QED
    BY <1>2, <1>8, <2>2 DEF SettledHere
<1>9. CASE ReadBuilder(t)
  <2>1. f.dict \in Dicts
    BY <1>1, <1>9 DEF ReadBuilder, at, FrameOK, InKernelFor
  <2> DEFINE by == IF _builder = Unresolved THEN InTree ELSE _builder
  <2>2. by \in Builders
    BY DEF TypeOK, Builders
  <2>3. \A b \in Builders : FrameOK([f EXCEPT !.pc = "build", !.by = b])
    BY <1>1, <2>1 DEF FrameOK, InKernelFor, Frames, Steps
  <2>4. frame' = [frame EXCEPT ![t] = [f EXCEPT !.pc = "build", !.by = by]]
    BY <1>9 DEF ReadBuilder
  <2> QED
    BY <1>2, <2>2, <2>3, <2>4
<1>10. CASE Build(t)
  <2>1. f.dict \in Dicts
    BY <1>1, <1>10 DEF Build, at, FrameOK, InKernelFor
  <2>2. PICK by \in Builders :
          frame' = [frame EXCEPT ![t] =
                     [f EXCEPT !.pc = "launch", !.settled = f.settled \/ f.here, !.by = by]]
    BY <1>10 DEF Build
  <2>3. (f.settled \/ f.here) \in BOOLEAN
    OBVIOUS
  <2>4. FrameOK([f EXCEPT !.pc = "launch", !.settled = f.settled \/ f.here, !.by = by])
    BY <1>1, <2>1, <2>3, ZenonT(30) DEF FrameOK, InKernelFor, Frames, Steps
  <2> QED
    BY <1>2, <2>2, <2>4
<1>11. CASE Launch(t)
  <2>1. AnyRole \in Roles /\ AnyKey \in Keys
    BY InstanceAssumption DEF AnyRole, AnyKey
  <2>2. FrameOK([f EXCEPT !.pc = "forward", !.here = FALSE, !.dict = NoDict,
                          !.role = AnyRole, !.key = AnyKey, !.by = InTree])
    BY <1>1, <2>1, ZenonT(30) DEF FrameOK, InKernelFor, Frames, Steps, Builders
  <2> QED
    BY <1>2, <1>11, <2>2 DEF Launch
<1>12. CASE BuildRaises(t) \/ ForwardRaises(t)
  <2>1. Raise(t)
    BY <1>12 DEF BuildRaises, ForwardRaises
  <2> QED
    BY <1>1, <1>2, <2>1, RaiseType DEF Raise
<1>13. CASE Unwind(t) \/ Return(t) \/ Interrupt(t)
  <2>1. Leave(t)
    BY <1>13 DEF Unwind, Return, Interrupt
  <2> QED
    BY <1>1, <1>2, <2>1 DEF Leave
<1> QED
  BY <1>3, <1>4, <1>5, <1>6, <1>7, <1>8, <1>9, <1>10, <1>11, <1>12, <1>13

\* What a step makes of the instance.
LEMMA InstanceStep ==
    ASSUME TypeOK, NEW t \in Threads,
           \/ set_default_target(t) \/ __call__(t)
           \/ select_target(t) \/ _resolve_builder(t)
           \/ kernel_for(t) \/ SettledHere(t) \/ ReadBuilder(t)
           \/ Build(t) \/ BuildRaises(t) \/ Launch(t) \/ ForwardRaises(t)
           \/ Unwind(t) \/ Return(t) \/ Interrupt(t)
    PROVE  /\ target' \in Requests /\ default' \in Requests
           /\ _builder' \in Builders \cup {Unresolved}
           /\ _kernel_roles' \in Dicts \cup {NoDict}
           /\ entries' \in [Dicts -> SUBSET Entries]
           /\ decided' \in BOOLEAN /\ escaped' \in BOOLEAN
<1> DEFINE f == frame[t]
<1>0. /\ target \in Requests /\ default \in Requests
      /\ _builder \in Builders \cup {Unresolved}
      /\ _kernel_roles \in Dicts \cup {NoDict}
      /\ entries \in [Dicts -> SUBSET Entries]
      /\ decided \in BOOLEAN /\ escaped \in BOOLEAN
      /\ f \in Frames
  BY DEF TypeOK
<1>1. CASE \/ set_default_target(t) \/ __call__(t) \/ select_target(t) \/ SettledHere(t)
           \/ ReadBuilder(t) \/ Launch(t) \/ ForwardRaises(t) \/ Interrupt(t)
  BY <1>0, <1>1 DEF set_default_target, __call__, select_target, SettledHere, ReadBuilder,
                    Launch, ForwardRaises, Interrupt
<1>2. CASE _resolve_builder(t)
  <2>1. Decision(f.choice, f.device) \in Builders \cup {Unresolved}
    BY <1>0, AnswerType DEF Builders
  <2> QED
    BY <1>0, <1>2, <2>1 DEF _resolve_builder
<1>3. CASE kernel_for(t)
  BY <1>0, <1>3 DEF kernel_for, Fresh
<1>4. CASE Build(t)
  <2>1. \A by \in Builders : [role |-> f.role, key |-> f.key, by |-> by] \in Entries
    BY <1>0 DEF Frames, Entries
  <2>2. PICK by \in Builders :
          \/ UNCHANGED entries
          \/ entries' = [entries EXCEPT ![f.dict] =
                          @ \cup {[role |-> f.role, key |-> f.key, by |-> by]}]
    BY <1>4 DEF Build
  <2>3. entries' \in [Dicts -> SUBSET Entries]
    BY <1>0, <2>1, <2>2
  <2> QED
    BY <1>0, <1>4, <2>3 DEF Build
<1>5. CASE BuildRaises(t) \/ Unwind(t)
  BY <1>0, <1>5, UnsettleType DEF BuildRaises, Unwind
<1>6. CASE Return(t)
  BY <1>0, <1>6 DEF Return, Frames
<1> QED
  BY <1>1, <1>2, <1>3, <1>4, <1>5, <1>6

LEMMA TypeStep == TypeOK /\ [Next]_vars => TypeOK'
<1>1. TypeOK /\ UNCHANGED vars => TypeOK'
  BY DEF vars, TypeOK, InKernelFor
<1>2. ASSUME TypeOK, Next
      PROVE  TypeOK'
  <2>1. /\ frame' \in [Threads -> Frames]
        /\ \A u \in Threads : FrameOK(frame'[u])
    BY <1>2, FrameStep DEF Next
  <2>2. /\ target' \in Requests /\ default' \in Requests
        /\ _builder' \in Builders \cup {Unresolved}
        /\ _kernel_roles' \in Dicts \cup {NoDict}
        /\ entries' \in [Dicts -> SUBSET Entries]
        /\ decided' \in BOOLEAN /\ escaped' \in BOOLEAN
    BY <1>2, InstanceStep DEF Next
  <2> QED
    BY <2>1, <2>2 DEF TypeOK, FrameOK, InKernelFor
<1> QED
  BY <1>1, <1>2

\* The variables stay in their types, and a kernel is looked up in a dictionary that was
\* made, whatever fails or interrupts whichever call.
THEOREM TypeCorrect == Spec => []TypeOK
BY TypeInit, TypeStep, PTL DEF Spec

-----------------------------------------------------------------------------
\* From here on one thread uses the instance.

\* What holds of the call in progress, seen from the fields a step changes.
LEMMA SameAnswer ==
    ASSUME NEW t, frame'[t].device = frame[t].device, UNCHANGED <<target, default>>
    PROVE  Selected(frame[t])' = Selected(frame[t])
BY DEF Selected

\* Idle calls hold nothing that depends on the instance.
LEMMA IdleInv == FrameInv(Idle)
BY InstanceAssumption DEF FrameInv, Idle, InKernelFor

LEMMA OneCallerStep ==
    ASSUME TypeOK, TypeOK', OneCallerInv, NEW t, Threads = {t},
           \/ set_default_target(t) \/ __call__(t)
           \/ select_target(t) \/ _resolve_builder(t)
           \/ kernel_for(t) \/ SettledHere(t) \/ ReadBuilder(t)
           \/ Build(t) \/ BuildRaises(t) \/ Launch(t) \/ ForwardRaises(t)
           \/ Unwind(t) \/ Return(t) \/ Interrupt(t)
    PROVE  OneCallerInv'
<1> DEFINE f == frame[t]
<1>0. /\ f \in Frames /\ f' \in Frames
      /\ FrameInv(f) /\ KernelsBelong
      /\ target \in Targets => _builder \in {Unresolved, target}
      /\ decided => _builder # Unresolved
  BY DEF TypeOK, OneCallerInv
<1>1. ASSUME FrameInv(f)', KernelsBelong',
             target' \in Targets => _builder' \in {Unresolved, target'},
             decided' => _builder' # Unresolved
      PROVE  OneCallerInv'
  BY <1>1 DEF OneCallerInv
<1>2. CASE set_default_target(t)
  <2>1. f' = f /\ f = Idle /\ UNCHANGED <<target, _builder, _kernel_roles, entries, decided>>
    BY <1>0, <1>2 DEF set_default_target, at, FrameInv
  <2>2. FrameInv(f)'
    BY <2>1, InstanceAssumption DEF FrameInv, Idle, InKernelFor
  <2> QED
    BY <1>0, <1>1, <2>1, <2>2 DEF KernelsBelong
<1>3. CASE __call__(t)
  <2>1. PICK mode \in Modes, device \in Devices \cup {NoDevice} :
          f' = [Idle EXCEPT !.pc = IF _builder = Unresolved THEN "select" ELSE "forward",
                           !.mode = mode, !.device = device]
    BY <1>3 DEF __call__, TypeOK
  <2>2. /\ f'.pc = (IF _builder = Unresolved THEN "select" ELSE "forward")
        /\ f'.later = Unresolved /\ f'.here = FALSE /\ f'.mine = FALSE
    BY <2>1 DEF Idle
  <2>3. UNCHANGED <<target, default, _builder, _kernel_roles, entries, decided>>
    BY <1>3 DEF __call__
  <2>4. FrameInv(f)'
    BY <1>0, <2>2, <2>3, InstanceAssumption DEF FrameInv, InKernelFor
  <2> QED
    BY <1>0, <1>1, <2>3, <2>4 DEF KernelsBelong
<1>4. CASE select_target(t)
  <2>1. f' = [f EXCEPT !.pc = "settle", !.choice = Selected(f)]
    BY <1>4 DEF select_target, TypeOK
  <2>2. /\ f'.pc = "settle" /\ f'.choice = Selected(f) /\ f'.device = f.device
        /\ f'.later = f.later /\ f'.here = f.here /\ f'.mine = f.mine /\ f'.dict = f.dict
    BY <1>0, <2>1 DEF Frames
  <2>3. UNCHANGED <<target, default, _builder, _kernel_roles, entries, decided>>
    BY <1>4 DEF select_target
  <2>4. f.pc = "select" /\ Selected(f)' = Selected(f)
    BY <1>0, <1>4, <2>2, <2>3, SameAnswer DEF select_target, at
  <2>5. FrameInv(f)'
    BY <1>0, <2>2, <2>3, <2>4 DEF FrameInv, InKernelFor
  <2> QED
    BY <1>0, <1>1, <2>3, <2>5 DEF KernelsBelong
<1>5. CASE SettledHere(t)
  <2>1. f' = [f EXCEPT !.pc = IF _builder = Unresolved THEN "select" ELSE "builder",
                      !.here = (_builder = Unresolved)]
    BY <1>5 DEF SettledHere, TypeOK
  <2>2. /\ f'.pc = (IF _builder = Unresolved THEN "select" ELSE "builder")
        /\ f'.here = (_builder = Unresolved) /\ f'.device = f.device
        /\ f'.later = f.later /\ f'.mine = f.mine /\ f'.dict = f.dict
    BY <1>0, <2>1 DEF Frames
  <2>3. UNCHANGED <<target, default, _builder, _kernel_roles, entries, decided>>
    BY <1>5 DEF SettledHere
  <2>4. f.pc = "settled?" /\ Selected(f)' = Selected(f)
    BY <1>0, <1>5, <2>2, <2>3, SameAnswer DEF SettledHere, at
  <2>5. FrameInv(f)'
    BY <1>0, <2>2, <2>3, <2>4 DEF FrameInv, InKernelFor
  <2> QED
    BY <1>0, <1>1, <2>3, <2>5 DEF KernelsBelong
<1>6. CASE _resolve_builder(t)
  <2> DEFINE decision == Decision(f.choice, f.device)
             traced == f.mode = "traced" /\ ~f.here
  <2>1. /\ UNCHANGED <<target, default, _kernel_roles, entries, decided>>
        /\ f.pc = "settle" /\ _builder = Unresolved /\ f.choice = Selected(f) /\ ~decided
    BY <1>0, <1>6 DEF _resolve_builder, at, FrameInv
  <2>2. target \in Targets => decision = target /\ decision # Unresolved
    BY <2>1, InstanceAssumption DEF Selected, Decision
  <2>3. \A e \in entries[_kernel_roles] : _kernel_roles \in Dicts => e.by = InTree
    BY <1>0, <2>1, InstanceAssumption DEF KernelsBelong, TypeOK, Entries, Builders
  <2>4. KernelsBelong'
    BY <1>0, <2>1, <2>3 DEF KernelsBelong
  <2>5. CASE Raise(t) /\ UNCHANGED _builder
    <3>1. /\ f'.pc = "raise" /\ f'.here = FALSE /\ f'.later = Unresolved
      BY <2>5 DEF Raise, TypeOK, Idle
    <3>2. FrameInv(f)'
      BY <2>1, <2>5, <3>1 DEF FrameInv, InKernelFor
    <3> QED
      BY <1>0, <1>1, <2>1, <2>4, <2>5, <3>2
  <2>6. CASE /\ _builder' = IF traced \/ decision = Unresolved THEN _builder ELSE decision
             /\ frame' = [frame EXCEPT ![t] =
                           [f EXCEPT !.pc = IF f.here THEN "builder" ELSE "forward",
                                     !.mine = f.mine \/ (~f.here /\ ~traced),
                                     !.later = IF traced THEN decision ELSE f.later]]
    <3>1. f' = [f EXCEPT !.pc = IF f.here THEN "builder" ELSE "forward",
                         !.mine = f.mine \/ (~f.here /\ ~traced),
                         !.later = IF traced THEN decision ELSE f.later]
      BY <2>6 DEF TypeOK
    <3>2. /\ f'.pc = (IF f.here THEN "builder" ELSE "forward")
          /\ f'.later = (IF traced THEN decision ELSE f.later)
          /\ f'.here = f.here /\ f'.device = f.device /\ f'.dict = f.dict
      BY <1>0, <3>1 DEF Frames
    <3>3. Selected(f)' = Selected(f)
      BY <2>1, <3>2, SameAnswer
    <3>4. ~f.here => f.later = Unresolved
      BY <1>0, <2>1 DEF FrameInv
    <3>5. f.later # Unresolved => f.later = decision
      BY <1>0, <2>1 DEF FrameInv
    <3>6. f'.later # Unresolved => f'.later = decision /\ _builder' \in {Unresolved, decision}
      BY <2>1, <2>6, <3>2, <3>5
    <3>7. f'.later # Unresolved => f'.later = Decision(Selected(f)', f'.device)
      BY <2>1, <3>2, <3>3, <3>6
    <3>8. f.here => f'.pc = "builder" /\ f.dict = _kernel_roles
      BY <1>0, <2>1, <3>2 DEF FrameInv, InKernelFor
    <3>9. ~f.here => f'.pc = "forward"
      BY <3>2
    <3>10. target \in Targets =>
             /\ f'.later \in {Unresolved, target}
             /\ f'.pc = "builder" => _builder' = target
             /\ _builder' \in {Unresolved, target}
      BY <2>1, <2>2, <2>6, <3>2, <3>6, <3>8, <3>9
    <3>11. FrameInv(f)'
      BY <2>1, <3>2, <3>6, <3>7, <3>8, <3>9, <3>10 DEF FrameInv, InKernelFor
    <3> QED
      BY <1>1, <2>1, <2>4, <3>10, <3>11
  <2> QED
    BY <1>6, <2>5, <2>6 DEF _resolve_builder
<1>7. CASE kernel_for(t)
  <2>1. PICK role \in Roles, key \in Keys,
             d \in (IF _kernel_roles = NoDict THEN Fresh ELSE {_kernel_roles}) :
          /\ f' = [f EXCEPT !.pc = "settled?", !.role = role, !.key = key, !.dict = d]
          /\ _kernel_roles' = d
    BY <1>7 DEF kernel_for, TypeOK
  <2>2. /\ f'.pc = "settled?" /\ f'.dict = d /\ f'.device = f.device
        /\ f'.later = f.later /\ f'.here = f.here /\ f'.mine = f.mine
    BY <1>0, <2>1 DEF Frames
  <2>3. UNCHANGED <<target, default, _builder, entries, decided>>
    BY <1>7 DEF kernel_for
  <2>4. f.pc = "forward" /\ Selected(f)' = Selected(f)
    BY <1>0, <1>7, <2>2, <2>3, SameAnswer DEF kernel_for, at
  <2>5. FrameInv(f)'
    BY <1>0, <2>1, <2>2, <2>3, <2>4 DEF FrameInv, InKernelFor
  <2>6. KernelsBelong'
    BY <1>0, <2>1, <2>3, InstanceAssumption DEF KernelsBelong, Fresh, TypeOK
  <2> QED
    BY <1>0, <1>1, <2>3, <2>5, <2>6
<1>8. CASE ReadBuilder(t)
  <2>1. f' = [f EXCEPT !.pc = "build",
                       !.by = IF _builder = Unresolved THEN InTree ELSE _builder]
    BY <1>8 DEF ReadBuilder, TypeOK
  <2>2. /\ f'.pc = "build" /\ f'.by = Serving /\ f'.device = f.device
        /\ f'.later = f.later /\ f'.here = f.here /\ f'.mine = f.mine /\ f'.dict = f.dict
    BY <1>0, <2>1 DEF Frames, Serving
  <2>3. UNCHANGED <<target, default, _builder, _kernel_roles, entries, decided>>
    BY <1>8 DEF ReadBuilder
  <2>4. f.pc = "builder" /\ Selected(f)' = Selected(f) /\ Serving' = Serving
    BY <1>0, <1>8, <2>2, <2>3, SameAnswer DEF ReadBuilder, at, Serving
  <2>5. FrameInv(f)'
    BY <1>0, <2>2, <2>3, <2>4 DEF FrameInv, InKernelFor
  <2> QED
    BY <1>0, <1>1, <2>3, <2>5 DEF KernelsBelong
<1>9. CASE Build(t)
  <2>1. /\ f.pc = "build" /\ f.dict = _kernel_roles /\ f.by = Serving /\ f.dict \in Dicts
    BY <1>0, <1>9 DEF Build, at, FrameInv, InKernelFor, TypeOK
  <2>2. UNCHANGED <<target, default, _builder, _kernel_roles, decided>>
    BY <1>9 DEF Build
  <2>3. \A hit \in Hits(f) : hit.by = f.by
    <3>1. \A hit \in Hits(f) : hit.by \in {InTree, _builder} /\ (hit.by = InTree <=> f.by = InTree)
      BY <1>0, <2>1 DEF Hits, KernelsBelong
    <3> QED
      BY <2>1, <3>1 DEF Serving
  <2>4. f' = [f EXCEPT !.pc = "launch", !.settled = f.settled \/ f.here, !.by = f.by]
    BY <1>9, <2>3 DEF Build, TypeOK
  <2>5. /\ f'.pc = "launch" /\ f'.by = f.by /\ f'.device = f.device
        /\ f'.later = f.later /\ f'.here = f.here /\ f'.mine = f.mine /\ f'.dict = f.dict
    BY <1>0, <2>4, ZenonT(30) DEF Frames
  <2>6. Selected(f)' = Selected(f) /\ Serving' = Serving
    BY <2>2, <2>5, SameAnswer DEF Serving
  <2>7. FrameInv(f)'
    BY <1>0, <2>1, <2>2, <2>5, <2>6 DEF FrameInv, InKernelFor
  <2>8. f.by \in {InTree, _builder}
    BY <2>1 DEF Serving
  <2>9. \A e \in entries'[_kernel_roles] : e \in entries[_kernel_roles] \/ e.by = f.by
    <3> DEFINE entry == [role |-> f.role, key |-> f.key, by |-> f.by]
    <3>1. entries' = entries \/ entries' = [entries EXCEPT ![f.dict] = @ \cup {entry}]
      BY <1>9 DEF Build
    <3>2. entries'[_kernel_roles] \subseteq entries[_kernel_roles] \cup {entry}
      BY <2>1, <3>1 DEF TypeOK
    <3>3. entry.by = f.by
      OBVIOUS
    <3> HIDE DEF entry
    <3> QED
      BY <3>2, <3>3
  <2>10. KernelsBelong'
    BY <1>0, <2>1, <2>2, <2>8, <2>9, InstanceAssumption DEF KernelsBelong
  <2> QED
    BY <1>0, <1>1, <2>2, <2>7, <2>10
<1>10. CASE Launch(t)
  <2>1. f' = [f EXCEPT !.pc = "forward", !.here = FALSE, !.dict = NoDict,
                       !.role = AnyRole, !.key = AnyKey, !.by = InTree]
    BY <1>10 DEF Launch, TypeOK
  <2>2. /\ f'.pc = "forward" /\ f'.device = f.device
        /\ f'.later = f.later /\ f'.here = FALSE /\ f'.mine = f.mine
    BY <1>0, <2>1 DEF Frames
  <2>3. UNCHANGED <<target, default, _builder, _kernel_roles, entries, decided>>
    BY <1>10 DEF Launch
  <2>4. Selected(f)' = Selected(f)
    BY <2>2, <2>3, SameAnswer
  <2>5. FrameInv(f)'
    BY <1>0, <2>2, <2>3, <2>4 DEF FrameInv, InKernelFor
  <2> QED
    BY <1>0, <1>1, <2>3, <2>5 DEF KernelsBelong
<1>11. CASE BuildRaises(t) \/ ForwardRaises(t)
  <2>1. /\ f'.pc = "raise" /\ f'.here = FALSE /\ f'.later = Unresolved /\ f'.mine = f.mine
    BY <1>11, ZenonT(30) DEF BuildRaises, ForwardRaises, Raise, TypeOK, Idle
  <2>2. UNCHANGED <<target, default, decided>>
    BY <1>11 DEF BuildRaises, ForwardRaises
  <2>3. FrameInv(f)'
    BY <1>0, <2>1, <2>2 DEF FrameInv, InKernelFor
  <2>4. CASE UNCHANGED <<_builder, _kernel_roles, entries>>
    BY <1>0, <1>1, <2>2, <2>3, <2>4 DEF KernelsBelong
  <2>5. CASE f.here /\ _unsettle
    BY <1>0, <1>1, <2>2, <2>3, <2>5, UnsettleType, InstanceAssumption
       DEF KernelsBelong, FrameInv
  <2> QED
    BY <1>11, <2>4, <2>5 DEF BuildRaises, ForwardRaises
<1>12. CASE Unwind(t) \/ Return(t) \/ Interrupt(t)
  <2>1. f' = Idle
    BY <1>12 DEF Unwind, Return, Interrupt, Leave, TypeOK
  <2>2. FrameInv(f)'
    BY <2>1, InstanceAssumption DEF FrameInv, Idle, InKernelFor
  <2>3. UNCHANGED <<target, default>>
    BY <1>12 DEF Unwind, Return, Interrupt
  <2>4. CASE UNCHANGED <<_builder, _kernel_roles, entries, decided>>
    BY <1>0, <1>1, <2>2, <2>3, <2>4 DEF KernelsBelong
  <2>5. CASE f.mine /\ _unsettle /\ UNCHANGED decided
    BY <1>0, <1>1, <2>2, <2>3, <2>5, UnsettleType, InstanceAssumption
       DEF KernelsBelong, FrameInv
  <2>6. CASE Return(t)
    <3>1. /\ _builder' = (IF f.later = Unresolved THEN _builder ELSE f.later)
          /\ decided' = (decided \/ _builder' # Unresolved)
          /\ UNCHANGED <<_kernel_roles, entries>>
      BY <2>6 DEF Return
    <3>2. _builder = Unresolved \/ _builder' = _builder
      BY <1>0, <3>1 DEF FrameInv
    <3>3. target \in Targets => _builder' \in {Unresolved, target}
      BY <1>0, <3>1 DEF FrameInv
    <3>4. _builder = Unresolved /\ _kernel_roles \in Dicts =>
            \A e \in entries[_kernel_roles] : e.by = InTree
      BY <1>0, InstanceAssumption DEF KernelsBelong, TypeOK, Entries, Builders
    <3>5. KernelsBelong'
      BY <1>0, <3>1, <3>2, <3>4 DEF KernelsBelong
    <3>6. decided' => _builder' # Unresolved
      BY <1>0, <3>1 DEF FrameInv
    <3> QED
      BY <1>1, <2>2, <2>3, <3>3, <3>5, <3>6
  <2> QED
    BY <1>12, <2>4, <2>5, <2>6 DEF Unwind, Interrupt
<1> QED
  BY <1>2, <1>3, <1>4, <1>5, <1>6, <1>7, <1>8, <1>9, <1>10, <1>11, <1>12

LEMMA OneCallerInit == Init => OneCallerInv
<1> SUFFICES ASSUME Init
             PROVE  OneCallerInv
  OBVIOUS
<1>1. \A t \in Threads : FrameInv(frame[t])
  BY IdleInv DEF Init
<1>2. KernelsBelong
  BY InstanceAssumption DEF Init, KernelsBelong
<1> QED
  BY <1>1, <1>2 DEF Init, OneCallerInv

LEMMA OneCallerNext ==
    ASSUME NEW t, Threads = {t}
    PROVE  TypeOK /\ OneCallerInv /\ [Next]_vars => OneCallerInv'
<1>1. TypeOK /\ OneCallerInv /\ UNCHANGED vars => OneCallerInv'
  BY DEF vars, OneCallerInv, FrameInv, KernelsBelong, InKernelFor, Selected, Serving
<1>2. TypeOK /\ OneCallerInv /\ Next => OneCallerInv'
  BY OneCallerStep, TypeStep DEF Next
<1> QED
  BY <1>1, <1>2

\* While one thread uses an instance, the inductive invariant holds: eager or traced, failing
\* or interrupted calls, any targets and devices.
THEOREM OneCaller ==
    ASSUME NEW CONSTANT t, Threads = {t}
    PROVE  Spec => []OneCallerInv
BY OneCallerInit, OneCallerNext, TypeCorrect, PTL DEF Spec

\* Every kernel that runs was built by the target the instance is settled on
\* (op_base.py:754, 762).
THEOREM KernelsOfTheSettled ==
    ASSUME NEW CONSTANT t, Threads = {t}
    PROVE  Spec => []ServedBySettled
<1>1. OneCallerInv => ServedBySettled
  BY DEF OneCallerInv, FrameInv, ServedBySettled, at
<1> QED
  BY <1>1, OneCaller, PTL

\* An op constructed for a target never runs another's kernels (op_base.py:786).
THEOREM RequestHonoured ==
    ASSUME NEW CONSTANT t, Threads = {t}
    PROVE  Spec => []TargetHonoured
<1>1. OneCallerInv => TargetHonoured
  BY InstanceAssumption DEF OneCallerInv, FrameInv, TargetHonoured, Serving, at
<1> QED
  BY <1>1, OneCaller, PTL

\* Once a call has returned from a settled instance its target never changes
\* (op_base.py:762).
THEOREM SettledForGood ==
    ASSUME NEW CONSTANT t, Threads = {t}
    PROVE  Spec => SettledStays
<1>1. TypeOK /\ OneCallerInv /\ [Next]_vars => [decided => _builder' = _builder]_<<_builder, decided>>
  <2> SUFFICES ASSUME OneCallerInv, [Next]_vars, decided
               PROVE  _builder' = _builder
    OBVIOUS
  <2>1. \A u \in Threads : FrameInv(frame[u]) /\ _builder # Unresolved
    BY DEF OneCallerInv
  <2>2. ASSUME NEW u \in Threads, _resolve_builder(u)
        PROVE  FALSE
    BY <2>1, <2>2 DEF _resolve_builder, at, FrameInv
  <2>3. ASSUME NEW u \in Threads, BuildRaises(u) \/ Unwind(u) \/ Return(u)
        PROVE  _builder' = _builder
    BY <2>1, <2>3 DEF BuildRaises, Unwind, Return, FrameInv
  <2> QED
    BY <2>2, <2>3 DEF Next, vars, set_default_target, __call__, select_target, kernel_for,
       SettledHere, ReadBuilder, Build, Launch, ForwardRaises, Interrupt
<1> QED
  BY <1>1, OneCaller, TypeCorrect, PTL DEF Spec, SettledStays

LEMMA ArmedStep ==
    ASSUME NEW t, Threads = {t}
    PROVE  TypeOK /\ OneCallerInv /\ ArmedInv /\ [Next]_vars => ArmedInv'
<1>1. TypeOK /\ ArmedInv /\ UNCHANGED vars => ArmedInv'
  BY DEF vars, ArmedInv, Armed
<1>2. ASSUME TypeOK, OneCallerInv, ArmedInv, Next
      PROVE  ArmedInv'
  <2> DEFINE f == frame[t]
  <2> SUFFICES ASSUME ~escaped'
               PROVE  Armed(f)'
    BY DEF ArmedInv
  <2>1. ~escaped
    BY <1>2 DEF Next, set_default_target, __call__, select_target, _resolve_builder, kernel_for,
       SettledHere, ReadBuilder, Build, BuildRaises, Launch, ForwardRaises, Unwind, Return,
       Interrupt
  <2>2. f \in Frames /\ FrameInv(f) /\ Armed(f)
    BY <1>2, <2>1 DEF TypeOK, OneCallerInv, ArmedInv
  <2>3. CASE set_default_target(t)
    BY <2>2, <2>3 DEF set_default_target, Armed
  <2>4. CASE __call__(t)
    <3>1. PICK mode \in Modes, device \in Devices \cup {NoDevice} :
            f' = [Idle EXCEPT !.pc = IF _builder = Unresolved THEN "select" ELSE "forward",
                              !.mode = mode, !.device = device]
      BY <1>2, <2>4 DEF __call__, TypeOK
    <3>2. /\ f'.here = FALSE
          /\ f'.pc = (IF _builder = Unresolved THEN "select" ELSE "forward")
      BY <3>1 DEF Idle
    <3>3. f = Idle
      BY <2>2, <2>4 DEF __call__, at, FrameInv
    <3>4. _builder # Unresolved => decided
      BY <2>2, <3>3 DEF Idle, Armed
    <3> QED
      BY <2>4, <3>2, <3>4 DEF __call__, Armed
  <2>5. CASE select_target(t)
    <3>1. f' = [f EXCEPT !.pc = "settle", !.choice = Selected(f)]
      BY <1>2, <2>5 DEF select_target, TypeOK
    <3>2. /\ f'.mode = f.mode /\ f'.here = f.here /\ f'.mine = f.mine /\ f'.settled = f.settled
          /\ f'.pc = "settle"
      BY <2>2, <3>1 DEF Frames
    <3> QED
      BY <2>2, <2>5, <3>2 DEF select_target, at, Armed
  <2>6. CASE _resolve_builder(t)
    <3>0. f.pc = "settle" /\ _builder = Unresolved /\ UNCHANGED decided
      BY <2>2, <2>6 DEF _resolve_builder, at, FrameInv
    <3>1. CASE Raise(t) /\ UNCHANGED _builder
      <4>1. f'.here = FALSE /\ f'.pc = "raise" /\ _builder' = Unresolved
        BY <1>2, <3>0, <3>1 DEF Raise, TypeOK, Idle
      <4> QED
        BY <4>1 DEF Armed
    <3>2. CASE /\ frame' = [frame EXCEPT ![t] =
                    [f EXCEPT !.pc = IF f.here THEN "builder" ELSE "forward",
                              !.mine = f.mine \/ (~f.here /\ ~(f.mode = "traced" /\ ~f.here)),
                              !.later = IF f.mode = "traced" /\ ~f.here
                                        THEN Decision(f.choice, f.device) ELSE f.later]]
               /\ f.mode = "traced" /\ ~f.here => UNCHANGED _builder
      <4>1. f' = [f EXCEPT !.pc = IF f.here THEN "builder" ELSE "forward",
                           !.mine = f.mine \/ (~f.here /\ ~(f.mode = "traced" /\ ~f.here)),
                           !.later = IF f.mode = "traced" /\ ~f.here
                                     THEN Decision(f.choice, f.device) ELSE f.later]
        BY <1>2, <3>2 DEF TypeOK
      <4>2. /\ f'.mode = f.mode /\ f'.here = f.here
            /\ f'.pc = (IF f.here THEN "builder" ELSE "forward")
            /\ f'.mine = (f.mine \/ (~f.here /\ ~(f.mode = "traced" /\ ~f.here)))
        BY <2>2, <4>1 DEF Frames
      <4>3. CASE f.here
        <5>1. f.mine \/ decided \/ f.mode = "traced"
          BY <2>2, <4>3 DEF Armed
        <5> QED
          BY <3>0, <4>2, <4>3, <5>1 DEF Armed
      <4>4. CASE ~f.here /\ f.mode = "traced"
        BY <3>0, <3>2, <4>2, <4>4 DEF Armed
      <4>5. CASE ~f.here /\ f.mode # "traced"
        BY <4>2, <4>5 DEF Armed
      <4> QED
        BY <4>3, <4>4, <4>5
    <3> QED
      BY <2>6, <3>1, <3>2 DEF _resolve_builder
  <2>7. CASE kernel_for(t)
    <3>1. PICK role \in Roles, key \in Keys,
               d \in (IF _kernel_roles = NoDict THEN Fresh ELSE {_kernel_roles}) :
            /\ f' = [f EXCEPT !.pc = "settled?", !.role = role, !.key = key, !.dict = d]
            /\ _kernel_roles' = d
      BY <1>2, <2>7 DEF kernel_for, TypeOK
    <3>2. /\ f'.mode = f.mode /\ f'.mine = f.mine /\ f'.settled = f.settled
          /\ f'.pc = "settled?"
      BY <2>2, <3>1 DEF Frames
    <3> QED
      BY <2>2, <2>7, <3>2 DEF kernel_for, at, Armed
  <2>8. CASE SettledHere(t)
    <3>1. f' = [f EXCEPT !.pc = IF _builder = Unresolved THEN "select" ELSE "builder",
                         !.here = (_builder = Unresolved)]
      BY <1>2, <2>8 DEF SettledHere, TypeOK
    <3>2. /\ f'.mode = f.mode /\ f'.mine = f.mine /\ f'.settled = f.settled
          /\ f'.pc # "raise"
      BY <2>2, <3>1 DEF Frames
    <3> QED
      BY <2>2, <2>8, <3>2 DEF SettledHere, at, Armed
  <2>9. CASE ReadBuilder(t)
    <3>1. f' = [f EXCEPT !.pc = "build",
                         !.by = IF _builder = Unresolved THEN InTree ELSE _builder]
      BY <1>2, <2>9 DEF ReadBuilder, TypeOK
    <3>2. /\ f'.mode = f.mode /\ f'.mine = f.mine /\ f'.settled = f.settled
          /\ f'.here = f.here /\ f'.pc = "build"
      BY <2>2, <3>1 DEF Frames
    <3> QED
      BY <2>2, <2>9, <3>2 DEF ReadBuilder, at, Armed
  <2>10. CASE Build(t)
    <3>1. PICK by \in Builders :
            f' = [f EXCEPT !.pc = "launch", !.settled = f.settled \/ f.here, !.by = by]
      BY <1>2, <2>10 DEF Build, TypeOK
    <3>2. /\ f'.mode = f.mode /\ f'.mine = f.mine /\ f'.settled = (f.settled \/ f.here)
          /\ f'.pc = "launch"
      BY <2>2, <3>1 DEF Frames
    <3> QED
      BY <2>2, <2>10, <3>2 DEF Build, at, Armed
  <2>11. CASE Launch(t)
    <3>1. f' = [f EXCEPT !.pc = "forward", !.here = FALSE, !.dict = NoDict,
                         !.role = AnyRole, !.key = AnyKey, !.by = InTree]
      BY <1>2, <2>11 DEF Launch, TypeOK
    <3>2. /\ f'.mode = f.mode /\ f'.mine = f.mine /\ f'.settled = f.settled
          /\ f'.pc = "forward"
      BY <2>2, <3>1 DEF Frames
    <3> QED
      BY <2>2, <2>11, <3>2 DEF Launch, at, Armed
  <2>12. CASE BuildRaises(t) \/ ForwardRaises(t)
    <3>1. /\ f.pc \in {"forward", "build", "launch"}
          /\ f'.pc = "raise" /\ ~f'.here /\ f'.mine = f.mine /\ UNCHANGED decided
      BY <1>2, <2>12 DEF BuildRaises, ForwardRaises, Raise, TypeOK, Idle, at
    <3>2. CASE BuildRaises(t) /\ f.here
      BY <3>1, <3>2 DEF BuildRaises, _unsettle, Armed
    <3>3. CASE ForwardRaises(t) \/ ~f.here
      <4>1. ~Unseen(f) /\ UNCHANGED _builder
        BY <2>12, <3>1, <3>3 DEF BuildRaises, ForwardRaises
      <4>2. f.pc = "build" => ~f.here
        BY <3>3 DEF ForwardRaises, at
      <4>3. f.mine \/ decided \/ _builder = Unresolved
        BY <2>2, <3>1, <4>1, <4>2 DEF Armed, Unseen
      <4> QED
        BY <3>1, <4>1, <4>3 DEF Armed
    <3> QED
      BY <2>12, <3>2, <3>3
  <2>13. CASE Unwind(t)
    <3>1. f'.pc = "idle" /\ f'.here = FALSE /\ f.pc = "raise"
      BY <1>2, <2>13 DEF Unwind, Leave, TypeOK, Idle, at
    <3>2. decided' \/ _builder' = Unresolved
      BY <2>2, <2>13, <3>1 DEF Unwind, _unsettle, Armed
    <3> QED
      BY <3>1, <3>2 DEF Armed
  <2>14. CASE Return(t)
    <3>1. f'.pc = "idle" /\ f'.here = FALSE
      BY <1>2, <2>14 DEF Return, Leave, TypeOK, Idle
    <3>2. decided' \/ _builder' = Unresolved
      BY <2>14 DEF Return
    <3> QED
      BY <3>1, <3>2 DEF Armed
  <2>15. CASE Interrupt(t)
    <3>1. f'.pc = "idle" /\ f'.here = FALSE /\ UNCHANGED <<_builder, decided>>
      BY <1>2, <2>15 DEF Interrupt, Leave, TypeOK, Idle
    <3>2. ~f.mine /\ ~f.here /\ ~f.settled
      BY <2>15 DEF Interrupt
    <3>3. decided \/ _builder = Unresolved
      BY <2>2, <3>2 DEF Armed
    <3> QED
      BY <3>1, <3>3 DEF Armed
  <2> QED
    BY <1>2, <2>3, <2>4, <2>5, <2>6, <2>7, <2>8, <2>9, <2>10, <2>11, <2>12, <2>13, <2>14, <2>15
       DEF Next
<1> QED
  BY <1>1, <1>2

\* A call that fails aims the instance at nothing (op_base.py:697), whatever mixture of eager
\* and traced calls it serves, unless it had settled the instance itself and then was
\* interrupted, or failed in its compiled graph after the kernel_for that settled it.
THEOREM FailureUnsettles ==
    ASSUME NEW CONSTANT t, Threads = {t}
    PROVE  Spec => []CaughtFailureSettlesNothing
<1>1. Init => ArmedInv
  BY DEF Init, ArmedInv, Armed, Idle
<1>2. OneCallerInv /\ ArmedInv => CaughtFailureSettlesNothing
  <2> SUFFICES ASSUME OneCallerInv, ArmedInv, ~escaped, ~decided,
                      \A u \in Threads : at(u, "idle")
               PROVE  _builder = Unresolved
    BY DEF CaughtFailureSettlesNothing, FailureSettlesNothing
  <2>1. frame[t] = Idle
    BY DEF OneCallerInv, FrameInv, at
  <2> QED
    BY <2>1 DEF ArmedInv, Armed, Idle
<1> QED
  BY <1>1, <1>2, ArmedStep, OneCaller, TypeCorrect, PTL DEF Spec
=============================================================================
