------------------------- MODULE TraceRegistry_proofs -------------------------
(***************************************************************************)
(* Types of the trace registry, and that the markers of a lowered kernel   *)
(* resolve to what was written, for any names, builds and blocks; then     *)
(* that the timeline decoded from a run of such a kernel is what its       *)
(* leads executed.                                                         *)
(***************************************************************************)
EXTENDS TraceTimeline, FiniteSetTheorems, SequenceTheorems, WellFoundedInduction, TLAPS

\* Interning gives x an id and moves nobody else's.
LEMMA InternFacts ==
    ASSUME NEW S, NEW table \in Seq(S), NEW x \in S
    PROVE  /\ intern(table, x) \in Seq(S)
           /\ Len(intern(table, x)) \in {Len(table), Len(table) + 1}
           /\ Id(table, x) \in DOMAIN intern(table, x)
           /\ Id(table, x) \in Nat
           /\ intern(table, x)[Id(table, x)] = x
           /\ \A i \in DOMAIN table : /\ i \in DOMAIN intern(table, x)
                                      /\ intern(table, x)[i] = table[i]
           /\ Distinct(table) => Distinct(intern(table, x))
<1>1. CASE x \in Interned(table)
  <2>1. PICK i \in DOMAIN table : table[i] = x
    BY <1>1 DEF Interned
  <2>2. intern(table, x) = table /\ Id(table, x) = CHOOSE j \in DOMAIN table : table[j] = x
    BY <1>1 DEF intern, Id
  <2>3. Id(table, x) \in DOMAIN table /\ table[Id(table, x)] = x
    BY <2>1, <2>2
  <2> QED
    BY <2>2, <2>3
<1>2. CASE x \notin Interned(table)
  <2>1. intern(table, x) = Append(table, x) /\ Id(table, x) = Len(table) + 1
    BY <1>2 DEF intern, Id
  <2>2. \A i \in DOMAIN table : table[i] # x
    BY <1>2 DEF Interned
  <2> QED
    BY <2>1, <2>2 DEF Distinct
<1> QED
  BY <1>1, <1>2

\* The same for a group, which is told apart by its name.
LEMMA GroupFacts ==
    ASSUME NEW groups \in Seq(Scope), NEW scope \in Scope
    PROVE  /\ _intern_group(groups, scope) \in Seq(Scope)
           /\ GroupId(groups, scope.name) \in DOMAIN _intern_group(groups, scope)
           /\ GroupId(groups, scope.name) \in Nat
           /\ _intern_group(groups, scope)[GroupId(groups, scope.name)].name = scope.name
           /\ \A i \in DOMAIN groups : /\ i \in DOMAIN _intern_group(groups, scope)
                                       /\ _intern_group(groups, scope)[i] = groups[i]
           /\ GroupsDistinct(groups) => GroupsDistinct(_intern_group(groups, scope))
<1>1. CASE Known(groups, scope.name)
  <2>1. PICK i \in DOMAIN groups : groups[i].name = scope.name
    BY <1>1 DEF Known
  <2>2. /\ _intern_group(groups, scope) = groups
        /\ GroupId(groups, scope.name) = CHOOSE j \in DOMAIN groups : groups[j].name = scope.name
    BY <1>1 DEF _intern_group, GroupId
  <2>3. /\ GroupId(groups, scope.name) \in DOMAIN groups
        /\ groups[GroupId(groups, scope.name)].name = scope.name
    BY <2>1, <2>2
  <2> QED
    BY <2>2, <2>3
<1>2. CASE ~Known(groups, scope.name)
  <2>1. /\ _intern_group(groups, scope) = Append(groups, scope)
        /\ GroupId(groups, scope.name) = Len(groups) + 1
    BY <1>2 DEF _intern_group, GroupId
  <2>2. \A i \in DOMAIN groups : groups[i].name # scope.name
    BY <1>2 DEF Known
  <2> QED
    BY <2>1, <2>2 DEF GroupsDistinct
<1> QED
  BY <1>1, <1>2

\* A lead is a thread of some block, thread 0 among them.
LEMMA DefaultType == Default \in Scope /\ \A block \in Blocks : block \subseteq Threads
BY TraceAssumption DEF Default, Scope, Threads

LEMMA NewStateType == NewState \in TraceState
<1>1. <<Default>> \in Seq(Scope)
  BY DefaultType
<1> QED
  BY <1>1 DEF NewState, TraceState

LEMMA StateType ==
    ASSUME TypeOK
    PROVE  build_state \in TraceState /\ Active \in Scope
<1>1. build_state \in TraceState
  BY NewStateType DEF TypeOK, build_state
<1>2. build_state.stack \in Seq(Scope)
  BY <1>1 DEF TraceState
<1>3. Len(build_state.stack) # 0
  <2>1. Building => build \in Build
    BY DEF TypeOK, Building
  <2>2. Building => build.depth \in Nat
    BY <2>1 DEF Build
  <2> QED
    BY <2>2 DEF TypeOK
<1> QED
  BY <1>1, <1>2, <1>3 DEF Active

\* What the registry is after it was written.
LEMMA Written ==
    ASSUME NEW s \in TraceState, _BUILD_STATE' = s
    PROVE  build_state' = s
BY SentinelAssumption DEF build_state

\* The same, when only its type is known.
LEMMA WrittenType ==
    ASSUME _BUILD_STATE' \in TraceState
    PROVE  build_state' = _BUILD_STATE'
BY SentinelAssumption DEF build_state

\* Adding a marker to a build whose tables grow keeps every marker resolved.
LEMMA EmitFacts ==
    ASSUME TypeOK, Building,
           NEW state \in TraceState, state.stack = build_state.stack,
           NEW kind \in Kinds, NEW event \in Nat, NEW lane \in Nat, Len(state.lanes) <= MAX_LANES,
           NEW name \in Names, NEW laneName \in Lanes,
           _emit(state, kind, event, lane, name, laneName)
    PROVE  /\ _BUILD_STATE' \in TraceState
           /\ build_state' = [state EXCEPT !.groups = _intern_group(@, Active)]
           /\ build' \in Build /\ Building' /\ build'.depth = build.depth
           /\ Len(build_state'.stack) = 1 + build.depth
           /\ \E m \in Marker :
                /\ build'.body = build.body \cup {m}
                /\ m.event = event /\ m.lane = lane
                /\ m.gid = GroupId(state.groups, Active.name)
                /\ m.says = [name |-> name, lane |-> laneName, scope |-> Active]
<1> DEFINE says == [name |-> name, lane |-> laneName, scope |-> Active]
           m == [kind |-> kind, event |-> event, lane |-> lane,
                 gid |-> GroupId(state.groups, Active.name), says |-> says]
<1>1. Active \in Scope
  BY StateType
<1>2. _intern_group(state.groups, Active) \in Seq(Scope) /\ GroupId(state.groups, Active.name) \in Nat
  BY <1>1, GroupFacts DEF TraceState
<1>3. /\ _BUILD_STATE' = [state EXCEPT !.groups = _intern_group(@, Active)]
      /\ build' = [build EXCEPT !.body = @ \cup {m}]
  BY DEF _emit
<1>4. _BUILD_STATE' \in TraceState
  BY <1>2, <1>3 DEF TraceState
<1>5. build_state' = [state EXCEPT !.groups = _intern_group(@, Active)]
  BY <1>3, <1>4, Written
<1>6. says \in Meaning /\ m \in Marker
  BY <1>1, <1>2 DEF Meaning, Marker
<1>7. build \in Build
  BY DEF TypeOK, Building
<1>8. build' \in Build /\ build'.depth = build.depth /\ build'.body = build.body \cup {m}
  BY <1>3, <1>6, <1>7 DEF Build
<1>9. Building'
  BY <1>8, SentinelAssumption DEF Building
<1>10. Len(build_state'.stack) = 1 + build.depth
  BY <1>5 DEF TypeOK, TraceState
<1> QED
  BY <1>4, <1>5, <1>6, <1>8, <1>9, <1>10

\* Closing n scopes leaves the stack that many shorter.
LEMMA PopFacts ==
    ASSUME NEW stack \in Seq(Scope), NEW n \in Nat, n <= Len(stack)
    PROVE  /\ SubSeq(stack, 1, Len(stack) - n) \in Seq(Scope)
           /\ Len(SubSeq(stack, 1, Len(stack) - n)) = Len(stack) - n
<1>1. Len(stack) - n \in 0..Len(stack)
  OBVIOUS
<1>2. \A i \in 1..(Len(stack) - n) : stack[i] \in Scope
  BY <1>1
<1> QED
  BY <1>1, <1>2, SubSeqProperties

LEMMA AbandonFacts ==
    ASSUME TypeOK, Building, NEW state \in TraceState, state.stack = build_state.stack,
           Abandon(state)
    PROVE  /\ _BUILD_STATE' \in TraceState
           /\ build_state' = Popped(state, build.depth)
           /\ Len(build_state'.stack) = 1
           /\ build' = NoBuild /\ ~Building' /\ leftover' = TRUE
<1>1. build \in Build /\ build.depth \in Nat
  BY DEF TypeOK, Building, Build
<1>2. Len(state.stack) = 1 + build.depth /\ state.stack \in Seq(Scope)
  BY DEF TypeOK, TraceState
<1>3. /\ SubSeq(state.stack, 1, Len(state.stack) - build.depth) \in Seq(Scope)
      /\ Len(SubSeq(state.stack, 1, Len(state.stack) - build.depth)) = 1
  BY <1>1, <1>2, PopFacts
<1>4. Popped(state, build.depth) \in TraceState /\ Len(Popped(state, build.depth).stack) = 1
  BY <1>3 DEF Popped, TraceState
<1>5. _BUILD_STATE' = Popped(state, build.depth)
  BY DEF Abandon
<1>6. build_state' = Popped(state, build.depth)
  BY <1>4, <1>5, Written
<1> QED
  BY <1>4, <1>5, <1>6 DEF Abandon, Building

\* What a kernel takes along.
LEMMA LoweredType ==
    ASSUME TypeOK, Building
    PROVE  Lowered(build_state) \in Kernel
BY StateType DEF TypeOK, Building, Lowered, TraceState, Build, Kernel

\* A lane that is let through still fits the field.
LEMMA InternWithinCap ==
    ASSUME TypeOK, NEW lane \in Lanes, ~NoLaneLeft(build_state.lanes, lane)
    PROVE  Len(intern(build_state.lanes, lane)) <= MAX_LANES
<1>1. build_state.lanes \in Seq(Lanes) /\ Len(build_state.lanes) \in Nat
  BY StateType DEF TraceState
<1>2. CASE lane \in Interned(build_state.lanes)
  BY <1>2 DEF intern, TypeOK
<1>3. CASE lane \notin Interned(build_state.lanes)
  <2>1. Len(build_state.lanes) < MAX_LANES
    BY <1>1, <1>3, TraceAssumption DEF NoLaneLeft
  <2>2. Len(intern(build_state.lanes, lane)) \in {Len(build_state.lanes), Len(build_state.lanes) + 1}
    BY <1>1, InternFacts
  <2> QED
    BY <1>1, <2>1, <2>2, TraceAssumption
<1> QED
  BY <1>2, <1>3

\* A marker adds to the tables, or fails the build when no lane is left.
LEMMA EmitType == TypeOK /\ Emit => TypeOK'
<1> SUFFICES ASSUME TypeOK, Building,
                    NEW name \in Names, NEW lane \in Lanes, NEW kind \in {"begin", "instant"},
                    kernel' = kernel, builds' = builds,
                    LET named == [build_state EXCEPT !.events = intern(@, name)]
                    IN \/ NoLaneLeft(named.lanes, lane) /\ Abandon(named)
                       \/ /\ ~NoLaneLeft(named.lanes, lane)
                          /\ _emit([named EXCEPT !.lanes = intern(@, lane)], kind,
                                   Id(build_state.events, name), Id(build_state.lanes, lane),
                                   name, lane)
                          /\ UNCHANGED leftover
             PROVE  TypeOK'
  BY DEF Emit
<1> DEFINE named == [build_state EXCEPT !.events = intern(@, name)]
           both == [named EXCEPT !.lanes = intern(@, lane)]
<1>1. build_state \in TraceState
  BY StateType
<1>2. /\ build_state.events \in Seq(Names) /\ build_state.lanes \in Seq(Lanes)
      /\ Len(build_state.lanes) \in Nat
  BY <1>1 DEF TraceState
<1>3. named \in TraceState /\ named.stack = build_state.stack /\ named.lanes = build_state.lanes
  BY <1>1, <1>2, InternFacts DEF TraceState
<1>4. CASE NoLaneLeft(named.lanes, lane) /\ Abandon(named)
  <2>1. /\ _BUILD_STATE' \in TraceState /\ Len(build_state'.stack) = 1
        /\ build' = NoBuild /\ ~Building' /\ leftover' = TRUE
        /\ build_state' = Popped(named, build.depth)
    BY <1>3, <1>4, AbandonFacts
  <2>2. build_state'.lanes = build_state.lanes
    BY <1>3, <2>1 DEF Popped, TraceState
  <2> QED
    BY <2>1, <2>2 DEF TypeOK
<1>5. CASE /\ ~NoLaneLeft(named.lanes, lane)
           /\ _emit(both, kind, Id(build_state.events, name), Id(build_state.lanes, lane),
                    name, lane)
           /\ UNCHANGED leftover
  <2>1. /\ both \in TraceState /\ both.stack = build_state.stack
        /\ both.lanes = intern(build_state.lanes, lane)
        /\ both.events = intern(build_state.events, name)
    BY <1>2, <1>3, InternFacts DEF TraceState
  <2>2. Id(build_state.events, name) \in Nat /\ Id(build_state.lanes, lane) \in Nat
    BY <1>2, InternFacts
  <2>3. Len(both.lanes) <= MAX_LANES
    BY <1>1, <1>3, <1>5, <2>1, InternWithinCap
  <2>4. kind \in Kinds
    BY DEF Kinds
  <2>5. /\ _BUILD_STATE' \in TraceState
        /\ build_state' = [both EXCEPT !.groups = _intern_group(@, Active)]
        /\ build' \in Build /\ Building' /\ build'.depth = build.depth
        /\ Len(build_state'.stack) = 1 + build.depth
    BY <1>5, <2>1, <2>2, <2>3, <2>4, EmitFacts
  <2>6. build_state'.lanes = both.lanes
    BY <2>1, <2>5 DEF TraceState
  <2> QED
    BY <1>5, <2>3, <2>5, <2>6 DEF TypeOK
<1> QED
  BY <1>4, <1>5

\* The end of a range changes the groups table at most.
LEMMA CloseType == TypeOK /\ close_range => TypeOK'
<1> SUFFICES ASSUME TypeOK, Building,
                    NEW tok \in build.body,
                    _emit(build_state, "end", tok.event, tok.lane, tok.says.name, tok.says.lane),
                    kernel' = kernel, builds' = builds, leftover' = leftover
             PROVE  TypeOK'
  BY DEF close_range
<1>1. build_state \in TraceState
  BY StateType
<1>2. tok \in Marker
  BY DEF TypeOK, Building, Build
<1>3. tok.event \in Nat /\ tok.lane \in Nat
  BY <1>2 DEF Marker
<1>4. tok.says.name \in Names /\ tok.says.lane \in Lanes
  BY <1>2 DEF Marker, Meaning
<1>5. "end" \in Kinds /\ Len(build_state.lanes) <= MAX_LANES
  BY DEF Kinds, TypeOK
<1>6. /\ _BUILD_STATE' \in TraceState
      /\ build_state' = [build_state EXCEPT !.groups = _intern_group(@, Active)]
      /\ build' \in Build /\ Building' /\ build'.depth = build.depth
      /\ Len(build_state'.stack) = 1 + build.depth
  BY <1>1, <1>3, <1>4, <1>5, EmitFacts
<1>7. build_state'.lanes = build_state.lanes
  BY <1>1, <1>6 DEF TraceState
<1> QED
  BY <1>6, <1>7 DEF TypeOK

\* A build starts with an empty body, whatever the registry holds.
LEMMA BeginType == TypeOK /\ BeginBuild => TypeOK'
<1> SUFFICES ASSUME TypeOK, ~Building, NEW block \in Blocks,
                    build' = [block |-> block, depth |-> 0, body |-> {}, flows |-> <<>>],
                    kernel' = NoKernel, builds' = builds + 1,
                    _BUILD_STATE' = _BUILD_STATE, leftover' = leftover
             PROVE  TypeOK'
  BY DEF BeginBuild
<1>1. build' \in Build /\ build'.depth = 0
  BY DEF Build
<1>2. Building'
  BY <1>1, SentinelAssumption DEF Building
<1>3. build_state' = build_state
  BY DEF build_state
<1> QED
  BY <1>1, <1>2, <1>3 DEF TypeOK

\* A scope entered is one more on the stack.
LEMMA PushType == TypeOK /\ push_group => TypeOK' /\ _BUILD_STATE' \in TraceState
<1> SUFFICES ASSUME TypeOK, Building, NEW name \in Groups, NEW lead \in build.block,
                    _BUILD_STATE' =
                      [build_state EXCEPT !.stack = Append(@, [name |-> name, lead |-> lead])],
                    build' = [build EXCEPT !.depth = @ + 1],
                    kernel' = kernel, builds' = builds, leftover' = leftover
             PROVE  TypeOK' /\ _BUILD_STATE' \in TraceState
  BY DEF push_group
<1>1. build_state \in TraceState
  BY StateType
<1>2. build \in Build /\ build.depth \in Nat
  BY DEF TypeOK, Building, Build
<1>3. [name |-> name, lead |-> lead] \in Scope
  BY <1>2, DefaultType DEF Scope, Build
<1>4. _BUILD_STATE' \in TraceState
  <2>1. Append(build_state.stack, [name |-> name, lead |-> lead]) \in Seq(Scope)
    BY <1>1, <1>3 DEF TraceState
  <2> QED
    BY <1>1, <2>1 DEF TraceState
<1>5. build_state' = [build_state EXCEPT !.stack = Append(@, [name |-> name, lead |-> lead])]
  BY <1>4, Written
<1>6. build_state'.lanes = build_state.lanes
  BY <1>1, <1>5 DEF TraceState
<1>7. Len(build_state'.stack) = 1 + (build.depth + 1)
  BY <1>1, <1>2, <1>3, <1>5 DEF TypeOK, TraceState
<1>8. build' \in Build /\ build'.depth = build.depth + 1
  BY <1>2 DEF Build
<1>9. Building'
  BY <1>8, SentinelAssumption DEF Building
<1> QED
  BY <1>4, <1>6, <1>7, <1>8, <1>9 DEF TypeOK

\* A scope left is one less.
LEMMA PopType == TypeOK /\ pop_group => TypeOK' /\ _BUILD_STATE' \in TraceState
<1> SUFFICES ASSUME TypeOK, Building, build.depth > 0,
                    _BUILD_STATE' = Popped(build_state, 1),
                    build' = [build EXCEPT !.depth = @ - 1],
                    kernel' = kernel, builds' = builds, leftover' = leftover
             PROVE  TypeOK' /\ _BUILD_STATE' \in TraceState
  BY DEF pop_group
<1>1. build_state \in TraceState /\ build_state.stack \in Seq(Scope)
  BY StateType DEF TraceState
<1>2. build \in Build /\ build.depth \in Nat /\ build.depth - 1 \in Nat
  BY DEF TypeOK, Building, Build
<1>3. Len(build_state.stack) = 1 + build.depth
  BY DEF TypeOK
<1>4. /\ SubSeq(build_state.stack, 1, Len(build_state.stack) - 1) \in Seq(Scope)
      /\ Len(SubSeq(build_state.stack, 1, Len(build_state.stack) - 1)) = build.depth
  BY <1>1, <1>2, <1>3, PopFacts
<1>5. /\ Popped(build_state, 1) \in TraceState
      /\ Len(Popped(build_state, 1).stack) = build.depth
      /\ Popped(build_state, 1).lanes = build_state.lanes
  BY <1>1, <1>4 DEF Popped, TraceState
<1>6. build_state' = Popped(build_state, 1)
  BY <1>5, Written
<1>7. build' \in Build /\ build'.depth = build.depth - 1
  BY <1>2 DEF Build
<1>8. Building'
  BY <1>7, SentinelAssumption DEF Building
<1> QED
  BY <1>2, <1>5, <1>6, <1>7, <1>8 DEF TypeOK

\* A flow changes neither scopes nor lanes.
LEMMA FlowType == TypeOK /\ declare_flow => TypeOK' /\ _BUILD_STATE' \in TraceState
<1> SUFFICES ASSUME TypeOK, Building, NEW flow \in Flows,
                    _BUILD_STATE' = [build_state EXCEPT !.flows = Append(@, flow)],
                    build' = [build EXCEPT !.flows = Append(@, flow)],
                    kernel' = kernel, builds' = builds, leftover' = leftover
             PROVE  TypeOK' /\ _BUILD_STATE' \in TraceState
  BY DEF declare_flow
<1>1. build_state \in TraceState
  BY StateType
<1>2. build \in Build
  BY DEF TypeOK, Building
<1>3. _BUILD_STATE' \in TraceState
  <2>1. Append(build_state.flows, flow) \in Seq(Flows)
    BY <1>1 DEF TraceState
  <2> QED
    BY <1>1, <2>1 DEF TraceState
<1>4. build_state' = [build_state EXCEPT !.flows = Append(@, flow)]
  BY <1>3, Written
<1>5. build_state'.lanes = build_state.lanes /\ build_state'.stack = build_state.stack
  BY <1>1, <1>4 DEF TraceState
<1>6. build' \in Build /\ build'.depth = build.depth
  <2>1. Append(build.flows, flow) \in Seq(Flows)
    BY <1>2 DEF Build
  <2> QED
    BY <1>2, <2>1 DEF Build
<1>7. Building'
  BY <1>6, SentinelAssumption DEF Building
<1> QED
  BY <1>3, <1>5, <1>6, <1>7 DEF TypeOK

\* An exception closes every scope of the build.
LEMMA RaiseType == TypeOK /\ BuildRaises => TypeOK'
<1> SUFFICES ASSUME TypeOK, Building, Abandon(build_state), kernel' = kernel, builds' = builds
             PROVE  TypeOK'
  BY DEF BuildRaises
<1>1. build_state \in TraceState
  BY StateType
<1>2. /\ _BUILD_STATE' \in TraceState /\ Len(build_state'.stack) = 1
      /\ build' = NoBuild /\ ~Building' /\ leftover' = TRUE
      /\ build_state' = Popped(build_state, build.depth)
  BY <1>1, AbandonFacts
<1>3. build_state'.lanes = build_state.lanes
  BY <1>1, <1>2 DEF Popped, TraceState
<1> QED
  BY <1>2, <1>3 DEF TypeOK

\* The end of an epoch leaves an empty registry with no scope live.
LEMMA LowerType == TypeOK /\ lower => TypeOK'
<1> SUFFICES ASSUME TypeOK, Building,
                    _BUILD_STATE' = NoState, kernel' \in {Lowered(build_state), NoKernel},
                    build' = NoBuild, leftover' = FALSE, builds' = builds
             PROVE  TypeOK'
  BY DEF lower
<1>1. kernel' \in Kernel \cup {NoKernel}
  BY LoweredType
<1>2. build_state' = NewState
  BY DEF build_state
<1>3. Len(NewState.stack) = 1 /\ Len(NewState.lanes) = 0
  BY DEF NewState
<1>4. ~Building'
  BY DEF Building
<1>5. Len(build_state'.stack) = 1 /\ Len(build_state'.lanes) <= MAX_LANES
  BY <1>2, <1>3, TraceAssumption
<1>6. leftover' \in BOOLEAN
  BY Zenon
<1> QED
  BY <1>1, <1>4, <1>5, <1>6 DEF TypeOK

\* strip is reached from outside every scope.
LEMMA StripType == TypeOK /\ strip => TypeOK'
<1> SUFFICES ASSUME TypeOK, Building, build.depth = 0, build' = NoBuild, leftover' = TRUE,
                    _BUILD_STATE' = _BUILD_STATE, kernel' = kernel, builds' = builds
             PROVE  TypeOK'
  BY DEF strip
<1>1. build_state' = build_state /\ ~Building'
  BY DEF build_state, Building
<1> QED
  BY <1>1 DEF TypeOK

LEMMA TypeStep == TypeOK /\ [Next]_vars => TypeOK'
<1> SUFFICES ASSUME TypeOK, [Next]_vars PROVE TypeOK'
  OBVIOUS
<1>1. CASE UNCHANGED vars
  BY <1>1 DEF vars, TypeOK, build_state, Building
<1> QED
  BY <1>1, BeginType, PushType, PopType, EmitType, CloseType, FlowType, RaiseType, LowerType,
     StripType DEF Next

\* The group stack of the registry is the default and the scopes of the running build, after
\* every build that was lowered, stripped or raised; and lane ids fit their field.
THEOREM TypeCorrect == Spec => []TypeOK
<1>1. Init => TypeOK
  <2>1. Init => build_state = NewState /\ ~Building
    BY DEF Init, build_state, Building
  <2>2. Len(NewState.stack) = 1 /\ Len(NewState.lanes) = 0
    BY DEF NewState
  <2>3. Init => Len(build_state.stack) = 1 /\ Len(build_state.lanes) <= MAX_LANES
    BY <2>1, <2>2, TraceAssumption
  <2>4. Init => leftover \in BOOLEAN
    BY Zenon DEF Init
  <2> QED
    BY <2>1, <2>3, <2>4 DEF Init, TypeOK
<1> QED
  BY <1>1, TypeStep, PTL DEF Spec

-----------------------------------------------------------------------------
\* Tables that only grow keep what a marker stands for.
LEMMA ResolvesGrows ==
    ASSUME NEW m, NEW events, NEW lanes, NEW groups, NEW events2, NEW lanes2, NEW groups2,
           Resolves(m, events, lanes, groups),
           \A i \in DOMAIN events : i \in DOMAIN events2 /\ events2[i] = events[i],
           \A i \in DOMAIN lanes : i \in DOMAIN lanes2 /\ lanes2[i] = lanes[i],
           \A i \in DOMAIN groups : i \in DOMAIN groups2 /\ groups2[i] = groups[i]
    PROVE  Resolves(m, events2, lanes2, groups2)
BY DEF Resolves

\* The part of the invariant about the registry and the build, when its names are untouched
\* and the build has the same markers or none.
LEMMA SameTables ==
    ASSUME TablesInv, NamesResolve',
           build_state'.events = build_state.events, build_state'.lanes = build_state.lanes,
           build_state'.groups = build_state.groups,
           Building' => build'.body = {} \/ (Building /\ build'.body = build.body)
    PROVE  TablesInv'
BY DEF TablesInv

\* A marker added with ids that its tables give its names.
LEMMA MarkerTables ==
    ASSUME TypeOK, TablesInv, Building, kernel' = kernel,
           NEW state \in TraceState, state.stack = build_state.stack,
           NEW kind \in Kinds, NEW event \in Nat, NEW lane \in Nat, Len(state.lanes) <= MAX_LANES,
           NEW name \in Names, NEW laneName \in Lanes,
           Distinct(state.events), Distinct(state.lanes), state.groups = build_state.groups,
           \A i \in DOMAIN build_state.events :
                i \in DOMAIN state.events /\ state.events[i] = build_state.events[i],
           \A i \in DOMAIN build_state.lanes :
                i \in DOMAIN state.lanes /\ state.lanes[i] = build_state.lanes[i],
           event \in DOMAIN state.events /\ state.events[event] = name,
           lane \in DOMAIN state.lanes /\ state.lanes[lane] = laneName,
           _emit(state, kind, event, lane, name, laneName)
    PROVE  TablesInv'
<1>1. /\ build_state' = [state EXCEPT !.groups = _intern_group(@, Active)]
      /\ \E m \in Marker :
            /\ build'.body = build.body \cup {m}
            /\ m.event = event /\ m.lane = lane
            /\ m.gid = GroupId(state.groups, Active.name)
            /\ m.says = [name |-> name, lane |-> laneName, scope |-> Active]
  BY EmitFacts
<1>2. PICK m \in Marker : /\ build'.body = build.body \cup {m}
                          /\ m.event = event /\ m.lane = lane
                          /\ m.gid = GroupId(state.groups, Active.name)
                          /\ m.says = [name |-> name, lane |-> laneName, scope |-> Active]
  BY <1>1
<1>3. /\ build_state'.events = state.events /\ build_state'.lanes = state.lanes
      /\ build_state'.groups = _intern_group(build_state.groups, Active)
  BY <1>1 DEF TraceState
<1>4. Active \in Scope /\ build_state.groups \in Seq(Scope)
  BY StateType DEF TraceState
<1>5. /\ GroupId(build_state.groups, Active.name) \in DOMAIN build_state'.groups
      /\ build_state'.groups[GroupId(build_state.groups, Active.name)].name = Active.name
      /\ \A i \in DOMAIN build_state.groups : /\ i \in DOMAIN build_state'.groups
                                              /\ build_state'.groups[i] = build_state.groups[i]
      /\ GroupsDistinct(build_state.groups) => GroupsDistinct(build_state'.groups)
  <2> DEFINE groups2 == _intern_group(build_state.groups, Active)
  <2>1. /\ GroupId(build_state.groups, Active.name) \in DOMAIN groups2
        /\ groups2[GroupId(build_state.groups, Active.name)].name = Active.name
        /\ \A i \in DOMAIN build_state.groups : /\ i \in DOMAIN groups2
                                                /\ groups2[i] = build_state.groups[i]
        /\ GroupsDistinct(build_state.groups) => GroupsDistinct(groups2)
    BY <1>4, GroupFacts
  <2> HIDE DEF groups2
  <2> QED
    BY <1>3, <2>1 DEF groups2
<1>6. Resolves(m, build_state'.events, build_state'.lanes, build_state'.groups)
  BY <1>2, <1>3, <1>5 DEF Resolves
<1>7. \A n \in build.body :
        Resolves(n, build_state'.events, build_state'.lanes, build_state'.groups)
  <2> SUFFICES ASSUME NEW n \in build.body
               PROVE  Resolves(n, build_state'.events, build_state'.lanes, build_state'.groups)
    OBVIOUS
  <2>1. Resolves(n, build_state.events, build_state.lanes, build_state.groups)
    BY DEF TablesInv
  <2> QED
    BY <1>3, <1>5, <2>1 DEF Resolves
<1>8. NamesResolve'
  BY DEF TablesInv, NamesResolve
<1> QED
  BY <1>2, <1>3, <1>5, <1>6, <1>7, <1>8 DEF TablesInv

\* What interning does to the tables of the registry.
LEMMA InternedHere ==
    ASSUME TypeOK, NEW name \in Names, NEW lane \in Lanes
    PROVE  LET events2 == intern(build_state.events, name)
               event == Id(build_state.events, name)
               lanes2 == intern(build_state.lanes, lane)
               id == Id(build_state.lanes, lane)
           IN  /\ event \in Nat /\ event \in DOMAIN events2 /\ events2[event] = name
               /\ \A i \in DOMAIN build_state.events :
                    i \in DOMAIN events2 /\ events2[i] = build_state.events[i]
               /\ id \in Nat /\ id \in DOMAIN lanes2 /\ lanes2[id] = lane
               /\ \A i \in DOMAIN build_state.lanes :
                    i \in DOMAIN lanes2 /\ lanes2[i] = build_state.lanes[i]
<1> DEFINE events == build_state.events
           lanes == build_state.lanes
<1>1. events \in Seq(Names) /\ lanes \in Seq(Lanes)
  BY StateType DEF TraceState
<1> HIDE DEF events, lanes
<1>2. /\ Id(events, name) \in Nat /\ Id(events, name) \in DOMAIN intern(events, name)
      /\ intern(events, name)[Id(events, name)] = name
      /\ \A i \in DOMAIN events :
            i \in DOMAIN intern(events, name) /\ intern(events, name)[i] = events[i]
  BY <1>1, InternFacts
<1>3. /\ Id(lanes, lane) \in Nat /\ Id(lanes, lane) \in DOMAIN intern(lanes, lane)
      /\ intern(lanes, lane)[Id(lanes, lane)] = lane
      /\ \A i \in DOMAIN lanes :
            i \in DOMAIN intern(lanes, lane) /\ intern(lanes, lane)[i] = lanes[i]
  BY <1>1, InternFacts
<1> QED
  BY <1>2, <1>3 DEF events, lanes

\* The names of a new marker keep their ids or get one of their own; a build that finds no
\* lane leaves its event name behind and no marker.
LEMMA EmitTables == TypeOK /\ TablesInv /\ Emit => TablesInv'
<1> SUFFICES ASSUME TypeOK, TablesInv, Building,
                    NEW name \in Names, NEW lane \in Lanes, NEW kind \in {"begin", "instant"},
                    kernel' = kernel,
                    LET named == [build_state EXCEPT !.events = intern(@, name)]
                    IN \/ NoLaneLeft(named.lanes, lane) /\ Abandon(named)
                       \/ /\ ~NoLaneLeft(named.lanes, lane)
                          /\ _emit([named EXCEPT !.lanes = intern(@, lane)], kind,
                                   Id(build_state.events, name), Id(build_state.lanes, lane),
                                   name, lane)
                          /\ UNCHANGED leftover
             PROVE  TablesInv'
  BY DEF Emit
<1> DEFINE named == [build_state EXCEPT !.events = intern(@, name)]
           both == [named EXCEPT !.lanes = intern(@, lane)]
<1>1. /\ build_state \in TraceState
      /\ build_state.events \in Seq(Names) /\ build_state.lanes \in Seq(Lanes)
  BY StateType DEF TraceState
<1>2. Distinct(build_state.events) /\ Distinct(build_state.lanes)
      /\ GroupsDistinct(build_state.groups)
  BY DEF TablesInv
<1>3. /\ intern(build_state.events, name) \in Seq(Names)
      /\ Distinct(intern(build_state.events, name))
  BY <1>1, <1>2, InternFacts
<1>4. /\ named \in TraceState /\ named.stack = build_state.stack
      /\ named.lanes = build_state.lanes /\ named.groups = build_state.groups
      /\ named.events = intern(build_state.events, name)
  BY <1>1, <1>3 DEF TraceState
<1>5. CASE NoLaneLeft(named.lanes, lane) /\ Abandon(named)
  <2>1. build_state' = Popped(named, build.depth) /\ ~Building'
    BY <1>4, <1>5, AbandonFacts
  <2>2. /\ build_state'.events = named.events /\ build_state'.lanes = named.lanes
        /\ build_state'.groups = named.groups
    BY <1>4, <2>1 DEF Popped, TraceState
  <2>3. NamesResolve'
    BY DEF TablesInv, NamesResolve
  <2> QED
    BY <1>2, <1>3, <1>4, <2>1, <2>2, <2>3 DEF TablesInv
<1>6. CASE /\ ~NoLaneLeft(named.lanes, lane)
           /\ _emit(both, kind, Id(build_state.events, name), Id(build_state.lanes, lane),
                    name, lane)
  <2>1. /\ intern(build_state.lanes, lane) \in Seq(Lanes)
        /\ Distinct(intern(build_state.lanes, lane))
    BY <1>1, <1>2, InternFacts
  <2>2. /\ both \in TraceState /\ both.stack = build_state.stack
        /\ both.lanes = intern(build_state.lanes, lane)
        /\ both.events = intern(build_state.events, name)
        /\ both.groups = build_state.groups
    BY <1>4, <2>1 DEF TraceState
  <2>3. /\ Id(build_state.events, name) \in Nat
        /\ Id(build_state.events, name) \in DOMAIN both.events
        /\ both.events[Id(build_state.events, name)] = name
        /\ \A i \in DOMAIN build_state.events :
              i \in DOMAIN both.events /\ both.events[i] = build_state.events[i]
    <3> DEFINE events2 == intern(build_state.events, name)
               id == Id(build_state.events, name)
    <3>1. /\ id \in Nat /\ id \in DOMAIN events2 /\ events2[id] = name
          /\ \A i \in DOMAIN build_state.events :
                i \in DOMAIN events2 /\ events2[i] = build_state.events[i]
      BY InternedHere
    <3>2. both.events = events2
      BY <2>2
    <3> HIDE DEF both, events2
    <3> QED
      BY <3>1, <3>2
  <2>4. /\ Id(build_state.lanes, lane) \in Nat
        /\ Id(build_state.lanes, lane) \in DOMAIN both.lanes
        /\ both.lanes[Id(build_state.lanes, lane)] = lane
        /\ \A i \in DOMAIN build_state.lanes :
              i \in DOMAIN both.lanes /\ both.lanes[i] = build_state.lanes[i]
    <3> DEFINE lanes2 == intern(build_state.lanes, lane)
               id == Id(build_state.lanes, lane)
    <3>1. /\ id \in Nat /\ id \in DOMAIN lanes2 /\ lanes2[id] = lane
          /\ \A i \in DOMAIN build_state.lanes :
                i \in DOMAIN lanes2 /\ lanes2[i] = build_state.lanes[i]
      BY InternedHere
    <3>2. both.lanes = lanes2
      BY <2>2
    <3> HIDE DEF both, lanes2
    <3> QED
      BY <3>1, <3>2
  <2>5. Len(both.lanes) <= MAX_LANES
    BY <1>1, <1>4, <1>6, <2>2, InternWithinCap
  <2>6. kind \in Kinds /\ Distinct(both.events) /\ Distinct(both.lanes)
    BY <1>3, <2>1, <2>2 DEF Kinds
  <2> HIDE DEF named, both
  <2> QED
    BY <1>6, <2>2, <2>3, <2>4, <2>5, <2>6, MarkerTables
<1> QED
  BY <1>5, <1>6

\* A range ends under the ids it began with, which its tables still resolve.
LEMMA CloseTables == TypeOK /\ TablesInv /\ close_range => TablesInv'
<1> SUFFICES ASSUME TypeOK, TablesInv, Building, kernel' = kernel,
                    NEW tok \in build.body,
                    _emit(build_state, "end", tok.event, tok.lane, tok.says.name, tok.says.lane)
             PROVE  TablesInv'
  BY DEF close_range
<1>1. build_state \in TraceState
  BY StateType
<1>2. tok \in Marker
  BY DEF TypeOK, Building, Build
<1>3. /\ tok.event \in Nat /\ tok.lane \in Nat
      /\ tok.says.name \in Names /\ tok.says.lane \in Lanes
  BY <1>2 DEF Marker, Meaning
<1>4. /\ Distinct(build_state.events) /\ Distinct(build_state.lanes)
      /\ Resolves(tok, build_state.events, build_state.lanes, build_state.groups)
  BY DEF TablesInv
<1>5. "end" \in Kinds /\ Len(build_state.lanes) <= MAX_LANES
  BY DEF Kinds, TypeOK
<1>6. /\ tok.event \in DOMAIN build_state.events /\ build_state.events[tok.event] = tok.says.name
      /\ tok.lane \in DOMAIN build_state.lanes /\ build_state.lanes[tok.lane] = tok.says.lane
  BY <1>4 DEF Resolves
<1> QED
  BY <1>1, <1>3, <1>4, <1>5, <1>6, MarkerTables

\* Scopes and flows leave the names alone.
LEMMA ScopeTables ==
    TypeOK /\ TablesInv /\ (push_group \/ pop_group \/ declare_flow) => TablesInv'
<1> SUFFICES ASSUME TypeOK, TablesInv, push_group \/ pop_group \/ declare_flow
             PROVE  TablesInv'
  OBVIOUS
<1>1. _BUILD_STATE' \in TraceState
  BY PushType, PopType, FlowType
<1>2. build \in Build /\ Building /\ build_state \in TraceState
  BY StateType DEF TypeOK, Building, push_group, pop_group, declare_flow
<1>3. NamesResolve'
  BY DEF TablesInv, NamesResolve, push_group, pop_group, declare_flow
<1>4. build'.body = build.body
  BY <1>2 DEF Build, push_group, pop_group, declare_flow
<1>5. build_state' = _BUILD_STATE'
  BY <1>1, WrittenType
<1>6. /\ build_state'.events = build_state.events /\ build_state'.lanes = build_state.lanes
      /\ build_state'.groups = build_state.groups
  BY <1>2, <1>5 DEF push_group, pop_group, declare_flow, Popped, TraceState
<1> QED
  BY <1>2, <1>3, <1>4, <1>6, SameTables

\* A build that raises leaves its names in the registry.
LEMMA RaiseTables == TypeOK /\ TablesInv /\ BuildRaises => TablesInv'
<1> SUFFICES ASSUME TypeOK, TablesInv, Building, Abandon(build_state), kernel' = kernel
             PROVE  TablesInv'
  BY DEF BuildRaises
<1>1. build_state' = Popped(build_state, build.depth) /\ ~Building'
  BY StateType, AbandonFacts
<1>2. /\ build_state'.events = build_state.events /\ build_state'.lanes = build_state.lanes
      /\ build_state'.groups = build_state.groups
  BY <1>1, StateType DEF Popped, TraceState
<1>3. NamesResolve'
  BY DEF TablesInv, NamesResolve
<1> QED
  BY <1>1, <1>2, <1>3, SameTables

\* The kernel takes its markers and the tables that resolve them together.
LEMMA LowerTables == TypeOK /\ TablesInv /\ lower => TablesInv'
<1> SUFFICES ASSUME TypeOK, TablesInv, Building, _BUILD_STATE' = NoState, build' = NoBuild,
                    kernel' \in {Lowered(build_state), NoKernel}
             PROVE  TablesInv'
  BY DEF lower
<1>1. build_state' = NewState /\ ~Building'
  BY DEF build_state, Building
<1>2. NewState.events = <<>> /\ NewState.lanes = <<>> /\ NewState.groups = <<>>
  BY DEF NewState
<1>3. /\ Distinct(build_state'.events) /\ Distinct(build_state'.lanes)
      /\ GroupsDistinct(build_state'.groups)
  BY <1>1, <1>2 DEF Distinct, GroupsDistinct
<1>4. NamesResolve'
  <2>1. CASE kernel' = NoKernel
    BY <2>1 DEF NamesResolve
  <2>2. CASE kernel' = Lowered(build_state)
    <3>1. /\ kernel'.body = build.body /\ kernel'.events = build_state.events
          /\ kernel'.lanes = build_state.lanes /\ kernel'.groups = build_state.groups
      BY <2>2 DEF Lowered
    <3>2. \A m \in build.body :
            Resolves(m, build_state.events, build_state.lanes, build_state.groups)
      BY DEF TablesInv
    <3> QED
      BY <3>1, <3>2 DEF NamesResolve
  <2> QED
    BY <2>1, <2>2
<1> QED
  BY <1>1, <1>3, <1>4 DEF TablesInv

\* A build that begins and one that is stripped have no markers of their own.
LEMMA EdgeTables == TypeOK /\ TablesInv /\ (BeginBuild \/ strip) => TablesInv'
<1> SUFFICES ASSUME TablesInv, BeginBuild \/ strip
             PROVE  TablesInv'
  OBVIOUS
<1>1. build_state' = build_state
  BY DEF BeginBuild, strip, build_state
<1>2. Building' => build'.body = {}
  BY DEF BeginBuild, strip, Building
<1>3. NamesResolve'
  BY DEF BeginBuild, strip, TablesInv, NamesResolve
<1> QED
  BY <1>1, <1>2, <1>3, SameTables

\* Through any number of builds, lowered, stripped or raised, a name keeps its id and every
\* marker of the kernel under construction stands for what was written.
THEOREM TablesHold == Spec => []TablesInv
<1>1. Init => TablesInv
  <2>1. Init => build_state = NewState /\ ~Building /\ NamesResolve
    BY DEF Init, build_state, Building, NamesResolve
  <2>2. NewState.events = <<>> /\ NewState.lanes = <<>> /\ NewState.groups = <<>>
    BY DEF NewState
  <2>3. Distinct(NewState.events) /\ Distinct(NewState.lanes) /\ GroupsDistinct(NewState.groups)
    BY <2>2 DEF Distinct, GroupsDistinct
  <2> QED
    BY <2>1, <2>3 DEF TablesInv
<1>2. TypeOK /\ TablesInv /\ [Next]_vars => TablesInv'
  <2> SUFFICES ASSUME TypeOK, TablesInv, [Next]_vars PROVE TablesInv'
    OBVIOUS
  <2>1. CASE UNCHANGED vars
    BY <2>1 DEF vars, TablesInv, NamesResolve, build_state, Building
  <2> QED
    BY <2>1, EdgeTables, ScopeTables, EmitTables, CloseTables, RaiseTables, LowerTables DEF Next
<1> QED
  BY <1>1, <1>2, TypeCorrect, PTL DEF Spec

\* Every record of a lowered kernel is decoded under the event, lane and group name its
\* author gave it, whatever earlier builds left behind.
COROLLARY NamesAlwaysResolve == Spec => []NamesResolve
<1>1. TablesInv => NamesResolve
  BY DEF TablesInv
<1> QED
  BY <1>1, TablesHold, PTL

-----------------------------------------------------------------------------
Body == IF Building THEN build.body ELSE {}
Declared == IF Building THEN build.flows ELSE <<>>

\* While every build since the last lowered one was lowered too, the registry holds what the
\* markers of this build interned and nothing else.
OwnSoFar ==
    ~leftover =>
        /\ Interned(build_state.events) = {m.says.name : m \in Body}
        /\ Interned(build_state.lanes) = {m.says.lane : m \in Body}
        /\ Interned(build_state.groups) \subseteq {m.says.scope : m \in Body}
        /\ build_state.flows = Declared

OwnInv == OwnSoFar /\ OwnTables

\* A table interns x and keeps the rest.
LEMMA InternedBy ==
    ASSUME NEW S, NEW table \in Seq(S), NEW x \in S
    PROVE  Interned(intern(table, x)) = Interned(table) \cup {x}
<1>1. CASE x \in Interned(table)
  BY <1>1 DEF intern
<1>2. CASE x \notin Interned(table)
  <2>1. intern(table, x) = Append(table, x)
    BY <1>2 DEF intern
  <2>2. /\ DOMAIN Append(table, x) = DOMAIN table \cup {Len(table) + 1}
        /\ Append(table, x)[Len(table) + 1] = x
        /\ \A i \in DOMAIN table : Append(table, x)[i] = table[i]
    OBVIOUS
  <2> QED
    BY <2>1, <2>2 DEF Interned
<1> QED
  BY <1>1, <1>2

LEMMA GroupInternedBy ==
    ASSUME NEW groups \in Seq(Scope), NEW scope \in Scope
    PROVE  Interned(_intern_group(groups, scope)) \subseteq Interned(groups) \cup {scope}
<1>1. CASE Known(groups, scope.name)
  BY <1>1 DEF _intern_group
<1>2. CASE ~Known(groups, scope.name)
  <2>1. _intern_group(groups, scope) = Append(groups, scope)
    BY <1>2 DEF _intern_group
  <2>2. /\ DOMAIN Append(groups, scope) = DOMAIN groups \cup {Len(groups) + 1}
        /\ Append(groups, scope)[Len(groups) + 1] = scope
        /\ \A i \in DOMAIN groups : Append(groups, scope)[i] = groups[i]
    OBVIOUS
  <2> QED
    BY <2>1, <2>2 DEF Interned
<1> QED
  BY <1>1, <1>2

\* A marker brings its own names into the tables.
LEMMA MarkerOwn ==
    ASSUME TypeOK, OwnInv, Building, kernel' = kernel, leftover' = leftover,
           NEW state \in TraceState, state.stack = build_state.stack,
           state.flows = build_state.flows, state.groups = build_state.groups,
           NEW kind \in Kinds, NEW event \in Nat, NEW lane \in Nat, Len(state.lanes) <= MAX_LANES,
           NEW name \in Names, NEW laneName \in Lanes,
           Interned(state.events) = Interned(build_state.events) \cup {name},
           Interned(state.lanes) = Interned(build_state.lanes) \cup {laneName},
           _emit(state, kind, event, lane, name, laneName)
    PROVE  OwnInv'
<1>1. /\ build_state' = [state EXCEPT !.groups = _intern_group(@, Active)]
      /\ Building'
      /\ \E m \in Marker :
            /\ build'.body = build.body \cup {m}
            /\ m.says = [name |-> name, lane |-> laneName, scope |-> Active]
  BY EmitFacts
<1>2. PICK m \in Marker : /\ build'.body = build.body \cup {m}
                          /\ m.says = [name |-> name, lane |-> laneName, scope |-> Active]
  BY <1>1
<1>3. /\ build_state'.events = state.events /\ build_state'.lanes = state.lanes
      /\ build_state'.groups = _intern_group(build_state.groups, Active)
      /\ build_state'.flows = build_state.flows
  BY <1>1 DEF TraceState
<1>4. Active \in Scope /\ build_state.groups \in Seq(Scope)
  BY StateType DEF TraceState
<1>5. Interned(build_state'.groups) \subseteq Interned(build_state.groups) \cup {Active}
  BY <1>3, <1>4, GroupInternedBy
<1>6. build'.flows = build.flows
  BY DEF TypeOK, Building, Build, _emit
<1>7. Body' = Body \cup {m} /\ Declared' = Declared
  BY <1>1, <1>2, <1>6 DEF Body, Declared
<1>8. /\ {n.says.name : n \in Body'} = {n.says.name : n \in Body} \cup {name}
      /\ {n.says.lane : n \in Body'} = {n.says.lane : n \in Body} \cup {laneName}
      /\ {n.says.scope : n \in Body'} = {n.says.scope : n \in Body} \cup {Active}
  BY <1>2, <1>7
<1>9. OwnSoFar'
  BY <1>3, <1>5, <1>7, <1>8 DEF OwnInv, OwnSoFar
<1>10. OwnTables'
  BY DEF OwnInv, OwnTables
<1> QED
  BY <1>9, <1>10 DEF OwnInv

\* A new name is interned with its marker; a build that finds no lane is left over.
LEMMA EmitOwn == TypeOK /\ OwnInv /\ Emit => OwnInv'
<1> SUFFICES ASSUME TypeOK, OwnInv, Building,
                    NEW name \in Names, NEW lane \in Lanes, NEW kind \in {"begin", "instant"},
                    kernel' = kernel,
                    LET named == [build_state EXCEPT !.events = intern(@, name)]
                    IN \/ NoLaneLeft(named.lanes, lane) /\ Abandon(named)
                       \/ /\ ~NoLaneLeft(named.lanes, lane)
                          /\ _emit([named EXCEPT !.lanes = intern(@, lane)], kind,
                                   Id(build_state.events, name), Id(build_state.lanes, lane),
                                   name, lane)
                          /\ UNCHANGED leftover
             PROVE  OwnInv'
  BY DEF Emit
<1> DEFINE named == [build_state EXCEPT !.events = intern(@, name)]
           both == [named EXCEPT !.lanes = intern(@, lane)]
<1>1. CASE Abandon(named)
  BY <1>1 DEF Abandon, OwnInv, OwnSoFar, OwnTables
<1>2. CASE /\ ~NoLaneLeft(named.lanes, lane)
           /\ _emit(both, kind, Id(build_state.events, name), Id(build_state.lanes, lane),
                    name, lane)
           /\ leftover' = leftover
  <2>1. /\ build_state \in TraceState
        /\ build_state.events \in Seq(Names) /\ build_state.lanes \in Seq(Lanes)
    BY StateType DEF TraceState
  <2>2. /\ intern(build_state.events, name) \in Seq(Names)
        /\ intern(build_state.lanes, lane) \in Seq(Lanes)
    BY <2>1, InternFacts
  <2>3. /\ both \in TraceState /\ both.stack = build_state.stack
        /\ both.lanes = intern(build_state.lanes, lane)
        /\ both.events = intern(build_state.events, name)
        /\ both.groups = build_state.groups /\ both.flows = build_state.flows
        /\ named.lanes = build_state.lanes
    BY <2>1, <2>2 DEF TraceState
  <2>4. /\ Interned(both.events) = Interned(build_state.events) \cup {name}
        /\ Interned(both.lanes) = Interned(build_state.lanes) \cup {lane}
    BY <2>1, <2>3, InternedBy
  <2>5. Id(build_state.events, name) \in Nat /\ Id(build_state.lanes, lane) \in Nat
    BY InternedHere
  <2>6. Len(both.lanes) <= MAX_LANES /\ kind \in Kinds
    BY <1>2, <2>3, InternWithinCap DEF Kinds
  <2> HIDE DEF named, both
  <2> QED
    BY <1>2, <2>3, <2>4, <2>5, <2>6, MarkerOwn
<1> QED
  BY <1>1, <1>2

\* The names of an end came with its begin.
LEMMA CloseOwn == TypeOK /\ TablesInv /\ OwnInv /\ close_range => OwnInv'
<1> SUFFICES ASSUME TypeOK, TablesInv, OwnInv, Building,
                    kernel' = kernel, leftover' = leftover,
                    NEW tok \in build.body,
                    _emit(build_state, "end", tok.event, tok.lane, tok.says.name, tok.says.lane)
             PROVE  OwnInv'
  BY DEF close_range
<1>1. build_state \in TraceState
  BY StateType
<1>2. tok \in Marker
  BY DEF TypeOK, Building, Build
<1>3. /\ tok.event \in Nat /\ tok.lane \in Nat
      /\ tok.says.name \in Names /\ tok.says.lane \in Lanes
  BY <1>2 DEF Marker, Meaning
<1>4. "end" \in Kinds /\ Len(build_state.lanes) <= MAX_LANES
  BY DEF Kinds, TypeOK
<1>5. Resolves(tok, build_state.events, build_state.lanes, build_state.groups)
  BY DEF TablesInv
<1>6. /\ Interned(build_state.events) = Interned(build_state.events) \cup {tok.says.name}
      /\ Interned(build_state.lanes) = Interned(build_state.lanes) \cup {tok.says.lane}
  BY <1>5 DEF Resolves, Interned
<1> QED
  BY <1>1, <1>3, <1>4, <1>6, MarkerOwn

\* A build goes on through its scopes and flows.
LEMMA ScopeBuild ==
    ASSUME TypeOK, push_group \/ pop_group \/ declare_flow
    PROVE  Building' /\ build'.body = build.body
<1>1. build \in Build
  BY DEF TypeOK, Building, push_group, pop_group, declare_flow
<1>2. build'.body = build.body
  BY <1>1 DEF Build, push_group, pop_group, declare_flow
<1>3. build' \in Build
  <2>1. CASE push_group
    BY <1>1, <2>1 DEF push_group, Build
  <2>2. CASE pop_group
    BY <1>1, <2>2 DEF pop_group, Build
  <2>3. CASE declare_flow
    <3>1. PICK flow \in Flows : build' = [build EXCEPT !.flows = Append(@, flow)]
      BY <2>3 DEF declare_flow
    <3>2. Append(build.flows, flow) \in Seq(Flows)
      BY <1>1 DEF Build
    <3> QED
      BY <1>1, <3>1, <3>2 DEF Build
  <2> QED
    BY <2>1, <2>2, <2>3
<1> QED
  BY <1>2, <1>3, SentinelAssumption DEF Building

\* Scopes leave the tables alone, and a flow is declared in both places.
LEMMA ScopeOwn ==
    TypeOK /\ OwnInv /\ (push_group \/ pop_group \/ declare_flow) => OwnInv'
<1> SUFFICES ASSUME TypeOK, OwnInv, push_group \/ pop_group \/ declare_flow
             PROVE  OwnInv'
  OBVIOUS
<1>1. build_state' = _BUILD_STATE'
  BY PushType, PopType, FlowType, WrittenType
<1>2. build \in Build /\ Building /\ build_state \in TraceState
  BY StateType DEF TypeOK, Building, push_group, pop_group, declare_flow
<1>4. Building' /\ build'.body = build.body
  BY <1>2, ScopeBuild
<1>5. /\ build_state'.events = build_state.events /\ build_state'.lanes = build_state.lanes
      /\ build_state'.groups = build_state.groups
  BY <1>1, <1>2 DEF push_group, pop_group, declare_flow, Popped, TraceState
<1>6. Body' = Body
  BY <1>2, <1>4 DEF Body
<1>7. OwnTables' /\ leftover' = leftover
  BY DEF OwnInv, OwnTables, push_group, pop_group, declare_flow
<1>8. build_state.flows = Declared => build_state'.flows = Declared'
  <2>1. CASE push_group \/ pop_group
    BY <1>1, <1>2, <1>4, <2>1 DEF push_group, pop_group, Popped, TraceState, Build, Declared
  <2>2. CASE declare_flow
    BY <1>1, <1>2, <1>4, <2>2 DEF declare_flow, TraceState, Build, Declared
  <2> QED
    BY <2>1, <2>2
<1> QED
  BY <1>5, <1>6, <1>7, <1>8 DEF OwnInv, OwnSoFar

\* What the lowered kernel takes is what its own markers interned.
LEMMA LowerOwn == TypeOK /\ TablesInv /\ OwnInv /\ lower => OwnInv'
<1> SUFFICES ASSUME TypeOK, TablesInv, OwnInv, Building, _BUILD_STATE' = NoState,
                    build' = NoBuild, kernel' \in {Lowered(build_state), NoKernel}
             PROVE  OwnInv'
  BY DEF lower
<1>1. build_state' = NewState /\ ~Building'
  BY DEF build_state, Building
<1>2. /\ NewState.events = <<>> /\ NewState.lanes = <<>> /\ NewState.groups = <<>>
      /\ NewState.flows = <<>>
  BY DEF NewState
<1>3. Body' = {} /\ Declared' = <<>>
  BY <1>1 DEF Body, Declared
<1>4. OwnSoFar'
  BY <1>1, <1>2, <1>3 DEF OwnSoFar, Interned
<1>5. OwnTables'
  <2>1. CASE kernel' = NoKernel
    BY <2>1 DEF OwnTables
  <2>2. CASE kernel' = Lowered(build_state)
    <3> DEFINE k == Lowered(build_state)
    <3>1. /\ k.body = build.body /\ k.events = build_state.events
          /\ k.lanes = build_state.lanes /\ k.groups = build_state.groups
          /\ k.flows = build_state.flows /\ k.declared = build.flows /\ k.leftover = leftover
      BY DEF Lowered
    <3> HIDE DEF k
    <3>2. SUFFICES ASSUME ~leftover, OneLead(k) PROVE Own(k)
      BY <2>2, <3>1 DEF OwnTables, k
    <3>3. /\ Interned(k.events) = {m.says.name : m \in k.body}
          /\ Interned(k.lanes) = {m.says.lane : m \in k.body}
          /\ Interned(k.groups) \subseteq {m.says.scope : m \in k.body}
          /\ k.flows = k.declared
      BY <3>1, <3>2 DEF OwnInv, OwnSoFar, Body, Declared
    <3>4. ASSUME NEW m \in k.body PROVE m.says.scope \in Interned(k.groups)
      <4>1. m.gid \in DOMAIN k.groups /\ k.groups[m.gid].name = m.says.scope.name
        BY <3>1 DEF TablesInv, Resolves
      <4>2. k.groups[m.gid] \in Interned(k.groups)
        BY <4>1 DEF Interned
      <4>3. PICK n \in k.body : n.says.scope = k.groups[m.gid]
        BY <3>3, <4>2
      <4>4. m.says.scope = n.says.scope
        BY <3>2, <4>1, <4>3 DEF OneLead
      <4> QED
        BY <4>2, <4>3, <4>4
    <3> QED
      BY <3>3, <3>4 DEF Own
  <2> QED
    BY <2>1, <2>2
<1> QED
  BY <1>4, <1>5 DEF OwnInv

\* A build that is given up says so; one that begins after a lowered one finds empty tables.
LEMMA EdgeOwn == OwnInv /\ (BeginBuild \/ BuildRaises \/ strip) => OwnInv'
<1> SUFFICES ASSUME OwnInv, BeginBuild \/ BuildRaises \/ strip
             PROVE  OwnInv'
  OBVIOUS
<1>1. CASE BuildRaises \/ strip
  BY <1>1 DEF BuildRaises, strip, Abandon, OwnInv, OwnSoFar, OwnTables
<1>2. CASE BeginBuild
  <2>1. build_state' = build_state /\ leftover' = leftover /\ kernel' = NoKernel
    BY <1>2 DEF BeginBuild, build_state
  <2>2. Body = {} /\ Body' = {} /\ Declared = <<>> /\ Declared' = <<>>
    BY <1>2 DEF BeginBuild, Body, Declared, Building
  <2> QED
    BY <2>1, <2>2 DEF OwnInv, OwnSoFar, OwnTables
<1> QED
  BY <1>1, <1>2

\* A kernel built when every build since the last lowered one was lowered too has host maps
\* of its own: the groups it used with the leads it declared, its names and its arrows.
THEOREM TablesOwned == Spec => []OwnTables
<1>1. Init => OwnInv
  <2>1. Init => build_state = NewState /\ Body = {} /\ Declared = <<>> /\ OwnTables
    BY DEF Init, build_state, Building, Body, Declared, OwnTables
  <2>2. /\ NewState.events = <<>> /\ NewState.lanes = <<>> /\ NewState.groups = <<>>
        /\ NewState.flows = <<>>
    BY DEF NewState
  <2> QED
    BY <2>1, <2>2 DEF OwnInv, OwnSoFar, Interned
<1>2. TypeOK /\ TablesInv /\ OwnInv /\ [Next]_vars => OwnInv'
  <2> SUFFICES ASSUME TypeOK, TablesInv, OwnInv, [Next]_vars PROVE OwnInv'
    OBVIOUS
  <2>1. CASE UNCHANGED vars
    BY <2>1 DEF vars, OwnInv, OwnSoFar, OwnTables, Body, Declared, build_state, Building
  <2> QED
    BY <2>1, EdgeOwn, ScopeOwn, EmitOwn, CloseOwn, LowerOwn DEF Next
<1>3. OwnInv => OwnTables
  BY DEF OwnInv
<1> QED
  BY <1>1, <1>2, <1>3, TypeCorrect, TablesHold, PTL DEF Spec

\* A set of natural numbers has a least element.
LEMMA LeastNat ==
    ASSUME NEW S, S \subseteq Nat, S # {}
    PROVE  \E m \in S : \A n \in S : m <= n
<1>1. PICK x \in S : \A y \in S : ~(<<y, x>> \in OpToRel(<, Nat))
  BY NatLessThanWellFounded, WFMin
<1>2. \A y \in S : y < x => <<y, x>> \in OpToRel(<, Nat)
  BY DEF OpToRel
<1>3. \A y \in S : ~(y < x)
  BY <1>1, <1>2, Zenon
<1> QED
  BY <1>3

\* One below a bound has a greatest.
LEMMA GreatestNat ==
    ASSUME NEW n \in Nat, NEW S, S \subseteq 0..n, S # {}
    PROVE  \E m \in S : \A k \in S : k <= m
<1> DEFINE T == {n - k : k \in S}
<1>1. T \subseteq Nat /\ T # {}
  <2>1. \A k \in S : n - k \in Nat
    OBVIOUS
  <2> QED
    BY <2>1
<1>2. PICK t \in T : \A u \in T : t <= u
  <2> HIDE DEF T
  <2> QED
    BY <1>1, LeastNat
<1>3. PICK m \in S : t = n - m
  BY <1>2
<1>4. ASSUME NEW k \in S PROVE k <= m
  <2>1. t <= n - k
    BY <1>2
  <2> QED
    BY <1>3, <2>1
<1> QED
  BY <1>4

\* Induction, for a set of numbers in place of a predicate.
LEMMA InductionOnNat ==
    ASSUME NEW S, 0 \in S, \A n \in Nat : n \in S => n + 1 \in S
    PROVE  Nat \subseteq S
<1> SUFFICES ASSUME NEW k \in Nat, k \notin S PROVE FALSE
  OBVIOUS
<1> DEFINE Out == {n \in Nat : n \notin S}
<1>1. PICK m \in Out : \A n \in Out : m <= n
  <2>1. Out \subseteq Nat /\ Out # {}
    OBVIOUS
  <2> HIDE DEF Out
  <2> QED
    BY <2>1, LeastNat
<1>2. m - 1 \in Nat /\ m - 1 \notin Out
  BY <1>1
<1> QED
  BY <1>1, <1>2

-----------------------------------------------------------------------------
(* How far the begins of a name and lane are ahead of its ends.            *)

Excess(h, r, from, to) == Count(h, r, "begin", from, to) - Count(h, r, "end", from, to)

\* Counting one record more.
LEMMA CountNext ==
    ASSUME NEW h, NEW r, NEW kind, NEW from \in Nat, NEW to \in Nat, from <= to + 1
    PROVE  /\ Count(h, r, kind, from, to) \in Nat
           /\ Count(h, r, kind, from, to + 1) =
                Count(h, r, kind, from, to)
                  + IF Same(h[to + 1], r) /\ h[to + 1].kind = kind THEN 1 ELSE 0
           /\ to + 1 = from => Count(h, r, kind, from, to) = 0
<1> DEFINE Hit(i) == Same(h[i], r) /\ h[i].kind = kind
           before == {i \in from..to : Hit(i)}
           after == {i \in from..(to + 1) : Hit(i)}
<1>1. Count(h, r, kind, from, to) = Cardinality(before)
  BY DEF Count
<1>2. Count(h, r, kind, from, to + 1) = Cardinality(after)
  BY DEF Count
<1> HIDE DEF Hit
<1>3. IsFiniteSet(before)
  <2>1. before \in SUBSET (from..to) /\ IsFiniteSet(from..to)
    BY FS_Interval
  <2> QED
    BY <2>1, FS_Subset
<1>4. to + 1 \notin before
  OBVIOUS
<1>5. after = IF Hit(to + 1) THEN before \cup {to + 1} ELSE before
  <2>1. from..(to + 1) = (from..to) \cup {to + 1}
    OBVIOUS
  <2> QED
    BY <2>1
<1>6. Cardinality(before) \in Nat
  BY <1>3, FS_CardinalityType
<1>7. Cardinality(after) = Cardinality(before) + IF Hit(to + 1) THEN 1 ELSE 0
  <2>1. CASE Hit(to + 1)
    <3>1. after = before \cup {to + 1}
      BY <1>5, <2>1
    <3> HIDE DEF before, after
    <3> QED
      BY <1>3, <1>4, <2>1, <3>1, FS_AddElement
  <2>2. CASE ~Hit(to + 1)
    <3>1. after = before
      BY <1>5, <2>2
    <3> HIDE DEF before, after
    <3> QED
      BY <1>6, <2>2, <3>1
  <2> QED
    BY <2>1, <2>2
<1>8. to + 1 = from => Cardinality(before) = 0
  <2>1. to + 1 = from => before = {}
    OBVIOUS
  <2> QED
    BY <2>1, FS_EmptySet
<1> QED
  BY <1>1, <1>2, <1>6, <1>7, <1>8 DEF Hit

\* A record moves the excess by one at most, and only that of its own name and lane.
LEMMA ExcessNext ==
    ASSUME NEW h, NEW r, NEW from \in Nat, NEW to \in Nat, from <= to + 1
    PROVE  /\ Excess(h, r, from, to) \in Int
           /\ to + 1 = from => Excess(h, r, from, to) = 0
           /\ Excess(h, r, from, to + 1) =
                Excess(h, r, from, to)
                  + IF ~Same(h[to + 1], r) THEN 0
                    ELSE IF h[to + 1].kind = "begin" THEN 1
                    ELSE IF h[to + 1].kind = "end" THEN -1 ELSE 0
<1> DEFINE b == Count(h, r, "begin", from, to)  e == Count(h, r, "end", from, to)
           b2 == Count(h, r, "begin", from, to + 1)  e2 == Count(h, r, "end", from, to + 1)
<1>1. /\ b \in Nat /\ (to + 1 = from => b = 0)
      /\ b2 = b + IF Same(h[to + 1], r) /\ h[to + 1].kind = "begin" THEN 1 ELSE 0
  BY CountNext
<1>2. /\ e \in Nat /\ (to + 1 = from => e = 0)
      /\ e2 = e + IF Same(h[to + 1], r) /\ h[to + 1].kind = "end" THEN 1 ELSE 0
  BY CountNext
<1>3. Excess(h, r, from, to) = b - e /\ Excess(h, r, from, to + 1) = b2 - e2
  BY DEF Excess
<1> HIDE DEF b, e, b2, e2
<1> QED
  BY <1>1, <1>2, <1>3

\* It adds up over adjacent stretches.
LEMMA ExcessSplit ==
    ASSUME NEW h, NEW r, NEW from \in Nat, NEW mid \in Nat, NEW to \in Nat,
           from <= mid, mid <= to
    PROVE  Excess(h, r, from, to) = Excess(h, r, from, mid) + Excess(h, r, mid + 1, to)
<1> DEFINE Adds(k) == Excess(h, r, from, mid + k)
                        = Excess(h, r, from, mid) + Excess(h, r, mid + 1, mid + k)
           N == {k \in Nat : Adds(k)}
<1>1. Excess(h, r, from, mid) \in Int
  BY ExcessNext
<1>2. 0 \in N
  <2>1. Excess(h, r, mid + 1, mid) = 0 /\ mid + 0 = mid
    BY ExcessNext
  <2> QED
    BY <1>1, <2>1
<1>3. ASSUME NEW k \in Nat, k \in N PROVE k + 1 \in N
  <2> DEFINE to1 == mid + k
             d == IF ~Same(h[to1 + 1], r) THEN 0
                  ELSE IF h[to1 + 1].kind = "begin" THEN 1
                  ELSE IF h[to1 + 1].kind = "end" THEN -1 ELSE 0
  <2>1. to1 \in Nat /\ from <= to1 + 1 /\ mid + 1 <= to1 + 1 /\ mid + (k + 1) = to1 + 1
    OBVIOUS
  <2>2. d \in Int
    OBVIOUS
  <2> HIDE DEF to1
  <2>3. /\ Excess(h, r, from, to1 + 1) = Excess(h, r, from, to1) + d
        /\ Excess(h, r, from, to1) \in Int
    BY <2>1, ExcessNext
  <2>4. /\ Excess(h, r, mid + 1, to1 + 1) = Excess(h, r, mid + 1, to1) + d
        /\ Excess(h, r, mid + 1, to1) \in Int
    BY <2>1, ExcessNext
  <2>5. Excess(h, r, from, to1) = Excess(h, r, from, mid) + Excess(h, r, mid + 1, to1)
    BY <1>3 DEF to1
  <2> HIDE DEF d
  <2>6. Adds(k + 1)
    BY <1>1, <2>1, <2>2, <2>3, <2>4, <2>5
  <2> QED
    BY <2>6
<1>4. to - mid \in N
  <2>1. to - mid \in Nat
    OBVIOUS
  <2> HIDE DEF N
  <2>2. Nat \subseteq N
    BY <1>2, <1>3, InductionOnNat
  <2> QED
    BY <2>1, <2>2
<1>5. mid + (to - mid) = to
  OBVIOUS
<1> QED
  BY <1>4, <1>5

-----------------------------------------------------------------------------
(* The ranges still open after e records.                                  *)

\* The range begun at p is still open: its begins have been ahead ever since.
OpenAt(h, e, p) ==
    p \in 1..e /\ h[p].kind = "begin" /\ \A i \in p..e : Excess(h, h[p], p, i) > 0

\* The last open range of its name and lane.
LastOpen(h, e, p) ==
    OpenAt(h, e, p) /\ \A q \in 1..e : OpenAt(h, e, q) /\ Same(h[q], h[p]) => q <= p

\* Records of one name and lane are counted together.
LEMMA SameExcess ==
    ASSUME NEW h, NEW r, NEW s, Same(r, s), NEW from, NEW to
    PROVE  /\ Excess(h, r, from, to) = Excess(h, s, from, to)
           /\ \A t : Same(t, r) <=> Same(t, s)
<1>1. \A t : Same(t, r) <=> Same(t, s)
  BY DEF Same
<1>2. ASSUME NEW kind PROVE Count(h, r, kind, from, to) = Count(h, s, kind, from, to)
  BY <1>1 DEF Count
<1> QED
  BY <1>1, <1>2 DEF Excess

\* A range just begun is one ahead.
LEMMA Begun ==
    ASSUME NEW h, NEW p \in Nat \ {0}, h[p].kind = "begin"
    PROVE  Excess(h, h[p], p, p) = 1
<1>1. Same(h[p], h[p])
  BY DEF Same
<1>2. p - 1 \in Nat /\ (p - 1) + 1 = p
  OBVIOUS
<1>3. Excess(h, h[p], p, (p - 1) + 1) =
        Excess(h, h[p], p, p - 1)
          + IF ~Same(h[(p - 1) + 1], h[p]) THEN 0
            ELSE IF h[(p - 1) + 1].kind = "begin" THEN 1
            ELSE IF h[(p - 1) + 1].kind = "end" THEN -1 ELSE 0
  BY <1>2, ExcessNext
<1>4. Excess(h, h[p], p, p - 1) = 0
  BY <1>2, ExcessNext
<1> QED
  BY <1>1, <1>2, <1>3, <1>4

\* The next record: it may open a range of its own, and close others.
LEMMA OpenNext ==
    ASSUME NEW h, NEW e \in Nat
    PROVE  /\ OpenAt(h, e + 1, e + 1) <=> h[e + 1].kind = "begin"
           /\ \A p \in 1..e : OpenAt(h, e + 1, p) <=>
                OpenAt(h, e, p) /\ Excess(h, h[p], p, e + 1) > 0
<1>1. h[e + 1].kind = "begin" => OpenAt(h, e + 1, e + 1)
  <2> SUFFICES ASSUME h[e + 1].kind = "begin" PROVE OpenAt(h, e + 1, e + 1)
    OBVIOUS
  <2>1. Excess(h, h[e + 1], e + 1, e + 1) = 1
    BY Begun
  <2>2. \A i \in (e + 1)..(e + 1) : i = e + 1
    OBVIOUS
  <2> QED
    BY <2>1, <2>2 DEF OpenAt
<1>2. ASSUME NEW p \in 1..e
      PROVE  OpenAt(h, e + 1, p) <=> OpenAt(h, e, p) /\ Excess(h, h[p], p, e + 1) > 0
  <2>1. p..(e + 1) = (p..e) \cup {e + 1}
    OBVIOUS
  <2>2. p \in 1..(e + 1)
    OBVIOUS
  <2> QED
    BY <2>1, <2>2 DEF OpenAt
<1> QED
  BY <1>1, <1>2 DEF OpenAt

\* Inside the last open range of a name and lane everything is closed.
LEMMA LastIsOneAhead ==
    ASSUME NEW h, NEW e \in Nat, NEW p, LastOpen(h, e, p)
    PROVE  Excess(h, h[p], p, e) = 1
<1> DEFINE Ones == {i \in p..e : Excess(h, h[p], p, i) = 1}
<1>1. p \in 1..e /\ h[p].kind = "begin" /\ \A i \in p..e : Excess(h, h[p], p, i) > 0
  BY DEF LastOpen, OpenAt
<1>2. p \in Ones
  BY <1>1, Begun
<1>3. PICK last \in Ones : \A i \in Ones : i <= last
  <2>1. Ones \subseteq 0..e /\ Ones # {}
    BY <1>1, <1>2
  <2> HIDE DEF Ones
  <2> QED
    BY <2>1, GreatestNat
<1>4. last \in p..e /\ last \in Nat /\ Excess(h, h[p], p, last) = 1
  BY <1>1
<1>5. SUFFICES ASSUME last < e PROVE FALSE
  <2>1. last = e
    BY <1>1, <1>4, <1>5
  <2> QED
    BY <1>4, <2>1
<1>6. ASSUME NEW i \in (last + 1)..e PROVE Excess(h, h[p], p, i) >= 2
  <2>1. i \in p..e /\ ~(i <= last) /\ i \in Nat /\ p <= i + 1
    BY <1>1, <1>4
  <2>2. i \notin Ones
    BY <1>3, <2>1
  <2>3. Excess(h, h[p], p, i) # 1 /\ Excess(h, h[p], p, i) > 0
    BY <1>1, <2>1, <2>2
  <2>4. Excess(h, h[p], p, i) \in Int
    BY <1>1, <2>1, ExcessNext
  <2> QED
    BY <2>3, <2>4
<1>7. last + 1 \in (last + 1)..e /\ last + 1 \in 1..e
  BY <1>1, <1>4, <1>5
<1>8. Same(h[last + 1], h[p]) /\ h[last + 1].kind = "begin"
  <2>1. Excess(h, h[p], p, last + 1) =
          Excess(h, h[p], p, last)
            + IF ~Same(h[last + 1], h[p]) THEN 0
              ELSE IF h[last + 1].kind = "begin" THEN 1
              ELSE IF h[last + 1].kind = "end" THEN -1 ELSE 0
    BY <1>1, <1>4, ExcessNext
  <2>2. Excess(h, h[p], p, last + 1) >= 2
    BY <1>6, <1>7
  <2> QED
    BY <1>4, <2>1, <2>2
<1>9. ASSUME NEW i \in (last + 1)..e PROVE Excess(h, h[last + 1], last + 1, i) > 0
  <2>1. i \in Nat /\ last <= i /\ p <= last /\ p \in Nat
    BY <1>1, <1>4
  <2>2. Excess(h, h[p], p, i) = Excess(h, h[p], p, last) + Excess(h, h[p], last + 1, i)
    BY <1>4, <2>1, ExcessSplit
  <2>3. Excess(h, h[p], last + 1, i) = Excess(h, h[last + 1], last + 1, i)
    BY <1>8, SameExcess
  <2>4. Excess(h, h[p], last + 1, i) \in Int
    BY <1>4, <2>1, ExcessNext
  <2> QED
    BY <1>4, <1>6, <2>2, <2>3, <2>4
<1>10. OpenAt(h, e, last + 1)
  BY <1>7, <1>8, <1>9 DEF OpenAt
<1>11. last + 1 <= p
  BY <1>7, <1>8, <1>10 DEF LastOpen
<1> QED
  BY <1>1, <1>4, <1>11

\* An open range outside it is further ahead.
LEMMA OuterIsFurtherAhead ==
    ASSUME NEW h, NEW e \in Nat, NEW p, LastOpen(h, e, p),
           NEW q, OpenAt(h, e, q), Same(h[q], h[p]), q # p
    PROVE  Excess(h, h[q], q, e) >= 2
<1>1. p \in 1..e /\ q \in 1..e /\ q <= p
  BY DEF LastOpen, OpenAt
<1>2. p - 1 \in Nat /\ q \in Nat /\ q <= p - 1 /\ p - 1 <= e /\ (p - 1) + 1 = p /\ p - 1 \in q..e
  BY <1>1
<1>3. Excess(h, h[q], q, e) = Excess(h, h[q], q, p - 1) + Excess(h, h[q], (p - 1) + 1, e)
  BY <1>2, ExcessSplit
<1>4. Excess(h, h[q], p, e) = Excess(h, h[p], p, e)
  BY SameExcess
<1>5. Excess(h, h[p], p, e) = 1
  BY LastIsOneAhead
<1>6. Excess(h, h[q], q, p - 1) > 0
  BY <1>2 DEF OpenAt
<1>7. Excess(h, h[q], q, p - 1) \in Int
  BY <1>2, ExcessNext
<1> QED
  BY <1>2, <1>3, <1>4, <1>5, <1>6, <1>7

\* An end closes the last open range of its name and lane, and no other.
LEMMA EndCloses ==
    ASSUME NEW h, NEW e \in Nat, h[e + 1].kind = "end", NEW p \in 1..(e + 1)
    PROVE  /\ Closes(h, p, e + 1) <=> LastOpen(h, e, p) /\ Same(h[p], h[e + 1])
           /\ OpenAt(h, e + 1, p) <=>
                OpenAt(h, e, p) /\ ~(LastOpen(h, e, p) /\ Same(h[p], h[e + 1]))
<1>1. CASE p = e + 1
  BY <1>1 DEF Closes, LastOpen, OpenAt
<1>2. CASE p # e + 1
  <2>1. p \in 1..e /\ p \in Nat /\ p <= e + 1 /\ (e + 1) - 1 = e
    BY <1>2
  <2>2. /\ Excess(h, h[p], p, e) \in Int
        /\ Excess(h, h[p], p, e + 1) =
             Excess(h, h[p], p, e) + IF ~Same(h[e + 1], h[p]) THEN 0 ELSE -1
    BY <2>1, ExcessNext
  <2>3. Same(h[e + 1], h[p]) <=> Same(h[p], h[e + 1])
    BY DEF Same
  <2>4. OpenAt(h, e + 1, p) <=> OpenAt(h, e, p) /\ Excess(h, h[p], p, e + 1) > 0
    BY <2>1, OpenNext
  <2>5. OpenAt(h, e, p) => Excess(h, h[p], p, e) > 0
    BY <2>1 DEF OpenAt
  <2>6. \A i \in p..(e + 1) : /\ Count(h, h[p], "begin", p, i) \in Nat
                              /\ Count(h, h[p], "end", p, i) \in Nat
    <3>1. \A i \in p..(e + 1) : i \in Nat /\ p <= i + 1
      BY <2>1
    <3> QED
      BY <2>1, <3>1, CountNext
  <2>7. Closes(h, p, e + 1) <=>
          /\ Same(h[p], h[e + 1]) /\ h[p].kind = "begin"
          /\ Excess(h, h[p], p, e + 1) = 0
          /\ \A i \in p..e : Excess(h, h[p], p, i) > 0
    <3>1. e + 1 \in p..(e + 1) /\ \A i \in p..e : i \in p..(e + 1)
      BY <2>1
    <3>2. Excess(h, h[p], p, e + 1) = 0
            <=> Count(h, h[p], "begin", p, e + 1) = Count(h, h[p], "end", p, e + 1)
      BY <2>6, <3>1 DEF Excess
    <3>3. ASSUME NEW i \in p..e
          PROVE  Excess(h, h[p], p, i) > 0
                   <=> Count(h, h[p], "begin", p, i) > Count(h, h[p], "end", p, i)
      BY <2>6, <3>1 DEF Excess
    <3> QED
      BY <2>1, <3>2, <3>3 DEF Closes
  <2>8. Closes(h, p, e + 1) <=>
          Same(h[p], h[e + 1]) /\ OpenAt(h, e, p) /\ Excess(h, h[p], p, e) = 1
    BY <2>1, <2>2, <2>3, <2>7 DEF OpenAt
  <2>9. LastOpen(h, e, p) => Excess(h, h[p], p, e) = 1
    BY LastIsOneAhead
  <2>10. ASSUME OpenAt(h, e, p), Excess(h, h[p], p, e) = 1 PROVE LastOpen(h, e, p)
    <3> DEFINE Like == {q \in 1..e : OpenAt(h, e, q) /\ Same(h[q], h[p])}
    <3>1. p \in Like
      BY <2>1, <2>10 DEF Same
    <3>2. PICK m \in Like : \A q \in Like : q <= m
      <4>1. Like \subseteq 0..e /\ Like # {}
        BY <3>1
      <4> HIDE DEF Like
      <4> QED
        BY <4>1, GreatestNat
    <3>3. Same(h[p], h[m]) /\ Same(h[m], h[p]) /\ \A r : Same(r, h[m]) => Same(r, h[p])
      BY <3>2 DEF Same
    <3>4. LastOpen(h, e, m)
      BY <3>2, <3>3 DEF LastOpen
    <3>5. p = m
      BY <2>2, <2>10, <3>3, <3>4, OuterIsFurtherAhead
    <3> QED
      BY <3>4, <3>5
  <2>11. LastOpen(h, e, p) => OpenAt(h, e, p)
    BY DEF LastOpen
  <2> QED
    BY <2>2, <2>3, <2>4, <2>5, <2>8, <2>9, <2>10, <2>11
<1> QED
  BY <1>1, <1>2

\* Any other record leaves open what was, and a begin opens its own.
LEMMA OtherKeepsOpen ==
    ASSUME NEW h, NEW e \in Nat, NEW p \in 1..e,
           h[e + 1].kind # "end" \/ ~Same(h[e + 1], h[p])
    PROVE  OpenAt(h, e + 1, p) <=> OpenAt(h, e, p)
<1>1. p \in Nat /\ p <= e + 1
  OBVIOUS
<1>2. /\ Excess(h, h[p], p, e) \in Int
      /\ Excess(h, h[p], p, e + 1) =
           Excess(h, h[p], p, e)
             + IF ~Same(h[e + 1], h[p]) THEN 0
               ELSE IF h[e + 1].kind = "begin" THEN 1
               ELSE IF h[e + 1].kind = "end" THEN -1 ELSE 0
  BY <1>1, ExcessNext
<1>3. OpenAt(h, e, p) => Excess(h, h[p], p, e) > 0
  <2>1. e \in p..e
    OBVIOUS
  <2> QED
    BY <2>1 DEF OpenAt
<1>4. OpenAt(h, e + 1, p) <=> OpenAt(h, e, p) /\ Excess(h, h[p], p, e + 1) > 0
  BY OpenNext
<1> QED
  BY <1>2, <1>3, <1>4

-----------------------------------------------------------------------------
(* The decoder's scan of one lane.                                         *)

\* One row of the scan, and before the first.
StartOfScan == [open |-> <<>>, out |-> {}]
AfterRow(rows, lane, e, before) ==
    IF rows[e].lane # lane THEN before
    ELSE LET step == DecodeRow(before.open, rows[e])
         IN [open |-> step.open, out |-> before.out \cup step.out]

\* The recursive definition of the scan has a value, the one it says.
LEMMA ScanUnfolds ==
    ASSUME NEW rows, Len(rows) \in Nat, NEW lane
    PROVE  \E scan :
              /\ scan[0] = StartOfScan
              /\ \A e \in 1..Len(rows) : scan[e] = AfterRow(rows, lane, e, scan[e - 1])
              /\ DecodeLane(rows, lane) = scan[Len(rows)].out
<1> DEFINE Upto(k, f) ==
             f = [e \in 0..k |-> IF e = 0 THEN StartOfScan ELSE AfterRow(rows, lane, e, f[e - 1])]
           Reached == {k \in Nat : \E f : Upto(k, f)}
           scan == CHOOSE f : Upto(Len(rows), f)
<1>1. 0 \in Reached
  <2> DEFINE f == [e \in 0..0 |-> StartOfScan]
  <2>1. Upto(0, f)
    OBVIOUS
  <2> QED
    BY <2>1
<1>2. ASSUME NEW k \in Nat, k \in Reached PROVE k + 1 \in Reached
  <2>1. PICK f : Upto(k, f)
    BY <1>2
  <2> DEFINE g == [e \in 0..(k + 1) |->
                     IF e = 0 THEN StartOfScan ELSE AfterRow(rows, lane, e, f[e - 1])]
  <2> HIDE DEF AfterRow, StartOfScan
  <2>2. ASSUME NEW e \in 0..(k + 1), e # 0 PROVE g[e - 1] = f[e - 1]
    <3>1. e - 1 \in 0..k /\ e - 1 \in 0..(k + 1)
      BY <2>2
    <3>2. f[e - 1] = IF e - 1 = 0 THEN StartOfScan
                     ELSE AfterRow(rows, lane, e - 1, f[(e - 1) - 1])
      BY <2>1, <3>1
    <3> QED
      BY <3>1, <3>2
  <2>3. Upto(k + 1, g)
    <3>1. \A e \in 0..(k + 1) :
            (IF e = 0 THEN StartOfScan ELSE AfterRow(rows, lane, e, f[e - 1]))
              = (IF e = 0 THEN StartOfScan ELSE AfterRow(rows, lane, e, g[e - 1]))
      BY <2>2
    <3> QED
      BY <3>1
  <2>4. \E h : Upto(k + 1, h)
    BY <2>3
  <2> QED
    BY <2>4
<1>3. Upto(Len(rows), scan)
  <2>1. Nat \subseteq Reached
    <3> HIDE DEF Reached
    <3> QED
      BY <1>1, <1>2, InductionOnNat
  <2>2. \E f : Upto(Len(rows), f)
    BY <2>1
  <2> HIDE DEF Upto
  <2> QED
    BY <2>2
<1>4. DecodeLane(rows, lane) = scan[Len(rows)].out
  BY DEF DecodeLane, StartOfScan, AfterRow
<1>5. /\ scan[0] = StartOfScan
      /\ \A e \in 1..Len(rows) : scan[e] = AfterRow(rows, lane, e, scan[e - 1])
  <2> HIDE DEF scan, AfterRow, StartOfScan
  <2> QED
    BY <1>3
<1> HIDE DEF scan
<1> QED
  BY <1>4, <1>5

\* A sequence without its i-th element.
LEMMA RemoveAtFacts ==
    ASSUME NEW S, NEW s \in Seq(S), NEW i \in 1..Len(s)
    PROVE  /\ RemoveAt(s, i) \in Seq(S)
           /\ Len(RemoveAt(s, i)) = Len(s) - 1
           /\ \A q \in 1..(Len(s) - 1) : RemoveAt(s, i)[q] = IF q < i THEN s[q] ELSE s[q + 1]
<1> DEFINE front == SubSeq(s, 1, i - 1)  back == SubSeq(s, i + 1, Len(s))
<1>1. Len(s) \in Nat
  OBVIOUS
<1>2. /\ front \in Seq(S) /\ Len(front) = i - 1
      /\ \A q \in 1..(i - 1) : front[q] = s[q]
  <2>1. \A q \in 1..(i - 1) : s[q] \in S
    OBVIOUS
  <2> QED
    BY <1>1, <2>1, SubSeqProperties
<1>3. /\ back \in Seq(S) /\ Len(back) = Len(s) - i
      /\ \A q \in 1..(Len(s) - i) : back[q] = s[q + i]
  <2>1. \A q \in (i + 1)..Len(s) : s[q] \in S
    OBVIOUS
  <2>2. /\ back \in Seq(S)
        /\ Len(back) = IF i + 1 <= Len(s) THEN Len(s) - (i + 1) + 1 ELSE 0
        /\ \A q \in 1..(Len(s) - (i + 1) + 1) : back[q] = s[(i + 1) + q - 1]
    BY <1>1, <2>1, SubSeqProperties
  <2> HIDE DEF back
  <2>3. Len(s) - (i + 1) + 1 = Len(s) - i /\ i \in Nat /\ i <= Len(s)
    BY <1>1
  <2>4. Len(back) = Len(s) - i
    <3>1. \A n \in Nat : \A m \in Nat :
            m <= n => n - m = IF m + 1 <= n THEN n - (m + 1) + 1 ELSE 0
      OBVIOUS
    <3> QED
      BY <1>1, <2>2, <2>3, <3>1
  <2>5. ASSUME NEW q \in 1..(Len(s) - i) PROVE back[q] = s[q + i]
    <3>1. (i + 1) + q - 1 = q + i
      BY <1>1
    <3>2. back[q] = s[(i + 1) + q - 1]
      BY <2>2, <2>3
    <3> QED
      BY <3>1, <3>2
  <2> QED
    BY <2>2, <2>4, <2>5
<1>4. RemoveAt(s, i) = front \o back
  BY DEF RemoveAt
<1> HIDE DEF front, back
<1>5. /\ front \o back \in Seq(S) /\ Len(front \o back) = Len(front) + Len(back)
      /\ \A q \in 1..(Len(front) + Len(back)) :
            (front \o back)[q] = IF q <= Len(front) THEN front[q] ELSE back[q - Len(front)]
  BY <1>2, <1>3, ConcatProperties
<1>6. Len(front) + Len(back) = Len(s) - 1
  BY <1>1, <1>2, <1>3
<1>7. ASSUME NEW q \in 1..(Len(s) - 1)
      PROVE  (front \o back)[q] = IF q < i THEN s[q] ELSE s[q + 1]
  <2>1. CASE q < i
    BY <1>1, <1>2, <1>5, <1>6, <2>1
  <2>2. CASE ~(q < i)
    <3>1. q - (i - 1) \in 1..(Len(s) - i) /\ ~(q <= i - 1) /\ (q - (i - 1)) + i = q + 1
      BY <1>1, <2>2
    <3>2. back[q - (i - 1)] = s[q + 1]
      BY <1>3, <3>1
    <3> QED
      BY <1>2, <1>5, <1>6, <2>2, <3>1, <3>2
  <2> QED
    BY <2>1, <2>2
<1> QED
  BY <1>4, <1>5, <1>6, <1>7

\* match_idx is the last open row of the event, or 0 when there is none.
LEMMA MatchFacts ==
    ASSUME NEW open \in Seq(Row), NEW event
    PROVE  \/ /\ match_idx(open, event) = 0
              /\ \A i \in 1..Len(open) : open[i].event # event
           \/ /\ match_idx(open, event) \in 1..Len(open)
              /\ match_idx(open, event) # 0
              /\ open[match_idx(open, event)].event = event
              /\ \A i \in 1..Len(open) : open[i].event = event => i <= match_idx(open, event)
<1> DEFINE O == Opened(open, event)
<1>1. O \subseteq 0..Len(open) /\ Len(open) \in Nat
  BY DEF Opened
<1>2. \A i : i \in O <=> i \in 1..Len(open) /\ open[i].event = event
  BY DEF Opened
<1>3. CASE O = {}
  BY <1>2, <1>3 DEF match_idx
<1>4. CASE O # {}
  <2>1. match_idx(open, event) = CHOOSE i \in O : \A j \in O : j <= i
    BY <1>4 DEF match_idx
  <2> HIDE DEF O
  <2>2. \E i \in O : \A j \in O : j <= i
    BY <1>1, <1>4, GreatestNat
  <2>3. match_idx(open, event) \in O /\ \A j \in O : j <= match_idx(open, event)
    BY <2>1, <2>2
  <2> QED
    BY <1>2, <2>3
<1> QED
  BY <1>3, <1>4

-----------------------------------------------------------------------------
(* What the scan has found after e rows.  h is the history the rows stand  *)
(* for, record by record.                                                  *)

\* The rows tell apart what the records tell apart.
Mirrors(h, rows) ==
    \A i \in 1..Len(rows) :
        /\ h[i].kind = rows[i].kind
        /\ \A j \in 1..Len(rows) :
              Same(h[i], h[j]) <=> rows[i].event = rows[j].event /\ rows[i].lane = rows[j].lane
Increasing(rows) == \A i, j \in 1..Len(rows) : i < j => rows[i].ts < rows[j].ts

\* The ranges and instants of a lane within the first e rows.
Span(rows, b, c) ==
    [event |-> rows[b].event, lane |-> rows[b].lane, from |-> rows[b].ts, to |-> rows[c].ts]
Ranged(rows, h, lane, b, c) ==
    rows[b].lane = lane /\ (Closes(h, b, c) \/ (b = c /\ h[b].kind = "instant"))
Spanned(rows, h, lane, e) ==
    {Span(rows, s[1], s[2]) : s \in {s \in (1..e) \X (1..e) : Ranged(rows, h, lane, s[1], s[2])}}

\* The open ranges of a lane.
OpenOn(rows, h, lane, e, p) == rows[p].lane = lane /\ OpenAt(h, e, p)

\* The scan after e rows: what it has put out, and its open rows, one by one in order.
Scanned(rows, h, lane, e, st) ==
    /\ st.open \in Seq(Row)
    /\ \A q, r \in 1..Len(st.open) : q < r => st.open[q].ts < st.open[r].ts
    /\ \A q \in 1..Len(st.open) : \E p \in 1..e :
          OpenOn(rows, h, lane, e, p) /\ st.open[q] = rows[p]
    /\ \A p \in 1..e : OpenOn(rows, h, lane, e, p) =>
          \E q \in 1..Len(st.open) : st.open[q] = rows[p]
    /\ st.out = Spanned(rows, h, lane, e)

\* A range ends at its end.
LEMMA SpannedNext ==
    ASSUME NEW rows, NEW h, NEW lane, NEW e \in Nat, NEW s
    PROVE  s \in Spanned(rows, h, lane, e + 1) <=>
              \/ s \in Spanned(rows, h, lane, e)
              \/ \E b \in 1..(e + 1) : Ranged(rows, h, lane, b, e + 1) /\ s = Span(rows, b, e + 1)
<1>1. \A k \in Nat : s \in Spanned(rows, h, lane, k) <=>
         \E b, c \in 1..k : Ranged(rows, h, lane, b, c) /\ s = Span(rows, b, c)
  <2> SUFFICES ASSUME NEW k \in Nat
               PROVE  s \in Spanned(rows, h, lane, k) <=>
                        \E b, c \in 1..k : Ranged(rows, h, lane, b, c) /\ s = Span(rows, b, c)
    OBVIOUS
  <2>1. ASSUME s \in Spanned(rows, h, lane, k)
        PROVE  \E b, c \in 1..k : Ranged(rows, h, lane, b, c) /\ s = Span(rows, b, c)
    <3>1. PICK t \in (1..k) \X (1..k) :
             Ranged(rows, h, lane, t[1], t[2]) /\ s = Span(rows, t[1], t[2])
      BY <2>1 DEF Spanned
    <3> QED
      BY <3>1
  <2>2. ASSUME NEW b \in 1..k, NEW c \in 1..k, Ranged(rows, h, lane, b, c), s = Span(rows, b, c)
        PROVE  s \in Spanned(rows, h, lane, k)
    <3>1. <<b, c>> \in (1..k) \X (1..k) /\ <<b, c>>[1] = b /\ <<b, c>>[2] = c
      OBVIOUS
    <3> QED
      BY <2>2, <3>1 DEF Spanned
  <2> QED
    BY <2>1, <2>2
<1>2. ASSUME NEW b \in 1..(e + 1), NEW c \in 1..(e + 1), Ranged(rows, h, lane, b, c)
      PROVE  c = e + 1 \/ (b \in 1..e /\ c \in 1..e)
  BY <1>2 DEF Ranged, Closes
<1>3. e + 1 \in 1..(e + 1) /\ \A b \in 1..e : b \in 1..(e + 1)
  OBVIOUS
<1>4. e + 1 \in Nat
  OBVIOUS
<1> QED
  BY <1>1, <1>2, <1>3, <1>4

\* A record that neither opens nor closes anything on the lane.
LEMMA QuietRow ==
    ASSUME NEW rows, NEW h, NEW lane, NEW e \in Nat, NEW st, Scanned(rows, h, lane, e, st),
           ~OpenOn(rows, h, lane, e + 1, e + 1),
           \A p \in 1..e : OpenOn(rows, h, lane, e + 1, p) <=> OpenOn(rows, h, lane, e, p),
           NEW new, new.open = st.open, new.out = Spanned(rows, h, lane, e + 1)
    PROVE  Scanned(rows, h, lane, e + 1, new)
<1>1. 1..(e + 1) = (1..e) \cup {e + 1}
  OBVIOUS
<1> QED
  BY <1>1 DEF Scanned

\* A row of another lane.
LEMMA OtherLane ==
    ASSUME NEW rows \in Seq(Row), NEW h, Mirrors(h, rows), NEW lane,
           NEW e \in Nat, e + 1 <= Len(rows), NEW st, Scanned(rows, h, lane, e, st),
           rows[e + 1].lane # lane
    PROVE  Scanned(rows, h, lane, e + 1, st)
<1>1. e + 1 \in 1..Len(rows) /\ \A p \in 1..e : p \in 1..Len(rows)
  OBVIOUS
<1>2. ~OpenOn(rows, h, lane, e + 1, e + 1)
  BY DEF OpenOn
<1>3. ASSUME NEW p \in 1..e, rows[p].lane = lane PROVE ~Same(h[e + 1], h[p])
  BY <1>1, <1>3 DEF Mirrors
<1>4. \A p \in 1..e : OpenOn(rows, h, lane, e + 1, p) <=> OpenOn(rows, h, lane, e, p)
  BY <1>3, OtherKeepsOpen DEF OpenOn
<1>5. ASSUME NEW b \in 1..(e + 1) PROVE ~Ranged(rows, h, lane, b, e + 1)
  <2>1. CASE b = e + 1
    BY <2>1 DEF Ranged
  <2>2. CASE b \in 1..e
    <3>1. rows[b].lane = lane => ~Same(h[b], h[e + 1])
      BY <1>1, <2>2 DEF Mirrors
    <3> QED
      BY <2>2, <3>1 DEF Ranged, Closes
  <2> QED
    BY <2>1, <2>2
<1>6. Spanned(rows, h, lane, e + 1) = Spanned(rows, h, lane, e)
  <2>1. \A s : s \in Spanned(rows, h, lane, e + 1) <=> s \in Spanned(rows, h, lane, e)
    BY <1>5, SpannedNext
  <2> QED
    BY <2>1
<1>7. st.out = Spanned(rows, h, lane, e + 1)
  BY <1>6 DEF Scanned
<1> QED
  BY <1>2, <1>4, <1>7, QuietRow

\* An instant stands for itself.
LEMMA InstantRow ==
    ASSUME NEW rows \in Seq(Row), NEW h, Mirrors(h, rows), NEW lane,
           NEW e \in Nat, e + 1 <= Len(rows), NEW st, Scanned(rows, h, lane, e, st),
           rows[e + 1].lane = lane, rows[e + 1].kind = "instant"
    PROVE  Scanned(rows, h, lane, e + 1, AfterRow(rows, lane, e + 1, st))
<1> DEFINE new == AfterRow(rows, lane, e + 1, st)
<1>1. e + 1 \in 1..Len(rows)
  OBVIOUS
<1>2. h[e + 1].kind = "instant"
  BY <1>1 DEF Mirrors
<1>3. new.open = st.open /\ new.out = st.out \cup {Span(rows, e + 1, e + 1)}
  BY DEF AfterRow, DecodeRow, Span
<1>4. ~OpenOn(rows, h, lane, e + 1, e + 1)
  BY <1>2 DEF OpenOn, OpenAt
<1>5. \A p \in 1..e : OpenOn(rows, h, lane, e + 1, p) <=> OpenOn(rows, h, lane, e, p)
  BY <1>2, OtherKeepsOpen DEF OpenOn
<1>6. \A b \in 1..(e + 1) : Ranged(rows, h, lane, b, e + 1) <=> b = e + 1
  BY <1>2 DEF Ranged, Closes
<1>7. Spanned(rows, h, lane, e + 1) = Spanned(rows, h, lane, e) \cup {Span(rows, e + 1, e + 1)}
  <2>1. e + 1 \in 1..(e + 1)
    OBVIOUS
  <2>2. \A s : s \in Spanned(rows, h, lane, e + 1) <=>
                 s \in Spanned(rows, h, lane, e) \/ s = Span(rows, e + 1, e + 1)
    BY <1>6, <2>1, SpannedNext
  <2> QED
    BY <2>2
<1>8. new.out = Spanned(rows, h, lane, e + 1)
  BY <1>3, <1>7 DEF Scanned
<1> HIDE DEF new
<1>9. Scanned(rows, h, lane, e + 1, new)
  BY <1>3, <1>4, <1>5, <1>8, QuietRow
<1> QED
  BY <1>9 DEF new

\* A begin opens a range after all others.
LEMMA BeginRow ==
    ASSUME NEW rows \in Seq(Row), Increasing(rows), NEW h, Mirrors(h, rows), NEW lane,
           NEW e \in Nat, e + 1 <= Len(rows), NEW st, Scanned(rows, h, lane, e, st),
           rows[e + 1].lane = lane, rows[e + 1].kind = "begin"
    PROVE  Scanned(rows, h, lane, e + 1, AfterRow(rows, lane, e + 1, st))
<1> DEFINE new == AfterRow(rows, lane, e + 1, st)
<1>1. e + 1 \in 1..Len(rows) /\ rows[e + 1] \in Row
  OBVIOUS
<1>2. h[e + 1].kind = "begin"
  BY <1>1 DEF Mirrors
<1>3. new.open = Append(st.open, rows[e + 1]) /\ new.out = st.out
  BY DEF AfterRow, DecodeRow
<1>4. OpenOn(rows, h, lane, e + 1, e + 1)
  BY <1>2, OpenNext DEF OpenOn
<1>5. \A p \in 1..e : OpenOn(rows, h, lane, e + 1, p) <=> OpenOn(rows, h, lane, e, p)
  BY <1>2, OtherKeepsOpen DEF OpenOn
<1>6. \A b \in 1..(e + 1) : ~Ranged(rows, h, lane, b, e + 1)
  BY <1>2 DEF Ranged, Closes
<1>7. Spanned(rows, h, lane, e + 1) = Spanned(rows, h, lane, e)
  <2>1. \A s : s \in Spanned(rows, h, lane, e + 1) <=> s \in Spanned(rows, h, lane, e)
    BY <1>6, SpannedNext
  <2> QED
    BY <2>1
<1> HIDE DEF new
<1> DEFINE n == Len(st.open)
<1>8. /\ st.open \in Seq(Row) /\ n \in Nat
      /\ new.open \in Seq(Row) /\ Len(new.open) = n + 1
      /\ new.open[n + 1] = rows[e + 1]
      /\ \A q \in 1..n : new.open[q] = st.open[q]
  BY <1>1, <1>3 DEF Scanned
<1>9. ASSUME NEW q \in 1..n
      PROVE  \E p \in 1..e : OpenOn(rows, h, lane, e, p) /\ st.open[q] = rows[p]
  BY DEF Scanned
<1>10. \A q \in 1..n : st.open[q].ts < rows[e + 1].ts
  <2> SUFFICES ASSUME NEW q \in 1..n PROVE st.open[q].ts < rows[e + 1].ts
    OBVIOUS
  <2>1. PICK p \in 1..e : st.open[q] = rows[p]
    BY <1>9
  <2>2. p \in 1..Len(rows) /\ p < e + 1
    BY <1>1
  <2> QED
    BY <1>1, <2>1, <2>2 DEF Increasing
<1>11. ASSUME NEW q \in 1..(n + 1), NEW r \in 1..(n + 1), q < r
       PROVE  new.open[q].ts < new.open[r].ts
  <2>1. CASE r = n + 1
    <3>1. q \in 1..n
      BY <1>8, <1>11, <2>1
    <3> QED
      BY <1>8, <1>10, <2>1, <3>1
  <2>2. CASE r # n + 1
    <3>1. q \in 1..n /\ r \in 1..n
      BY <1>8, <1>11, <2>2
    <3>2. st.open[q].ts < st.open[r].ts
      BY <1>11, <3>1 DEF Scanned
    <3> QED
      BY <1>8, <3>1, <3>2
  <2> QED
    BY <2>1, <2>2
<1>12. ASSUME NEW q \in 1..(n + 1)
       PROVE  \E p \in 1..(e + 1) : OpenOn(rows, h, lane, e + 1, p) /\ new.open[q] = rows[p]
  <2>1. CASE q = n + 1
    BY <1>4, <1>8, <2>1
  <2>2. CASE q \in 1..n
    <3>1. PICK p \in 1..e : OpenOn(rows, h, lane, e, p) /\ st.open[q] = rows[p]
      BY <1>9, <2>2
    <3>2. p \in 1..(e + 1)
      OBVIOUS
    <3> QED
      BY <1>5, <1>8, <2>2, <3>1, <3>2
  <2> QED
    BY <1>8, <2>1, <2>2
<1>13. ASSUME NEW p \in 1..(e + 1), OpenOn(rows, h, lane, e + 1, p)
       PROVE  \E q \in 1..(n + 1) : new.open[q] = rows[p]
  <2>1. CASE p = e + 1
    <3>1. n + 1 \in 1..(n + 1)
      BY <1>8
    <3> QED
      BY <1>8, <2>1, <3>1
  <2>2. CASE p \in 1..e
    <3>1. PICK q \in 1..n : st.open[q] = rows[p]
      BY <1>5, <1>13, <2>2 DEF Scanned
    <3>2. q \in 1..(n + 1)
      BY <1>8
    <3> QED
      BY <1>8, <3>1, <3>2
  <2> QED
    BY <2>1, <2>2
<1>14. new.out = Spanned(rows, h, lane, e + 1)
  BY <1>3, <1>7 DEF Scanned
<1> QED
  BY <1>8, <1>11, <1>12, <1>13, <1>14 DEF Scanned, new

\* Types of the rows of a slot.
LEMMA RowFacts ==
    ASSUME NEW rows \in Seq(Row)
    PROVE  /\ Len(rows) \in Nat
           /\ \A q \in 1..Len(rows) :
                /\ rows[q] \in Row /\ rows[q].ts \in Nat /\ rows[q].kind \in Kinds
                /\ rows[q].event \in Nat /\ rows[q].lane \in Nat
<1>1. Len(rows) \in Nat
  OBVIOUS
<1>2. \A q \in 1..Len(rows) : rows[q] \in Row
  OBVIOUS
<1>3. \A row \in Row : /\ row.ts \in Nat /\ row.kind \in Kinds
                       /\ row.event \in Nat /\ row.lane \in Nat
  BY DEF Row
<1> QED
  BY <1>1, <1>2, <1>3

\* An end of an event that is not open is dropped.
LEMMA UnmatchedEnd ==
    ASSUME NEW rows \in Seq(Row), NEW h, Mirrors(h, rows), NEW lane,
           NEW e \in Nat, e + 1 <= Len(rows), NEW st, Scanned(rows, h, lane, e, st),
           rows[e + 1].lane = lane, rows[e + 1].kind = "end",
           match_idx(st.open, rows[e + 1].event) = 0,
           \A q \in 1..Len(st.open) : st.open[q].event # rows[e + 1].event
    PROVE  Scanned(rows, h, lane, e + 1, AfterRow(rows, lane, e + 1, st))
<1> DEFINE new == AfterRow(rows, lane, e + 1, st)
<1>1. e + 1 \in 1..Len(rows) /\ \A p \in 1..e : p \in 1..Len(rows) /\ p \in 1..(e + 1)
  OBVIOUS
<1>2. h[e + 1].kind = "end"
  BY <1>1 DEF Mirrors
<1>3. new.open = st.open /\ new.out = st.out
  BY DEF AfterRow, DecodeRow
<1>4. ~OpenOn(rows, h, lane, e + 1, e + 1)
  BY <1>2 DEF OpenOn, OpenAt
<1>5. ASSUME NEW p \in 1..e, OpenAt(h, e, p) PROVE ~Same(h[p], h[e + 1])
  <2> SUFFICES ASSUME Same(h[p], h[e + 1]) PROVE FALSE
    OBVIOUS
  <2>1. rows[p].event = rows[e + 1].event /\ rows[p].lane = lane
    BY <1>1 DEF Mirrors
  <2>2. PICK q \in 1..Len(st.open) : st.open[q] = rows[p]
    BY <1>5, <2>1 DEF Scanned, OpenOn
  <2> QED
    BY <2>1, <2>2
<1>6. \A p \in 1..e : OpenOn(rows, h, lane, e + 1, p) <=> OpenOn(rows, h, lane, e, p)
  BY <1>1, <1>2, <1>5, EndCloses DEF OpenOn
<1>7. ASSUME NEW b \in 1..(e + 1) PROVE ~Ranged(rows, h, lane, b, e + 1)
  <2>1. ~Closes(h, b, e + 1)
    <3>1. LastOpen(h, e, b) => b \in 1..e /\ OpenAt(h, e, b)
      BY DEF LastOpen, OpenAt
    <3> QED
      BY <1>2, <1>5, <3>1, EndCloses
  <2> QED
    BY <1>2, <2>1 DEF Ranged
<1>8. Spanned(rows, h, lane, e + 1) = Spanned(rows, h, lane, e)
  <2>1. \A s : s \in Spanned(rows, h, lane, e + 1) <=> s \in Spanned(rows, h, lane, e)
    BY <1>7, SpannedNext
  <2> QED
    BY <2>1
<1>9. new.out = Spanned(rows, h, lane, e + 1)
  BY <1>3, <1>8 DEF Scanned
<1> HIDE DEF new
<1>10. Scanned(rows, h, lane, e + 1, new)
  BY <1>3, <1>4, <1>6, <1>9, QuietRow
<1> QED
  BY <1>10 DEF new

\* An end of an open event closes the last range of it.
LEMMA MatchedEnd ==
    ASSUME NEW rows \in Seq(Row), Increasing(rows), NEW h, Mirrors(h, rows), NEW lane,
           NEW e \in Nat, e + 1 <= Len(rows), NEW st, Scanned(rows, h, lane, e, st),
           rows[e + 1].lane = lane, rows[e + 1].kind = "end",
           NEW i \in 1..Len(st.open), i # 0, i = match_idx(st.open, rows[e + 1].event),
           st.open[i].event = rows[e + 1].event,
           \A q \in 1..Len(st.open) : st.open[q].event = rows[e + 1].event => q <= i
    PROVE  Scanned(rows, h, lane, e + 1, AfterRow(rows, lane, e + 1, st))
<1> DEFINE new == AfterRow(rows, lane, e + 1, st)
           n == Len(st.open)
<1>1. e + 1 \in 1..Len(rows) /\ \A p \in 1..e : p \in 1..Len(rows) /\ p \in 1..(e + 1)
  OBVIOUS
<1>2. h[e + 1].kind = "end"
  BY <1>1 DEF Mirrors
<1>3. /\ st.open \in Seq(Row) /\ n \in Nat
      /\ \A q \in 1..n : st.open[q] \in Row /\ st.open[q].ts \in Nat
      /\ \A q \in 1..Len(rows) : rows[q] \in Row /\ rows[q].ts \in Nat
  <2>1. st.open \in Seq(Row)
    BY DEF Scanned
  <2> QED
    BY <2>1, RowFacts
<1>4. PICK p \in 1..e : OpenOn(rows, h, lane, e, p) /\ st.open[i] = rows[p]
  BY DEF Scanned
<1>5. Same(h[p], h[e + 1])
  BY <1>1, <1>4 DEF Mirrors, OpenOn
<1>6. ASSUME NEW q \in 1..e, OpenAt(h, e, q), Same(h[q], h[p]) PROVE q <= p
  <2>1. rows[q].event = rows[e + 1].event /\ rows[q].lane = lane
    BY <1>1, <1>4, <1>6 DEF Mirrors, OpenOn
  <2>2. PICK r \in 1..n : st.open[r] = rows[q]
    BY <1>6, <2>1 DEF Scanned, OpenOn
  <2>3. r = i \/ st.open[r].ts < st.open[i].ts
    <3>1. r <= i
      BY <2>1, <2>2
    <3>2. r = i \/ r < i
      BY <1>3, <3>1
    <3> QED
      BY <3>2 DEF Scanned
  <2>4. ~(rows[p].ts < rows[q].ts)
    BY <1>1, <1>3, <1>4, <2>2, <2>3
  <2> QED
    BY <1>1, <2>4 DEF Increasing
<1>7. LastOpen(h, e, p)
  BY <1>4, <1>6 DEF LastOpen, OpenOn
<1>8. ASSUME NEW b, LastOpen(h, e, b), Same(h[b], h[e + 1]) PROVE b = p
  <2>1. Same(h[b], h[p]) /\ Same(h[p], h[b])
    BY <1>5, <1>8 DEF Same
  <2>2. b \in 1..e /\ OpenAt(h, e, b) /\ OpenAt(h, e, p)
    BY <1>7, <1>8 DEF LastOpen, OpenAt
  <2>3. b <= p /\ p <= b
    BY <1>7, <1>8, <2>1, <2>2 DEF LastOpen
  <2> QED
    BY <2>2, <2>3
<1>9. ASSUME NEW q \in 1..e
      PROVE  OpenOn(rows, h, lane, e + 1, q) <=> OpenOn(rows, h, lane, e, q) /\ q # p
  BY <1>1, <1>2, <1>5, <1>7, <1>8, EndCloses DEF OpenOn
<1>10. ~OpenOn(rows, h, lane, e + 1, e + 1)
  BY <1>2 DEF OpenOn, OpenAt
<1>11. ASSUME NEW b \in 1..(e + 1) PROVE Ranged(rows, h, lane, b, e + 1) <=> b = p
  <2>1. Closes(h, b, e + 1) <=> b = p
    BY <1>2, <1>5, <1>7, <1>8, EndCloses
  <2> QED
    BY <1>2, <1>4, <2>1 DEF Ranged, OpenOn
<1>12. Spanned(rows, h, lane, e + 1) = Spanned(rows, h, lane, e) \cup {Span(rows, p, e + 1)}
  <2>1. \A s : s \in Spanned(rows, h, lane, e + 1) <=>
                 s \in Spanned(rows, h, lane, e) \/ s = Span(rows, p, e + 1)
    BY <1>1, <1>11, SpannedNext
  <2> QED
    BY <2>1
<1>13. /\ new.open = RemoveAt(st.open, i)
       /\ new.out = st.out \cup {Span(rows, p, e + 1)}
  BY <1>4 DEF AfterRow, DecodeRow, Span, OpenOn
<1>14. new.out = Spanned(rows, h, lane, e + 1)
  BY <1>12, <1>13 DEF Scanned
<1> HIDE DEF new
<1>15. /\ new.open \in Seq(Row) /\ Len(new.open) = n - 1
       /\ \A q \in 1..(n - 1) : new.open[q] = IF q < i THEN st.open[q] ELSE st.open[q + 1]
  <2> DEFINE s == st.open
  <2>1. s \in Seq(Row) /\ i \in 1..Len(s)
    BY <1>3
  <2> HIDE DEF s
  <2>2. /\ RemoveAt(s, i) \in Seq(Row) /\ Len(RemoveAt(s, i)) = Len(s) - 1
        /\ \A q \in 1..(Len(s) - 1) : RemoveAt(s, i)[q] = IF q < i THEN s[q] ELSE s[q + 1]
    BY <2>1, RemoveAtFacts
  <2> QED
    BY <1>13, <2>2 DEF s
<1> DEFINE old(q) == IF q < i THEN q ELSE q + 1
<1>16. /\ \A q \in 1..(n - 1) : old(q) \in 1..n /\ old(q) # i /\ new.open[q] = st.open[old(q)]
       /\ \A q, r \in 1..(n - 1) : q < r => old(q) < old(r)
  BY <1>3, <1>15
<1>17. \A r \in 1..n : r # i => \E q \in 1..(n - 1) : old(q) = r
  <2> SUFFICES ASSUME NEW r \in 1..n, r # i PROVE \E q \in 1..(n - 1) : old(q) = r
    OBVIOUS
  <2>1. CASE r < i
    <3>1. r \in 1..(n - 1) /\ old(r) = r
      BY <1>3, <2>1
    <3> QED
      BY <3>1
  <2>2. CASE ~(r < i)
    <3>1. r - 1 \in 1..(n - 1) /\ old(r - 1) = r
      BY <1>3, <2>2
    <3> QED
      BY <3>1
  <2> QED
    BY <2>1, <2>2
<1> HIDE DEF old
<1>18. ASSUME NEW r \in 1..n, NEW s \in 1..n, st.open[r].ts = st.open[s].ts PROVE r = s
  <2>1. r = s \/ r < s \/ s < r
    BY <1>3
  <2>2. /\ r < s => st.open[r].ts < st.open[s].ts
        /\ s < r => st.open[s].ts < st.open[r].ts
    BY DEF Scanned
  <2> QED
    BY <1>3, <1>18, <2>1, <2>2
<1>19. ASSUME NEW q \in 1..(n - 1), NEW r \in 1..(n - 1), q < r
       PROVE  new.open[q].ts < new.open[r].ts
  BY <1>16, <1>19 DEF Scanned
<1>20. ASSUME NEW q \in 1..(n - 1)
       PROVE  \E r \in 1..(e + 1) : OpenOn(rows, h, lane, e + 1, r) /\ new.open[q] = rows[r]
  <2>1. PICK r \in 1..e : OpenOn(rows, h, lane, e, r) /\ st.open[old(q)] = rows[r]
    BY <1>16 DEF Scanned
  <2>2. r # p
    <3>1. old(q) \in 1..n /\ old(q) # i /\ i \in 1..n
      BY <1>16
    <3>2. st.open[old(q)].ts # st.open[i].ts
      BY <1>18, <3>1
    <3> QED
      BY <1>4, <2>1, <3>2
  <2> QED
    BY <1>1, <1>9, <1>16, <2>1, <2>2
<1>21. ASSUME NEW r \in 1..(e + 1), OpenOn(rows, h, lane, e + 1, r)
       PROVE  \E q \in 1..(n - 1) : new.open[q] = rows[r]
  <2>1. r \in 1..e
    BY <1>10, <1>21
  <2>2. OpenOn(rows, h, lane, e, r) /\ r # p
    BY <1>9, <1>21, <2>1
  <2>3. PICK s \in 1..n : st.open[s] = rows[r]
    BY <2>1, <2>2 DEF Scanned
  <2>4. rows[r].ts # rows[p].ts
    BY <1>1, <1>3, <2>1, <2>2 DEF Increasing
  <2>5. s # i
    BY <1>4, <2>3, <2>4
  <2>6. PICK q \in 1..(n - 1) : old(q) = s
    BY <1>17, <2>5
  <2> QED
    BY <1>16, <2>3, <2>6
<1>22. Scanned(rows, h, lane, e + 1, new)
  BY <1>14, <1>15, <1>19, <1>20, <1>21 DEF Scanned
<1> QED
  BY <1>22 DEF new

\* The scan finds the ranges and instants of its lane.
LEMMA LaneDecoded ==
    ASSUME NEW rows \in Seq(Row), Increasing(rows), NEW h, Mirrors(h, rows), NEW lane
    PROVE  DecodeLane(rows, lane) = Spanned(rows, h, lane, Len(rows))
<1>1. Len(rows) \in Nat
  OBVIOUS
<1>2. PICK scan :
         /\ scan[0] = StartOfScan
         /\ \A e \in 1..Len(rows) : scan[e] = AfterRow(rows, lane, e, scan[e - 1])
         /\ DecodeLane(rows, lane) = scan[Len(rows)].out
  BY <1>1, ScanUnfolds
<1> DEFINE N == {e \in Nat : e <= Len(rows) => Scanned(rows, h, lane, e, scan[e])}
<1>3. 0 \in N
  <2>1. scan[0].open = <<>> /\ scan[0].out = {}
    BY <1>2 DEF StartOfScan
  <2>2. Spanned(rows, h, lane, 0) = {}
    BY DEF Spanned
  <2>3. Scanned(rows, h, lane, 0, scan[0])
    BY <2>1, <2>2 DEF Scanned
  <2> QED
    BY <2>3
<1>4. ASSUME NEW e \in Nat, e \in N PROVE e + 1 \in N
  <2> SUFFICES ASSUME e + 1 <= Len(rows) PROVE Scanned(rows, h, lane, e + 1, scan[e + 1])
    OBVIOUS
  <2> DEFINE st == scan[e]
  <2>1. Scanned(rows, h, lane, e, st) /\ st.open \in Seq(Row)
    BY <1>1, <1>4 DEF Scanned
  <2>2. e + 1 \in 1..Len(rows) /\ (e + 1) - 1 = e
    BY <1>1
  <2>3. scan[e + 1] = AfterRow(rows, lane, e + 1, st)
    BY <1>2, <2>2
  <2>4. rows[e + 1].kind \in Kinds
    BY <2>2, RowFacts
  <2> HIDE DEF st
  <2> SUFFICES Scanned(rows, h, lane, e + 1, AfterRow(rows, lane, e + 1, st))
    BY <2>3
  <2>5. CASE rows[e + 1].lane # lane
    <3>1. AfterRow(rows, lane, e + 1, st) = st
      BY <2>5 DEF AfterRow
    <3> QED
      BY <2>1, <2>5, <3>1, OtherLane
  <2>6. CASE rows[e + 1].lane = lane /\ rows[e + 1].kind = "instant"
    BY <2>1, <2>6, InstantRow
  <2>7. CASE rows[e + 1].lane = lane /\ rows[e + 1].kind = "begin"
    BY <2>1, <2>7, BeginRow
  <2>8. CASE rows[e + 1].lane = lane /\ rows[e + 1].kind = "end"
    BY <2>1, <2>8, MatchFacts, UnmatchedEnd, MatchedEnd
  <2> QED
    BY <2>4, <2>5, <2>6, <2>7, <2>8 DEF Kinds
<1>5. Len(rows) \in N
  <2> HIDE DEF N
  <2>1. Nat \subseteq N
    BY <1>3, <1>4, InductionOnNat
  <2> QED
    BY <1>1, <2>1
<1> QED
  BY <1>1, <1>2, <1>5 DEF Scanned

-----------------------------------------------------------------------------
\* Every scope a marker can stand in is led by a thread of its block, and the tables a kernel
\* takes along hold each name once.
LeadsHere ==
    Building =>
        /\ \A i \in DOMAIN build_state.stack : build_state.stack[i].lead \in build.block
        /\ \A m \in build.body : m.says.scope.lead \in build.block
HostMaps(k) ==
    /\ Distinct(k.events) /\ Distinct(k.lanes) /\ GroupsDistinct(k.groups)
    /\ \A m \in k.body : m.says.scope.lead \in k.block
LeadInv ==
    /\ build_state.stack[1] = Default
    /\ LeadsHere
    /\ kernel # NoKernel => HostMaps(kernel)

\* A marker stands in the live scope.
LEMMA MarkerLeads ==
    ASSUME TypeOK, LeadInv, Building, kernel' = kernel,
           NEW state \in TraceState, state.stack = build_state.stack,
           NEW kind \in Kinds, NEW event \in Nat, NEW lane \in Nat, Len(state.lanes) <= MAX_LANES,
           NEW name \in Names, NEW laneName \in Lanes,
           _emit(state, kind, event, lane, name, laneName)
    PROVE  LeadInv'
<1>1. /\ build_state' = [state EXCEPT !.groups = _intern_group(@, Active)]
      /\ \E m \in Marker :
            /\ build'.body = build.body \cup {m}
            /\ m.says = [name |-> name, lane |-> laneName, scope |-> Active]
  BY EmitFacts
<1>2. PICK m \in Marker : /\ build'.body = build.body \cup {m}
                          /\ m.says = [name |-> name, lane |-> laneName, scope |-> Active]
  BY <1>1
<1>3. build \in Build /\ build.depth \in Nat /\ build'.block = build.block
  BY DEF TypeOK, Building, Build, _emit
<1>4. build_state'.stack = build_state.stack
  BY <1>1 DEF TraceState
<1>5. build_state.stack \in Seq(Scope) /\ Len(build_state.stack) = 1 + build.depth
  BY StateType DEF TraceState, TypeOK
<1>6. Active.lead \in build.block
  BY <1>3, <1>5 DEF Active, LeadInv, LeadsHere
<1>7. m.says.scope.lead \in build.block
  BY <1>2, <1>6
<1> QED
  BY <1>2, <1>3, <1>4, <1>7 DEF LeadInv, LeadsHere

\* An exception leaves the default scope.
LEMMA AbandonLeads ==
    ASSUME TypeOK, LeadInv, Building, kernel' = kernel,
           NEW state \in TraceState, state.stack = build_state.stack, Abandon(state)
    PROVE  LeadInv'
<1>1. build_state' = Popped(state, build.depth) /\ ~Building'
  BY AbandonFacts
<1>2. build.depth \in Nat /\ build_state.stack \in Seq(Scope)
      /\ Len(build_state.stack) = 1 + build.depth
  BY StateType DEF TypeOK, Building, Build, TraceState
<1>3. build_state'.stack = SubSeq(build_state.stack, 1, 1)
  BY <1>1, <1>2 DEF Popped, TraceState
<1>4. SubSeq(build_state.stack, 1, 1)[1] = build_state.stack[1]
  BY <1>2
<1> QED
  BY <1>1, <1>3, <1>4 DEF LeadInv, LeadsHere

\* A marker that is emitted.
LEMMA EmitLeads == TypeOK /\ LeadInv /\ Emit => LeadInv'
<1> SUFFICES ASSUME TypeOK, LeadInv, Building,
                    NEW name \in Names, NEW lane \in Lanes, NEW kind \in {"begin", "instant"},
                    kernel' = kernel,
                    LET named == [build_state EXCEPT !.events = intern(@, name)]
                    IN \/ NoLaneLeft(named.lanes, lane) /\ Abandon(named)
                       \/ /\ ~NoLaneLeft(named.lanes, lane)
                          /\ _emit([named EXCEPT !.lanes = intern(@, lane)], kind,
                                   Id(build_state.events, name), Id(build_state.lanes, lane),
                                   name, lane)
                          /\ UNCHANGED leftover
             PROVE  LeadInv'
  BY DEF Emit
<1> DEFINE named == [build_state EXCEPT !.events = intern(@, name)]
           both == [named EXCEPT !.lanes = intern(@, lane)]
<1>1. /\ build_state \in TraceState
      /\ build_state.events \in Seq(Names) /\ build_state.lanes \in Seq(Lanes)
  BY StateType DEF TraceState
<1>2. /\ intern(build_state.events, name) \in Seq(Names)
      /\ intern(build_state.lanes, lane) \in Seq(Lanes)
  BY <1>1, InternFacts
<1>3. /\ named \in TraceState /\ named.stack = build_state.stack
      /\ named.lanes = build_state.lanes
  BY <1>1, <1>2 DEF TraceState
<1>4. /\ both \in TraceState /\ both.stack = build_state.stack
      /\ both.lanes = intern(build_state.lanes, lane)
  BY <1>1, <1>2 DEF TraceState
<1> HIDE DEF named, both
<1>5. CASE Abandon(named)
  BY <1>3, <1>5, AbandonLeads
<1>6. CASE /\ ~NoLaneLeft(named.lanes, lane)
           /\ _emit(both, kind, Id(build_state.events, name), Id(build_state.lanes, lane),
                    name, lane)
  <2>1. Id(build_state.events, name) \in Nat /\ Id(build_state.lanes, lane) \in Nat
    BY InternedHere
  <2>2. Len(both.lanes) <= MAX_LANES /\ kind \in Kinds
    BY <1>3, <1>4, <1>6, InternWithinCap DEF Kinds
  <2> QED
    BY <1>4, <1>6, <2>1, <2>2, MarkerLeads
<1> QED
  BY <1>5, <1>6 DEF named, both

\* The end of a range stands where its begin stood.
LEMMA CloseLeads == TypeOK /\ LeadInv /\ close_range => LeadInv'
<1> SUFFICES ASSUME TypeOK, LeadInv, Building, kernel' = kernel,
                    NEW tok \in build.body,
                    _emit(build_state, "end", tok.event, tok.lane, tok.says.name, tok.says.lane)
             PROVE  LeadInv'
  BY DEF close_range
<1>1. build_state \in TraceState
  BY StateType
<1>2. tok \in Marker
  BY DEF TypeOK, Building, Build
<1>3. /\ tok.event \in Nat /\ tok.lane \in Nat
      /\ tok.says.name \in Names /\ tok.says.lane \in Lanes
  BY <1>2 DEF Marker, Meaning
<1>4. "end" \in Kinds /\ Len(build_state.lanes) <= MAX_LANES
  BY DEF Kinds, TypeOK
<1> QED
  BY <1>1, <1>3, <1>4, MarkerLeads

\* A scope that is entered is led by a thread of the block; the others stay.
LEMMA ScopeLeads ==
    TypeOK /\ LeadInv /\ (push_group \/ pop_group \/ declare_flow) => LeadInv'
<1> SUFFICES ASSUME TypeOK, LeadInv, push_group \/ pop_group \/ declare_flow
             PROVE  LeadInv'
  OBVIOUS
<1>1. build_state' = _BUILD_STATE'
  BY PushType, PopType, FlowType, WrittenType
<1>2. build \in Build /\ Building /\ build_state \in TraceState /\ kernel' = kernel
  BY StateType DEF TypeOK, Building, push_group, pop_group, declare_flow
<1>3. build.depth \in Nat
  BY <1>2 DEF Build
<1>4. build'.block = build.block /\ build'.body = build.body
  BY <1>2 DEF Build, push_group, pop_group, declare_flow
<1> DEFINE stack == build_state.stack
<1>5. stack \in Seq(Scope) /\ Len(stack) = 1 + build.depth
  BY <1>2 DEF TraceState, TypeOK
<1>6. /\ stack[1] = Default
      /\ \A i \in DOMAIN stack : stack[i].lead \in build.block
      /\ \A m \in build.body : m.says.scope.lead \in build.block
  BY <1>2 DEF LeadInv, LeadsHere
<1>7. /\ build_state'.stack[1] = Default
      /\ \A i \in DOMAIN build_state'.stack : build_state'.stack[i].lead \in build.block
  <2>1. CASE push_group
    <3>1. PICK name \in Groups, lead \in build.block :
             _BUILD_STATE' = [build_state EXCEPT
                                !.stack = Append(@, [name |-> name, lead |-> lead])]
      BY <2>1 DEF push_group
    <3> DEFINE top == [name |-> name, lead |-> lead]
    <3>2. build_state'.stack = Append(stack, top)
      BY <1>1, <1>2, <3>1 DEF TraceState
    <3>3. top.lead \in build.block
      OBVIOUS
    <3> HIDE DEF stack, top
    <3>4. /\ DOMAIN Append(stack, top) = DOMAIN stack \cup {Len(stack) + 1}
          /\ Append(stack, top)[Len(stack) + 1] = top
          /\ \A i \in DOMAIN stack : Append(stack, top)[i] = stack[i]
          /\ 1 \in DOMAIN stack
      BY <1>3, <1>5
    <3> QED
      BY <1>6, <3>2, <3>3, <3>4
  <2>2. CASE pop_group
    <3>1. build_state'.stack = SubSeq(stack, 1, Len(stack) - 1)
      BY <1>1, <1>2, <2>2 DEF pop_group, Popped, TraceState
    <3>2. build.depth > 0
      BY <2>2 DEF pop_group
    <3> HIDE DEF stack
    <3>3. /\ DOMAIN SubSeq(stack, 1, Len(stack) - 1) = 1..(Len(stack) - 1)
          /\ 1 \in 1..(Len(stack) - 1)
          /\ \A i \in 1..(Len(stack) - 1) :
                i \in DOMAIN stack /\ SubSeq(stack, 1, Len(stack) - 1)[i] = stack[i]
      BY <1>3, <1>5, <3>2
    <3> QED
      BY <1>6, <3>1, <3>3
  <2>3. CASE declare_flow
    <3>1. build_state'.stack = stack
      BY <1>1, <1>2, <2>3 DEF declare_flow, TraceState
    <3> QED
      BY <1>6, <3>1
  <2> QED
    BY <2>1, <2>2, <2>3
<1>8. \A m \in build'.body : m.says.scope.lead \in build'.block
  BY <1>4, <1>6
<1>9. kernel' # NoKernel => HostMaps(kernel')
  BY <1>2 DEF LeadInv
<1> QED
  BY <1>4, <1>7, <1>8, <1>9 DEF LeadInv, LeadsHere

\* The kernel takes the markers of its build.
LEMMA LowerLeads == TypeOK /\ TablesInv /\ LeadInv /\ lower => LeadInv'
<1> SUFFICES ASSUME TypeOK, TablesInv, LeadInv, Building, _BUILD_STATE' = NoState,
                    build' = NoBuild, kernel' \in {Lowered(build_state), NoKernel}
             PROVE  LeadInv'
  BY DEF lower
<1>1. build_state' = NewState /\ ~Building'
  BY DEF build_state, Building
<1>2. NewState.stack[1] = Default
  BY DEF NewState
<1>3. HostMaps(Lowered(build_state))
  BY DEF HostMaps, Lowered, TablesInv, LeadInv, LeadsHere
<1> QED
  BY <1>1, <1>2, <1>3 DEF LeadInv, LeadsHere

\* A build begins in the default scope, which thread 0 of every block leads.
LEMMA EdgeLeads == TypeOK /\ LeadInv /\ (BeginBuild \/ BuildRaises \/ strip) => LeadInv'
<1> SUFFICES ASSUME TypeOK, LeadInv, BeginBuild \/ BuildRaises \/ strip
             PROVE  LeadInv'
  OBVIOUS
<1>1. CASE BuildRaises
  BY <1>1, StateType, AbandonLeads DEF BuildRaises
<1>2. CASE strip
  BY <1>2 DEF strip, LeadInv, LeadsHere, Building, build_state
<1>3. CASE BeginBuild
  <2>1. PICK block \in Blocks :
           build' = [block |-> block, depth |-> 0, body |-> {}, flows |-> <<>>]
    BY <1>3 DEF BeginBuild
  <2>2. build_state' = build_state /\ kernel' = NoKernel /\ ~Building
    BY <1>3 DEF BeginBuild, build_state
  <2>3. build_state.stack \in Seq(Scope) /\ Len(build_state.stack) = 1
    BY <2>2, StateType DEF TypeOK, TraceState
  <2>4. \A i \in DOMAIN build_state.stack : build_state.stack[i].lead \in block
    BY <2>3, TraceAssumption DEF LeadInv, Default
  <2> QED
    BY <2>1, <2>2, <2>4 DEF LeadInv, LeadsHere
<1> QED
  BY <1>1, <1>2, <1>3

\* One step of the build half.
LEMMA LeadStep == TypeOK /\ TablesInv /\ LeadInv /\ [Next]_vars => LeadInv'
<1> SUFFICES ASSUME TypeOK, TablesInv, LeadInv, [Next]_vars PROVE LeadInv'
  OBVIOUS
<1>1. CASE UNCHANGED vars
  BY <1>1 DEF vars, LeadInv, LeadsHere, build_state, Building
<1> QED
  BY <1>1, EdgeLeads, ScopeLeads, EmitLeads, CloseLeads, LowerLeads DEF Next

\* Every lead is a thread of the block its marker is in.
THEOREM LeadsHold == Spec => []LeadInv
<1>1. Init => LeadInv
  <2>1. Init => build_state = NewState /\ ~Building /\ kernel = NoKernel
    BY DEF Init, build_state, Building
  <2>2. NewState.stack[1] = Default
    BY DEF NewState
  <2> QED
    BY <2>1, <2>2 DEF LeadInv, LeadsHere
<1> QED
  BY <1>1, LeadStep, TypeCorrect, TablesHold, PTL DEF Spec

-----------------------------------------------------------------------------
(* The run.                                                                *)

Record == [says : Meaning, kind : Kinds, ts : Nat]

\* Types, and that a kernel stays the last one lowered while it runs.
RunType ==
    /\ run \in Run \cup {NoRun}
    /\ log \in [Labels -> Seq(Record)]
    /\ run = NoRun => log = NoLog
    /\ run # NoRun =>
         /\ kernel # NoKernel /\ run.kernel = kernel
         /\ Len(run.slots) = num_groups(kernel)

\* What the lead of a slot's group executed.
Told(k, spoken, gid) == IF gid \in DOMAIN k.groups THEN spoken[k.groups[gid].name] ELSE <<>>

\* A row stands for a record.
Tells(k, row, rec) ==
    /\ row \in Row /\ row.kind = rec.kind /\ row.ts = rec.ts
    /\ row.event \in DOMAIN k.events /\ k.events[row.event] = rec.says.name
    /\ row.lane \in DOMAIN k.lanes /\ k.lanes[row.lane] = rec.says.lane

\* A kernel the property speaks of.
Clean(k) == ~k.leftover /\ OneLead(k)

\* The clock orders the records.
Ordered ==
    \A group \in Labels : \A j \in 1..Len(log[group]) :
        /\ log[group][j].ts < run.clock
        /\ \A i \in 1..Len(log[group]) : i < j => log[group][i].ts < log[group][j].ts

\* Only a lead past the prologue has executed anything.
Spoken ==
    \A group \in Labels : log[group] # <<>> =>
        \E gid \in DOMAIN run.kernel.groups :
            /\ run.kernel.groups[gid].name = group
            /\ run.kernel.groups[gid].lead \in run.ready

\* The slot of such a lead holds the first max_events of its records.
Stands(k, slot, told) ==
    /\ slot.count = Lesser(Len(told), max_events)
    /\ \A j \in 1..slot.count : Tells(k, slot.rows[j], told[j])
Standing ==
    \A gid \in 1..Len(run.slots) : lead_fn(run.kernel, gid) \in run.ready =>
        Stands(run.kernel, run.slots[gid], Told(run.kernel, log, gid))

SlotInv == run # NoRun /\ Clean(run.kernel) => Ordered /\ Spoken /\ Standing

\* A launched kernel.
LEMMA RunFacts ==
    ASSUME TypeOK, TablesInv, RunType, run # NoRun
    PROVE  /\ run \in Run /\ run.kernel = kernel /\ kernel \in Kernel
           /\ run.clock \in Nat /\ run.slots \in Seq(Slot) /\ run.ready \subseteq Threads
           /\ kernel.groups \in Seq(Scope) /\ kernel.body \subseteq Marker
           /\ Len(run.slots) \in Nat /\ Len(kernel.groups) \in Nat
           /\ Len(run.slots) = num_groups(kernel)
           /\ DOMAIN kernel.groups = 1..Len(kernel.groups)
           /\ DOMAIN kernel.groups \subseteq 1..Len(run.slots)
           /\ DOMAIN run.slots = 1..Len(run.slots)
           /\ \A m \in kernel.body : Resolves(m, kernel.events, kernel.lanes, kernel.groups)
<1>1. run \in Run /\ run.kernel = kernel /\ kernel \in Kernel /\ Len(run.slots) = num_groups(kernel)
  BY DEF RunType, TypeOK
<1>2. run.clock \in Nat /\ run.slots \in Seq(Slot) /\ run.ready \subseteq Threads
  BY <1>1 DEF Run
<1>3. kernel.groups \in Seq(Scope) /\ kernel.body \subseteq Marker
  BY <1>1 DEF Kernel
<1>4. \A m \in kernel.body : Resolves(m, kernel.events, kernel.lanes, kernel.groups)
  BY DEF RunType, TablesInv, NamesResolve
<1>5. /\ Len(run.slots) \in Nat /\ DOMAIN run.slots = 1..Len(run.slots)
      /\ Len(kernel.groups) \in Nat /\ DOMAIN kernel.groups = 1..Len(kernel.groups)
  BY <1>2, <1>3
<1>6. DOMAIN kernel.groups \subseteq 1..Len(run.slots)
  <2>1. CASE kernel.groups = <<>>
    BY <2>1
  <2>2. CASE kernel.groups # <<>>
    BY <1>1, <1>5, <2>2 DEF num_groups
  <2> QED
    BY <2>1, <2>2
<1> QED
  BY <1>1, <1>2, <1>3, <1>4, <1>5, <1>6

\* A marker of a clean kernel goes to the slot of the group it names, whose lead it names.
LEMMA MarkerGoes ==
    ASSUME NEW k, OneLead(k), Own(k), NEW m \in k.body,
           Resolves(m, k.events, k.lanes, k.groups)
    PROVE  k.groups[m.gid] = m.says.scope /\ m.gid \in DOMAIN k.groups
<1>1. m.gid \in DOMAIN k.groups /\ k.groups[m.gid].name = m.says.scope.name
  BY DEF Resolves
<1>2. k.groups[m.gid] \in Interned(k.groups)
  BY <1>1 DEF Interned
<1>3. PICK n \in k.body : n.says.scope = k.groups[m.gid]
  BY <1>2 DEF Own
<1>4. m.says.scope = n.says.scope
  BY <1>1, <1>3 DEF OneLead
<1> QED
  BY <1>1, <1>3, <1>4

\* Storing keeps a slot a slot.
LEMMA StoredType ==
    ASSUME NEW slot \in Slot, NEW row \in Row
    PROVE  Stored(slot, row) \in Slot
<1>1. max_events \in Nat /\ max_events # 0
  BY TimelineAssumption
<1>2. slot.count \in Nat /\ slot.rows \in [1..max_events -> Row \cup {Garbage}]
  BY DEF Slot
<1>3. Lesser(slot.count + 1, max_events) \in Nat
  BY <1>1, <1>2 DEF Lesser
<1>4. [slot.rows EXCEPT ![Lesser(slot.count, max_events - 1) + 1] = row]
         \in [1..max_events -> Row \cup {Garbage}]
  BY <1>2
<1> QED
  BY <1>3, <1>4 DEF Stored, Slot

\* What the slot of the lead holds after a record: one more, while there is room.
LEMMA StoredFacts ==
    ASSUME NEW slot \in Slot, NEW row \in Row, NEW n \in Nat, slot.count = Lesser(n, max_events)
    PROVE  /\ Stored(slot, row).count = Lesser(n + 1, max_events)
           /\ \A j \in 1..slot.count : Stored(slot, row).rows[j] = slot.rows[j]
           /\ n < max_events => /\ slot.count = n /\ Stored(slot, row).count = n + 1
                                /\ Stored(slot, row).rows[n + 1] = row
           /\ n >= max_events => Stored(slot, row) = slot
<1>1. max_events \in Nat /\ max_events # 0
  BY TimelineAssumption
<1>2. slot.count \in Nat /\ slot.rows \in [1..max_events -> Row \cup {Garbage}]
  BY DEF Slot
<1>3. CASE n < max_events
  <2>1. slot.count = n /\ Lesser(n + 1, max_events) = n + 1 /\ Lesser(n, max_events - 1) + 1 = n + 1
    BY <1>1, <1>3 DEF Lesser
  <2>2. Stored(slot, row) = [count |-> n + 1, rows |-> [slot.rows EXCEPT ![n + 1] = row]]
    BY <1>3, <2>1 DEF Stored
  <2>3. n + 1 \in 1..max_events /\ \A j \in 1..n : j \in 1..max_events /\ j # n + 1
    BY <1>1, <1>3
  <2> QED
    BY <1>1, <1>2, <1>3, <2>1, <2>2, <2>3
<1>4. CASE ~(n < max_events)
  <2>1. slot.count = max_events /\ Lesser(n + 1, max_events) = max_events
    BY <1>1, <1>4 DEF Lesser
  <2>2. Stored(slot, row) = slot
    BY <1>1, <2>1 DEF Stored
  <2> QED
    BY <1>1, <1>4, <2>1, <2>2
<1> QED
  BY <1>3, <1>4

\* A build, a launch or the end of a run: nothing has been executed.
LEMMA NothingRuns ==
    ASSUME NEW n \in Nat, NEW slot \in Slot
    PROVE  /\ [gid \in 1..n |-> slot] \in Seq(Slot)
           /\ Len([gid \in 1..n |-> slot]) = n
BY IsASeq, LenProperties

\* A launch: memory nobody wrote, and nobody past the prologue.
LEMMA LaunchKeeps == TypeOK /\ TablesInv /\ RunType /\ Launch => RunType' /\ SlotInv'
<1> SUFFICES ASSUME TypeOK, TablesInv, RunType, run = NoRun, kernel # NoKernel,
                    NEW memory \in Uninitialised,
                    run' = [kernel |-> kernel, ready |-> {}, clock |-> 0,
                            slots |-> [gid \in 1..num_groups(kernel) |-> memory]],
                    kernel' = kernel, log' = log
             PROVE  RunType' /\ SlotInv'
  BY DEF Launch, vars
<1>1. kernel \in Kernel /\ num_groups(kernel) \in Nat
  BY DEF TypeOK, Kernel, num_groups
<1>2. memory \in Slot
  BY DEF Uninitialised, Slot
<1>3. /\ run'.slots \in Seq(Slot) /\ Len(run'.slots) = num_groups(kernel)
  BY <1>1, <1>2, NothingRuns
<1>4. run' \in Run
  BY <1>1, <1>3 DEF Run
<1>5. log' = NoLog /\ log' \in [Labels -> Seq(Record)]
  BY DEF RunType
<1>6. RunType'
  BY <1>3, <1>4, <1>5, TimelineAssumption DEF RunType, num_groups
<1>7. \A group \in Labels : log'[group] = <<>> /\ Len(log'[group]) = 0
  BY <1>5 DEF NoLog
<1>8. run'.ready = {}
  OBVIOUS
<1>9. Ordered' /\ Spoken'
  BY <1>7 DEF Ordered, Spoken
<1>10. Standing'
  BY <1>8 DEF Standing
<1> QED
  BY <1>6, <1>9, <1>10 DEF SlotInv

\* The end of a run.
LEMMA FinishKeeps == RunType /\ Finish => RunType' /\ SlotInv'
<1> SUFFICES ASSUME run' = NoRun, log' = NoLog PROVE RunType' /\ SlotInv'
  BY DEF Finish
<1>1. NoLog \in [Labels -> Seq(Record)]
  BY DEF NoLog
<1> QED
  BY <1>1 DEF RunType, SlotInv

\* No build while a kernel runs.
LEMMA BuildKeeps ==
    ASSUME RunType, run = NoRun, run' = run, log' = log
    PROVE  RunType' /\ SlotInv'
BY DEF RunType, SlotInv

\* A thread that passes the prologue has said nothing yet, and its slots are empty.
LEMMA PrologueType ==
    ASSUME TypeOK, TablesInv, RunType, NEW t \in Threads, Prologue(t)
    PROVE  /\ RunType' /\ run' # NoRun /\ kernel' = kernel /\ log' = log
           /\ run'.kernel = kernel /\ run'.ready = run.ready \cup {t} /\ run'.clock = run.clock
           /\ Len(run'.slots) = Len(run.slots)
           /\ \A gid \in 1..Len(run.slots) :
                run'.slots[gid] = IF t = lead_fn(kernel, gid)
                                  THEN [run.slots[gid] EXCEPT !.count = 0] ELSE run.slots[gid]
<1>1. run # NoRun
  BY DEF Prologue
<1>2. /\ run \in Run /\ run.kernel = kernel /\ kernel \in Kernel
      /\ run.clock \in Nat /\ run.slots \in Seq(Slot) /\ run.ready \subseteq Threads
      /\ Len(run.slots) \in Nat /\ DOMAIN run.slots = 1..Len(run.slots)
      /\ Len(run.slots) = num_groups(kernel)
  BY <1>1, RunFacts
<1> DEFINE slot(gid) == IF t = lead_fn(kernel, gid)
                        THEN [run.slots[gid] EXCEPT !.count = 0] ELSE run.slots[gid]
           slots == [gid \in 1..Len(run.slots) |-> slot(gid)]
<1>3. /\ run' = [run EXCEPT !.ready = run.ready \cup {t}, !.slots = slots]
      /\ kernel' = kernel /\ log' = log
  BY <1>2 DEF Prologue, vars
<1>4. \A gid \in 1..Len(run.slots) : slot(gid) \in Slot
  <2> SUFFICES ASSUME NEW gid \in 1..Len(run.slots) PROVE slot(gid) \in Slot
    OBVIOUS
  <2>1. run.slots[gid] \in Slot
    BY <1>2
  <2> QED
    BY <2>1 DEF Slot
<1> HIDE DEF slot
<1>5. slots \in Seq(Slot) /\ Len(slots) = Len(run.slots)
  BY <1>2, <1>4, IsASeq, LenProperties
<1>6. /\ run'.ready = run.ready \cup {t} /\ run'.slots = slots /\ run'.clock = run.clock
      /\ run'.kernel = kernel
  <2> HIDE DEF slots
  <2> QED
    BY <1>2, <1>3 DEF Run
<1>7. run' \in Run
  <2> HIDE DEF slots
  <2> QED
    BY <1>2, <1>3, <1>5 DEF Run
<1>8. run' # NoRun
  BY <1>7, TimelineAssumption
<1>9. RunType'
  <2> HIDE DEF slots
  <2>1. kernel # NoKernel /\ log \in [Labels -> Seq(Record)]
    BY <1>1 DEF RunType
  <2> QED
    BY <1>2, <1>3, <1>5, <1>6, <1>7, <1>8, <2>1 DEF RunType, num_groups
<1> QED
  BY <1>3, <1>5, <1>6, <1>8, <1>9 DEF slot

\* The prologue of a lead zeroes the header of its slot and of no other lead's.
LEMMA PrologueKeeps ==
    ASSUME TypeOK, TablesInv, LeadInv, RunType, SlotInv, NEW t \in Threads, Prologue(t)
    PROVE  RunType' /\ SlotInv'
<1>1. /\ run # NoRun /\ t \notin run.ready
  BY DEF Prologue
<1>2. /\ RunType' /\ run' # NoRun /\ kernel' = kernel /\ log' = log
      /\ run'.kernel = kernel /\ run'.ready = run.ready \cup {t} /\ run'.clock = run.clock
      /\ Len(run'.slots) = Len(run.slots)
      /\ \A gid \in 1..Len(run.slots) :
           run'.slots[gid] = IF t = lead_fn(kernel, gid)
                             THEN [run.slots[gid] EXCEPT !.count = 0] ELSE run.slots[gid]
  BY PrologueType
<1>3. /\ run.kernel = kernel /\ run.slots \in Seq(Slot) /\ Len(run.slots) \in Nat
      /\ DOMAIN kernel.groups \subseteq 1..Len(run.slots)
      /\ kernel.groups \in Seq(Scope)
  BY <1>1, RunFacts
<1> SUFFICES ASSUME Clean(kernel) PROVE Ordered' /\ Spoken' /\ Standing'
  BY <1>2 DEF SlotInv
<1>4. Ordered /\ Spoken /\ Standing
  BY <1>1, <1>3 DEF SlotInv
<1>5. Ordered' /\ Spoken'
  BY <1>2, <1>3, <1>4 DEF Ordered, Spoken
<1>6. GroupsDistinct(kernel.groups)
  BY <1>1 DEF LeadInv, HostMaps, RunType
<1>7. ASSUME NEW gid \in 1..Len(run.slots), t = lead_fn(kernel, gid)
      PROVE  Told(kernel, log, gid) = <<>>
  <2> SUFFICES ASSUME gid \in DOMAIN kernel.groups, log[kernel.groups[gid].name] # <<>>
               PROVE  FALSE
    BY DEF Told
  <2>1. kernel.groups[gid] \in Scope
    BY <1>3
  <2>4. kernel.groups[gid].name \in Labels
    BY <2>1 DEF Scope, Labels
  <2>2. PICK other \in DOMAIN kernel.groups :
           /\ kernel.groups[other].name = kernel.groups[gid].name
           /\ kernel.groups[other].lead \in run.ready
    BY <1>3, <1>4, <2>4 DEF Spoken
  <2>3. other = gid
    BY <1>6, <2>2 DEF GroupsDistinct
  <2> QED
    BY <1>1, <1>7, <2>2, <2>3 DEF lead_fn
<1>8. ASSUME NEW gid \in 1..Len(run.slots), lead_fn(kernel, gid) \in run'.ready
      PROVE  Stands(kernel, run'.slots[gid], Told(kernel, log, gid))
  <2>1. CASE t = lead_fn(kernel, gid)
    <3>1. run.slots[gid] \in Slot /\ run'.slots[gid] = [run.slots[gid] EXCEPT !.count = 0]
      BY <1>2, <1>3, <2>1
    <3>2. run'.slots[gid].count = 0
      BY <3>1 DEF Slot
    <3>3. Lesser(Len(<<>>), max_events) = 0
      BY TimelineAssumption DEF Lesser
    <3> QED
      BY <1>7, <2>1, <3>2, <3>3 DEF Stands
  <2>2. CASE t # lead_fn(kernel, gid)
    <3>1. lead_fn(kernel, gid) \in run.ready /\ run'.slots[gid] = run.slots[gid]
      BY <1>2, <1>8, <2>2
    <3> QED
      BY <1>3, <1>4, <3>1 DEF Standing
  <2> QED
    BY <2>1, <2>2
<1>9. Standing'
  BY <1>2, <1>8 DEF Standing
<1> QED
  BY <1>5, <1>9

\* What a marker stores and what its author said.
RowOf(m, now) == [event |-> m.event, kind |-> m.kind, lane |-> m.lane, ts |-> now]
RecordOf(m, now) == [says |-> m.says, kind |-> m.kind, ts |-> now]

\* A marker that runs, whatever the tables hold.
LEMMA MarkType ==
    ASSUME TypeOK, TablesInv, RunType, NEW t \in Threads, Mark(t)
    PROVE  /\ RunType' /\ run # NoRun /\ run' # NoRun /\ kernel' = kernel
           /\ run'.kernel = kernel /\ run'.ready = run.ready /\ run'.clock = run.clock + 1
           /\ Len(run'.slots) = Len(run.slots) /\ t \in run.ready
           /\ \E m \in kernel.body :
                LET writes == t = lead_fn(kernel, m.gid)
                    speaks == t = m.says.scope.lead
                IN /\ writes \/ speaks
                   /\ m.gid \in 1..Len(run.slots)
                   /\ run.slots[m.gid] \in Slot /\ RowOf(m, run.clock) \in Row
                   /\ m.says.scope.name \in Labels
                   /\ \A gid \in 1..Len(run.slots) :
                        run'.slots[gid] = IF gid = m.gid /\ writes
                                          THEN Stored(run.slots[gid], RowOf(m, run.clock))
                                          ELSE run.slots[gid]
                   /\ log' = IF speaks
                             THEN [log EXCEPT ![m.says.scope.name] =
                                     Append(@, RecordOf(m, run.clock))]
                             ELSE log
<1>1. run # NoRun /\ t \in run.ready /\ kernel' = kernel
  BY DEF Mark, vars
<1>2. /\ run \in Run /\ run.kernel = kernel /\ kernel \in Kernel
      /\ run.clock \in Nat /\ run.slots \in Seq(Slot) /\ run.ready \subseteq Threads
      /\ kernel.body \subseteq Marker
      /\ Len(run.slots) \in Nat /\ DOMAIN run.slots = 1..Len(run.slots)
      /\ DOMAIN kernel.groups \subseteq 1..Len(run.slots)
      /\ \A m \in kernel.body : Resolves(m, kernel.events, kernel.lanes, kernel.groups)
  BY <1>1, RunFacts
<1>3. log \in [Labels -> Seq(Record)] /\ kernel # NoKernel /\ Len(run.slots) = num_groups(kernel)
  BY <1>1 DEF RunType
<1>4. PICK m \in kernel.body :
         LET row == [event |-> m.event, kind |-> m.kind, lane |-> m.lane, ts |-> run.clock]
             writes == t = lead_fn(run.kernel, m.gid)
             speaks == t = m.says.scope.lead
         IN /\ t \in Branch[m.says.scope.lead] /\ (writes \/ speaks)
            /\ run' = [run EXCEPT !.clock = @ + 1,
                                  !.slots[m.gid] = IF writes THEN Stored(@, row) ELSE @]
            /\ log' = IF speaks
                      THEN [log EXCEPT ![m.says.scope.name] =
                              Append(@, [says |-> m.says, kind |-> m.kind, ts |-> run.clock])]
                      ELSE log
  BY <1>2 DEF Mark
<1> DEFINE writes == t = lead_fn(kernel, m.gid)
           speaks == t = m.says.scope.lead
           row == RowOf(m, run.clock)
           rec == RecordOf(m, run.clock)
           slot == IF writes THEN Stored(run.slots[m.gid], row) ELSE run.slots[m.gid]
           slots == [run.slots EXCEPT ![m.gid] = slot]
<1>5. m \in Marker /\ m.gid \in 1..Len(run.slots)
  BY <1>2 DEF Resolves
<1>6. m.says \in Meaning /\ m.says.scope \in Scope
  BY <1>5 DEF Marker, Meaning
<1>7. m.says.scope.name \in Labels
  BY <1>6 DEF Scope, Labels
<1>8. row \in Row /\ rec \in Record
  BY <1>2, <1>5, <1>6 DEF RowOf, RecordOf, Row, Record, Marker
<1>9. run.slots[m.gid] \in Slot
  BY <1>2, <1>5
<1>10. slot \in Slot
  BY <1>8, <1>9, StoredType
<1>11. /\ run' = [run EXCEPT !.clock = run.clock + 1, !.slots = slots]
       /\ log' = IF speaks THEN [log EXCEPT ![m.says.scope.name] = Append(@, rec)] ELSE log
       /\ writes \/ speaks
  <2> HIDE DEF Stored
  <2> QED
    BY <1>2, <1>4 DEF RowOf, RecordOf
<1>12. log' \in [Labels -> Seq(Record)]
  <2> HIDE DEF rec
  <2>1. log[m.says.scope.name] \in Seq(Record)
    BY <1>3, <1>7
  <2>2. Append(log[m.says.scope.name], rec) \in Seq(Record)
    BY <1>8, <2>1
  <2> QED
    BY <1>3, <1>11, <2>2
<1> HIDE DEF slot
<1>13. slots \in Seq(Slot) /\ Len(slots) = Len(run.slots)
  BY <1>2, <1>5, <1>10
<1>14. \A gid \in 1..Len(run.slots) : slots[gid] = IF gid = m.gid THEN slot ELSE run.slots[gid]
  BY <1>2
<1> HIDE DEF slots
<1>15. /\ run' \in Run /\ run'.slots = slots /\ run'.clock = run.clock + 1
       /\ run'.ready = run.ready /\ run'.kernel = kernel
  <2>1. run.clock + 1 \in Nat
    BY <1>2
  <2>2. /\ run'.slots = slots /\ run'.clock = run.clock + 1
        /\ run'.ready = run.ready /\ run'.kernel = run.kernel
    BY <1>2, <1>11 DEF Run
  <2>3. run' \in Run
    BY <1>2, <1>11, <1>13, <2>1 DEF Run
  <2> QED
    BY <1>2, <2>2, <2>3
<1>16. run' # NoRun
  BY <1>15, TimelineAssumption
<1>17. RunType'
  BY <1>1, <1>3, <1>12, <1>13, <1>15, <1>16 DEF RunType, num_groups
<1>18. \A gid \in 1..Len(run.slots) :
          run'.slots[gid] = IF gid = m.gid /\ writes
                            THEN Stored(run.slots[gid], row) ELSE run.slots[gid]
  BY <1>14, <1>15 DEF slot
<1> HIDE DEF row, rec
<1> QED
  BY <1>1, <1>5, <1>7, <1>8, <1>9, <1>11, <1>13, <1>15, <1>16, <1>17, <1>18 DEF row, rec

\* In a clean kernel the thread that writes is the one the marker's scope names, and its
\* record lands behind the others.
LEMMA MarkKeeps ==
    ASSUME TypeOK, TablesInv, OwnTables, LeadInv, RunType, SlotInv, NEW t \in Threads, Mark(t)
    PROVE  RunType' /\ SlotInv'
<1>1. /\ RunType' /\ run # NoRun /\ run' # NoRun /\ kernel' = kernel
      /\ run'.kernel = kernel /\ run'.ready = run.ready /\ run'.clock = run.clock + 1
      /\ Len(run'.slots) = Len(run.slots) /\ t \in run.ready
  BY MarkType
<1>2. PICK m \in kernel.body :
         /\ t = lead_fn(kernel, m.gid) \/ t = m.says.scope.lead
         /\ m.gid \in 1..Len(run.slots)
         /\ run.slots[m.gid] \in Slot /\ RowOf(m, run.clock) \in Row
         /\ m.says.scope.name \in Labels
         /\ \A gid \in 1..Len(run.slots) :
              run'.slots[gid] = IF gid = m.gid /\ t = lead_fn(kernel, m.gid)
                                THEN Stored(run.slots[gid], RowOf(m, run.clock))
                                ELSE run.slots[gid]
         /\ log' = IF t = m.says.scope.lead
                   THEN [log EXCEPT ![m.says.scope.name] = Append(@, RecordOf(m, run.clock))]
                   ELSE log
  BY MarkType, Zenon
<1> SUFFICES ASSUME Clean(kernel) PROVE Ordered' /\ Spoken' /\ Standing'
  BY <1>1 DEF SlotInv
<1>3. /\ run.kernel = kernel /\ kernel # NoKernel /\ log \in [Labels -> Seq(Record)]
  BY <1>1 DEF RunType
<1>4. Ordered /\ Spoken /\ Standing
  BY <1>1, <1>3 DEF SlotInv
<1>5. /\ run.clock \in Nat /\ kernel.groups \in Seq(Scope)
      /\ Resolves(m, kernel.events, kernel.lanes, kernel.groups)
  BY <1>1, RunFacts
<1>6. Own(kernel) /\ OneLead(kernel)
  BY <1>3 DEF Clean, OwnTables
<1>7. kernel.groups[m.gid] = m.says.scope /\ m.gid \in DOMAIN kernel.groups
  BY <1>5, <1>6, MarkerGoes
<1> DEFINE name == m.says.scope.name
           row == RowOf(m, run.clock)
           rec == RecordOf(m, run.clock)
<1>8. t = lead_fn(kernel, m.gid) /\ t = m.says.scope.lead
  BY <1>2, <1>7 DEF lead_fn
<1>9. log' = [log EXCEPT ![name] = Append(@, rec)]
  BY <1>2, <1>8
<1>10. \A gid \in 1..Len(run.slots) :
          run'.slots[gid] = IF gid = m.gid THEN Stored(run.slots[gid], row) ELSE run.slots[gid]
  BY <1>2, <1>8
<1>11. rec.ts = run.clock /\ rec.says = m.says /\ rec.kind = m.kind
  BY DEF RecordOf
<1>12. row.ts = run.clock /\ row.event = m.event /\ row.lane = m.lane /\ row.kind = m.kind
  BY DEF RowOf
<1>13. name \in Labels /\ row \in Row
  BY <1>2
<1> HIDE DEF name, row, rec
<1> DEFINE n == Len(log[name])
<1>14. /\ log[name] \in Seq(Record) /\ n \in Nat
       /\ log'[name] = Append(log[name], rec)
       /\ \A group \in Labels : group # name => log'[group] = log[group]
  BY <1>3, <1>9, <1>13
<1>15. /\ Len(log'[name]) = n + 1 /\ log'[name][n + 1] = rec
       /\ \A j \in 1..n : log'[name][j] = log[name][j]
       /\ log'[name] # <<>>
  <2> DEFINE before == log[name]
  <2>1. before \in Seq(Record)
    BY <1>14
  <2> HIDE DEF before
  <2>2. /\ Len(Append(before, rec)) = Len(before) + 1
        /\ Append(before, rec)[Len(before) + 1] = rec
        /\ \A j \in 1..Len(before) : Append(before, rec)[j] = before[j]
        /\ Append(before, rec) # <<>>
    BY <2>1
  <2> QED
    BY <1>14, <2>2 DEF before
<1>16. \A group \in Labels : log[group] \in Seq(Record) /\ Len(log[group]) \in Nat
          /\ \A j \in 1..Len(log[group]) : log[group][j].ts \in Nat
  <2> SUFFICES ASSUME NEW group \in Labels
               PROVE  /\ log[group] \in Seq(Record) /\ Len(log[group]) \in Nat
                      /\ \A j \in 1..Len(log[group]) : log[group][j].ts \in Nat
    OBVIOUS
  <2>1. log[group] \in Seq(Record)
    BY <1>3
  <2>2. \A j \in 1..Len(log[group]) : log[group][j] \in Record
    BY <2>1
  <2> QED
    BY <2>1, <2>2 DEF Record
<1>17. ASSUME NEW group \in Labels, NEW j \in 1..Len(log'[group])
       PROVE  /\ log'[group][j].ts < run.clock + 1
              /\ \A i \in 1..Len(log'[group]) : i < j => log'[group][i].ts < log'[group][j].ts
  <2>1. CASE group # name
    <3>1. log'[group] = log[group]
      BY <1>14, <2>1
    <3>2. log[group][j].ts < run.clock
      BY <1>4, <3>1 DEF Ordered
    <3>3. \A i \in 1..Len(log[group]) : i < j => log[group][i].ts < log[group][j].ts
      BY <1>4, <3>1 DEF Ordered
    <3> QED
      BY <1>5, <1>16, <3>1, <3>2, <3>3
  <2>2. CASE group = name /\ j = n + 1
    <3>1. \A i \in 1..n : log[name][i].ts < run.clock
      BY <1>4, <1>13 DEF Ordered
    <3>2. log'[group][j] = rec
      BY <1>15, <2>2
    <3>3. run.clock < run.clock + 1
      BY <1>5
    <3>4. ASSUME NEW i \in 1..Len(log'[group]), i < j
          PROVE  log'[group][i].ts < run.clock
      <4>1. i \in 1..n
        BY <1>14, <1>15, <2>2, <3>4
      <4>2. log'[group][i] = log[name][i]
        BY <1>15, <2>2, <4>1
      <4> QED
        BY <3>1, <4>1, <4>2
    <3> QED
      BY <1>11, <3>2, <3>3, <3>4
  <2>3. CASE group = name /\ j # n + 1
    <3>1. j \in 1..n /\ j \in Nat
      BY <1>14, <1>15, <2>3
    <3>2. log[name][j].ts < run.clock /\ log[name][j].ts \in Nat
      BY <1>4, <1>13, <1>16, <3>1 DEF Ordered
    <3>3. \A i \in 1..n : i < j => log[name][i].ts < log[name][j].ts
      BY <1>4, <1>13, <3>1 DEF Ordered
    <3>4. \A i \in 1..(n + 1) : i < j => i \in 1..n
      BY <1>14, <3>1
    <3>5. log'[group][j] = log[name][j] /\ Len(log'[group]) = n + 1
      BY <1>15, <2>3, <3>1
    <3>6. log'[group][j].ts < run.clock + 1
      BY <1>5, <3>2, <3>5
    <3>7. ASSUME NEW i \in 1..Len(log'[group]), i < j
          PROVE  log'[group][i].ts < log'[group][j].ts
      <4>1. i \in 1..n
        BY <3>4, <3>5, <3>7
      <4>2. log'[group][i] = log[name][i]
        BY <1>15, <2>3, <4>1
      <4> QED
        BY <3>3, <3>5, <3>7, <4>1, <4>2
    <3> QED
      BY <3>6, <3>7
  <2> QED
    BY <2>1, <2>2, <2>3
<1>18. Ordered'
  BY <1>1, <1>17 DEF Ordered
<1>19. Spoken'
  <2> SUFFICES ASSUME NEW group \in Labels, log'[group] # <<>>
               PROVE  \E gid \in DOMAIN kernel.groups :
                         /\ kernel.groups[gid].name = group
                         /\ kernel.groups[gid].lead \in run.ready
    BY <1>1 DEF Spoken
  <2>1. CASE group = name
    BY <1>1, <1>7, <1>8, <2>1 DEF name
  <2>2. CASE group # name
    BY <1>3, <1>4, <1>14, <2>2 DEF Spoken
  <2> QED
    BY <2>1, <2>2
<1>20. GroupsDistinct(kernel.groups)
  BY <1>3 DEF LeadInv, HostMaps
<1>21. ASSUME NEW gid \in 1..Len(run.slots), lead_fn(kernel, gid) \in run.ready
       PROVE  Stands(kernel, run'.slots[gid], Told(kernel, log', gid))
  <2>1. Stands(kernel, run.slots[gid], Told(kernel, log, gid))
    BY <1>3, <1>4, <1>21 DEF Standing
  <2>2. CASE gid # m.gid
    <3>1. Told(kernel, log', gid) = Told(kernel, log, gid)
      <4>1. CASE gid \in DOMAIN kernel.groups
        <5>1. kernel.groups[gid].name # name
          BY <1>7, <1>20, <2>2, <4>1 DEF GroupsDistinct, name
        <5>2. kernel.groups[gid] \in Scope
          BY <1>5, <4>1
        <5>3. kernel.groups[gid].name \in Labels
          BY <5>2 DEF Scope, Labels
        <5> QED
          BY <1>14, <5>1, <5>3 DEF Told
      <4>2. CASE gid \notin DOMAIN kernel.groups
        BY <4>2 DEF Told
      <4> QED
        BY <4>1, <4>2
    <3> QED
      BY <1>10, <2>1, <2>2, <3>1
  <2>3. CASE gid = m.gid
    <3> DEFINE slot == run.slots[m.gid]
               told == log[name]
    <3>1. Told(kernel, log, gid) = told /\ Told(kernel, log', gid) = log'[name]
      BY <1>7, <2>3 DEF Told, name
    <3>2. slot \in Slot /\ run'.slots[gid] = Stored(slot, row)
      BY <1>2, <1>10, <2>3
    <3>3. /\ slot.count = Lesser(n, max_events)
          /\ \A j \in 1..slot.count : Tells(kernel, slot.rows[j], told[j])
      BY <2>1, <2>3, <3>1 DEF Stands
    <3>4. Tells(kernel, row, rec)
      BY <1>5, <1>11, <1>12, <1>13 DEF Tells, Resolves
    <3> HIDE DEF slot, told, n
    <3>5. max_events \in Nat /\ slot.count \in Nat /\ slot.count <= n
      BY <1>14, <3>3, TimelineAssumption DEF Lesser
    <3> DEFINE new == Stored(slot, row)
    <3>6. /\ new.count = Lesser(n + 1, max_events)
          /\ \A j \in 1..slot.count : new.rows[j] = slot.rows[j]
          /\ n < max_events => /\ slot.count = n /\ new.count = n + 1 /\ new.rows[n + 1] = row
          /\ n >= max_events => new = slot
      BY <1>13, <1>14, <3>2, <3>3, StoredFacts
    <3> HIDE DEF new
    <3>7. \A j \in 1..n : log'[name][j] = told[j]
      BY <1>15 DEF told, n
    <3>8. Len(log'[name]) = n + 1 /\ log'[name][n + 1] = rec
      BY <1>15 DEF n
    <3>9. ASSUME NEW j \in 1..new.count PROVE Tells(kernel, new.rows[j], log'[name][j])
      <4>1. CASE n < max_events /\ j = n + 1
        BY <3>4, <3>6, <3>8, <4>1
      <4>2. CASE n < max_events /\ j # n + 1
        <5>1. j \in 1..slot.count /\ j \in 1..n
          BY <1>14, <3>6, <4>2
        <5> QED
          BY <3>3, <3>6, <3>7, <5>1
      <4>3. CASE ~(n < max_events)
        <5>1. new = slot
          BY <1>14, <3>5, <3>6, <4>3
        <5>2. j \in 1..slot.count /\ j \in 1..n
          BY <1>14, <3>5, <5>1
        <5> QED
          BY <3>3, <3>7, <5>1, <5>2
      <4> QED
        BY <4>1, <4>2, <4>3
    <3>10. Stands(kernel, new, log'[name])
      BY <3>6, <3>8, <3>9 DEF Stands
    <3> QED
      BY <3>1, <3>2, <3>10 DEF new
  <2> QED
    BY <2>2, <2>3
<1>22. Standing'
  BY <1>1, <1>21 DEF Standing
<1> QED
  BY <1>18, <1>19, <1>22

-----------------------------------------------------------------------------
(* What the decoder makes of a slot.                                       *)

\* The rows of a slot and the records they stand for, one by one.
LEMMA SlotRows ==
    ASSUME NEW k, NEW slot \in Slot, NEW told \in Seq(Record), Stands(k, slot, told)
    PROVE  LET rows == Recorded(slot)
               h == SubSeq(told, 1, Lesser(Len(told), max_events))
           IN  /\ rows \in Seq(Row) /\ slot.count \in Nat
               /\ Len(rows) = slot.count /\ Len(h) = slot.count
               /\ DOMAIN rows = 1..slot.count /\ DOMAIN h = 1..slot.count
               /\ slot.count <= Len(told)
               /\ \A j \in 1..slot.count : h[j] = told[j] /\ Tells(k, rows[j], h[j])
<1> DEFINE n == slot.count
           rows == Recorded(slot)
           h == SubSeq(told, 1, Lesser(Len(told), max_events))
<1>1. max_events \in Nat /\ Len(told) \in Nat
  BY TimelineAssumption
<1>2. n = Lesser(Len(told), max_events) /\ \A j \in 1..n : Tells(k, slot.rows[j], told[j])
  BY DEF Stands
<1>3. n \in Nat /\ n <= Len(told) /\ n <= max_events
  BY <1>1, <1>2 DEF Lesser
<1>4. Lesser(n, max_events) = n
  BY <1>1, <1>3 DEF Lesser
<1>5. rows = SubSeq(slot.rows, 1, n) /\ h = SubSeq(told, 1, n)
  BY <1>2, <1>4 DEF Recorded
<1>6. \A j \in 1..n : slot.rows[j] \in Row /\ told[j] \in Record
  BY <1>2, <1>3 DEF Tells
<1> HIDE DEF n, rows, h
<1>7. /\ SubSeq(slot.rows, 1, n) \in Seq(Row) /\ Len(SubSeq(slot.rows, 1, n)) = n
      /\ \A j \in 1..n : SubSeq(slot.rows, 1, n)[j] = slot.rows[j]
  <2> DEFINE s == slot.rows
  <2>1. \A j \in 1..n : s[j] \in Row
    BY <1>6
  <2> HIDE DEF s
  <2>2. /\ SubSeq(s, 1, n) \in Seq(Row)
        /\ Len(SubSeq(s, 1, n)) = IF 1 <= n THEN n - 1 + 1 ELSE 0
        /\ \A j \in 1..(n - 1 + 1) : SubSeq(s, 1, n)[j] = s[1 + j - 1]
    BY <1>3, <2>1, SubSeqProperties
  <2>3. (IF 1 <= n THEN n - 1 + 1 ELSE 0) = n /\ n - 1 + 1 = n
    BY <1>3
  <2>4. \A j \in 1..n : 1 + j - 1 = j
    BY <1>3
  <2> QED
    BY <2>2, <2>3, <2>4 DEF s
<1>8. /\ SubSeq(told, 1, n) \in Seq(Record) /\ Len(SubSeq(told, 1, n)) = n
      /\ \A j \in 1..n : SubSeq(told, 1, n)[j] = told[j]
  BY <1>1, <1>3
<1>9. /\ rows \in Seq(Row) /\ Len(rows) = n /\ Len(h) = n
      /\ DOMAIN rows = 1..n /\ DOMAIN h = 1..n
      /\ \A j \in 1..n : rows[j] = slot.rows[j] /\ h[j] = told[j]
  BY <1>3, <1>5, <1>7, <1>8
<1>10. \A j \in 1..n : h[j] = told[j] /\ Tells(k, rows[j], h[j])
  BY <1>2, <1>9
<1> QED
  BY <1>3, <1>9, <1>10 DEF n, rows, h

\* A slice as the host shows it; the slice of a stretch of history.
Labelled(k, group, s, origin) ==
    [group |-> group, lane |-> k.lanes[s.lane], name |-> k.events[s.event],
     from |-> s.from - origin, to |-> s.to - origin]
Showing(group, h, b, c, origin) ==
    [group |-> group, lane |-> h[b].says.lane, name |-> h[b].says.name,
     from |-> h[b].ts - origin, to |-> h[c].ts - origin]
ShownOf(group, h, origin) ==
    LET Spans == {s \in (DOMAIN h) \X (DOMAIN h) :
                    Closes(h, s[1], s[2]) \/ (s[1] = s[2] /\ h[s[1]].kind = "instant")}
    IN {[group |-> group, lane |-> h[s[1]].says.lane, name |-> h[s[1]].says.name,
         from |-> h[s[1]].ts - origin, to |-> h[s[2]].ts - origin] : s \in Spans}

\* Rows that stand for the records of a group decode to what the group should show.
LEMMA GroupDecoded ==
    ASSUME NEW k, Distinct(k.events), Distinct(k.lanes),
           NEW rows \in Seq(Row), NEW h, NEW n \in Nat, Len(rows) = n, DOMAIN h = 1..n,
           \A j \in 1..n : Tells(k, rows[j], h[j]),
           \A i, j \in 1..n : i < j => h[i].ts < h[j].ts,
           NEW group, NEW origin, NEW x
    PROVE  x \in ShownOf(group, h, origin) <=>
             \E lane \in DOMAIN k.lanes : \E s \in DecodeLane(rows, lane) :
                x = Labelled(k, group, s, origin)
<1>1. Mirrors(h, rows)
  <2> SUFFICES ASSUME NEW i \in 1..n
               PROVE  /\ h[i].kind = rows[i].kind
                      /\ \A j \in 1..n : Same(h[i], h[j]) <=>
                           rows[i].event = rows[j].event /\ rows[i].lane = rows[j].lane
    BY DEF Mirrors
  <2>1. Tells(k, rows[i], h[i])
    OBVIOUS
  <2>2. ASSUME NEW j \in 1..n
        PROVE  Same(h[i], h[j]) <=>
                 rows[i].event = rows[j].event /\ rows[i].lane = rows[j].lane
    <3>1. Tells(k, rows[j], h[j])
      OBVIOUS
    <3>2. h[i].says.name = h[j].says.name <=> rows[i].event = rows[j].event
      BY <2>1, <3>1 DEF Tells, Distinct
    <3>3. h[i].says.lane = h[j].says.lane <=> rows[i].lane = rows[j].lane
      BY <2>1, <3>1 DEF Tells, Distinct
    <3> QED
      BY <3>2, <3>3 DEF Same
  <2> QED
    BY <2>1, <2>2 DEF Tells
<1>2. Increasing(rows)
  BY DEF Increasing, Tells
<1>3. \A lane : DecodeLane(rows, lane) = Spanned(rows, h, lane, n)
  BY <1>1, <1>2, LaneDecoded
<1>4. ASSUME NEW b \in 1..n, NEW c \in 1..n
      PROVE  /\ Labelled(k, group, Span(rows, b, c), origin) = Showing(group, h, b, c, origin)
             /\ rows[b].lane \in DOMAIN k.lanes
  <2>1. Tells(k, rows[b], h[b]) /\ Tells(k, rows[c], h[c])
    OBVIOUS
  <2>2. /\ k.events[rows[b].event] = h[b].says.name /\ k.lanes[rows[b].lane] = h[b].says.lane
        /\ rows[b].lane \in DOMAIN k.lanes /\ rows[b].ts = h[b].ts /\ rows[c].ts = h[c].ts
    BY <2>1 DEF Tells
  <2> QED
    BY <2>2 DEF Labelled, Span, Showing
<1>5. ASSUME x \in ShownOf(group, h, origin)
      PROVE  \E lane \in DOMAIN k.lanes : \E s \in DecodeLane(rows, lane) :
                x = Labelled(k, group, s, origin)
  <2>1. PICK s \in (1..n) \X (1..n) :
           /\ Closes(h, s[1], s[2]) \/ (s[1] = s[2] /\ h[s[1]].kind = "instant")
           /\ x = Showing(group, h, s[1], s[2], origin)
    BY <1>5 DEF ShownOf, Showing
  <2>2. /\ s[1] \in 1..n /\ s[2] \in 1..n
        /\ Ranged(rows, h, rows[s[1]].lane, s[1], s[2])
    BY <2>1 DEF Ranged
  <2>3. Span(rows, s[1], s[2]) \in DecodeLane(rows, rows[s[1]].lane)
    BY <1>3, <2>2 DEF Spanned
  <2> QED
    BY <1>4, <2>1, <2>2, <2>3
<1>6. ASSUME NEW lane \in DOMAIN k.lanes, NEW s \in DecodeLane(rows, lane),
             x = Labelled(k, group, s, origin)
      PROVE  x \in ShownOf(group, h, origin)
  <2>1. PICK t \in (1..n) \X (1..n) :
           Ranged(rows, h, lane, t[1], t[2]) /\ s = Span(rows, t[1], t[2])
    BY <1>3 DEF Spanned
  <2>2. t[1] \in 1..n /\ t[2] \in 1..n
    OBVIOUS
  <2>3. x = Showing(group, h, t[1], t[2], origin)
    BY <1>4, <1>6, <2>1, <2>2
  <2>4. Closes(h, t[1], t[2]) \/ (t[1] = t[2] /\ h[t[1]].kind = "instant")
    BY <2>1 DEF Ranged
  <2> QED
    BY <2>3, <2>4 DEF ShownOf, Showing
<1> QED
  BY <1>5, <1>6

\* Two sets of timestamps whose least is the same.
LEMMA OriginSame ==
    ASSUME NEW R, NEW S, \A r \in R : r.ts \in Nat, \A s \in S : s.ts \in Nat,
           \A r \in R : \E s \in S : r.ts = s.ts,
           \A s \in S : \E r \in R : r.ts <= s.ts
    PROVE  Origin(R) = Origin(S)
<1> DEFINE TR == {r.ts : r \in R}  TS == {s.ts : s \in S}
<1>1. CASE S = {}
  <2>1. R = {}
    BY <1>1
  <2> QED
    BY <1>1, <2>1
<1>2. CASE S # {}
  <2>1. TR \subseteq Nat /\ TR # {}
    BY <1>2
  <2>2. PICK least \in TR : \A t \in TR : least <= t
    <3> HIDE DEF TR
    <3> QED
      BY <2>1, LeastNat
  <2>3. least \in Nat /\ \A r \in R : least <= r.ts
    BY <2>1, <2>2
  <2>4. least \in TS
    <3>1. PICK r \in R : least = r.ts
      BY <2>2
    <3>2. PICK s \in S : r.ts = s.ts
      OBVIOUS
    <3> QED
      BY <3>1, <3>2
  <2>5. \A s \in S : least <= s.ts
    <3> SUFFICES ASSUME NEW s \in S PROVE least <= s.ts
      OBVIOUS
    <3>1. PICK r \in R : r.ts <= s.ts
      OBVIOUS
    <3>2. least <= r.ts
      BY <2>3
    <3> QED
      BY <2>3, <3>1, <3>2
  <2>6. ASSUME NEW other \in TR, \A r \in R : other <= r.ts PROVE other = least
    <3>1. other \in Nat /\ other <= least /\ least <= other
      BY <2>1, <2>2, <2>6
    <3> QED
      BY <2>3, <3>1
  <2>7. ASSUME NEW other \in TS, \A s \in S : other <= s.ts PROVE other = least
    <3>1. other \in Nat /\ other <= least /\ least <= other
      BY <2>4, <2>5, <2>7
    <3> QED
      BY <2>3, <3>1
  <2>8. Origin(R) = least
    <3>1. Origin(R) = CHOOSE other \in TR : \A r \in R : other <= r.ts
      BY DEF Origin
    <3> HIDE DEF TR
    <3> QED
      BY <2>2, <2>3, <2>6, <3>1
  <2>9. Origin(S) = least
    <3>1. Origin(S) = CHOOSE other \in TS : \A s \in S : other <= s.ts
      BY DEF Origin
    <3> HIDE DEF TS
    <3> QED
      BY <2>4, <2>5, <2>7, <3>1
  <2> QED
    BY <2>8, <2>9
<1> QED
  BY <1>1, <1>2

\* The whole CTA, once every thread is past the prologue.
LEMMA Decoded ==
    ASSUME TypeOK, TablesInv, OwnTables, LeadInv, RunType, SlotInv,
           run # NoRun, Clean(kernel), run.ready = kernel.block
    PROVE  decode = UNION {Shown(group) : group \in Labels}
<1>1. /\ run.kernel = kernel /\ kernel \in Kernel /\ run.slots \in Seq(Slot)
      /\ kernel.groups \in Seq(Scope) /\ Len(run.slots) \in Nat
      /\ DOMAIN kernel.groups \subseteq 1..Len(run.slots)
      /\ DOMAIN run.slots = 1..Len(run.slots)
  BY RunFacts
<1>2. log \in [Labels -> Seq(Record)] /\ kernel # NoKernel
  BY DEF RunType
<1>3. Ordered /\ Spoken /\ Standing
  BY <1>1 DEF SlotInv
<1>4. /\ Own(kernel) /\ Distinct(kernel.events) /\ Distinct(kernel.lanes)
      /\ GroupsDistinct(kernel.groups)
      /\ \A m \in kernel.body : m.says.scope.lead \in kernel.block
  BY <1>2 DEF Clean, OwnTables, LeadInv, HostMaps
<1>5. ASSUME NEW gid \in 1..Len(run.slots) PROVE lead_fn(kernel, gid) \in run.ready
  <2>1. CASE gid \in DOMAIN kernel.groups
    <3>1. kernel.groups[gid] \in Interned(kernel.groups)
      BY <2>1 DEF Interned
    <3>2. PICK m \in kernel.body : kernel.groups[gid] = m.says.scope
      BY <1>4, <3>1 DEF Own
    <3> QED
      BY <1>4, <2>1, <3>2 DEF lead_fn
  <2>2. CASE gid \notin DOMAIN kernel.groups
    <3>1. kernel.block \in Blocks
      BY <1>1 DEF Kernel
    <3> QED
      BY <2>2, <3>1, TraceAssumption DEF lead_fn
  <2> QED
    BY <2>1, <2>2
<1> DEFINE told(gid) == Told(kernel, log, gid)
           rowsOf(gid) == Recorded(run.slots[gid])
           h(gid) == SubSeq(told(gid), 1, Lesser(Len(told(gid)), max_events))
           n(gid) == run.slots[gid].count
           rows == UNION {Interned(rowsOf(gid)) : gid \in DOMAIN run.slots}
           origin == Origin(rows)
<1>6. ASSUME NEW gid \in DOMAIN kernel.groups
      PROVE  kernel.groups[gid].name \in Labels /\ told(gid) = log[kernel.groups[gid].name]
  <2>1. kernel.groups[gid] \in Scope
    BY <1>1
  <2> QED
    BY <2>1 DEF Scope, Labels, Told
<1>7. ASSUME NEW gid \in 1..Len(run.slots)
      PROVE  /\ told(gid) \in Seq(Record) /\ Stands(kernel, run.slots[gid], told(gid))
             /\ rowsOf(gid) \in Seq(Row) /\ n(gid) \in Nat
             /\ Len(rowsOf(gid)) = n(gid) /\ Len(h(gid)) = n(gid)
             /\ DOMAIN rowsOf(gid) = 1..n(gid) /\ DOMAIN h(gid) = 1..n(gid)
             /\ n(gid) <= Len(told(gid))
             /\ \A j \in 1..n(gid) :
                  h(gid)[j] = told(gid)[j] /\ Tells(kernel, rowsOf(gid)[j], h(gid)[j])
  <2>1. told(gid) \in Seq(Record)
    BY <1>2, <1>6 DEF Told
  <2>2. Stands(kernel, run.slots[gid], told(gid))
    BY <1>1, <1>3, <1>5 DEF Standing
  <2>3. run.slots[gid] \in Slot
    BY <1>1
  <2> DEFINE slot == run.slots[gid]
             t == told(gid)
  <2>4. slot \in Slot /\ t \in Seq(Record) /\ Stands(kernel, slot, t)
    BY <2>1, <2>2, <2>3
  <2> HIDE DEF slot, t
  <2>5. /\ Recorded(slot) \in Seq(Row) /\ slot.count \in Nat
        /\ Len(Recorded(slot)) = slot.count
        /\ Len(SubSeq(t, 1, Lesser(Len(t), max_events))) = slot.count
        /\ DOMAIN Recorded(slot) = 1..slot.count
        /\ DOMAIN SubSeq(t, 1, Lesser(Len(t), max_events)) = 1..slot.count
        /\ slot.count <= Len(t)
        /\ \A j \in 1..slot.count :
             /\ SubSeq(t, 1, Lesser(Len(t), max_events))[j] = t[j]
             /\ Tells(kernel, Recorded(slot)[j], SubSeq(t, 1, Lesser(Len(t), max_events))[j])
    BY <2>4, SlotRows
  <2> HIDE DEF told
  <2> QED
    BY <2>4, <2>5 DEF slot, t
<1>8. ASSUME NEW group \in Labels, log[group] # <<>>
      PROVE  \E gid \in DOMAIN kernel.groups : kernel.groups[gid].name = group
  BY <1>1, <1>3, <1>8 DEF Spoken
<1>9. ASSUME NEW group \in Labels, NEW j \in 1..Len(log[group])
      PROVE  /\ log[group][j].ts \in Nat
             /\ \A i \in 1..Len(log[group]) : i < j => log[group][i].ts < log[group][j].ts
  <2>1. log[group] \in Seq(Record)
    BY <1>2
  <2>2. log[group][j] \in Record
    BY <2>1
  <2> QED
    BY <1>3, <2>2 DEF Record, Ordered
<1>10. ASSUME NEW row \in rows
       PROVE  row \in Row /\ \E rec \in Executed : row.ts = rec.ts
  <2>1. PICK gid \in 1..Len(run.slots) : row \in Interned(rowsOf(gid))
    BY <1>1
  <2>2. PICK j \in 1..n(gid) : row = rowsOf(gid)[j]
    <3>1. DOMAIN rowsOf(gid) = 1..n(gid)
      BY <1>7
    <3> QED
      BY <2>1, <3>1 DEF Interned
  <2>3. /\ Tells(kernel, row, told(gid)[j]) /\ n(gid) \in Nat /\ n(gid) <= Len(told(gid))
        /\ told(gid) \in Seq(Record)
    BY <1>7, <2>2
  <2>4. row \in Row /\ row.ts = told(gid)[j].ts
    BY <2>3 DEF Tells
  <2>5. j \in 1..Len(told(gid))
    BY <2>3
  <2>6. gid \in DOMAIN kernel.groups
    BY <2>5 DEF Told
  <2>7. told(gid)[j] \in Executed
    <3>1. told(gid)[j] \in Interned(log[kernel.groups[gid].name])
      BY <1>6, <2>3, <2>5, <2>6 DEF Interned
    <3> QED
      BY <1>6, <2>6, <3>1 DEF Executed
  <2> QED
    BY <2>4, <2>7
<1>11. Garbage \notin rows
  BY <1>10, TimelineAssumption
<1>12. ASSUME NEW rec \in Executed
       PROVE  rec.ts \in Nat /\ \E row \in rows : row.ts <= rec.ts
  <2>1. PICK group \in Labels : rec \in Interned(log[group])
    BY DEF Executed
  <2>2. log[group] \in Seq(Record) /\ Len(log[group]) \in Nat
    BY <1>2
  <2>3. PICK j \in 1..Len(log[group]) : rec = log[group][j]
    BY <2>1, <2>2 DEF Interned
  <2>4. 1 \in 1..Len(log[group]) /\ log[group] # <<>>
    BY <2>2
  <2>5. PICK gid \in DOMAIN kernel.groups : kernel.groups[gid].name = group
    BY <1>8, <2>4
  <2>6. told(gid) = log[group] /\ gid \in 1..Len(run.slots) /\ gid \in DOMAIN run.slots
    BY <1>1, <1>6, <2>5
  <2>7. 1 \in 1..n(gid)
    <3>1. n(gid) = Lesser(Len(told(gid)), max_events)
      BY <1>7, <2>6 DEF Stands
    <3> HIDE DEF n, told
    <3> QED
      BY <2>2, <2>4, <2>6, <3>1, TimelineAssumption DEF Lesser
  <2>8. /\ Tells(kernel, rowsOf(gid)[1], told(gid)[1]) /\ rowsOf(gid)[1] \in Interned(rowsOf(gid))
    <3>1. DOMAIN rowsOf(gid) = 1..n(gid)
      BY <1>7, <2>6
    <3>2. Tells(kernel, rowsOf(gid)[1], told(gid)[1])
      BY <1>7, <2>6, <2>7
    <3> QED
      BY <2>7, <3>1, <3>2 DEF Interned
  <2>9. rowsOf(gid)[1].ts = log[group][1].ts /\ rowsOf(gid)[1] \in rows
    BY <2>6, <2>8 DEF Tells
  <2>10. log[group][1].ts <= rec.ts /\ rec.ts \in Nat
    <3>1. rec.ts \in Nat /\ log[group][1].ts \in Nat
      BY <1>9, <2>3, <2>4
    <3>2. j = 1 \/ log[group][1].ts < rec.ts
      BY <1>9, <2>3, <2>4
    <3> QED
      BY <2>3, <3>1, <3>2
  <2> QED
    BY <2>9, <2>10
<1>13. origin = Origin(Executed)
  <2>1. \A row \in rows : row.ts \in Nat
    BY <1>10 DEF Row
  <2> HIDE DEF rows
  <2> QED
    BY <1>10, <1>12, <2>1, OriginSame
<1>14. decode = UNION {{Labelled(kernel, kernel.groups[gid].name, s, origin) :
                          s \in DecodeLane(rowsOf(gid), lane)} :
                         gid \in DOMAIN kernel.groups, lane \in DOMAIN kernel.lanes}
  <2>1. decode = IF Garbage \in rows THEN {Garbage}
                 ELSE UNION {{Labelled(run.kernel, run.kernel.groups[gid].name, s, origin) :
                                s \in DecodeLane(rowsOf(gid), lane)} :
                               gid \in DOMAIN run.kernel.groups,
                               lane \in DOMAIN run.kernel.lanes}
    BY DEF decode, Labelled
  <2> HIDE DEF rows, origin, rowsOf
  <2> QED
    BY <1>1, <1>11, <2>1
<1> HIDE DEF origin, rows
<1>15. ASSUME NEW group \in Labels
       PROVE  Shown(group) = ShownOf(group, History(group), origin)
  BY <1>13 DEF Shown, ShownOf
<1>16. ASSUME NEW group \in Labels, log[group] = <<>> PROVE Shown(group) = {}
  <2>1. History(group) = <<>>
    BY <1>16, TimelineAssumption DEF History, Lesser
  <2> QED
    BY <1>15, <2>1 DEF ShownOf
<1>17. ASSUME NEW gid \in DOMAIN kernel.groups, NEW x
       PROVE  x \in Shown(kernel.groups[gid].name) <=>
                \E lane \in DOMAIN kernel.lanes : \E s \in DecodeLane(rowsOf(gid), lane) :
                   x = Labelled(kernel, kernel.groups[gid].name, s, origin)
  <2> DEFINE group == kernel.groups[gid].name
  <2>1. gid \in 1..Len(run.slots) /\ group \in Labels /\ told(gid) = log[group]
    BY <1>1, <1>6
  <2>2. History(group) = h(gid)
    BY <2>1 DEF History
  <2>3. \A i, j \in 1..n(gid) : i < j => h(gid)[i].ts < h(gid)[j].ts
    <3> SUFFICES ASSUME NEW i \in 1..n(gid), NEW j \in 1..n(gid), i < j
                 PROVE  h(gid)[i].ts < h(gid)[j].ts
      OBVIOUS
    <3>1. /\ n(gid) \in Nat /\ n(gid) <= Len(told(gid)) /\ told(gid) \in Seq(Record)
          /\ h(gid)[i] = told(gid)[i] /\ h(gid)[j] = told(gid)[j]
      BY <1>7, <2>1
    <3>2. i \in 1..Len(told(gid)) /\ j \in 1..Len(told(gid))
      BY <3>1
    <3> QED
      BY <1>9, <2>1, <3>1, <3>2
  <2>4. /\ rowsOf(gid) \in Seq(Row) /\ n(gid) \in Nat /\ Len(rowsOf(gid)) = n(gid)
        /\ DOMAIN h(gid) = 1..n(gid)
        /\ \A j \in 1..n(gid) : Tells(kernel, rowsOf(gid)[j], h(gid)[j])
    BY <1>7, <2>1
  <2> HIDE DEF rowsOf, h, n, group
  <2>5. x \in ShownOf(group, h(gid), origin) <=>
          \E lane \in DOMAIN kernel.lanes : \E s \in DecodeLane(rowsOf(gid), lane) :
             x = Labelled(kernel, group, s, origin)
    BY <1>4, <2>3, <2>4, GroupDecoded
  <2> QED
    BY <1>15, <2>1, <2>2, <2>5 DEF group
<1> HIDE DEF rowsOf
<1>18. ASSUME NEW x, x \in decode PROVE x \in UNION {Shown(group) : group \in Labels}
  <2>1. PICK gid \in DOMAIN kernel.groups, lane \in DOMAIN kernel.lanes :
           x \in {Labelled(kernel, kernel.groups[gid].name, s, origin) :
                    s \in DecodeLane(rowsOf(gid), lane)}
    BY <1>14, <1>18
  <2>2. x \in Shown(kernel.groups[gid].name)
    BY <1>17, <2>1
  <2> QED
    BY <1>6, <2>2
<1>19. ASSUME NEW group \in Labels, NEW x \in Shown(group) PROVE x \in decode
  <2>1. PICK gid \in DOMAIN kernel.groups : kernel.groups[gid].name = group
    BY <1>8, <1>16, <1>19
  <2>2. PICK lane \in DOMAIN kernel.lanes :
           \E s \in DecodeLane(rowsOf(gid), lane) : x = Labelled(kernel, group, s, origin)
    BY <1>17, <2>1
  <2> DEFINE Part(i, l) == {Labelled(kernel, kernel.groups[i].name, s, origin) :
                              s \in DecodeLane(rowsOf(i), l)}
  <2>3. x \in Part(gid, lane)
    BY <2>1, <2>2
  <2>4. decode = UNION {Part(i, l) : i \in DOMAIN kernel.groups, l \in DOMAIN kernel.lanes}
    BY <1>14
  <2> HIDE DEF Part
  <2>5. Part(gid, lane) \in {Part(i, l) : i \in DOMAIN kernel.groups, l \in DOMAIN kernel.lanes}
    OBVIOUS
  <2> QED
    BY <2>3, <2>4, <2>5
<1> QED
  BY <1>18, <1>19

\* The run half changes nothing of the build half.
LEMMA RunIsBuild == SpecTimeline => Spec
<1>1. InitTimeline => Init
  BY DEF InitTimeline
<1>2. [NextTimeline]_timelineVars => [Next]_vars
  BY DEF NextTimeline, Launch, Prologue, Mark, Finish, timelineVars
<1> QED
  BY <1>1, <1>2, PTL DEF SpecTimeline, Spec

\* Whatever the threads of a CTA execute, in whatever order and however often, and however
\* many rows a slot has: the decoded timeline is what the lead of each group ran, in its own
\* words, when the builds since the last lowered one were lowered too.
THEOREM DecodesFaithfully == SpecTimeline => []TimelineFaithful
<1> DEFINE Below == TypeOK /\ TablesInv /\ OwnTables /\ LeadInv
           Inv == RunType /\ SlotInv
<1>1. InitTimeline => Inv
  <2>1. NoLog \in [Labels -> Seq(Record)]
    BY DEF NoLog
  <2> QED
    BY <2>1 DEF InitTimeline, RunType, SlotInv
<1>2. Below /\ Inv /\ [NextTimeline]_timelineVars => Inv'
  <2> SUFFICES ASSUME Below, Inv, [NextTimeline]_timelineVars PROVE Inv'
    OBVIOUS
  <2>1. CASE UNCHANGED timelineVars
    BY <2>1 DEF timelineVars, vars, RunType, SlotInv, Ordered, Spoken, Standing
  <2>2. CASE run = NoRun /\ Next /\ UNCHANGED <<run, log>>
    BY <2>2, BuildKeeps
  <2>3. CASE Launch
    BY <2>3, LaunchKeeps
  <2>4. CASE Finish
    BY <2>4, FinishKeeps
  <2>5. CASE \E t \in Threads : Prologue(t)
    BY <2>5, PrologueKeeps
  <2>6. CASE \E t \in Threads : Mark(t)
    BY <2>6, MarkKeeps
  <2> QED
    BY <2>1, <2>2, <2>3, <2>4, <2>5, <2>6 DEF NextTimeline
<1>3. Below /\ Inv => TimelineFaithful
  <2> SUFFICES ASSUME Below, Inv, run # NoRun, ~run.kernel.leftover, OneLead(run.kernel),
                      run.ready = run.kernel.block
               PROVE  decode = UNION {Shown(group) : group \in Labels}
    BY DEF TimelineFaithful, Faithful
  <2>1. run.kernel = kernel
    BY DEF RunType
  <2> QED
    BY <2>1, Decoded DEF Clean
<1>4. Spec => []Below
  BY TypeCorrect, TablesHold, TablesOwned, LeadsHold, PTL
<1> HIDE DEF Below, Inv
<1> QED
  BY <1>1, <1>2, <1>3, <1>4, RunIsBuild, PTL DEF SpecTimeline

=============================================================================
