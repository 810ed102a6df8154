----------------------------- MODULE TraceRegistry -----------------------------
(***************************************************************************)
(* The build half of the in-kernel trace (tileops/trace/state.py,          *)
(* markers.py and lower/strip of passes.py).  While a kernel is built, its *)
(* markers intern names into one process-wide registry and carry only the  *)
(* ids; lower takes the tables out of the registry for the decoder and     *)
(* retires it, strip drops the markers.  Nothing else tells the registry   *)
(* where a build begins or ends.  An id is a position in its table.        *)
(***************************************************************************)
EXTENDS Naturals, Sequences, FiniteSets

CONSTANTS
    Names, Lanes, Groups,   \* of events, render lanes and declared work-groups
    DefaultGroup,           \* the group of a marker in no scope, whose lead is thread 0
    Flows,                  \* pairs of range names
    Blocks,                 \* the thread blocks kernels are launched with
    MAX_LANES,
    MaxBuilds, MaxMarkers, MaxScopes, MaxFlows,     \* bounds
    NoState, NoBuild, NoKernel

Threads == UNION Blocks

ASSUME TraceAssumption ==
    /\ Blocks # {} /\ Blocks \subseteq SUBSET Nat
    /\ \A block \in Blocks : 0 \in block
    /\ MAX_LANES \in Nat

VARIABLES
    _BUILD_STATE,   \* NoState until a marker or a scope asks for it
    build,          \* the kernel under construction
    kernel,         \* the kernel the last build lowered, with its host maps
    builds,         \* builds begun
    leftover        \* history: a build that was not lowered may have left tables behind

vars == <<_BUILD_STATE, build, kernel, builds, leftover>>

Kinds == {"begin", "end", "instant"}
Scope == [name : Groups \cup {DefaultGroup}, lead : Threads]

\* A marker holds ids; says is what the kernel's author wrote.
Meaning == [name : Names, lane : Lanes, scope : Scope]
Marker == [kind : Kinds, event : Nat, lane : Nat, gid : Nat, says : Meaning]

TraceState ==
    [events : Seq(Names), lanes : Seq(Lanes), groups : Seq(Scope), flows : Seq(Flows),
     stack : Seq(Scope)]
Build == [block : Blocks, depth : Nat, body : SUBSET Marker, flows : Seq(Flows)]
Kernel ==
    [block : Blocks, body : SUBSET Marker, events : Seq(Names), lanes : Seq(Lanes),
     groups : Seq(Scope), flows : Seq(Flows), declared : Seq(Flows), leftover : BOOLEAN]

ASSUME SentinelAssumption ==
    /\ NoState \notin TraceState /\ NoBuild \notin Build /\ NoKernel \notin Kernel

Default == [name |-> DefaultGroup, lead |-> 0]
NewState ==
    [events |-> <<>>, lanes |-> <<>>, groups |-> <<>>, flows |-> <<>>, stack |-> <<Default>>]

Init ==
    /\ _BUILD_STATE = NoState
    /\ build = NoBuild /\ kernel = NoKernel /\ builds = 0
    /\ leftover = FALSE

Interned(table) == {table[i] : i \in DOMAIN table}
intern(table, x) == IF x \in Interned(table) THEN table ELSE Append(table, x)

\* Bug: the id is taken after the name was added.
IdAfterInsertion(table, x) ==
    IF x \in Interned(table) THEN CHOOSE i \in DOMAIN table : table[i] = x ELSE Len(table) + 2

\* The id of x, old or new.
Id(table, x) ==
    IF x \in Interned(table) THEN CHOOSE i \in DOMAIN table : table[i] = x ELSE Len(table) + 1

\* A group is known by its name alone: the lead it came with first stays.
Known(groups, name) == \E i \in DOMAIN groups : groups[i].name = name
_intern_group(groups, scope) ==
    IF Known(groups, scope.name) THEN groups ELSE Append(groups, scope)
GroupId(groups, name) ==
    IF Known(groups, name) THEN CHOOSE i \in DOMAIN groups : groups[i].name = name
    ELSE Len(groups) + 1

build_state == IF _BUILD_STATE = NoState THEN NewState ELSE _BUILD_STATE
Active == build_state.stack[Len(build_state.stack)]

Building == build # NoBuild

-----------------------------------------------------------------------------
BeginBuild ==
    /\ ~Building /\ builds < MaxBuilds
    /\ \E block \in Blocks :
         build' = [block |-> block, depth |-> 0, body |-> {}, flows |-> <<>>]
    /\ kernel' = NoKernel
    /\ builds' = builds + 1
    /\ UNCHANGED <<_BUILD_STATE, leftover>>

push_group ==
    /\ Building /\ build.depth < MaxScopes
    /\ \E name \in Groups, lead \in build.block :
         _BUILD_STATE' =
            [build_state EXCEPT !.stack = Append(@, [name |-> name, lead |-> lead])]
    /\ build' = [build EXCEPT !.depth = @ + 1]
    /\ UNCHANGED <<kernel, builds, leftover>>

Popped(state, n) == [state EXCEPT !.stack = SubSeq(@, 1, Len(@) - n)]

pop_group ==
    /\ Building /\ build.depth > 0
    /\ _BUILD_STATE' = Popped(build_state, 1)
    /\ build' = [build EXCEPT !.depth = @ - 1]
    /\ UNCHANGED <<kernel, builds, leftover>>

\* The marker goes to the slot of the live group, which is interned now.
_emit(state, kind, event, lane, name, laneName) ==
    LET gid == GroupId(state.groups, Active.name)
        says == [name |-> name, lane |-> laneName, scope |-> Active]
    IN /\ _BUILD_STATE' = [state EXCEPT !.groups = _intern_group(@, Active)]
       /\ build' = [build EXCEPT !.body = @ \cup
                     {[kind |-> kind, event |-> event, lane |-> lane, gid |-> gid, says |-> says]}]

\* An exception out of the kernel body: its scopes close, and nobody looks at the tables.
Abandon(state) ==
    /\ _BUILD_STATE' = Popped(state, build.depth)
    /\ build' = NoBuild
    /\ leftover' = TRUE

\* Bug: the cap is tested with the new lane already counted out.
NoLaneLeftLate(lanes, lane) == lane \notin Interned(lanes) /\ Len(lanes) > MAX_LANES

\* The lane field holds MAX_LANES ids.
NoLaneLeft(lanes, lane) == lane \notin Interned(lanes) /\ Len(lanes) >= MAX_LANES

\* open_range and emit_instant.  With the lane field exhausted the name is interned, then
\* the build fails.
Emit ==
    /\ Building /\ Cardinality(build.body) < MaxMarkers
    /\ \E name \in Names, lane \in Lanes, kind \in {"begin", "instant"} :
         LET named == [build_state EXCEPT !.events = intern(@, name)]
         IN \/ NoLaneLeft(named.lanes, lane) /\ Abandon(named)
            \/ /\ ~NoLaneLeft(named.lanes, lane)
               /\ _emit([named EXCEPT !.lanes = intern(@, lane)], kind,
                        Id(build_state.events, name), Id(build_state.lanes, lane), name, lane)
               /\ UNCHANGED leftover
    /\ UNCHANGED <<kernel, builds>>

\* The end of an open range, in whatever group is live by then.
close_range ==
    /\ Building /\ Cardinality(build.body) < MaxMarkers
    /\ \E tok \in build.body :
         /\ tok.kind = "begin"
         /\ _emit(build_state, "end", tok.event, tok.lane, tok.says.name, tok.says.lane)
    /\ UNCHANGED <<kernel, builds, leftover>>

declare_flow ==
    /\ Building /\ Len(build.flows) < MaxFlows
    /\ \E flow \in Flows :
         /\ _BUILD_STATE' = [build_state EXCEPT !.flows = Append(@, flow)]
         /\ build' = [build EXCEPT !.flows = Append(@, flow)]
    /\ UNCHANGED <<kernel, builds, leftover>>

BuildRaises == Building /\ Abandon(build_state) /\ UNCHANGED <<kernel, builds>>

Lowered(state) ==
    [block |-> build.block, body |-> build.body, events |-> state.events,
     lanes |-> state.lanes, groups |-> state.groups, flows |-> state.flows,
     declared |-> build.flows, leftover |-> leftover]

\* Bug: the epoch is not retired.
lowerKeepsEpoch ==
    /\ Building /\ build.depth = 0
    /\ _BUILD_STATE' = build_state
    /\ kernel' = Lowered(build_state)
    /\ build' = NoBuild /\ leftover' = FALSE
    /\ UNCHANGED builds

\* The tables become the kernel's host maps, unless the transform raises; the epoch ends.
lower ==
    /\ Building /\ build.depth = 0
    /\ _BUILD_STATE' = NoState
    /\ kernel' \in {Lowered(build_state), NoKernel}
    /\ build' = NoBuild /\ leftover' = FALSE
    /\ UNCHANGED builds

\* The markers are gone; what they interned is not.
strip ==
    /\ Building /\ build.depth = 0
    /\ build' = NoBuild /\ leftover' = TRUE
    /\ UNCHANGED <<_BUILD_STATE, kernel, builds>>

Next ==
    \/ BeginBuild \/ push_group \/ pop_group \/ Emit \/ close_range \/ declare_flow
    \/ BuildRaises \/ lower \/ strip

Spec == Init /\ [][Next]_vars

-----------------------------------------------------------------------------
Distinct(table) == \A i, j \in DOMAIN table : table[i] = table[j] => i = j
GroupsDistinct(groups) ==
    \A i, j \in DOMAIN groups : groups[i].name = groups[j].name => i = j

\* Types; the group stack holds the default and the scopes of this build, no others; and a
\* lane id fits its field of the record (state.py:138).
TypeOK ==
    /\ _BUILD_STATE \in TraceState \cup {NoState}
    /\ build \in Build \cup {NoBuild}
    /\ kernel \in Kernel \cup {NoKernel}
    /\ builds \in Nat /\ leftover \in BOOLEAN
    /\ Len(build_state.stack) = 1 + IF Building THEN build.depth ELSE 0
    /\ Len(build_state.lanes) <= MAX_LANES

\* The ids of marker m stand, in these tables, for what the author wrote.
Resolves(m, events, lanes, groups) ==
    /\ m.event \in DOMAIN events /\ events[m.event] = m.says.name
    /\ m.lane \in DOMAIN lanes /\ lanes[m.lane] = m.says.lane
    /\ m.gid \in DOMAIN groups /\ groups[m.gid].name = m.says.scope.name

\* Every marker of a lowered kernel is decoded under the event, lane and group name it was
\* written with, whatever earlier builds left in the registry (state.py:45).
NamesResolve ==
    kernel # NoKernel =>
        \A m \in kernel.body : Resolves(m, kernel.events, kernel.lanes, kernel.groups)

\* Why: tables hold a name once and only grow until lower takes them.
TablesInv ==
    /\ Distinct(build_state.events) /\ Distinct(build_state.lanes)
    /\ GroupsDistinct(build_state.groups)
    /\ Building => \A m \in build.body :
         Resolves(m, build_state.events, build_state.lanes, build_state.groups)
    /\ NamesResolve

\* One lead for each group the kernel's author named.
OneLead(k) ==
    \A m, n \in k.body : m.says.scope.name = n.says.scope.name => m.says.scope = n.says.scope

\* The host maps are this kernel's own: contiguous gids of the groups it used with the
\* leads it declared, and its own arrows (state.py:85).
Own(k) ==
    /\ Interned(k.groups) = {m.says.scope : m \in k.body}
    /\ Interned(k.events) = {m.says.name : m \in k.body}
    /\ Interned(k.lanes) = {m.says.lane : m \in k.body}
    /\ k.flows = k.declared

\* They are whenever every build since the last lowered one was lowered too.
OwnTables ==
    kernel # NoKernel /\ ~kernel.leftover /\ OneLead(kernel) => Own(kernel)
=============================================================================
