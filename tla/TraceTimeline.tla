----------------------------- MODULE TraceTimeline -----------------------------
(***************************************************************************)
(* The run half of the in-kernel trace: the code lower puts in place of a  *)
(* marker (_transform of tileops/trace/passes.py), run by the threads of   *)
(* one CTA, and the host's decode of the slots it leaves (decode.py).  A   *)
(* slot is memory from torch.empty; its header counts the rows and is      *)
(* zeroed by the thread elected for its group, the only one to write it.   *)
(***************************************************************************)
EXTENDS TraceRegistry, SequencesExt

CONSTANTS
    Branch,         \* Branch[t]: the threads that run the code of a scope whose lead is t
    max_events,     \* rows of a slot
    MaxClock,       \* bound: markers executed
    Garbage, NoRun

Labels == Groups \cup {DefaultGroup}

\* One EventRecord, payload left out; a slot; a launched kernel.
Row == [event : Nat, kind : Kinds, lane : Nat, ts : Nat]
Slot == [count : Nat, rows : [1..max_events -> Row \cup {Garbage}]]
Run == [kernel : Kernel, ready : SUBSET Threads, clock : Nat, slots : Seq(Slot)]

ASSUME TimelineAssumption ==
    /\ max_events \in Nat \ {0}
    /\ \A t \in Threads : t \in Branch[t] /\ Branch[t] \subseteq Threads
    /\ Garbage \notin Row /\ NoRun \notin Run

VARIABLES
    run,    \* the launched kernel, the threads past the prologue, the clock, the slots
    log     \* history: what the lead each scope named executed in each group, in order

timelineVars == <<vars, run, log>>

\* A kernel that emitted no marker has one slot all the same.
num_groups(k) == IF k.groups = <<>> THEN 1 ELSE Len(k.groups)
lead_fn(k, gid) == IF gid \in DOMAIN k.groups THEN k.groups[gid].lead ELSE 0

NoLog == [group \in Labels |-> <<>>]
InitTimeline == Init /\ run = NoRun /\ log = NoLog

\* Memory nobody wrote: the header may claim rows.
Uninitialised == [count : {0, 1}, rows : {[i \in 1..max_events |-> Garbage]}]

Launch ==
    /\ run = NoRun /\ ~Building /\ kernel # NoKernel
    /\ \E memory \in Uninitialised :
         run' = [kernel |-> kernel, ready |-> {}, clock |-> 0,
                 slots |-> [gid \in 1..num_groups(kernel) |-> memory]]
    /\ UNCHANGED <<vars, log>>

\* Each thread zeroes the headers of the groups it is elected for.
Prologue(t) ==
    /\ run # NoRun /\ t \in run.kernel.block \ run.ready
    /\ run' = [run EXCEPT
                !.ready = @ \cup {t},
                !.slots = [gid \in DOMAIN @ |-> IF t = lead_fn(run.kernel, gid)
                                                THEN [@[gid] EXCEPT !.count = 0] ELSE @[gid]]]
    /\ UNCHANGED <<vars, log>>

Lesser(a, b) == IF a < b THEN a ELSE b

\* The record lands in the row after the last one, if there is one left.
Stored(slot, row) ==
    IF slot.count < max_events
    THEN [count |-> Lesser(slot.count + 1, max_events),
          rows |-> [slot.rows EXCEPT ![Lesser(slot.count, max_events - 1) + 1] = row]]
    ELSE slot

\* Thread t runs into a marker; control flow may run it any number of times.
Mark(t) ==
    /\ run # NoRun /\ t \in run.ready /\ run.clock < MaxClock
    /\ \E m \in run.kernel.body :
         LET row == [event |-> m.event, kind |-> m.kind, lane |-> m.lane, ts |-> run.clock]
             writes == t = lead_fn(run.kernel, m.gid)
             speaks == t = m.says.scope.lead
         IN /\ t \in Branch[m.says.scope.lead] /\ (writes \/ speaks)
            /\ run' = [run EXCEPT !.clock = @ + 1,
                                  !.slots[m.gid] = IF writes THEN Stored(@, row) ELSE @]
            /\ log' = IF speaks
                      THEN [log EXCEPT ![m.says.scope.name] =
                              Append(@, [says |-> m.says, kind |-> m.kind, ts |-> run.clock])]
                      ELSE log
    /\ UNCHANGED vars

\* The threads are through; the host has decoded the slots.
Finish ==
    /\ run # NoRun /\ run.ready = run.kernel.block
    /\ run' = NoRun /\ log' = NoLog
    /\ UNCHANGED vars

NextTimeline ==
    \/ run = NoRun /\ Next /\ UNCHANGED <<run, log>>
    \/ Launch \/ (\E t \in Threads : Prologue(t) \/ Mark(t)) \/ Finish

SpecTimeline == InitTimeline /\ [][NextTimeline]_timelineVars

-----------------------------------------------------------------------------
(* decode: one slot.                                                       *)

Recorded(slot) == SubSeq(slot.rows, 1, Lesser(slot.count, max_events))

Opened(open, event) == {i \in DOMAIN open : open[i].event = event}

\* Bug: only the innermost open range can be closed.
InnermostOnly(open, event) ==
    IF open # <<>> /\ open[Len(open)].event = event THEN Len(open) ELSE 0

\* The open range an end closes: the last one of that event; 0 if there is none.
match_idx(open, event) ==
    IF Opened(open, event) = {} THEN 0
    ELSE CHOOSE i \in Opened(open, event) : \A j \in Opened(open, event) : j <= i

\* One row: a begin opens, an end closes, an instant stands for itself.
DecodeRow(open, row) ==
    LET i == match_idx(open, row.event)
    IN CASE row.kind = "begin" -> [open |-> Append(open, row), out |-> {}]
         [] row.kind = "end" /\ i = 0 -> [open |-> open, out |-> {}]
         [] row.kind = "end" /\ i # 0 ->
              [open |-> RemoveAt(open, i),
               out |-> {[event |-> row.event, lane |-> row.lane,
                         from |-> open[i].ts, to |-> row.ts]}]
         [] row.kind = "instant" ->
              [open |-> open, out |-> {[event |-> row.event, lane |-> row.lane,
                                        from |-> row.ts, to |-> row.ts]}]

\* The rows of one lane, in program order; ranges still open at the end are dropped.
DecodeLane(rows, lane) ==
    LET scan[e \in 0..Len(rows)] ==
          IF e = 0 THEN [open |-> <<>>, out |-> {}]
          ELSE IF rows[e].lane # lane THEN scan[e - 1]
          ELSE LET step == DecodeRow(scan[e - 1].open, rows[e])
               IN [open |-> step.open, out |-> scan[e - 1].out \cup step.out]
    IN scan[Len(rows)].out

Origin(rows) == CHOOSE least \in {row.ts : row \in rows} : \A row \in rows : least <= row.ts

\* The slots of the CTA, zeroed on its earliest record and labelled by the host maps.
\* A row nobody wrote decodes to anything.
decode ==
    LET k == run.kernel
        rows == UNION {Interned(Recorded(run.slots[gid])) : gid \in DOMAIN run.slots}
        Slices(gid, lane) == DecodeLane(Recorded(run.slots[gid]), lane)
        Labelled(gid, s) ==
            [group |-> k.groups[gid].name, lane |-> k.lanes[s.lane], name |-> k.events[s.event],
             from |-> s.from - Origin(rows), to |-> s.to - Origin(rows)]
    IN IF Garbage \in rows THEN {Garbage}
       ELSE UNION {{Labelled(gid, s) : s \in Slices(gid, lane)} :
                     gid \in DOMAIN k.groups, lane \in DOMAIN k.lanes}

-----------------------------------------------------------------------------
\* What the timeline of a group should show: the first max_events records of its lead.
History(group) == SubSeq(log[group], 1, Lesser(Len(log[group]), max_events))
Executed == UNION {Interned(log[group]) : group \in Labels}

Same(r, s) == r.says.name = s.says.name /\ r.says.lane = s.says.lane
Count(h, r, kind, from, to) == Cardinality({i \in from..to : Same(h[i], r) /\ h[i].kind = kind})

\* An end closes the begin of its name and lane after which the two balance for the first
\* time.
Closes(h, b, e) ==
    /\ b < e /\ Same(h[b], h[e]) /\ h[b].kind = "begin" /\ h[e].kind = "end"
    /\ Count(h, h[b], "begin", b, e) = Count(h, h[b], "end", b, e)
    /\ \A i \in b..(e - 1) : Count(h, h[b], "begin", b, i) > Count(h, h[b], "end", b, i)

Shown(group) ==
    LET h == History(group)
        Spans == {s \in (DOMAIN h) \X (DOMAIN h) :
                    Closes(h, s[1], s[2]) \/ (s[1] = s[2] /\ h[s[1]].kind = "instant")}
    IN {[group |-> group, lane |-> h[s[1]].says.lane, name |-> h[s[1]].says.name,
         from |-> h[s[1]].ts - Origin(Executed), to |-> h[s[2]].ts - Origin(Executed)] : s \in Spans}

\* The decoded timeline is what the lead of each group ran, in its own words: every range
\* and instant within capacity, once, on its track, and nothing else (api.py:128).
Faithful ==
    run # NoRun /\ OneLead(run.kernel) /\ run.ready = run.kernel.block =>
        decode = UNION {Shown(group) : group \in Labels}

\* It is whenever every build since the last lowered one was lowered too.
TimelineFaithful == run # NoRun => run.kernel.leftover \/ Faithful
=============================================================================
