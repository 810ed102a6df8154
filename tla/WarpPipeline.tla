----------------------------- MODULE WarpPipeline -----------------------------
(***************************************************************************)
(* One thread block of the persistent cooperative GEMM                     *)
(* (tileops/kernels/gemm/dense.py, _gemm_coop2_kernel): producer warps     *)
(* stage the operand boxes of one K-step after another in a ring of        *)
(* num_stages shared-memory slots by asynchronous copies, consumer warps   *)
(* feed them to asynchronous matrix instructions, and two barriers a slot  *)
(* hand it back and forth.  A warp waits on a barrier by parity only.      *)
(***************************************************************************)
EXTENDS Integers, Sequences, FiniteSets

CONSTANTS
    Producers,  \* the threads of the producer warpgroup
    Leader,     \* the elected one, which issues the copies
    Consumers,  \* the warps of the consumer warpgroups
    Operands,   \* the boxes of a step: the halves of A, and B
    NumStages, KIters,
    Tiles       \* output tiles of this block, over all its waves

ASSUME PipelineAssumption ==
    /\ IsFiniteSet(Producers) /\ IsFiniteSet(Consumers)
    /\ Leader \in Producers /\ Consumers # {} /\ Producers \cap Consumers = {}
    /\ IsFiniteSet(Operands) /\ Operands # {}
    /\ NumStages \in Nat \ {0} /\ KIters \in Nat \ {0} /\ Tiles \in Nat

VARIABLES
    pc, gi,     \* of every thread or warp; gi counts its steps over all tiles
    issued,     \* the boxes of its step the leader has issued
    ki, prev,   \* of a consumer: the step of its tile, and the slot it has yet to release
    flying,     \* copies on their way
    smem,       \* smem[s][op]: the step whose box the slot holds
    mmas,       \* mmas[c]: the matrix instructions in flight, oldest first
    acc,        \* acc[c]: what the accumulator sums, in order
    full, empty \* the barriers of every slot

producing == <<issued, flying>>
consuming == <<ki, prev>>
vars == <<pc, gi, issued, ki, prev, flying, smem, mmas, acc, full, empty>>

Warps == Producers \cup Consumers
Slots == 0 .. NumStages - 1
Total == Tiles * KIters
Steps == 0 .. Total - 1
NoStep == -1

slot(w) == gi[w] % NumStages
round(w) == gi[w] \div NumStages
phase(w) == round(w) % 2

-----------------------------------------------------------------------------
\* A barrier completes its phase when all have arrived and every copy it expects has
\* landed.  The hardware keeps the parity of "phase".
Fresh == [phase |-> 0, arrived |-> 0, tx |-> 0]

Completed(b, count) ==
    IF b.arrived = count /\ b.tx = 0 THEN [phase |-> b.phase + 1, arrived |-> 0, tx |-> 0] ELSE b

Arrived(b, count) == Completed([b EXCEPT !.arrived = @ + 1], count)
Landed(b, count) == Completed([b EXCEPT !.tx = @ - 1], count)
Expecting(b) == [b EXCEPT !.tx = @ + 1]

\* The wait returns when the phase of that parity is over.
Passes(b, parity) == b.phase % 2 # parity

FullCount == Cardinality(Producers)
\* Bug: the barrier counts one consumer warpgroup of the two.
EmptyCountOfOne == Cardinality(Consumers) - 1
EmptyCount == Cardinality(Consumers)

Init ==
    /\ pc = [w \in Warps |-> "wait"] /\ gi = [w \in Warps |-> 0]
    /\ issued = {} /\ flying = {}
    /\ ki = [c \in Consumers |-> 0] /\ prev = [c \in Consumers |-> 0]
    /\ smem = [s \in Slots |-> [op \in Operands |-> NoStep]]
    /\ mmas = [c \in Consumers |-> <<>>] /\ acc = [c \in Consumers |-> <<>>]
    /\ full = [s \in Slots |-> Fresh] /\ empty = [s \in Slots |-> Fresh]

at(w, step) == pc[w] = step
Goto(w, step) == pc' = [pc EXCEPT ![w] = step]

-----------------------------------------------------------------------------
\* Bug: the producer waits for the parity the consumers wait for.
ProducerWaitSameParity(p) ==
    /\ at(p, "wait") /\ gi[p] < Total
    /\ Passes(empty[slot(p)], phase(p))
    /\ Goto(p, IF p = Leader THEN "tma" ELSE "arrive")
    /\ UNCHANGED <<gi, producing, consuming, smem, mmas, acc, full, empty>>

\* The first round finds every slot empty: the phase before the first counts as over.
ProducerWait(p) ==
    /\ at(p, "wait") /\ gi[p] < Total
    /\ Passes(empty[slot(p)], 1 - phase(p))
    /\ Goto(p, IF p = Leader THEN "tma" ELSE "arrive")
    /\ UNCHANGED <<gi, producing, consuming, smem, mmas, acc, full, empty>>

\* The elected thread announces a box to the barrier and starts its copy; after the last
\* one it arrives.
TmaCopy(op) ==
    /\ at(Leader, "tma") /\ op \notin issued
    /\ full' = [full EXCEPT ![slot(Leader)] = Expecting(@)]
    /\ flying' = flying \cup {[op |-> op, slot |-> slot(Leader), step |-> gi[Leader]]}
    /\ IF issued \cup {op} = Operands
       THEN issued' = {} /\ Goto(Leader, "arrive")
       ELSE issued' = issued \cup {op} /\ UNCHANGED pc
    /\ UNCHANGED <<gi, consuming, smem, mmas, acc, empty>>

ProducerArrive(p) ==
    /\ at(p, "arrive")
    /\ full' = [full EXCEPT ![slot(p)] = Arrived(@, FullCount)]
    /\ gi' = [gi EXCEPT ![p] = @ + 1]
    /\ Goto(p, "wait")
    /\ UNCHANGED <<producing, consuming, smem, mmas, acc, empty>>

\* The copy engine, in any order.
CopyLands(copy) ==
    /\ copy \in flying
    /\ smem' = [smem EXCEPT ![copy.slot][copy.op] = copy.step]
    /\ full' = [full EXCEPT ![copy.slot] = Landed(@, FullCount)]
    /\ flying' = flying \ {copy}
    /\ UNCHANGED <<pc, gi, issued, consuming, mmas, acc, empty>>

-----------------------------------------------------------------------------
ConsumerWait(c) ==
    /\ at(c, "wait") /\ gi[c] < Total
    /\ Passes(full[slot(c)], phase(c))
    /\ Goto(c, "mma")
    /\ UNCHANGED <<gi, producing, consuming, smem, mmas, acc, full, empty>>

\* The end of an iteration: the slot is released by a later one.
Advance(c) ==
    /\ prev' = [prev EXCEPT ![c] = slot(c)]
    /\ gi' = [gi EXCEPT ![c] = @ + 1]
    /\ ki' = [ki EXCEPT ![c] = @ + 1]
    /\ Goto(c, IF ki[c] + 1 = KIters THEN "drain" ELSE "wait")

Mma(c) ==
    /\ at(c, "mma")
    /\ mmas' = [mmas EXCEPT ![c] = Append(@, [step |-> gi[c], clear |-> ki[c] = 0])]
    /\ IF ki[c] = 0 THEN Advance(c) ELSE Goto(c, "retire") /\ UNCHANGED <<gi, consuming>>
    /\ UNCHANGED <<producing, smem, acc, full, empty>>

\* Bug: the slot before is released while an instruction may still read it.
RetireUnwaited(c) ==
    /\ at(c, "retire") /\ Len(mmas[c]) <= 2
    /\ empty' = [empty EXCEPT ![prev[c]] = Arrived(@, EmptyCount)]
    /\ Advance(c)
    /\ UNCHANGED <<producing, smem, mmas, acc, full>>

\* wait_wgmma(1): all but the newest are done, so the slot before this one is.
Retire(c) ==
    /\ at(c, "retire") /\ Len(mmas[c]) <= 1
    /\ empty' = [empty EXCEPT ![prev[c]] = Arrived(@, EmptyCount)]
    /\ Advance(c)
    /\ UNCHANGED <<producing, smem, mmas, acc, full>>

\* Bug: the last instruction of a tile is not waited for.
DrainUnwaited(c) ==
    /\ at(c, "drain") /\ Len(mmas[c]) <= 1
    /\ empty' = [empty EXCEPT ![prev[c]] = Arrived(@, EmptyCount)]
    /\ Goto(c, "epilogue")
    /\ UNCHANGED <<gi, producing, consuming, smem, mmas, acc, full>>

Drain(c) ==
    /\ at(c, "drain") /\ mmas[c] = <<>>
    /\ empty' = [empty EXCEPT ![prev[c]] = Arrived(@, EmptyCount)]
    /\ Goto(c, "epilogue")
    /\ UNCHANGED <<gi, producing, consuming, smem, mmas, acc, full>>

Store(c) ==
    /\ at(c, "epilogue")
    /\ ki' = [ki EXCEPT ![c] = 0]
    /\ Goto(c, "wait")
    /\ UNCHANGED <<gi, producing, prev, smem, mmas, acc, full, empty>>

\* A matrix instruction reads its slot; the first of a tile overwrites the accumulator.
MmaLands(c) ==
    /\ mmas[c] # <<>>
    /\ LET mma == Head(mmas[c])
           read == smem[mma.step % NumStages]
       IN acc' = [acc EXCEPT ![c] = IF mma.clear THEN <<read>> ELSE Append(@, read)]
    /\ mmas' = [mmas EXCEPT ![c] = Tail(@)]
    /\ UNCHANGED <<pc, gi, producing, consuming, smem, full, empty>>

-----------------------------------------------------------------------------
Finished == \A w \in Warps : at(w, "wait") /\ gi[w] = Total

ProducerStep(p) == ProducerWait(p) \/ ProducerArrive(p)
LeaderCopies == \E op \in Operands : TmaCopy(op)
ConsumerStep(c) == ConsumerWait(c) \/ Mma(c) \/ Retire(c) \/ Drain(c) \/ Store(c)
CopyEngine == \E copy \in flying : CopyLands(copy)

Next ==
    \/ \E p \in Producers : ProducerStep(p)
    \/ LeaderCopies
    \/ \E c \in Consumers : ConsumerStep(c) \/ MmaLands(c)
    \/ CopyEngine

\* The scheduler runs every warp that can run, and the engines finish what they began.
Fairness ==
    /\ \A p \in Producers : WF_vars(ProducerStep(p))
    /\ WF_vars(LeaderCopies)
    /\ \A c \in Consumers : WF_vars(ConsumerStep(c)) /\ WF_vars(MmaLands(c))
    /\ WF_vars(CopyEngine)

Spec == Init /\ [][Next]_vars
FairSpec == Spec /\ Fairness

-----------------------------------------------------------------------------
Copies == [op : Operands, slot : Slots, step : Steps]
Barriers == [phase : Nat, arrived : Nat, tx : Nat]

Types ==
    /\ pc \in [Warps -> {"wait", "tma", "arrive", "mma", "retire", "drain", "epilogue"}]
    /\ gi \in [Warps -> 0 .. Total]
    /\ issued \in SUBSET Operands /\ flying \in SUBSET Copies
    /\ ki \in [Consumers -> 0 .. KIters] /\ prev \in [Consumers -> Slots]
    /\ smem \in [Slots -> [Operands -> Steps \cup {NoStep}]]
    /\ mmas \in [Consumers -> Seq([step : Steps, clear : BOOLEAN])]
    /\ acc \in [Consumers -> Seq([Operands -> Steps \cup {NoStep}])]
    /\ full \in [Slots -> Barriers] /\ empty \in [Slots -> Barriers]

\* Types: no barrier gets a landing it does not expect or an arrival too many.
TypeOK ==
    /\ Types
    /\ \A s \in Slots : full[s].arrived <= FullCount /\ empty[s].arrived < EmptyCount

\* A parity decides every wait as the number of the round would: no barrier is a whole
\* period ahead of, or behind, who waits on it (dense.py:1902, 1934, 1980).
ParityTellsRounds ==
    /\ \A p \in Producers : at(p, "wait") =>
         LET b == empty[slot(p)] IN Passes(b, 1 - phase(p)) <=> b.phase >= round(p)
    /\ \A c \in Consumers : at(c, "wait") =>
         LET b == full[slot(c)] IN Passes(b, phase(c)) <=> b.phase > round(c)

\* No copy is on its way to a slot a matrix instruction in flight reads (dense.py:1945,
\* where a slot is released one step after its own).
NoOverwrite ==
    \A copy \in flying, c \in Consumers :
        \A i \in DOMAIN mmas[c] : copy.slot # mmas[c][i].step % NumStages

\* The sum of n steps from b on, each of its own boxes.
Sums(b, n) == [i \in 1 .. n |-> [op \in Operands |-> b + i - 1]]

\* What a consumer stores sums every step of its tile once, in order (dense.py:1948).
TileComplete ==
    \A c \in Consumers : at(c, "epilogue") => acc[c] = Sums(gi[c] - KIters, KIters)

\* The barriers are a window of num_stages steps (StepStream), of which a step counts as
\* ready once its phase of "full" is over, and as taken once its slot is released.
Ready == {i \in Steps : full[i % NumStages].phase > i \div NumStages}
Taken(c) == IF at(c, "epilogue") \/ ki[c] = 0 THEN gi[c] ELSE gi[c] - 1

Stream == INSTANCE StepStream
            WITH Window <- NumStages, ready <- Ready, taken <- [c \in Consumers |-> Taken(c)]
Streams == Stream!Spec

\* Every tile is finished: producer and consumers never wait for each other
\* (dense.py:1902, 1934).
Finishes == <>Finished

-----------------------------------------------------------------------------
\* Why.  Count the visits a step counter has made to a slot: who stages is at most one
\* phase of "full" ahead, who releases at most one of "empty", and "full" is level with
\* "empty" or one ahead of it, so everyone is within one phase of what it waits for.
Visits(n, s) == (n \div NumStages) + (IF s < n % NumStages THEN 1 ELSE 0)

Staging(s) == {p \in Producers : Visits(gi[p], s) = full[s].phase + 1}
Releasing(s) == {c \in Consumers : Visits(Taken(c), s) = empty[s].phase + 1}
FlyingTo(s) == {copy \in flying : copy.slot = s}

BarrierInv(s) ==
    /\ \A p \in Producers : /\ Visits(gi[p], s) \in {full[s].phase, full[s].phase + 1}
                            /\ Visits(gi[p], s) <= empty[s].phase + 1
    /\ full[s].arrived = Cardinality(Staging(s))
    /\ full[s].tx = Cardinality(FlyingTo(s))
    /\ full[s].arrived < FullCount \/ full[s].tx > 0
    /\ \A c \in Consumers : Visits(Taken(c), s) \in {empty[s].phase, empty[s].phase + 1}
    /\ empty[s].arrived = Cardinality(Releasing(s))
    /\ empty[s].arrived < EmptyCount /\ empty[s].tx = 0
    /\ full[s].phase \in {empty[s].phase, empty[s].phase + 1}

\* The boxes of a step whose copies were begun; each is on its way or has landed, as long
\* as the slot is not released.
Staged(g) ==
    IF g < gi[Leader] \/ (g = gi[Leader] /\ at(Leader, "arrive")) THEN Operands
    ELSE IF g = gi[Leader] THEN issued ELSE {}

Copy(g, op) == [op |-> op, slot |-> g % NumStages, step |-> g]

StagingInv ==
    /\ IsFiniteSet(flying)
    /\ \A copy \in flying :
         /\ copy = Copy(copy.step, copy.op) /\ copy.op \in Staged(copy.step)
         /\ full[copy.slot].phase = copy.step \div NumStages
         /\ empty[copy.slot].phase = copy.step \div NumStages
    /\ \A g \in Steps : empty[g % NumStages].phase = g \div NumStages =>
         \A op \in Staged(g) : Copy(g, op) \in flying \/ smem[g % NumStages][op] = g
    /\ issued # {} => at(Leader, "tma")
    /\ \A p \in Producers :
         /\ at(p, "tma") => p = Leader
         /\ pc[p] \in {"wait", "tma", "arrive"}
         /\ ~at(p, "wait") => gi[p] < Total /\ empty[slot(p)].phase >= round(p)

Begun(c) == IF at(c, "retire") THEN gi[c] + 1 ELSE gi[c]

Base(c) == gi[c] - ki[c]
Oldest(c) == Begun(c) - Len(mmas[c])

\* The instructions in flight are the newest of the tile; the accumulator sums the others.
MmaInv(c) ==
    /\ Len(mmas[c]) <= Begun(c) - Taken(c)
    /\ \A i \in 1 .. Len(mmas[c]) :
         /\ mmas[c][i].step = Oldest(c) + i - 1
         /\ mmas[c][i].clear <=> Oldest(c) + i - 1 = Base(c)
    /\ Oldest(c) > Base(c) => acc[c] = Sums(Base(c), Oldest(c) - Base(c))

ConsumerInv(c) ==
    /\ pc[c] \in {"wait", "mma", "retire", "drain", "epilogue"}
    /\ ki[c] <= gi[c]
    /\ at(c, "wait") \/ at(c, "mma") => ki[c] < KIters
    /\ at(c, "retire") => ki[c] \in 1 .. KIters - 1
    /\ at(c, "drain") \/ at(c, "epilogue") => ki[c] = KIters
    /\ at(c, "mma") \/ at(c, "retire") => gi[c] < Total /\ full[slot(c)].phase > round(c)
    /\ Taken(c) < gi[c] => prev[c] = Taken(c) % NumStages
    /\ \A s \in Slots : Visits(gi[c], s) <= full[s].phase
    /\ MmaInv(c)

PipelineInv ==
    /\ \A s \in Slots : BarrierInv(s)
    /\ StagingInv
    /\ \A c \in Consumers : ConsumerInv(c)
=============================================================================
