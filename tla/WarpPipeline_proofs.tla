------------------------- MODULE WarpPipeline_proofs -------------------------
(***************************************************************************)
(* For any number of producers, consumers, operands, slots, steps and      *)
(* tiles: the parities decide as the round numbers would, no slot is       *)
(* written while it is read, every stored tile is whole, the barriers      *)
(* implement the window of StepStream, and nobody waits for ever unless a  *)
(* ring of one slot has to hold several steps.                             *)
(***************************************************************************)
EXTENDS WarpPipeline, FiniteSetTheorems, WellFoundedInduction, TLAPS

LEMMA TotalNat == Total \in Nat
BY PipelineAssumption DEF Total

-----------------------------------------------------------------------------
(* Rounds and slots of a step counter.                                      *)

LEMMA DivMod ==
    ASSUME NEW g \in Nat
    PROVE  g % NumStages \in Slots /\ g \div NumStages \in Nat
           /\ g = NumStages * (g \div NumStages) + (g % NumStages)
<1>1. g % NumStages \in Slots
  BY PipelineAssumption DEF Slots
<1>2. g = NumStages * (g \div NumStages) + (g % NumStages)
  BY PipelineAssumption
<1>3. g \div NumStages \in Nat
  BY PipelineAssumption
<1>4. QED
  BY <1>1, <1>2, <1>3

LEMMA QuotientBound ==
    ASSUME NEW q \in Int, NEW r \in Slots, NEW p \in Int, NEW t \in Slots,
           NumStages * q + r <= NumStages * p + t
    PROVE  q <= p
<1>1. NumStages * (q - p) <= t - r
  BY PipelineAssumption DEF Slots
<1>2. SUFFICES ASSUME q - p >= 1 PROVE FALSE
  OBVIOUS
<1>3. NumStages * (q - p) >= NumStages
  BY <1>2, PipelineAssumption
<1>4. QED
  BY <1>1, <1>3, PipelineAssumption DEF Slots

LEMMA Decompose ==
    ASSUME NEW q \in Nat, NEW r \in Slots
    PROVE  (NumStages * q + r) \div NumStages = q /\ (NumStages * q + r) % NumStages = r
<1> DEFINE g == NumStages * q + r
<1>1. g \in Nat
  BY PipelineAssumption DEF Slots
<1> HIDE DEF g
<1>2. g % NumStages \in Slots /\ g \div NumStages \in Nat
      /\ NumStages * (g \div NumStages) + (g % NumStages) = NumStages * q + r
  <2>1. g = NumStages * q + r
    BY DEF g
  <2>2. QED
    BY <1>1, <2>1, DivMod
<1>3. g \div NumStages = q
  <2>1. g \div NumStages <= q
    BY <1>2, QuotientBound, PipelineAssumption DEF Slots
  <2>2. q <= g \div NumStages
    BY <1>2, QuotientBound, PipelineAssumption DEF Slots
  <2>3. QED
    BY <1>2, <2>1, <2>2
<1>4. g % NumStages = r
  BY <1>2, <1>3, PipelineAssumption DEF Slots
<1>5. QED
  BY <1>3, <1>4 DEF g

LEMMA SameStep ==
    ASSUME NEW g \in Nat, NEW h \in Nat, g % NumStages = h % NumStages,
           g \div NumStages = h \div NumStages
    PROVE  g = h
BY DivMod

LEMMA VisitsNat ==
    ASSUME NEW n \in Nat, NEW s \in Slots
    PROVE  Visits(n, s) \in Nat
BY DivMod DEF Visits

LEMMA VisitsSelf ==
    ASSUME NEW n \in Nat
    PROVE  Visits(n, n % NumStages) = n \div NumStages
BY DivMod, PipelineAssumption DEF Visits, Slots

\* A step visits its own slot.
LEMMA VisitsNext ==
    ASSUME NEW n \in Nat, NEW s \in Slots
    PROVE  Visits(n + 1, s) = Visits(n, s) + (IF s = n % NumStages THEN 1 ELSE 0)
<1> DEFINE q == n \div NumStages
           r == n % NumStages
<1>1. q \in Nat /\ r \in Slots /\ n = NumStages * q + r
  BY DivMod
<1> HIDE DEF q, r
<1>2. CASE r + 1 < NumStages
  <2>1. r + 1 \in Slots /\ n + 1 = NumStages * q + (r + 1)
    BY <1>1, <1>2, PipelineAssumption DEF Slots
  <2>2. (n + 1) \div NumStages = q /\ (n + 1) % NumStages = r + 1
    BY <1>1, <2>1, Decompose
  <2>3. Visits(n + 1, s) = q + (IF s < r + 1 THEN 1 ELSE 0)
    BY <2>2 DEF Visits
  <2>4. Visits(n, s) = q + (IF s < r THEN 1 ELSE 0)
    BY DEF Visits, q, r
  <2>5. QED
    BY <1>1, <2>3, <2>4, PipelineAssumption DEF Slots, r
<1>3. CASE r + 1 = NumStages
  <2>1. 0 \in Slots /\ n + 1 = NumStages * (q + 1) + 0
    BY <1>1, <1>3, PipelineAssumption DEF Slots
  <2>2. (n + 1) \div NumStages = q + 1 /\ (n + 1) % NumStages = 0
    BY <1>1, <2>1, Decompose
  <2>3. Visits(n + 1, s) = q + 1
    BY <2>2, <1>1, PipelineAssumption DEF Visits, Slots
  <2>4. Visits(n, s) = q + (IF s < r THEN 1 ELSE 0)
    BY DEF Visits, q, r
  <2>5. QED
    BY <1>1, <1>3, <2>3, <2>4, PipelineAssumption DEF Slots, r
<1>4. QED
  BY <1>1, <1>2, <1>3, PipelineAssumption DEF Slots

LEMMA VisitsMonotone ==
    ASSUME NEW m \in Nat, NEW n \in Nat, m <= n, NEW s \in Slots
    PROVE  Visits(m, s) <= Visits(n, s)
<1>1. /\ m \div NumStages \in Nat /\ m % NumStages \in Slots
      /\ n \div NumStages \in Nat /\ n % NumStages \in Slots
  BY DivMod
<1>2. NumStages * (m \div NumStages) + (m % NumStages)
        <= NumStages * (n \div NumStages) + (n % NumStages)
  BY DivMod
<1>3. m \div NumStages <= n \div NumStages
  BY <1>1, <1>2, QuotientBound, PipelineAssumption
<1>4. CASE m \div NumStages = n \div NumStages
  BY <1>1, <1>2, <1>4, PipelineAssumption DEF Visits, Slots
<1>5. CASE m \div NumStages < n \div NumStages
  BY <1>1, <1>5, PipelineAssumption DEF Visits, Slots
<1>6. QED
  BY <1>1, <1>3, <1>4, <1>5

\* Who has made as many visits as step g before it is within a window of it.
LEMMA WithinWindow ==
    ASSUME NEW m \in Nat, NEW g \in Nat, Visits(m, g % NumStages) >= g \div NumStages
    PROVE  g < m + NumStages
<1> DEFINE s == g % NumStages
           q == m \div NumStages
           r == m % NumStages
<1>1. s \in Slots /\ q \in Nat /\ r \in Slots /\ m = NumStages * q + r
  BY DivMod
<1> HIDE DEF q, r, s
<1>2. m + NumStages = NumStages * (q + 1) + r
  BY <1>1, PipelineAssumption DEF Slots
<1>3. (m + NumStages) \div NumStages = q + 1 /\ (m + NumStages) % NumStages = r
  BY <1>1, <1>2, Decompose
<1>4. Visits(m + NumStages, s) = Visits(m, s) + 1
  BY <1>1, <1>3, PipelineAssumption DEF Visits, Slots, q, r
<1>5. SUFFICES ASSUME m + NumStages <= g PROVE FALSE
  BY PipelineAssumption
<1>6. Visits(m + NumStages, s) <= g \div NumStages
  BY <1>1, <1>5, VisitsMonotone, VisitsSelf, PipelineAssumption DEF s
<1>7. QED
  BY <1>1, <1>4, <1>6, VisitsNat, DivMod DEF s

-----------------------------------------------------------------------------
(* What the invariant says of one warp and the slot it is at.               *)

IInv == Types /\ PipelineInv

LEMMA TakenNat ==
    ASSUME Types, NEW c \in Consumers, ConsumerInv(c)
    PROVE  Taken(c) \in Nat /\ Taken(c) <= gi[c] /\ gi[c] \in Nat /\ ki[c] \in Nat
<1>1. gi[c] \in Nat /\ ki[c] \in Nat /\ ki[c] <= gi[c]
  BY TotalNat, PipelineAssumption DEF Types, Warps, ConsumerInv
<1>2. QED
  BY <1>1 DEF Taken

LEMMA BarrierTypes ==
    ASSUME Types, NEW s \in Slots
    PROVE  /\ full[s] \in Barriers /\ empty[s] \in Barriers
           /\ full[s].phase \in Nat /\ full[s].arrived \in Nat /\ full[s].tx \in Nat
           /\ empty[s].phase \in Nat /\ empty[s].arrived \in Nat /\ empty[s].tx \in Nat
BY DEF Types, Barriers

LEMMA ProducerTypes ==
    ASSUME Types, NEW p \in Producers
    PROVE  /\ gi[p] \in Nat /\ slot(p) \in Slots /\ round(p) \in Nat
           /\ Visits(gi[p], slot(p)) = round(p)
<1>1. gi[p] \in Nat
  BY TotalNat DEF Types, Warps
<1>2. QED
  BY <1>1, DivMod, VisitsSelf DEF slot, round

LEMMA ConsumerTypes ==
    ASSUME Types, NEW c \in Consumers
    PROVE  /\ gi[c] \in Nat /\ slot(c) \in Slots /\ round(c) \in Nat
           /\ Visits(gi[c], slot(c)) = round(c)
<1>1. gi[c] \in Nat
  BY TotalNat DEF Types, Warps
<1>2. QED
  BY <1>1, DivMod, VisitsSelf DEF slot, round

LEMMA SequenceShape ==
    ASSUME NEW X, NEW q \in Seq(X)
    PROVE  Len(q) \in Nat /\ DOMAIN q = 1 .. Len(q)
OBVIOUS

LEMMA MmaTypes ==
    ASSUME Types, NEW c \in Consumers
    PROVE  /\ mmas[c] \in Seq([step : Steps, clear : BOOLEAN])
           /\ acc[c] \in Seq([Operands -> Steps \cup {NoStep}])
           /\ Len(mmas[c]) \in Nat /\ DOMAIN mmas[c] = 1 .. Len(mmas[c])
<1>1. /\ mmas[c] \in Seq([step : Steps, clear : BOOLEAN])
      /\ acc[c] \in Seq([Operands -> Steps \cup {NoStep}])
  <2> DEFINE M == Seq([step : Steps, clear : BOOLEAN])
             A == Seq([Operands -> Steps \cup {NoStep}])
  <2>1. mmas \in [Consumers -> M] /\ acc \in [Consumers -> A]
    BY DEF Types
  <2> HIDE DEF M, A
  <2>2. mmas[c] \in M /\ acc[c] \in A
    BY <2>1
  <2>3. QED
    BY <2>2 DEF M, A
<1>2. QED
  BY <1>1, SequenceShape

\* A producer past its wait is at the phase both barriers are in, and has yet to arrive.
LEMMA ProducerLevel ==
    ASSUME IInv, NEW p \in Producers, ~at(p, "wait")
    PROVE  /\ full[slot(p)].phase = round(p) /\ empty[slot(p)].phase = round(p)
           /\ p \notin Staging(slot(p)) /\ gi[p] < Total
<1>1. BarrierInv(slot(p)) /\ StagingInv
  BY ProducerTypes DEF IInv, PipelineInv
<1>2. empty[slot(p)].phase >= round(p) /\ gi[p] < Total
  BY <1>1 DEF StagingInv
<1>3. round(p) \in {full[slot(p)].phase, full[slot(p)].phase + 1}
  BY <1>1, ProducerTypes DEF BarrierInv, IInv
<1>4. full[slot(p)].phase \in {empty[slot(p)].phase, empty[slot(p)].phase + 1}
  BY <1>1 DEF BarrierInv
<1>5. full[slot(p)].phase = round(p) /\ empty[slot(p)].phase = round(p)
  BY <1>2, <1>3, <1>4, ProducerTypes, BarrierTypes DEF IInv
<1>6. QED
  BY <1>2, <1>5, ProducerTypes, BarrierTypes DEF IInv, Staging

\* A slot a consumer has yet to release is full, and none but it and the others that have
\* yet to release it keep it so.
LEMMA ConsumerHolds ==
    ASSUME IInv, NEW c \in Consumers, Taken(c) < gi[c]
    PROVE  LET s == Taken(c) % NumStages IN
           /\ s \in Slots /\ prev[c] = s /\ c \notin Releasing(s)
           /\ Visits(Taken(c), s) = empty[s].phase
           /\ Taken(c) \div NumStages = empty[s].phase
           /\ full[s].phase = empty[s].phase + 1
<1> DEFINE s == Taken(c) % NumStages
<1>1. Types /\ ConsumerInv(c)
  BY DEF IInv, PipelineInv
<1>2. Taken(c) \in Nat /\ gi[c] \in Nat
  BY <1>1, TakenNat
<1>3. s \in Slots /\ Visits(Taken(c), s) = Taken(c) \div NumStages
      /\ Taken(c) \div NumStages \in Nat
  BY <1>2, DivMod, VisitsSelf
<1>4. full[s].phase > Taken(c) \div NumStages /\ prev[c] = s
  <2>1. Visits(Taken(c) + 1, s) = Taken(c) \div NumStages + 1
    BY <1>2, <1>3, VisitsNext
  <2>2. Taken(c) + 1 \in Nat /\ Taken(c) + 1 <= gi[c]
    BY <1>2
  <2>3. Visits(Taken(c) + 1, s) <= Visits(gi[c], s)
    BY <1>2, <1>3, <2>2, VisitsMonotone
  <2>4. Visits(gi[c], s) <= full[s].phase /\ prev[c] = s
    BY <1>1, <1>3 DEF ConsumerInv
  <2>5. QED
    BY <1>1, <1>2, <1>3, <2>1, <2>3, <2>4, VisitsNat, BarrierTypes
<1>5. BarrierInv(s)
  BY <1>3 DEF IInv, PipelineInv
<1> HIDE DEF s
<1>6. Visits(Taken(c), s) \in {empty[s].phase, empty[s].phase + 1}
      /\ full[s].phase \in {empty[s].phase, empty[s].phase + 1}
  BY <1>5 DEF BarrierInv
<1>7. full[s].phase \in Nat /\ empty[s].phase \in Nat
  BY <1>1, <1>3, BarrierTypes
<1>8. Visits(Taken(c), s) = empty[s].phase /\ full[s].phase = empty[s].phase + 1
  BY <1>3, <1>4, <1>6, <1>7
<1>9. c \notin Releasing(s)
  BY <1>7, <1>8 DEF Releasing
<1>10. QED
  BY <1>3, <1>4, <1>8, <1>9 DEF s

-----------------------------------------------------------------------------
(* The properties follow.                                                   *)

LEMMA Parities ==
    ASSUME IInv
    PROVE  ParityTellsRounds
<1>1. ASSUME NEW p \in Producers
      PROVE  Passes(empty[slot(p)], 1 - phase(p)) <=> empty[slot(p)].phase >= round(p)
  <2> DEFINE e == empty[slot(p)].phase
             f == full[slot(p)].phase
             r == round(p)
  <2>1. BarrierInv(slot(p)) /\ e \in Nat /\ f \in Nat /\ r \in Nat /\ Visits(gi[p], slot(p)) = r
    BY ProducerTypes, BarrierTypes DEF IInv, PipelineInv
  <2>2. r \in {f, f + 1} /\ f \in {e, e + 1} /\ r <= e + 1
    BY <2>1 DEF BarrierInv
  <2> HIDE DEF e, f, r
  <2>3. r = e \/ r = e + 1
    BY <2>1, <2>2
  <2>4. e % 2 # 1 - (r % 2) <=> e >= r
    BY <2>1, <2>3
  <2>5. QED
    BY <2>4 DEF Passes, phase, e, r
<1>2. ASSUME NEW c \in Consumers
      PROVE  Passes(full[slot(c)], phase(c)) <=> full[slot(c)].phase > round(c)
  <2> DEFINE e == empty[slot(c)].phase
             f == full[slot(c)].phase
             r == round(c)
             t == Visits(Taken(c), slot(c))
  <2>1. /\ BarrierInv(slot(c)) /\ ConsumerInv(c) /\ slot(c) \in Slots
        /\ e \in Nat /\ f \in Nat /\ r \in Nat /\ Visits(gi[c], slot(c)) = r
    BY ConsumerTypes, BarrierTypes DEF IInv, PipelineInv
  <2>2. f \in {e, e + 1} /\ t \in {e, e + 1} /\ r <= f
    BY <2>1 DEF BarrierInv, ConsumerInv
  <2>3. t <= r /\ t \in Nat
    BY <2>1, TakenNat, VisitsMonotone, VisitsNat DEF IInv
  <2> HIDE DEF e, f, r, t
  <2>4. f = r \/ f = r + 1
    BY <2>1, <2>2, <2>3
  <2>5. f % 2 # r % 2 <=> f > r
    BY <2>1, <2>4
  <2>6. QED
    BY <2>5 DEF Passes, phase, f, r
<1>3. QED
  BY <1>1, <1>2 DEF ParityTellsRounds

LEMMA NothingOverwritten ==
    ASSUME IInv
    PROVE  NoOverwrite
<1> SUFFICES ASSUME NEW copy \in flying, NEW c \in Consumers, NEW i \in DOMAIN mmas[c],
                    copy.slot = mmas[c][i].step % NumStages
             PROVE  FALSE
  BY DEF NoOverwrite
<1> DEFINE g == Oldest(c) + i - 1
           s == g % NumStages
<1>1. Types /\ StagingInv /\ ConsumerInv(c)
  BY DEF IInv, PipelineInv
<1>2. i \in 1 .. Len(mmas[c]) /\ Len(mmas[c]) \in Nat
  BY <1>1, MmaTypes
<1>3. mmas[c][i].step = g /\ Len(mmas[c]) <= Begun(c) - Taken(c)
  BY <1>1, <1>2 DEF ConsumerInv, MmaInv
<1>4. Taken(c) \in Nat /\ gi[c] \in Nat /\ Begun(c) \in Nat
  BY <1>1, TakenNat DEF Begun
<1>5. g \in Nat /\ Taken(c) <= g /\ g < Begun(c)
  BY <1>2, <1>3, <1>4, SMTT(30) DEF Oldest
<1> HIDE DEF g
<1>6. s \in Slots /\ g \div NumStages \in Nat /\ Visits(g, s) = g \div NumStages
  BY <1>5, DivMod, VisitsSelf
<1>7. full[s].phase > g \div NumStages
  <2>1. CASE g < gi[c]
    <3>1. Visits(g + 1, s) = g \div NumStages + 1
      BY <1>5, <1>6, VisitsNext
    <3>2. Visits(g + 1, s) <= Visits(gi[c], s)
      BY <1>4, <1>5, <1>6, <2>1, VisitsMonotone
    <3>3. Visits(gi[c], s) <= full[s].phase
      BY <1>1, <1>6 DEF ConsumerInv
    <3>4. QED
      BY <1>1, <1>4, <1>6, <3>1, <3>2, <3>3, VisitsNat, BarrierTypes
  <2>2. CASE g = gi[c]
    BY <1>1, <1>4, <1>5, <2>2 DEF ConsumerInv, Begun, slot, round
  <2>3. QED
    BY <1>4, <1>5, <2>1, <2>2 DEF Begun
<1>8. copy.slot = s
  BY <1>3
<1>9. full[s].phase = empty[s].phase /\ BarrierInv(s)
  BY <1>1, <1>6, <1>8 DEF StagingInv, IInv, PipelineInv
<1>10. empty[s].phase <= Visits(Taken(c), s)
  BY <1>1, <1>4, <1>6, <1>9, VisitsNat, BarrierTypes DEF BarrierInv
<1>11. Visits(Taken(c), s) <= Visits(g, s)
  BY <1>4, <1>5, <1>6, VisitsMonotone
<1>12. QED
  BY <1>1, <1>4, <1>6, <1>7, <1>9, <1>10, <1>11, VisitsNat, BarrierTypes

LEMMA TilesWhole ==
    ASSUME IInv
    PROVE  TileComplete
<1> SUFFICES ASSUME NEW c \in Consumers, at(c, "epilogue")
             PROVE  acc[c] = Sums(gi[c] - KIters, KIters)
  BY DEF TileComplete
<1>1. Types /\ ConsumerInv(c) /\ MmaInv(c)
  BY DEF IInv, PipelineInv, ConsumerInv
<1>2. ki[c] = KIters /\ Taken(c) = gi[c] /\ Begun(c) = gi[c] /\ gi[c] \in Nat
  BY <1>1, TakenNat DEF ConsumerInv, Taken, Begun, at
<1>3. Len(mmas[c]) \in Nat /\ Len(mmas[c]) <= Begun(c) - Taken(c)
  BY <1>1, MmaTypes DEF MmaInv
<1>4. Oldest(c) = gi[c] /\ Base(c) = gi[c] - KIters
  BY <1>2, <1>3 DEF Oldest, Base
<1>5. Oldest(c) > Base(c) /\ Oldest(c) - Base(c) = KIters
  BY <1>2, <1>4, PipelineAssumption
<1>6. QED
  BY <1>1, <1>4, <1>5 DEF MmaInv

LEMMA CountsBounded ==
    ASSUME IInv
    PROVE  TypeOK
<1>1. ASSUME NEW s \in Slots PROVE full[s].arrived <= FullCount
  <2>1. Staging(s) \subseteq Producers /\ full[s].arrived = Cardinality(Staging(s))
    BY DEF IInv, PipelineInv, BarrierInv, Staging
  <2>2. QED
    BY <2>1, FS_Subset, PipelineAssumption DEF FullCount
<1>2. QED
  BY <1>1 DEF TypeOK, IInv, PipelineInv, BarrierInv

-----------------------------------------------------------------------------
(* One barrier, one event: arrivals, landings, releases.                    *)

LEMMA OneMore ==
    ASSUME NEW S, IsFiniteSet(S), NEW T \in SUBSET S, NEW x \in S, x \notin T
    PROVE  /\ Cardinality(T) \in Nat /\ Cardinality(S) \in Nat
           /\ Cardinality(T \cup {x}) = Cardinality(T) + 1
           /\ Cardinality(T) + 1 <= Cardinality(S)
           /\ Cardinality(T) + 1 = Cardinality(S) => T \cup {x} = S
<1>1. IsFiniteSet(T) /\ IsFiniteSet(T \cup {x}) /\ Cardinality(T \cup {x}) = Cardinality(T) + 1
  BY FS_Subset, FS_AddElement
<1>2. T \cup {x} \in SUBSET S
  OBVIOUS
<1>3. Cardinality(T \cup {x}) <= Cardinality(S)
      /\ (Cardinality(S) = Cardinality(T \cup {x}) => S = T \cup {x})
  BY <1>2, FS_Subset
<1>4. QED
  BY <1>1, <1>3, FS_CardinalityType

LEMMA TakenSame ==
    ASSUME NEW c \in Consumers, gi'[c] = gi[c], ki'[c] = ki[c], pc'[c] = pc[c]
    PROVE  Taken(c)' = Taken(c)
BY DEF Taken, at

\* A slot nothing happens to.
LEMMA BarrierSame ==
    ASSUME NEW s \in Slots, BarrierInv(s), full'[s] = full[s], empty'[s] = empty[s],
           FlyingTo(s)' = FlyingTo(s),
           \A p \in Producers : Visits(gi'[p], s) = Visits(gi[p], s),
           \A c \in Consumers : Visits(Taken(c)', s) = Visits(Taken(c), s)
    PROVE  BarrierInv(s)'
<1>1. Staging(s)' = Staging(s)
  BY DEF Staging
<1>2. Releasing(s)' = Releasing(s)
  BY DEF Releasing
<1>3. QED
  BY <1>1, <1>2 DEF BarrierInv

\* The empty barrier, with its producers and consumers, is left alone.
LEMMA FullEvent ==
    ASSUME NEW s \in Slots, BarrierInv(s), Types, full'[s] \in Barriers, empty'[s] = empty[s],
           full'[s].arrived = Cardinality(Staging(s)'),
           full'[s].tx = Cardinality(FlyingTo(s)'),
           full'[s].arrived < FullCount \/ full'[s].tx > 0,
           full'[s].phase \in {empty[s].phase, empty[s].phase + 1},
           \A p \in Producers : /\ Visits(gi'[p], s) \in {full'[s].phase, full'[s].phase + 1}
                                /\ Visits(gi'[p], s) <= empty[s].phase + 1,
           \A c \in Consumers : Visits(Taken(c)', s) = Visits(Taken(c), s)
    PROVE  BarrierInv(s)'
<1>1. Releasing(s)' = Releasing(s)
  BY DEF Releasing
<1>2. FullCount' = FullCount /\ EmptyCount' = EmptyCount
  BY DEF FullCount, EmptyCount
<1>3. QED
  BY <1>1, <1>2 DEF BarrierInv

LEMMA FlyingFinite ==
    ASSUME StagingInv, NEW s \in Slots
    PROVE  IsFiniteSet(FlyingTo(s)) /\ Cardinality(FlyingTo(s)) \in Nat
<1>1. FlyingTo(s) \in SUBSET flying /\ IsFiniteSet(flying)
  BY DEF FlyingTo, StagingInv
<1>2. QED
  BY <1>1, FS_Subset, FS_CardinalityType

LEMMA CompletedFields ==
    ASSUME NEW b \in Barriers, NEW count
    PROVE  /\ Arrived(b, count) = IF b.arrived + 1 = count /\ b.tx = 0
                                  THEN [phase |-> b.phase + 1, arrived |-> 0, tx |-> 0]
                                  ELSE [phase |-> b.phase, arrived |-> b.arrived + 1, tx |-> b.tx]
           /\ Landed(b, count) = IF b.arrived = count /\ b.tx - 1 = 0
                                 THEN [phase |-> b.phase + 1, arrived |-> 0, tx |-> 0]
                                 ELSE [phase |-> b.phase, arrived |-> b.arrived, tx |-> b.tx - 1]
           /\ Expecting(b) = [phase |-> b.phase, arrived |-> b.arrived, tx |-> b.tx + 1]
BY DEF Barriers, Arrived, Landed, Completed, Expecting

LEMMA ProducerArriveBarrier ==
    ASSUME IInv, NEW p \in Producers, ProducerArrive(p), NEW s \in Slots
    PROVE  /\ BarrierInv(s)' /\ full'[s] \in Barriers /\ full'[s].phase >= full[s].phase
           /\ full'[s].phase # full[s].phase =>
                /\ s = slot(p) /\ FlyingTo(s)' = {} /\ Staging(s) \cup {p} = Producers
                /\ full'[s].phase = full[s].phase + 1
<1>1. Types /\ StagingInv /\ BarrierInv(s)
  BY DEF IInv, PipelineInv
<1>2. \A c \in Consumers : Taken(c)' = Taken(c)
  <2>1. \A c \in Consumers : gi'[c] = gi[c] /\ ki'[c] = ki[c] /\ pc'[c] = pc[c]
    BY <1>1, PipelineAssumption DEF ProducerArrive, Goto, consuming, Types, Warps
  <2>2. QED
    BY <2>1, TakenSame
<1>3. /\ gi'[p] = gi[p] + 1 /\ \A q \in Producers : q # p => gi'[q] = gi[q]
      /\ UNCHANGED <<flying, empty>> /\ FlyingTo(s)' = FlyingTo(s)
  BY <1>1 DEF ProducerArrive, Types, Warps, producing, FlyingTo
<1>4. CASE s # slot(p)
  <2>1. full'[s] = full[s]
    BY <1>4 DEF ProducerArrive
  <2>2. Visits(gi[p] + 1, s) = Visits(gi[p], s)
    BY <1>1, <1>4, VisitsNext, VisitsNat, ProducerTypes DEF slot
  <2>3. \A q \in Producers : Visits(gi'[q], s) = Visits(gi[q], s)
    BY <1>3, <2>2
  <2>4. QED
    BY <1>1, <1>2, <1>3, <2>1, <2>3, BarrierSame, BarrierTypes
<1>5. CASE s = slot(p)
  <2> DEFINE f == full[s].phase
             a == full[s].arrived
             t == full[s].tx
             T == Staging(s)
  <2>1. at(p, "arrive") /\ ~at(p, "wait")
    BY DEF ProducerArrive, at
  <2>2. round(p) = f /\ empty[s].phase = f /\ p \notin T /\ Visits(gi[p], s) = f
    BY <1>1, <1>5, <2>1, ProducerLevel, ProducerTypes
  <2>3. f \in Nat /\ a \in Nat /\ t \in Nat /\ full[s] \in Barriers
    BY <1>1, BarrierTypes
  <2>4. full'[s] = Arrived(full[s], FullCount)
    BY <1>1, <1>5 DEF ProducerArrive, Types
  <2>5. T \in SUBSET Producers /\ a = Cardinality(T) /\ t = Cardinality(FlyingTo(s))
    BY <1>1 DEF BarrierInv, Staging
  <2>6. /\ Cardinality(T \cup {p}) = a + 1 /\ a + 1 <= FullCount /\ FullCount \in Nat
        /\ a + 1 = FullCount => T \cup {p} = Producers
    BY <2>2, <2>5, OneMore, PipelineAssumption DEF FullCount
  <2>7. Visits(gi'[p], s) = f + 1
    BY <1>1, <1>3, <1>5, <2>2, VisitsNext, ProducerTypes DEF slot
  <2>8. \A q \in Producers : q # p => /\ Visits(gi'[q], s) \in {f, f + 1}
                                      /\ (Visits(gi'[q], s) = f + 1 <=> q \in T)
    BY <1>1, <1>3 DEF BarrierInv, Staging
  <2>9. CASE a + 1 = FullCount /\ t = 0
    <3>1. full'[s] = [phase |-> f + 1, arrived |-> 0, tx |-> 0]
      BY <2>3, <2>4, <2>9, CompletedFields
    <3>2. \A q \in Producers : Visits(gi'[q], s) = f + 1
      BY <2>6, <2>7, <2>8, <2>9
    <3>3. Staging(s)' = {}
      BY <2>3, <3>1, <3>2 DEF Staging
    <3>4. FullCount > 0
      BY <2>3, <2>6
    <3>5. /\ full'[s] \in Barriers /\ full'[s].phase = f + 1
          /\ full'[s].arrived = Cardinality(Staging(s)') /\ full'[s].arrived < FullCount
          /\ full'[s].tx = Cardinality(FlyingTo(s)')
      BY <1>3, <2>3, <2>5, <2>9, <3>1, <3>3, <3>4, FS_EmptySet DEF Barriers
    <3>6. BarrierInv(s)'
      BY <1>1, <1>2, <1>3, <2>2, <2>3, <3>2, <3>5, FullEvent
    <3>7. FlyingTo(s)' = {}
      BY <1>1, <1>3, <2>5, <2>9, FlyingFinite, FS_EmptySet
    <3>8. QED
      BY <1>5, <2>3, <2>6, <2>9, <3>5, <3>6, <3>7
  <2>10. CASE ~(a + 1 = FullCount /\ t = 0)
    <3>1. full'[s] = [phase |-> f, arrived |-> a + 1, tx |-> t]
      BY <2>3, <2>4, <2>10, CompletedFields
    <3>2. Staging(s)' = T \cup {p}
      BY <2>2, <2>3, <2>7, <2>8, <3>1 DEF Staging
    <3>3. /\ full'[s] \in Barriers /\ full'[s].phase = f
          /\ full'[s].arrived = Cardinality(Staging(s)')
          /\ full'[s].tx = Cardinality(FlyingTo(s)')
          /\ full'[s].arrived < FullCount \/ full'[s].tx > 0
      BY <1>3, <2>3, <2>5, <2>6, <2>10, <3>1, <3>2 DEF Barriers
    <3>4. \A q \in Producers : /\ Visits(gi'[q], s) \in {full'[s].phase, full'[s].phase + 1}
                               /\ Visits(gi'[q], s) <= empty[s].phase + 1
      BY <2>2, <2>3, <2>7, <2>8, <3>3
    <3>5. BarrierInv(s)'
      BY <1>1, <1>2, <1>3, <2>2, <2>3, <3>3, <3>4, FullEvent
    <3>6. QED
      BY <2>3, <3>3, <3>5
  <2>11. QED
    BY <2>9, <2>10
<1>6. QED
  BY <1>4, <1>5

LEMMA ConsumersApart ==
    ASSUME Types, NEW p \in Producers, NEW x, pc' = [pc EXCEPT ![p] = x], UNCHANGED consuming,
           \A c \in Consumers : gi'[c] = gi[c]
    PROVE  \A c \in Consumers : pc'[c] = pc[c] /\ Taken(c)' = Taken(c)
<1>1. \A c \in Consumers : pc'[c] = pc[c] /\ ki'[c] = ki[c]
  BY PipelineAssumption DEF Types, Warps, consuming
<1>2. QED
  BY <1>1, TakenSame

\* A box on its way to the slot the leader is at is one it has issued.
LEMMA NotYetIssued ==
    ASSUME IInv, NEW op, at(Leader, "tma"), op \notin issued
    PROVE  Copy(gi[Leader], op) \notin flying
<1>1. SUFFICES ASSUME Copy(gi[Leader], op) \in flying PROVE FALSE
  OBVIOUS
<1>2. op \in Staged(gi[Leader])
  BY <1>1 DEF IInv, PipelineInv, StagingInv, Copy
<1>3. gi[Leader] \in Nat
  BY ProducerTypes, PipelineAssumption DEF IInv
<1>4. Staged(gi[Leader]) = issued
  BY <1>3 DEF Staged, at
<1>5. QED
  BY <1>2, <1>4

LEMMA TmaCopyBarrier ==
    ASSUME IInv, NEW op \in Operands, TmaCopy(op), NEW s \in Slots
    PROVE  BarrierInv(s)' /\ full'[s] \in Barriers /\ full'[s].phase >= full[s].phase
<1>1. Types /\ StagingInv /\ BarrierInv(s) /\ Leader \in Producers
  BY PipelineAssumption DEF IInv, PipelineInv
<1>2. UNCHANGED <<gi, empty>> /\ \A c \in Consumers : Taken(c)' = Taken(c)
  BY <1>1, TakenSame, PipelineAssumption DEF TmaCopy, Goto, consuming, Types, Warps
<1>3. flying' = flying \cup {Copy(gi[Leader], op)} /\ Copy(gi[Leader], op) \notin flying
  BY NotYetIssued DEF TmaCopy, Copy, slot
<1>4. CASE s # slot(Leader)
  <2>1. full'[s] = full[s] /\ FlyingTo(s)' = FlyingTo(s)
    BY <1>3, <1>4 DEF TmaCopy, FlyingTo, Copy, slot
  <2>2. QED
    BY <1>1, <1>2, <2>1, BarrierSame, BarrierTypes
<1>5. CASE s = slot(Leader)
  <2> DEFINE f == full[s].phase
             a == full[s].arrived
             t == full[s].tx
  <2>1. f \in Nat /\ a \in Nat /\ t \in Nat /\ full[s] \in Barriers
    BY <1>1, BarrierTypes
  <2>2. full'[s] = [phase |-> f, arrived |-> a, tx |-> t + 1]
    BY <1>1, <1>5, <2>1, CompletedFields DEF TmaCopy, Types
  <2>3. FlyingTo(s)' = FlyingTo(s) \cup {Copy(gi[Leader], op)}
        /\ Copy(gi[Leader], op) \notin FlyingTo(s)
    BY <1>3, <1>5 DEF FlyingTo, Copy, slot
  <2>4. Cardinality(FlyingTo(s)') = t + 1
    <3> DEFINE F == FlyingTo(s)
               x == Copy(gi[Leader], op)
    <3>1. IsFiniteSet(F) /\ Cardinality(F) = t
      BY <1>1, FlyingFinite DEF BarrierInv
    <3>2. FlyingTo(s)' = F \cup {x} /\ x \notin F
      BY <2>3
    <3> HIDE DEF F, x, t
    <3>3. Cardinality(F \cup {x}) = Cardinality(F) + 1
      BY <3>1, <3>2, FS_AddElement
    <3>4. QED
      BY <3>1, <3>2, <3>3
  <2>5. Staging(s)' = Staging(s)
    BY <1>2, <2>2 DEF Staging
  <2>6. /\ full'[s] \in Barriers /\ full'[s].phase = f
        /\ full'[s].arrived = Cardinality(Staging(s)')
        /\ full'[s].tx = Cardinality(FlyingTo(s)')
        /\ full'[s].tx > 0
    BY <1>1, <2>1, <2>2, <2>4, <2>5 DEF Barriers, BarrierInv
  <2>7. BarrierInv(s)'
    BY <1>1, <1>2, <2>6, FullEvent DEF BarrierInv
  <2>8. QED
    BY <2>1, <2>6, <2>7
<1>6. QED
  BY <1>4, <1>5

LEMMA CopyLandsBarrier ==
    ASSUME IInv, NEW copy \in flying, CopyLands(copy), NEW s \in Slots
    PROVE  /\ BarrierInv(s)' /\ full'[s] \in Barriers /\ full'[s].phase >= full[s].phase
           /\ full'[s].phase # full[s].phase =>
                /\ s = copy.slot /\ FlyingTo(s)' = {} /\ Staging(s) = Producers
                /\ full'[s].phase = full[s].phase + 1
<1>1. Types /\ StagingInv /\ BarrierInv(s)
  BY DEF IInv, PipelineInv
<1>2. UNCHANGED <<gi, empty>> /\ \A c \in Consumers : Taken(c)' = Taken(c)
  BY <1>1, TakenSame DEF CopyLands, consuming
<1>3. flying' = flying \ {copy}
  BY DEF CopyLands
<1>4. CASE s # copy.slot
  <2>1. full'[s] = full[s] /\ FlyingTo(s)' = FlyingTo(s)
    BY <1>3, <1>4 DEF CopyLands, FlyingTo
  <2>2. QED
    BY <1>1, <1>2, <2>1, BarrierSame, BarrierTypes
<1>5. CASE s = copy.slot
  <2> DEFINE f == full[s].phase
             a == full[s].arrived
             t == full[s].tx
  <2>1. f \in Nat /\ a \in Nat /\ t \in Nat /\ full[s] \in Barriers
    BY <1>1, BarrierTypes
  <2>2. full'[s] = Landed(full[s], FullCount)
    BY <1>1, <1>5 DEF CopyLands, Types
  <2>3. FlyingTo(s)' = FlyingTo(s) \ {copy} /\ copy \in FlyingTo(s)
    BY <1>3, <1>5 DEF FlyingTo
  <2>4. /\ Cardinality(FlyingTo(s)') = t - 1 /\ t - 1 \in Nat /\ IsFiniteSet(FlyingTo(s)')
        /\ t = Cardinality(FlyingTo(s))
    <3>1. IsFiniteSet(FlyingTo(s)) /\ t = Cardinality(FlyingTo(s))
      BY <1>1, FlyingFinite DEF BarrierInv
    <3>2. IsFiniteSet(FlyingTo(s) \ {copy}) /\ Cardinality(FlyingTo(s) \ {copy}) = t - 1
      BY <2>3, <3>1, FS_RemoveElement
    <3>3. t - 1 \in Nat
      BY <3>2, FS_CardinalityType
    <3>4. QED
      BY <2>3, <3>1, <3>2, <3>3
  <2>5. empty[s].phase = f
    BY <1>1, <1>5 DEF StagingInv
  <2>6. Staging(s) \in SUBSET Producers /\ a = Cardinality(Staging(s))
    BY <1>1 DEF BarrierInv, Staging
  <2>7. a <= FullCount /\ (a = FullCount => Staging(s) = Producers) /\ FullCount \in Nat
        /\ FullCount > 0
    BY <2>6, FS_Subset, FS_CardinalityType, FS_EmptySet, PipelineAssumption DEF FullCount
  <2>8. CASE a = FullCount /\ t - 1 = 0
    <3>1. full'[s] = [phase |-> f + 1, arrived |-> 0, tx |-> 0]
      BY <2>1, <2>2, <2>8, CompletedFields
    <3>2. \A p \in Producers : Visits(gi[p], s) = f + 1
      BY <2>7, <2>8 DEF Staging
    <3>3. Staging(s)' = {}
      BY <1>2, <2>1, <3>1, <3>2 DEF Staging
    <3>4. /\ full'[s] \in Barriers /\ full'[s].phase = f + 1
          /\ full'[s].arrived = Cardinality(Staging(s)') /\ full'[s].arrived < FullCount
          /\ full'[s].tx = Cardinality(FlyingTo(s)')
      BY <2>1, <2>4, <2>7, <2>8, <3>1, <3>3, FS_EmptySet DEF Barriers
    <3>5. BarrierInv(s)'
      BY <1>1, <1>2, <2>1, <2>5, <3>2, <3>4, FullEvent
    <3>6. FlyingTo(s)' = {}
      BY <2>4, <2>8, FS_EmptySet
    <3>7. QED
      BY <1>5, <2>1, <2>7, <2>8, <3>4, <3>5, <3>6
  <2>9. CASE ~(a = FullCount /\ t - 1 = 0)
    <3>1. full'[s] = [phase |-> f, arrived |-> a, tx |-> t - 1]
      BY <2>1, <2>2, <2>9, CompletedFields
    <3>2. Staging(s)' = Staging(s)
      BY <1>2, <3>1 DEF Staging
    <3>3. /\ full'[s] \in Barriers /\ full'[s].phase = f
          /\ full'[s].arrived = Cardinality(Staging(s)')
          /\ full'[s].tx = Cardinality(FlyingTo(s)')
          /\ full'[s].arrived < FullCount \/ full'[s].tx > 0
      BY <2>1, <2>4, <2>6, <2>7, <2>9, <3>1, <3>2 DEF Barriers
    <3>4. BarrierInv(s)'
      BY <1>1, <1>2, <3>3, FullEvent DEF BarrierInv
    <3>5. QED
      BY <2>1, <3>3, <3>4
  <2>10. QED
    BY <2>8, <2>9
<1>6. QED
  BY <1>4, <1>5

\* A consumer releases the slot it took least recently.
Releases(c) ==
    /\ empty' = [empty EXCEPT ![prev[c]] = Arrived(@, EmptyCount)]
    /\ Taken(c)' = Taken(c) + 1
    /\ \A d \in Consumers : d # c => Taken(d)' = Taken(d)
    /\ \A p \in Producers : gi'[p] = gi[p]
    /\ UNCHANGED <<full, flying>>

LEMMA ReleaseBarrier ==
    ASSUME IInv, NEW c \in Consumers, Taken(c) < gi[c], Releases(c), NEW s \in Slots
    PROVE  /\ BarrierInv(s)' /\ empty'[s] \in Barriers /\ empty'[s].phase >= empty[s].phase
           /\ empty'[s].phase # empty[s].phase => full[s].phase = empty'[s].phase
<1> DEFINE u == Taken(c) % NumStages
<1>1. Types /\ StagingInv /\ BarrierInv(s) /\ ConsumerInv(c)
  BY DEF IInv, PipelineInv
<1>2. /\ u \in Slots /\ prev[c] = u /\ c \notin Releasing(u)
      /\ Visits(Taken(c), u) = empty[u].phase /\ full[u].phase = empty[u].phase + 1
  BY ConsumerHolds
<1>3. Taken(c) \in Nat
  BY <1>1, TakenNat
<1>4. FlyingTo(s)' = FlyingTo(s) /\ Staging(s)' = Staging(s)
  BY DEF Releases, FlyingTo, Staging
<1> HIDE DEF u
<1>5. CASE s # u
  <2>1. full'[s] = full[s] /\ empty'[s] = empty[s]
    BY <1>2, <1>5 DEF Releases
  <2>2. Visits(Taken(c) + 1, s) = Visits(Taken(c), s)
    BY <1>3, <1>5, VisitsNext, VisitsNat DEF u
  <2>3. \A d \in Consumers : Visits(Taken(d)', s) = Visits(Taken(d), s)
    BY <2>2 DEF Releases
  <2>4. \A p \in Producers : Visits(gi'[p], s) = Visits(gi[p], s)
    BY DEF Releases
  <2>5. QED
    BY <1>1, <1>4, <2>1, <2>3, <2>4, BarrierSame, BarrierTypes
<1>6. CASE s = u
  <2> DEFINE e == empty[s].phase
             a == empty[s].arrived
             T == Releasing(s)
  <2>1. e \in Nat /\ a \in Nat /\ empty[s] \in Barriers /\ empty[s].tx = 0
    BY <1>1, BarrierTypes DEF BarrierInv
  <2>2. full[s].phase = e + 1 /\ Visits(Taken(c), s) = e /\ c \notin T
    BY <1>2, <1>6
  <2>3. empty'[s] = Arrived(empty[s], EmptyCount)
    BY <1>1, <1>2, <1>6 DEF Releases, Types
  <2>4. T \in SUBSET Consumers /\ a = Cardinality(T)
    BY <1>1 DEF BarrierInv, Releasing
  <2>5. /\ Cardinality(T \cup {c}) = a + 1 /\ a + 1 <= EmptyCount /\ EmptyCount \in Nat
        /\ a + 1 = EmptyCount => T \cup {c} = Consumers
    <3>1. IsFiniteSet(Consumers) /\ c \in Consumers /\ c \notin T
      BY <2>2, PipelineAssumption
    <3> HIDE DEF T, a
    <3>2. /\ Cardinality(Consumers) \in Nat
          /\ Cardinality(T \cup {c}) = Cardinality(T) + 1
          /\ Cardinality(T) + 1 <= Cardinality(Consumers)
          /\ Cardinality(T) + 1 = Cardinality(Consumers) => T \cup {c} = Consumers
      BY <2>4, <3>1, OneMore
    <3>3. QED
      BY <2>4, <3>2 DEF EmptyCount
  <2>6. Visits(Taken(c)', s) = e + 1
    BY <1>3, <1>6, <2>2, VisitsNext DEF u, Releases
  <2>7. \A d \in Consumers :
          d # c => Visits(Taken(d)', s) \in {e, e + 1} /\ (Visits(Taken(d)', s) = e + 1 <=> d \in T)
    BY <1>1 DEF BarrierInv, Releasing, Releases
  <2>8. \A p \in Producers : /\ Visits(gi'[p], s) \in {e + 1, e + 2}
                             /\ Visits(gi'[p], s) <= e + 1
    BY <1>1, <2>1, <2>2 DEF BarrierInv, Releases
  <2>9. /\ full'[s] = full[s] /\ full[s].arrived = Cardinality(Staging(s)')
        /\ full[s].tx = Cardinality(FlyingTo(s)') /\ (full[s].arrived < FullCount \/ full[s].tx > 0)
    BY <1>1, <1>4 DEF BarrierInv, Releases
  <2>10. CASE a + 1 = EmptyCount
    <3>1. empty'[s] = [phase |-> e + 1, arrived |-> 0, tx |-> 0]
      BY <2>1, <2>3, <2>10, CompletedFields
    <3>2. \A d \in Consumers : Visits(Taken(d)', s) = e + 1
      BY <2>5, <2>6, <2>7, <2>10
    <3>3. Releasing(s)' = {} /\ Cardinality({}) = 0
      BY <2>1, <3>1, <3>2, FS_EmptySet DEF Releasing
    <3>4. EmptyCount > 0
      BY <2>1, <2>5
    <3>5. \A p \in Producers : Visits(gi'[p], s) <= e + 2
      BY <2>1, <2>8
    <3>6. BarrierInv(s)'
      BY <2>1, <2>2, <2>8, <2>9, <3>1, <3>2, <3>3, <3>4, <3>5 DEF BarrierInv, EmptyCount, FullCount
    <3>7. empty'[s] \in Barriers
      BY <2>1, <3>1 DEF Barriers
    <3>8. QED
      BY <2>1, <2>2, <3>1, <3>6, <3>7
  <2>11. CASE a + 1 # EmptyCount
    <3>1. empty'[s] = [phase |-> e, arrived |-> a + 1, tx |-> 0]
      BY <2>1, <2>3, <2>11, CompletedFields
    <3>2. Releasing(s)' = T \cup {c}
      BY <2>2, <2>4, <2>6, <2>7, <3>1 DEF Releasing
    <3>3. a + 1 < EmptyCount
      BY <2>1, <2>5, <2>11
    <3>4. \A d \in Consumers : Visits(Taken(d)', s) \in {e, e + 1}
      BY <2>6, <2>7
    <3>5. BarrierInv(s)'
      BY <2>1, <2>2, <2>5, <2>8, <2>9, <3>1, <3>2, <3>3, <3>4 DEF BarrierInv, EmptyCount, FullCount
    <3>6. empty'[s] \in Barriers
      BY <2>1, <3>1 DEF Barriers
    <3>7. QED
      BY <2>1, <3>1, <3>5, <3>6
  <2>12. QED
    BY <2>10, <2>11
<1>7. QED
  BY <1>5, <1>6

-----------------------------------------------------------------------------
(* What was staged stays in its slot until that is released.                *)

LEMMA StepNat ==
    ASSUME NEW g \in Steps
    PROVE  g \in Nat /\ g % NumStages \in Slots /\ g \div NumStages \in Nat
BY TotalNat, DivMod DEF Steps

LEMMA FlyingTypes ==
    ASSUME Types, StagingInv, NEW copy \in flying
    PROVE  /\ copy.step \in Steps /\ copy.op \in Operands /\ copy.slot \in Slots
           /\ copy.slot = copy.step % NumStages /\ copy = Copy(copy.step, copy.op)
<1>1. copy = Copy(copy.step, copy.op) /\ copy \in Copies
  BY DEF StagingInv, Types
<1>2. copy.slot = copy.step % NumStages
  BY <1>1 DEF Copy
<1>3. QED
  BY <1>1, <1>2 DEF Copies

LEMMA ProducerWaitStaging ==
    ASSUME IInv, NEW p \in Producers, ProducerWait(p)
    PROVE  StagingInv'
<1>1. Types /\ StagingInv /\ Leader \in Producers
  BY PipelineAssumption DEF IInv, PipelineInv
<1>2. UNCHANGED <<gi, issued, flying, smem, full, empty>> /\ gi[p] < Total /\ at(p, "wait")
  BY DEF ProducerWait, producing
<1>3. empty[slot(p)].phase >= round(p)
  BY <1>2, Parities DEF ProducerWait, ParityTellsRounds
<1>4. /\ pc'[p] = (IF p = Leader THEN "tma" ELSE "arrive")
      /\ \A q \in Producers : q # p => pc'[q] = pc[q]
  BY <1>1 DEF ProducerWait, Goto, Types, Warps
<1>5. \A g \in Steps : Staged(g)' = Staged(g)
  <2>1. CASE p = Leader
    <3>1. issued = {}
      BY <1>1, <1>2, <2>1 DEF StagingInv, at
    <3>2. QED
      BY <1>2, <1>4, <2>1, <3>1 DEF Staged, at
  <2>2. CASE p # Leader
    BY <1>1, <1>2, <1>4, <2>2 DEF Staged, at
  <2>3. QED
    BY <2>1, <2>2
<1>6. \A copy \in flying : copy.op \in Staged(copy.step)'
  BY <1>1, <1>5, FlyingTypes DEF StagingInv
<1>7. \A q \in Producers : slot(q)' = slot(q) /\ round(q)' = round(q)
  BY <1>2 DEF slot, round
<1>8. \A q \in Producers :
        /\ at(q, "tma")' => q = Leader
        /\ pc'[q] \in {"wait", "tma", "arrive"}
        /\ ~at(q, "wait")' => gi[q] < Total /\ empty[slot(q)].phase >= round(q)
  BY <1>1, <1>2, <1>3, <1>4 DEF StagingInv, at
<1>9. issued' # {} => at(Leader, "tma")'
  BY <1>1, <1>2, <1>4 DEF StagingInv, at
<1>10. QED
  BY <1>1, <1>2, <1>5, <1>6, <1>7, <1>8, <1>9 DEF StagingInv, Copy

LEMMA TmaCopyStaging ==
    ASSUME IInv, NEW op \in Operands, TmaCopy(op)
    PROVE  StagingInv'
<1> DEFINE h == gi[Leader]
<1>1. Types /\ StagingInv /\ Leader \in Producers /\ h \in Nat
  BY PipelineAssumption, ProducerTypes DEF IInv, PipelineInv
<1>2. /\ UNCHANGED <<gi, smem, empty>> /\ at(Leader, "tma") /\ ~at(Leader, "wait")
      /\ flying' = flying \cup {Copy(h, op)}
  BY DEF TmaCopy, Copy, slot, at
<1>3. /\ full[slot(Leader)].phase = round(Leader) /\ empty[slot(Leader)].phase = round(Leader)
      /\ h < Total
  BY <1>1, <1>2, ProducerLevel
<1>4. \A s \in Slots : full'[s].phase = full[s].phase
  <2>1. \A s \in Slots : full[s] \in Barriers
    BY <1>1, BarrierTypes
  <2>2. \A s \in Slots : full'[s] = full[s] \/ full'[s] = Expecting(full[s])
    BY <1>1 DEF TmaCopy, Types
  <2>3. QED
    BY <2>1, <2>2, CompletedFields DEF Barriers
<1>5. \/ issued \cup {op} = Operands /\ issued' = {} /\ pc'[Leader] = "arrive"
      \/ issued' = issued \cup {op} /\ pc'[Leader] = "tma"
  BY <1>1, <1>2 DEF TmaCopy, Goto, at, Types, Warps
<1>6. \A q \in Producers : q # Leader => pc'[q] = pc[q]
  BY <1>1 DEF TmaCopy, Goto, Types, Warps
<1>7. Staged(h) = issued /\ Staged(h)' = issued \cup {op}
  BY <1>1, <1>2, <1>5 DEF Staged, at
<1>8. \A g \in Steps : g # h => Staged(g)' = Staged(g)
  BY <1>1, <1>2, <1>5 DEF Staged, at
<1>9. ASSUME NEW copy \in flying'
      PROVE  /\ copy = Copy(copy.step, copy.op) /\ (copy.op \in Staged(copy.step))'
             /\ full'[copy.slot].phase = copy.step \div NumStages
             /\ empty'[copy.slot].phase = copy.step \div NumStages
  <2>1. CASE copy \in flying
    <3>1. copy.step \in Steps /\ copy.slot \in Slots
      BY <1>1, <2>1, FlyingTypes
    <3>2. copy.op \in Staged(copy.step)'
      BY <1>1, <1>2, <1>7, <1>8, <2>1, <3>1 DEF StagingInv
    <3>3. QED
      BY <1>1, <1>2, <1>4, <2>1, <3>1, <3>2 DEF StagingInv
  <2>2. CASE copy = Copy(h, op)
    <3>1. copy.step = h /\ copy.op = op /\ copy.slot = slot(Leader)
      BY <2>2 DEF Copy, slot
    <3>2. (copy.op \in Staged(copy.step))'
      BY <1>2, <1>7, <3>1
    <3>3. QED
      BY <1>1, <1>2, <1>3, <1>4, <2>2, <3>1, <3>2, ProducerTypes DEF round
  <2>3. QED
    BY <1>2, <2>1, <2>2
<1>10. ASSUME NEW g \in Steps, empty[g % NumStages].phase = g \div NumStages,
              NEW x \in Staged(g)'
       PROVE  Copy(g, x) \in flying' \/ smem'[g % NumStages][x] = g
  <2>1. CASE x \in Staged(g)
    BY <1>1, <1>2, <1>10, <2>1 DEF StagingInv
  <2>2. CASE x \notin Staged(g)
    <3>1. g = h /\ x = op
      BY <1>2, <1>7, <1>8, <1>10, <2>2
    <3>2. QED
      BY <1>2, <3>1
  <2>3. QED
    BY <2>1, <2>2
<1>11. \A q \in Producers : slot(q)' = slot(q) /\ round(q)' = round(q)
  BY <1>2 DEF slot, round
<1>12. \A q \in Producers :
         /\ at(q, "tma")' => q = Leader
         /\ pc'[q] \in {"wait", "tma", "arrive"}
         /\ ~at(q, "wait")' => gi[q] < Total /\ empty[slot(q)].phase >= round(q)
  BY <1>1, <1>2, <1>5, <1>6 DEF StagingInv, at
<1>13. IsFiniteSet(flying') /\ (issued' # {} => at(Leader, "tma")')
  BY <1>1, <1>2, <1>5, FS_AddElement DEF StagingInv, at
<1>14. QED
  BY <1>2, <1>9, <1>10, <1>11, <1>12, <1>13 DEF StagingInv, Copy

LEMMA ProducerArriveStaging ==
    ASSUME IInv, NEW p \in Producers, ProducerArrive(p)
    PROVE  StagingInv'
<1>1. Types /\ StagingInv /\ Leader \in Producers /\ gi[p] \in Nat
  BY PipelineAssumption, ProducerTypes DEF IInv, PipelineInv
<1>2. /\ UNCHANGED <<issued, flying, smem, empty>> /\ at(p, "arrive") /\ ~at(p, "wait")
      /\ gi'[p] = gi[p] + 1 /\ \A q \in Producers : q # p => gi'[q] = gi[q]
      /\ pc'[p] = "wait" /\ \A q \in Producers : q # p => pc'[q] = pc[q]
  BY <1>1 DEF ProducerArrive, Goto, at, producing, Types, Warps
<1>3. \A g \in Steps : Staged(g)' = Staged(g)
  <2>1. CASE p = Leader
    <3>1. issued = {}
      BY <1>1, <1>2, <2>1 DEF StagingInv, at
    <3>2. ASSUME NEW g \in Steps PROVE Staged(g)' = Staged(g)
      <4>1. g \in Nat
        BY StepNat
      <4>2. Staged(g) = IF g < gi[p] + 1 THEN Operands ELSE {}
        BY <1>1, <1>2, <2>1, <3>1, <4>1 DEF Staged, at
      <4>3. Staged(g)' = IF g < gi[p] + 1 THEN Operands ELSE {}
        BY <1>1, <1>2, <2>1, <3>1, <4>1 DEF Staged, at
      <4>4. QED
        BY <4>2, <4>3
    <3>3. QED
      BY <3>2
  <2>2. CASE p # Leader
    BY <1>1, <1>2, <2>2 DEF Staged, at
  <2>3. QED
    BY <2>1, <2>2
<1>4. ASSUME NEW copy \in flying'
      PROVE  /\ copy = Copy(copy.step, copy.op) /\ (copy.op \in Staged(copy.step))'
             /\ full'[copy.slot].phase = copy.step \div NumStages
             /\ empty'[copy.slot].phase = copy.step \div NumStages
  <2>1. copy \in flying /\ copy.step \in Steps /\ copy.slot \in Slots
    BY <1>1, <1>2, FlyingTypes
  <2>2. copy \in FlyingTo(copy.slot)'
    BY <1>4 DEF FlyingTo
  <2>3. full'[copy.slot].phase = full[copy.slot].phase
    BY <2>1, <2>2, ProducerArriveBarrier
  <2>4. copy.op \in Staged(copy.step)'
    BY <1>1, <1>3, <2>1 DEF StagingInv
  <2>5. QED
    BY <1>1, <1>2, <2>1, <2>3, <2>4 DEF StagingInv
<1>5. \A q \in Producers :
        /\ at(q, "tma")' => q = Leader
        /\ pc'[q] \in {"wait", "tma", "arrive"}
        /\ ~at(q, "wait")' => gi'[q] < Total /\ empty'[slot(q)'].phase >= round(q)'
  BY <1>1, <1>2 DEF StagingInv, at, slot, round
<1>6. issued' # {} => at(Leader, "tma")'
  BY <1>1, <1>2 DEF StagingInv, at
<1>7. QED
  BY <1>1, <1>2, <1>3, <1>4, <1>5, <1>6 DEF StagingInv, Copy

LEMMA CopyLandsStaging ==
    ASSUME IInv, NEW copy \in flying, CopyLands(copy)
    PROVE  StagingInv'
<1>1. Types /\ StagingInv
  BY DEF IInv, PipelineInv
<1>2. /\ UNCHANGED <<pc, gi, issued, empty>> /\ flying' = flying \ {copy}
      /\ smem' = [smem EXCEPT ![copy.slot][copy.op] = copy.step]
  BY DEF CopyLands
<1>3. \A g \in Steps : Staged(g)' = Staged(g)
  BY <1>2 DEF Staged, at
<1>4. ASSUME NEW other \in flying'
      PROVE  /\ other = Copy(other.step, other.op) /\ (other.op \in Staged(other.step))'
             /\ full'[other.slot].phase = other.step \div NumStages
             /\ empty'[other.slot].phase = other.step \div NumStages
  <2>1. other \in flying /\ other.step \in Steps /\ other.slot \in Slots
    BY <1>1, <1>2, FlyingTypes
  <2>2. other \in FlyingTo(other.slot)'
    BY <1>4 DEF FlyingTo
  <2>3. full'[other.slot].phase = full[other.slot].phase
    BY <2>1, <2>2, CopyLandsBarrier
  <2>4. other.op \in Staged(other.step)'
    BY <1>1, <1>3, <2>1 DEF StagingInv
  <2>5. QED
    BY <1>1, <1>2, <2>1, <2>3, <2>4 DEF StagingInv
<1>5. ASSUME NEW g \in Steps, empty[g % NumStages].phase = g \div NumStages,
             NEW op \in Staged(g)
      PROVE  Copy(g, op) \in flying' \/ smem'[g % NumStages][op] = g
  <2>1. Copy(g, op) \in flying \/ smem[g % NumStages][op] = g
    BY <1>1, <1>5 DEF StagingInv
  <2>2. /\ copy.step \in Steps /\ copy.op \in Operands /\ copy.slot \in Slots
        /\ copy.slot = copy.step % NumStages /\ copy = Copy(copy.step, copy.op)
        /\ empty[copy.slot].phase = copy.step \div NumStages
    BY <1>1, FlyingTypes DEF StagingInv
  <2>3. /\ smem'[copy.slot][copy.op] = copy.step
        /\ \A s \in Slots, x \in Operands :
              s # copy.slot \/ x # copy.op => smem'[s][x] = smem[s][x]
    BY <1>1, <1>2, <2>2 DEF Types
  <2>4. g \in Nat /\ g % NumStages \in Slots /\ copy.step \in Nat
    BY <2>2, StepNat
  <2>5. op \in Operands
    BY <1>1, <1>5 DEF Staged, Types
  <2>6. CASE copy.slot = g % NumStages /\ copy.op = op
    <3>1. copy.step = g
      BY <1>5, <2>2, <2>4, <2>6, SameStep
    <3>2. QED
      BY <2>3, <2>6, <3>1
  <2>7. CASE ~(copy.slot = g % NumStages /\ copy.op = op)
    <3>1. Copy(g, op) # copy
      BY <2>7 DEF Copy
    <3>2. smem'[g % NumStages][op] = smem[g % NumStages][op]
      BY <2>3, <2>4, <2>5, <2>7
    <3>3. QED
      BY <1>2, <2>1, <3>1, <3>2
  <2>8. QED
    BY <2>6, <2>7
<1>6. \A q \in Producers :
        /\ at(q, "tma")' => q = Leader
        /\ pc'[q] \in {"wait", "tma", "arrive"}
        /\ ~at(q, "wait")' => gi'[q] < Total /\ empty'[slot(q)'].phase >= round(q)'
  BY <1>1, <1>2 DEF StagingInv, at, slot, round
<1>7. IsFiniteSet(flying') /\ (issued' # {} => at(Leader, "tma")')
  BY <1>1, <1>2, FS_RemoveElement DEF StagingInv, at
<1>8. QED
  BY <1>2, <1>3, <1>4, <1>5, <1>6, <1>7 DEF StagingInv, Copy

\* A released slot holds nothing anyone has staged for the next round.
LEMMA ReleaseStaging ==
    ASSUME IInv, NEW c \in Consumers, Taken(c) < gi[c], Releases(c),
           UNCHANGED <<issued, smem>>, \A p \in Producers : pc'[p] = pc[p]
    PROVE  StagingInv'
<1>1. Types /\ StagingInv /\ Leader \in Producers /\ gi[Leader] \in Nat
  BY PipelineAssumption, ProducerTypes DEF IInv, PipelineInv
<1>2. UNCHANGED <<full, flying>> /\ \A p \in Producers : gi'[p] = gi[p]
  BY DEF Releases
<1>3. \A g \in Steps : Staged(g)' = Staged(g)
  BY <1>1, <1>2 DEF Staged, at
<1>4. ASSUME NEW copy \in flying'
      PROVE  /\ copy = Copy(copy.step, copy.op) /\ (copy.op \in Staged(copy.step))'
             /\ full'[copy.slot].phase = copy.step \div NumStages
             /\ empty'[copy.slot].phase = copy.step \div NumStages
  <2>1. copy \in flying /\ copy.step \in Steps /\ copy.slot \in Slots
    BY <1>1, <1>2, FlyingTypes
  <2>2. empty'[copy.slot].phase = empty[copy.slot].phase
    <3>1. full[copy.slot].phase = empty[copy.slot].phase
      BY <1>1, <2>1 DEF StagingInv
    <3>2. QED
      BY <2>1, <3>1, ReleaseBarrier
  <2>3. copy.op \in Staged(copy.step)'
    BY <1>1, <1>3, <2>1 DEF StagingInv
  <2>4. QED
    BY <1>1, <1>2, <2>1, <2>2, <2>3 DEF StagingInv
<1>5. ASSUME NEW g \in Steps, empty'[g % NumStages].phase = g \div NumStages,
             NEW op \in Staged(g)
      PROVE  Copy(g, op) \in flying' \/ smem'[g % NumStages][op] = g
  <2> DEFINE s == g % NumStages
             r == g \div NumStages
  <2>1. g \in Nat /\ s \in Slots /\ r \in Nat /\ BarrierInv(s)
    BY StepNat DEF IInv, PipelineInv
  <2>2. CASE empty[s].phase = r
    BY <1>1, <1>2, <1>5, <2>2 DEF StagingInv
  <2>3. CASE empty[s].phase # r
    <3>1. empty[s].phase < r /\ empty[s].phase \in Nat /\ full[s].phase = r
      BY <1>1, <1>5, <2>1, <2>3, ReleaseBarrier, BarrierTypes
    <3>2. CASE g < gi[Leader]
      <4>1. Visits(g + 1, s) = r + 1
        BY <2>1, VisitsNext, VisitsSelf
      <4>2. Visits(g + 1, s) <= Visits(gi[Leader], s)
        BY <1>1, <2>1, <3>2, VisitsMonotone
      <4>3. Visits(gi[Leader], s) <= empty[s].phase + 1
        BY <1>1, <2>1 DEF BarrierInv
      <4>4. QED
        BY <1>1, <2>1, <3>1, <4>1, <4>2, <4>3, VisitsNat
    <3>3. CASE g = gi[Leader]
      <4>1. ~at(Leader, "wait")
        BY <1>1, <1>5, <3>3 DEF Staged, StagingInv, at
      <4>2. empty[s].phase >= r
        BY <1>1, <3>3, <4>1 DEF StagingInv, slot, round
      <4>3. QED
        BY <2>1, <3>1, <4>2
    <3>4. g <= gi[Leader]
      BY <1>1, <1>5, <2>1 DEF Staged
    <3>5. QED
      BY <1>1, <2>1, <3>2, <3>3, <3>4
  <2>4. QED
    BY <2>2, <2>3
<1>6. \A q \in Producers :
        /\ at(q, "tma")' => q = Leader
        /\ pc'[q] \in {"wait", "tma", "arrive"}
        /\ ~at(q, "wait")' => gi'[q] < Total /\ empty'[slot(q)'].phase >= round(q)'
  <2> SUFFICES ASSUME NEW q \in Producers
               PROVE  /\ at(q, "tma")' => q = Leader
                      /\ pc'[q] \in {"wait", "tma", "arrive"}
                      /\ ~at(q, "wait")' => gi'[q] < Total /\ empty'[slot(q)'].phase >= round(q)'
    OBVIOUS
  <2>1. /\ slot(q)' = slot(q) /\ round(q)' = round(q) /\ gi'[q] = gi[q] /\ pc'[q] = pc[q]
        /\ slot(q) \in Slots /\ round(q) \in Nat
    BY <1>1, <1>2, ProducerTypes DEF slot, round
  <2>2. empty'[slot(q)].phase >= empty[slot(q)].phase /\ empty'[slot(q)].phase \in Nat
        /\ empty[slot(q)].phase \in Nat
    BY <1>1, <2>1, ReleaseBarrier, BarrierTypes DEF Barriers
  <2>3. QED
    BY <1>1, <2>1, <2>2 DEF StagingInv, at
<1>7. issued' # {} => at(Leader, "tma")'
  BY <1>1 DEF StagingInv, at
<1>8. QED
  BY <1>1, <1>2, <1>3, <1>4, <1>5, <1>6, <1>7 DEF StagingInv, Copy

-----------------------------------------------------------------------------
(* A consumer, its instructions in flight and its accumulator.              *)

LEMMA ConsumerSame ==
    ASSUME Types, NEW c \in Consumers, ConsumerInv(c),
           pc'[c] = pc[c], gi'[c] = gi[c], ki'[c] = ki[c], prev'[c] = prev[c],
           mmas'[c] = mmas[c], acc'[c] = acc[c],
           \A s \in Slots : full'[s].phase \in Nat /\ full'[s].phase >= full[s].phase
    PROVE  ConsumerInv(c)'
<1>1. /\ Taken(c)' = Taken(c) /\ Begun(c)' = Begun(c) /\ Oldest(c)' = Oldest(c)
      /\ Base(c)' = Base(c) /\ slot(c)' = slot(c) /\ round(c)' = round(c)
  BY DEF Taken, Begun, Oldest, Base, slot, round, at
<1>2. MmaInv(c)'
  BY <1>1 DEF ConsumerInv, MmaInv
<1>3. /\ slot(c) \in Slots /\ round(c) \in Nat /\ gi[c] \in Nat
      /\ \A s \in Slots : full[s].phase \in Nat /\ Visits(gi[c], s) \in Nat
  BY ConsumerTypes, BarrierTypes, VisitsNat
<1>4. at(c, "mma") \/ at(c, "retire") => gi[c] < Total /\ full'[slot(c)].phase > round(c)
  BY <1>3 DEF ConsumerInv
<1>5. \A s \in Slots : Visits(gi[c], s) <= full'[s].phase
  BY <1>3 DEF ConsumerInv
<1>6. QED
  BY <1>1, <1>2, <1>4, <1>5 DEF ConsumerInv, at

\* How far a consumer is: the base of its tile, then what it released, then what it began.
LEMMA ConsumerOrder ==
    ASSUME Types, NEW c \in Consumers, ConsumerInv(c)
    PROVE  /\ Base(c) \in Nat /\ Taken(c) \in Nat /\ Oldest(c) \in Nat /\ Begun(c) \in Nat
           /\ Base(c) <= Taken(c) /\ Taken(c) <= Oldest(c) /\ Taken(c) <= Begun(c)
           /\ Len(mmas[c]) \in Nat /\ Begun(c) = Oldest(c) + Len(mmas[c])
<1>1. /\ Taken(c) \in Nat /\ gi[c] \in Nat /\ ki[c] \in Nat /\ ki[c] <= gi[c]
      /\ Taken(c) <= gi[c] /\ Len(mmas[c]) \in Nat /\ Len(mmas[c]) <= Begun(c) - Taken(c)
  BY TakenNat, MmaTypes DEF ConsumerInv, MmaInv
<1>2. Begun(c) \in Nat /\ Taken(c) <= Begun(c)
  BY <1>1 DEF Begun
<1>3. Base(c) \in Nat /\ Base(c) <= Taken(c)
  BY <1>1 DEF Base, Taken
<1>4. QED
  BY <1>1, <1>2, <1>3, SMTT(30) DEF Oldest

\* The slot of a step that was published and not released still holds it.
LEMMA HeldContent ==
    ASSUME IInv, NEW c \in Consumers, NEW g \in Nat, Taken(c) <= g,
           full[g % NumStages].phase > g \div NumStages
    PROVE  g \in Steps /\ smem[g % NumStages] = [op \in Operands |-> g]
<1> DEFINE s == g % NumStages
           r == g \div NumStages
<1>1. Types /\ StagingInv /\ s \in Slots /\ r \in Nat /\ BarrierInv(s) /\ Leader \in Producers
      /\ ConsumerInv(c)
  BY DivMod, PipelineAssumption DEF IInv, PipelineInv
<1>2. full[s].phase \in Nat /\ empty[s].phase \in Nat /\ Taken(c) \in Nat /\ gi[Leader] \in Nat
      /\ gi[Leader] <= Total
  <2>1. gi[Leader] \in 0 .. Total
    BY <1>1 DEF Types, Warps
  <2>2. QED
    BY <1>1, <2>1, BarrierTypes, TakenNat, TotalNat
<1>3. empty[s].phase = r /\ full[s].phase = r + 1
  <2>1. Visits(Taken(c), s) <= r
    BY <1>1, <1>2, VisitsMonotone, VisitsSelf
  <2>2. empty[s].phase <= Visits(Taken(c), s)
    BY <1>1, <1>2, VisitsNat DEF BarrierInv
  <2>3. full[s].phase \in {empty[s].phase, empty[s].phase + 1} /\ full[s].phase > r
    BY <1>1 DEF BarrierInv
  <2>4. QED
    BY <1>1, <1>2, <2>1, <2>2, <2>3, VisitsNat
<1>4. g < gi[Leader]
  <2>1. SUFFICES ASSUME gi[Leader] <= g PROVE FALSE
    BY <1>2
  <2>2. Visits(gi[Leader], s) <= r
    BY <1>1, <1>2, <2>1, VisitsMonotone, VisitsSelf
  <2>3. Visits(gi[Leader], s) >= full[s].phase
    BY <1>1, <1>2 DEF BarrierInv
  <2>4. QED
    BY <1>1, <1>2, <1>3, <2>2, <2>3, VisitsNat
<1>5. g \in Steps /\ Staged(g) = Operands
  BY <1>2, <1>4, TotalNat DEF Steps, Staged
<1>6. \A op \in Operands : Copy(g, op) \notin flying
  BY <1>1, <1>2, <1>3 DEF StagingInv, Copy
<1>7. \A op \in Operands : smem[s][op] = g
  BY <1>1, <1>3, <1>5, <1>6 DEF StagingInv
<1>8. smem[s] \in [Operands -> Steps \cup {NoStep}]
  BY <1>1 DEF Types
<1>9. QED
  BY <1>5, <1>7, <1>8

LEMMA ConsumerWaitInv ==
    ASSUME IInv, NEW c \in Consumers, ConsumerWait(c)
    PROVE  ConsumerInv(c)'
<1>1. Types /\ ConsumerInv(c) /\ at(c, "wait") /\ pc'[c] = "mma" /\ gi[c] < Total
      /\ UNCHANGED <<gi, ki, prev, mmas, acc, full>>
  BY DEF IInv, PipelineInv, ConsumerWait, Goto, consuming, Types, Warps
<1>2. full[slot(c)].phase > round(c)
  BY <1>1, Parities DEF ConsumerWait, ParityTellsRounds
<1>3. /\ Taken(c)' = Taken(c) /\ Begun(c)' = Begun(c) /\ Oldest(c)' = Oldest(c)
      /\ Base(c)' = Base(c) /\ slot(c)' = slot(c) /\ round(c)' = round(c)
  BY <1>1 DEF Taken, Begun, Oldest, Base, slot, round, at
<1>4. MmaInv(c)'
  BY <1>1, <1>3 DEF ConsumerInv, MmaInv
<1>5. QED
  BY <1>1, <1>2, <1>3, <1>4 DEF ConsumerInv, at

LEMMA AppendShape ==
    ASSUME NEW X, NEW q \in Seq(X), NEW x \in X
    PROVE  /\ Append(q, x) \in Seq(X) /\ Len(Append(q, x)) = Len(q) + 1
           /\ \A i \in 1 .. Len(q) : Append(q, x)[i] = q[i]
           /\ Append(q, x)[Len(q) + 1] = x
OBVIOUS

LEMMA TailShape ==
    ASSUME NEW X, NEW q \in Seq(X), q # <<>>
    PROVE  /\ Tail(q) \in Seq(X) /\ Head(q) = q[1] /\ Len(q) \in Nat \ {0}
           /\ Len(Tail(q)) = Len(q) - 1
           /\ \A i \in 1 .. Len(q) - 1 : Tail(q)[i] = q[i + 1]
OBVIOUS

\* The counters after an iteration's end.
LEMMA AdvanceCounters ==
    ASSUME IInv, NEW c \in Consumers, Advance(c), (at(c, "mma") /\ ki[c] = 0) \/ at(c, "retire")
    PROVE  /\ gi'[c] = gi[c] + 1 /\ ki'[c] = ki[c] + 1 /\ prev'[c] = slot(c)
           /\ Taken(c)' = gi[c] /\ Begun(c)' = gi[c] + 1 /\ Base(c)' = Base(c)
           /\ ki'[c] <= KIters
           /\ pc'[c] = IF ki'[c] = KIters THEN "drain" ELSE "wait"
           /\ gi[c] < Total
           /\ \A s \in Slots : Visits(gi'[c], s) <= full[s].phase
<1>1. Types /\ ConsumerInv(c) /\ gi[c] \in Nat /\ ki[c] \in Nat /\ ki[c] < KIters
      /\ gi[c] < Total /\ full[slot(c)].phase > round(c)
  BY TakenNat, PipelineAssumption DEF IInv, PipelineInv, ConsumerInv
<1>2. gi'[c] = gi[c] + 1 /\ ki'[c] = ki[c] + 1 /\ prev'[c] = slot(c)
      /\ pc'[c] = IF ki'[c] = KIters THEN "drain" ELSE "wait"
  BY <1>1 DEF Advance, Goto, Types, Warps
<1>3. Taken(c)' = gi[c] /\ Begun(c)' = gi[c] + 1 /\ Base(c)' = Base(c)
  BY <1>1, <1>2 DEF Taken, Begun, Base, at
<1>4. \A s \in Slots : Visits(gi[c] + 1, s) <= full[s].phase
  <2> SUFFICES ASSUME NEW s \in Slots PROVE Visits(gi[c] + 1, s) <= full[s].phase
    OBVIOUS
  <2>1. Visits(gi[c] + 1, s) = Visits(gi[c], s) + (IF s = slot(c) THEN 1 ELSE 0)
    BY <1>1, VisitsNext DEF slot
  <2>2. Visits(gi[c], s) \in Nat /\ full[s].phase \in Nat /\ Visits(gi[c], s) <= full[s].phase
    BY <1>1, VisitsNat, BarrierTypes DEF ConsumerInv
  <2>3. s = slot(c) => Visits(gi[c], s) < full[s].phase
    BY <1>1, ConsumerTypes
  <2>4. QED
    BY <2>1, <2>2, <2>3
<1>5. QED
  BY <1>1, <1>2, <1>3, <1>4, PipelineAssumption

LEMMA MmaConsumer ==
    ASSUME IInv, NEW c \in Consumers, Mma(c)
    PROVE  ConsumerInv(c)'
<1>1. /\ Types /\ ConsumerInv(c) /\ at(c, "mma") /\ UNCHANGED <<acc, full>>
      /\ gi[c] \in Nat /\ ki[c] \in Nat /\ gi[c] < Total /\ full[slot(c)].phase > round(c)
      /\ ki[c] < KIters /\ MmaInv(c)
  BY TakenNat DEF IInv, PipelineInv, Mma, ConsumerInv
<1> DEFINE q == mmas[c]
           x == [step |-> gi[c], clear |-> ki[c] = 0]
           M == [step : Steps, clear : BOOLEAN]
<1>2. q \in Seq(M) /\ x \in M /\ mmas'[c] = Append(q, x) /\ Len(q) \in Nat
  <2>1. x \in M
    BY <1>1, TotalNat DEF Steps
  <2>2. mmas \in [Consumers -> Seq(M)]
    BY <1>1 DEF Types
  <2>3. mmas' = [mmas EXCEPT ![c] = Append(@, x)]
    BY DEF Mma
  <2>4. Len(q) \in Nat /\ q \in Seq(M)
    BY <1>1, MmaTypes
  <2> HIDE DEF M, x
  <2>5. mmas'[c] = Append(q, x)
    BY <2>2, <2>3
  <2>6. QED
    BY <2>1, <2>4, <2>5
<1>3. /\ Len(mmas'[c]) = Len(q) + 1 /\ mmas'[c][Len(q) + 1] = x
      /\ \A i \in 1 .. Len(q) : mmas'[c][i] = q[i]
  <2> HIDE DEF M, x, q
  <2>1. QED
    BY <1>2, AppendShape
<1>4. /\ Taken(c)' = Taken(c) /\ Begun(c) = gi[c] /\ Begun(c)' = gi[c] + 1
      /\ Base(c)' = Base(c) /\ Taken(c) \in Nat /\ Taken(c) <= gi[c]
  <2>1. Begun(c) = gi[c] /\ Taken(c) = (IF ki[c] = 0 THEN gi[c] ELSE gi[c] - 1)
    BY <1>1 DEF Begun, Taken, at
  <2>2. CASE ki[c] = 0
    BY <1>1, <2>1, <2>2, AdvanceCounters, TakenNat DEF Mma
  <2>3. CASE ki[c] # 0
    <3>1. pc'[c] = "retire" /\ gi'[c] = gi[c] /\ ki'[c] = ki[c]
      BY <1>1, <2>3 DEF Mma, Goto, consuming, Types, Warps
    <3>2. QED
      BY <1>1, <2>1, <2>3, <3>1, TakenNat DEF Taken, Begun, Base, at
  <2>4. QED
    BY <2>2, <2>3
<1>5. Oldest(c)' = Oldest(c) /\ Oldest(c) = gi[c] - Len(q) /\ Base(c) = gi[c] - ki[c]
  BY <1>1, <1>2, <1>3, <1>4 DEF Oldest, Base
<1>6. MmaInv(c)'
  <2>1. Len(mmas'[c]) <= Begun(c)' - Taken(c)'
    BY <1>1, <1>2, <1>3, <1>4 DEF MmaInv
  <2>2. ASSUME NEW i \in 1 .. Len(mmas'[c])
        PROVE  /\ mmas'[c][i].step = Oldest(c) + i - 1
               /\ mmas'[c][i].clear <=> Oldest(c) + i - 1 = Base(c)
    <3>1. CASE i \in 1 .. Len(q)
      BY <1>1, <1>3, <3>1 DEF MmaInv
    <3>2. CASE i = Len(q) + 1
      <4>1. mmas'[c][i] = x /\ Oldest(c) + i - 1 = gi[c]
        BY <1>1, <1>2, <1>3, <1>5, <3>2
      <4>2. (ki[c] = 0) <=> gi[c] = Base(c)
        BY <1>1, <1>5
      <4>3. mmas'[c][i].step = gi[c]
        BY <4>1
      <4>4. mmas'[c][i].clear = (ki[c] = 0)
        BY <4>1
      <4>5. mmas'[c][i].clear <=> gi[c] = Base(c)
        BY <4>2, <4>4, Zenon
      <4>6. QED
        BY <4>1, <4>3, <4>5, Zenon
    <3>3. QED
      BY <1>2, <1>3, <2>2, <3>1, <3>2
  <2>3. Oldest(c)' > Base(c)' => acc'[c] = Sums(Base(c)', Oldest(c)' - Base(c)')
    BY <1>1, <1>4, <1>5 DEF MmaInv
  <2>4. QED
    BY <1>4, <1>5, <2>1, <2>2, <2>3 DEF MmaInv, Sums
<1>7. CASE ki[c] = 0
  <2>1. Advance(c)
    BY <1>7 DEF Mma
  <2>2. /\ gi'[c] = gi[c] + 1 /\ ki'[c] = ki[c] + 1 /\ prev'[c] = slot(c)
        /\ Taken(c)' = gi[c] /\ ki'[c] <= KIters
        /\ pc'[c] = IF ki'[c] = KIters THEN "drain" ELSE "wait"
        /\ \A s \in Slots : Visits(gi'[c], s) <= full[s].phase
    BY <1>1, <1>7, <2>1, AdvanceCounters
  <2>3. ki'[c] <= gi'[c]
    BY <1>1, <2>2 DEF ConsumerInv
  <2>4. ki'[c] # KIters => ki'[c] < KIters
    BY <1>1, <2>2, PipelineAssumption
  <2>5. QED
    BY <1>1, <1>6, <2>2, <2>3, <2>4 DEF ConsumerInv, at, slot
<1>8. CASE ki[c] # 0
  <2>1. pc'[c] = "retire" /\ UNCHANGED <<gi, ki, prev>>
    BY <1>1, <1>8 DEF Mma, Goto, consuming, Types, Warps
  <2>2. ki[c] \in 1 .. KIters - 1
    BY <1>1, <1>8, PipelineAssumption
  <2>3. slot(c)' = slot(c) /\ round(c)' = round(c)
    BY <2>1 DEF slot, round
  <2>4. QED
    BY <1>1, <1>4, <1>6, <2>1, <2>2, <2>3 DEF ConsumerInv, at
<1>9. QED
  BY <1>7, <1>8

LEMMA RetireConsumer ==
    ASSUME IInv, NEW c \in Consumers, Retire(c)
    PROVE  ConsumerInv(c)' /\ Releases(c) /\ Taken(c) < gi[c]
<1>1. /\ Types /\ ConsumerInv(c) /\ MmaInv(c) /\ at(c, "retire") /\ Advance(c)
      /\ UNCHANGED <<issued, flying, mmas, acc, full>> /\ Len(mmas[c]) <= 1
      /\ gi[c] \in Nat /\ ki[c] \in 1 .. KIters - 1 /\ ki[c] \in Nat /\ Len(mmas[c]) \in Nat
  BY TakenNat, MmaTypes DEF IInv, PipelineInv, ConsumerInv, Retire, producing
<1>2. /\ gi'[c] = gi[c] + 1 /\ ki'[c] = ki[c] + 1 /\ prev'[c] = slot(c)
      /\ Taken(c)' = gi[c] /\ Begun(c)' = gi[c] + 1 /\ Base(c)' = Base(c)
      /\ ki'[c] <= KIters
      /\ pc'[c] = IF ki'[c] = KIters THEN "drain" ELSE "wait"
      /\ \A s \in Slots : Visits(gi'[c], s) <= full[s].phase
  BY <1>1, AdvanceCounters
<1>3. Begun(c) = gi[c] + 1 /\ Taken(c) = gi[c] - 1
  BY <1>1 DEF Begun, Taken, at
<1>4. Oldest(c)' = Oldest(c)
  BY <1>1, <1>2, <1>3 DEF Oldest
<1>5. MmaInv(c)'
  <2>1. Len(mmas'[c]) <= Begun(c)' - Taken(c)'
    BY <1>1, <1>2
  <2>2. QED
    BY <1>1, <1>2, <1>4, <2>1 DEF MmaInv, Sums
<1>6. ConsumerInv(c)'
  <2>1. ki'[c] <= gi'[c]
    BY <1>1, <1>2 DEF ConsumerInv
  <2>2. ki'[c] # KIters => ki'[c] < KIters
    BY <1>1, <1>2, PipelineAssumption
  <2>3. QED
    BY <1>1, <1>2, <1>5, <2>1, <2>2 DEF ConsumerInv, at, slot
<1>7. Releases(c)
  <2>1. \A d \in Consumers : d # c => gi'[d] = gi[d] /\ ki'[d] = ki[d] /\ pc'[d] = pc[d]
    BY <1>1 DEF Advance, Goto, Types, Warps
  <2>2. \A d \in Consumers : d # c => Taken(d)' = Taken(d)
    BY <2>1, TakenSame
  <2>3. \A p \in Producers : gi'[p] = gi[p]
    BY <1>1, PipelineAssumption DEF Advance, Types, Warps
  <2>4. QED
    BY <1>1, <1>2, <1>3, <2>2, <2>3 DEF Releases, Retire
<1>8. QED
  BY <1>1, <1>3, <1>6, <1>7

LEMMA DrainConsumer ==
    ASSUME IInv, NEW c \in Consumers, Drain(c)
    PROVE  ConsumerInv(c)' /\ Releases(c) /\ Taken(c) < gi[c]
<1>1. /\ Types /\ ConsumerInv(c) /\ MmaInv(c) /\ at(c, "drain") /\ Goto(c, "epilogue")
      /\ UNCHANGED <<gi, issued, flying, ki, prev, mmas, acc, full>> /\ mmas[c] = <<>>
      /\ gi[c] \in Nat /\ ki[c] = KIters
  BY TakenNat DEF IInv, PipelineInv, ConsumerInv, Drain, producing, consuming
<1>2. pc'[c] = "epilogue" /\ \A w \in Warps : w # c => pc'[w] = pc[w]
  BY <1>1 DEF Goto, Types, Warps
<1>3. Begun(c)' = Begun(c) /\ Taken(c) = gi[c] - 1 /\ Taken(c)' = gi[c]
      /\ Begun(c) = gi[c] /\ Base(c)' = Base(c) /\ Oldest(c)' = Oldest(c)
  BY <1>1, <1>2, PipelineAssumption DEF Begun, Taken, Base, Oldest, at
<1>4. MmaInv(c)'
  <2>1. Len(mmas'[c]) <= Begun(c)' - Taken(c)'
    BY <1>1, <1>3
  <2>2. QED
    BY <1>1, <1>3, <2>1 DEF MmaInv, Sums
<1>5. ConsumerInv(c)'
  BY <1>1, <1>2, <1>3, <1>4 DEF ConsumerInv, at, slot, round
<1>6. Releases(c)
  <2>1. \A d \in Consumers : d # c => gi'[d] = gi[d] /\ ki'[d] = ki[d] /\ pc'[d] = pc[d]
    BY <1>1, <1>2 DEF Warps
  <2>2. \A d \in Consumers : d # c => Taken(d)' = Taken(d)
    BY <2>1, TakenSame
  <2>3. QED
    BY <1>1, <1>3, <2>2 DEF Releases, Drain
<1>7. QED
  BY <1>1, <1>3, <1>5, <1>6

LEMMA StoreConsumer ==
    ASSUME IInv, NEW c \in Consumers, Store(c)
    PROVE  ConsumerInv(c)' /\ Taken(c)' = Taken(c)
<1>1. /\ Types /\ ConsumerInv(c) /\ MmaInv(c) /\ at(c, "epilogue")
      /\ UNCHANGED <<gi, prev, mmas, acc, full>> /\ pc'[c] = "wait" /\ ki'[c] = 0
      /\ gi[c] \in Nat /\ ki[c] = KIters /\ Len(mmas[c]) \in Nat
  BY TakenNat, MmaTypes DEF IInv, PipelineInv, ConsumerInv, Store, Goto, Types, Warps
<1>2. Begun(c) = gi[c] /\ Taken(c) = gi[c] /\ Taken(c)' = gi[c] /\ Begun(c)' = gi[c]
      /\ Base(c)' = gi[c]
  BY <1>1 DEF Begun, Taken, Base, at
<1>3. Len(mmas[c]) = 0
  BY <1>1, <1>2 DEF MmaInv
<1>4. MmaInv(c)'
  BY <1>1, <1>2, <1>3 DEF MmaInv, Oldest
<1>5. ConsumerInv(c)'
  BY <1>1, <1>2, <1>4, PipelineAssumption DEF ConsumerInv, at
<1>6. QED
  BY <1>2, <1>5

\* A sum grows by the step that follows it.
LEMMA SumGrows ==
    ASSUME NEW b \in Nat, NEW n \in Nat
    PROVE  Append(Sums(b, n), [op \in Operands |-> b + n]) = Sums(b, n + 1)
<1> DEFINE V(i) == [op \in Operands |-> b + i - 1]
<1>1. Sums(b, n) = [i \in 1 .. n |-> V(i)] /\ Sums(b, n + 1) = [i \in 1 .. n + 1 |-> V(i)]
  BY DEF Sums
<1>2. [op \in Operands |-> b + n] = V(n + 1)
  OBVIOUS
<1> HIDE DEF V
<1>3. Append([i \in 1 .. n |-> V(i)], V(n + 1)) = [i \in 1 .. n + 1 |-> V(i)]
  OBVIOUS
<1>4. QED
  BY <1>1, <1>2, <1>3

LEMMA MmaLandsConsumer ==
    ASSUME IInv, NEW c \in Consumers, MmaLands(c)
    PROVE  /\ ConsumerInv(c)' /\ acc'[c] \in Seq([Operands -> Steps \cup {NoStep}])
           /\ mmas'[c] \in Seq([step : Steps, clear : BOOLEAN])
<1> DEFINE q == mmas[c]
           g == Oldest(c)
           read == smem[g % NumStages]
           M == [step : Steps, clear : BOOLEAN]
           A == [Operands -> Steps \cup {NoStep}]
<1>1. /\ Types /\ ConsumerInv(c) /\ MmaInv(c) /\ q # <<>> /\ UNCHANGED <<pc, gi, ki, prev, full>>
      /\ q \in Seq(M) /\ acc[c] \in Seq(A)
  BY MmaTypes DEF IInv, PipelineInv, ConsumerInv, MmaLands, consuming
<1>2. /\ Base(c) \in Nat /\ Taken(c) \in Nat /\ g \in Nat /\ Begun(c) \in Nat
      /\ Base(c) <= Taken(c) /\ Taken(c) <= g /\ Len(q) \in Nat /\ Begun(c) = g + Len(q)
  BY <1>1, ConsumerOrder
<1>3. /\ Tail(q) \in Seq(M) /\ Head(q) = q[1] /\ Len(q) >= 1
      /\ Len(Tail(q)) = Len(q) - 1
      /\ \A i \in 1 .. Len(q) - 1 : Tail(q)[i] = q[i + 1]
  <2> HIDE DEF M, q
  <2>1. Len(q) \in Nat \ {0}
    BY <1>1, TailShape
  <2>2. QED
    BY <1>1, <2>1, TailShape
<1>4. Head(q).step = g /\ (Head(q).clear <=> g = Base(c))
  <2>1. 1 \in 1 .. Len(q) /\ g + 1 - 1 = g
    BY <1>2, <1>3
  <2>2. q[1].step = g + 1 - 1 /\ (q[1].clear <=> g + 1 - 1 = Base(c))
    BY <1>1, <2>1 DEF MmaInv
  <2>3. QED
    BY <1>3, <2>1, <2>2
<1>5. g \in Steps /\ read = [op \in Operands |-> g]
  <2>1. full[g % NumStages].phase > g \div NumStages
    <3>1. g < Begun(c)
      BY <1>2, <1>3
    <3>2. CASE g < gi[c]
      <4>1. /\ g % NumStages \in Slots /\ gi[c] \in Nat /\ g \div NumStages \in Nat
            /\ full[g % NumStages].phase \in Nat
        BY <1>1, <1>2, DivMod, ConsumerTypes, BarrierTypes
      <4>2. Visits(g + 1, g % NumStages) = g \div NumStages + 1
        BY <1>2, <4>1, VisitsNext, VisitsSelf
      <4>3. Visits(g + 1, g % NumStages) <= Visits(gi[c], g % NumStages)
        BY <1>2, <3>2, <4>1, VisitsMonotone
      <4>4. Visits(gi[c], g % NumStages) <= full[g % NumStages].phase
        BY <1>1, <4>1 DEF ConsumerInv
      <4>5. Visits(gi[c], g % NumStages) \in Nat
        BY <4>1, VisitsNat
      <4>6. g \div NumStages + 1 <= Visits(gi[c], g % NumStages)
        BY <4>2, <4>3
      <4>7. QED
        BY <4>1, <4>4, <4>5, <4>6, SMTT(30)
    <3>3. CASE ~(g < gi[c])
      <4>1. at(c, "retire") /\ g = gi[c]
        BY <1>1, <1>2, <3>1, <3>3, ConsumerTypes DEF Begun
      <4>2. QED
        BY <1>1, <4>1 DEF ConsumerInv, slot, round
    <3>4. QED
      BY <3>2, <3>3
  <2>2. QED
    BY <1>2, <2>1, HeldContent
<1>6. mmas'[c] = Tail(q)
  <2>1. mmas \in [Consumers -> Seq(M)] /\ mmas' = [mmas EXCEPT ![c] = Tail(@)]
    BY <1>1 DEF Types, MmaLands
  <2> HIDE DEF M
  <2>2. QED
    BY <2>1
<1>7. acc'[c] = IF g = Base(c) THEN <<read>> ELSE Append(acc[c], read)
  <2>1. acc \in [Consumers -> Seq(A)]
        /\ acc' = [acc EXCEPT ![c] = IF Head(q).clear THEN <<smem[Head(q).step % NumStages]>>
                                     ELSE Append(@, smem[Head(q).step % NumStages])]
    BY <1>1 DEF Types, MmaLands
  <2> HIDE DEF A, q
  <2>2. acc'[c] = IF Head(q).clear THEN <<smem[Head(q).step % NumStages]>>
                  ELSE Append(acc[c], smem[Head(q).step % NumStages])
    BY <2>1
  <2>3. QED
    BY <1>4, <2>2
<1>8. Oldest(c)' = g + 1 /\ Base(c)' = Base(c) /\ Taken(c)' = Taken(c) /\ Begun(c)' = Begun(c)
  <2>1. Base(c)' = Base(c) /\ Taken(c)' = Taken(c) /\ Begun(c)' = Begun(c)
    BY <1>1 DEF Base, Taken, Begun, at
  <2>2. QED
    BY <1>2, <1>3, <1>6, <2>1 DEF Oldest
<1>9. read \in A
  BY <1>5
<1>10. acc'[c] = Sums(Base(c), (g + 1) - Base(c)) /\ acc'[c] \in Seq(A)
  <2>1. CASE g = Base(c)
    <3>1. acc'[c] = <<read>> /\ (g + 1) - Base(c) = 1
      BY <1>2, <1>7, <2>1
    <3>2. <<read>> \in Seq(A)
      BY <1>9
    <3>3. <<read>> = Sums(Base(c), 1)
      BY <1>2, <1>5, <2>1 DEF Sums
    <3>4. QED
      BY <3>1, <3>2, <3>3
  <2>2. CASE g # Base(c)
    <3>1. g > Base(c) /\ g - Base(c) \in Nat /\ acc[c] = Sums(Base(c), g - Base(c))
      BY <1>1, <1>2, <2>2 DEF MmaInv
    <3>2. read = [op \in Operands |-> Base(c) + (g - Base(c))]
      BY <1>2, <1>5
    <3>3. acc'[c] = Append(Sums(Base(c), g - Base(c)), read)
      BY <1>7, <2>2, <3>1
    <3>4. Append(Sums(Base(c), g - Base(c)), read) = Sums(Base(c), (g - Base(c)) + 1)
      BY <1>2, <3>1, <3>2, SumGrows
    <3>5. Append(acc[c], read) \in Seq(A)
      <4> HIDE DEF A, read
      <4>1. QED
        BY <1>1, <1>9
    <3>6. (g + 1) - Base(c) = (g - Base(c)) + 1
      BY <1>2
    <3>7. QED
      BY <1>7, <2>2, <3>3, <3>4, <3>5, <3>6
  <2>3. QED
    BY <2>1, <2>2
<1>11. MmaInv(c)'
  <2>1. Len(mmas'[c]) <= Begun(c)' - Taken(c)'
    BY <1>2, <1>3, <1>6, <1>8
  <2>2. ASSUME NEW i \in 1 .. Len(mmas'[c])
        PROVE  /\ mmas'[c][i].step = g + 1 + i - 1
               /\ mmas'[c][i].clear <=> g + 1 + i - 1 = Base(c)
    <3>1. /\ i + 1 \in 1 .. Len(q) /\ mmas'[c][i] = q[i + 1]
          /\ g + 1 + i - 1 = g + (i + 1) - 1
      BY <1>2, <1>3, <1>6, <2>2, SMTT(30)
    <3>2. /\ q[i + 1].step = g + (i + 1) - 1
          /\ q[i + 1].clear <=> g + (i + 1) - 1 = Base(c)
      BY <1>1, <3>1 DEF MmaInv
    <3>3. QED
      BY <3>1, <3>2, Zenon
  <2>3. \A i \in 1 .. Len(mmas'[c]) :
          /\ mmas'[c][i].step = g + 1 + i - 1
          /\ mmas'[c][i].clear <=> g + 1 + i - 1 = Base(c)
    BY <2>2
  <2>4. acc'[c] = Sums(Base(c)', Oldest(c)' - Base(c)')
    BY <1>8, <1>10, Zenon
  <2> HIDE DEF q, g
  <2>5. QED
    BY <1>8, <2>1, <2>3, <2>4, Zenon DEF MmaInv
<1>12. ConsumerInv(c)'
  BY <1>1, <1>8, <1>11 DEF ConsumerInv, at, slot, round
<1>13. QED
  BY <1>3, <1>6, <1>10, <1>12

-----------------------------------------------------------------------------
(* One lemma per action: the invariant is inductive.                        *)

\* Who is not concerned by a step of a producer or of the copy engine.
LEMMA ConsumersKept ==
    ASSUME IInv, UNCHANGED <<ki, prev, mmas, acc>>,
           \A c \in Consumers : pc'[c] = pc[c] /\ gi'[c] = gi[c],
           \A s \in Slots : full'[s] \in Barriers /\ full'[s].phase >= full[s].phase
    PROVE  \A c \in Consumers : ConsumerInv(c)'
<1>1. \A s \in Slots : full'[s].phase \in Nat /\ full'[s].phase >= full[s].phase
  BY DEF Barriers
<1>2. ASSUME NEW c \in Consumers PROVE ConsumerInv(c)'
  BY <1>1, ConsumerSame DEF IInv, PipelineInv
<1>3. QED
  BY <1>2

LEMMA ProducerWaitInv ==
    ASSUME IInv, NEW p \in Producers, ProducerWait(p)
    PROVE  IInv'
<1>1. /\ Types /\ p \in Warps /\ UNCHANGED <<gi, issued, flying, ki, prev, smem, mmas, acc, full, empty>>
      /\ pc' = [pc EXCEPT ![p] = IF p = Leader THEN "tma" ELSE "arrive"]
  BY DEF IInv, ProducerWait, Goto, producing, consuming, Warps
<1>2. Types'
  BY <1>1 DEF Types
<1>3. \A c \in Consumers : pc'[c] = pc[c] /\ Taken(c)' = Taken(c)
  BY <1>1, ConsumersApart DEF consuming
<1>4. ASSUME NEW s \in Slots PROVE BarrierInv(s)'
  BY <1>1, <1>3, BarrierSame DEF IInv, PipelineInv, FlyingTo
<1>5. \A s \in Slots : full'[s] \in Barriers /\ full'[s].phase >= full[s].phase
  BY <1>1, BarrierTypes
<1>6. \A c \in Consumers : ConsumerInv(c)'
  BY <1>1, <1>3, <1>5, ConsumersKept
<1>7. QED
  BY <1>2, <1>4, <1>6, ProducerWaitStaging DEF IInv, PipelineInv

LEMMA TmaCopyInv ==
    ASSUME IInv, NEW op \in Operands, TmaCopy(op)
    PROVE  IInv'
<1>1. /\ Types /\ Leader \in Producers /\ Leader \in Warps /\ at(Leader, "tma")
      /\ UNCHANGED <<gi, ki, prev, smem, mmas, acc, empty>>
      /\ flying' = flying \cup {[op |-> op, slot |-> slot(Leader), step |-> gi[Leader]]}
      /\ pc' = [pc EXCEPT ![Leader] = IF issued \cup {op} = Operands THEN "arrive" ELSE "tma"]
      /\ issued' \in SUBSET Operands
      /\ full' = [full EXCEPT ![slot(Leader)] = Expecting(@)]
  BY PipelineAssumption DEF IInv, TmaCopy, Goto, at, consuming, Warps, Types
<1>2. gi[Leader] \in Steps /\ slot(Leader) \in Slots
  BY <1>1, ProducerLevel, ProducerTypes, TotalNat DEF Steps, at
<1>3. ASSUME NEW s \in Slots
      PROVE  BarrierInv(s)' /\ full'[s] \in Barriers /\ full'[s].phase >= full[s].phase
  BY TmaCopyBarrier
<1>4. full' \in [Slots -> Barriers]
  BY <1>1, <1>3 DEF Types
<1>5. flying' \in SUBSET Copies
  BY <1>1, <1>2 DEF Types, Copies
<1>6. Types'
  BY <1>1, <1>4, <1>5 DEF Types
<1>7. \A c \in Consumers : pc'[c] = pc[c] /\ gi'[c] = gi[c]
  BY <1>1, ConsumersApart DEF consuming
<1>8. \A c \in Consumers : ConsumerInv(c)'
  BY <1>1, <1>3, <1>7, ConsumersKept
<1>9. QED
  BY <1>3, <1>6, <1>8, TmaCopyStaging DEF IInv, PipelineInv

LEMMA ProducerArriveInv ==
    ASSUME IInv, NEW p \in Producers, ProducerArrive(p)
    PROVE  IInv'
<1>1. /\ Types /\ p \in Warps /\ at(p, "arrive")
      /\ UNCHANGED <<issued, flying, ki, prev, smem, mmas, acc, empty>>
      /\ pc' = [pc EXCEPT ![p] = "wait"] /\ gi' = [gi EXCEPT ![p] = @ + 1]
      /\ full' = [full EXCEPT ![slot(p)] = Arrived(@, FullCount)]
  BY DEF IInv, ProducerArrive, Goto, at, producing, consuming, Warps
<1>2. gi[p] + 1 \in 0 .. Total
  BY <1>1, ProducerLevel, ProducerTypes, TotalNat DEF at
<1>3. ASSUME NEW s \in Slots
      PROVE  BarrierInv(s)' /\ full'[s] \in Barriers /\ full'[s].phase >= full[s].phase
  BY ProducerArriveBarrier
<1>4. full' \in [Slots -> Barriers] /\ gi' \in [Warps -> 0 .. Total]
  BY <1>1, <1>2, <1>3 DEF Types
<1>5. Types'
  BY <1>1, <1>4 DEF Types
<1>6. \A c \in Consumers : gi'[c] = gi[c] /\ pc'[c] = pc[c]
  BY <1>1, PipelineAssumption DEF Types, Warps
<1>7. \A c \in Consumers : ConsumerInv(c)'
  BY <1>1, <1>3, <1>6, ConsumersKept
<1>8. QED
  BY <1>3, <1>5, <1>7, ProducerArriveStaging DEF IInv, PipelineInv

LEMMA CopyLandsInv ==
    ASSUME IInv, NEW copy \in flying, CopyLands(copy)
    PROVE  IInv'
<1>1. /\ Types /\ StagingInv /\ UNCHANGED <<pc, gi, issued, ki, prev, mmas, acc, empty>>
      /\ smem' = [smem EXCEPT ![copy.slot][copy.op] = copy.step]
      /\ full' = [full EXCEPT ![copy.slot] = Landed(@, FullCount)]
      /\ flying' = flying \ {copy}
  BY DEF IInv, PipelineInv, CopyLands, consuming
<1>2. copy.step \in Steps /\ copy.op \in Operands /\ copy.slot \in Slots
  BY <1>1, FlyingTypes
<1>3. ASSUME NEW s \in Slots
      PROVE  BarrierInv(s)' /\ full'[s] \in Barriers /\ full'[s].phase >= full[s].phase
  BY CopyLandsBarrier
<1>4. full' \in [Slots -> Barriers] /\ flying' \in SUBSET Copies
  BY <1>1, <1>3 DEF Types
<1>5. smem' \in [Slots -> [Operands -> Steps \cup {NoStep}]]
  BY <1>1, <1>2 DEF Types
<1>6. Types'
  BY <1>1, <1>4, <1>5 DEF Types
<1>7. \A c \in Consumers : ConsumerInv(c)'
  BY <1>1, <1>3, ConsumersKept
<1>8. QED
  BY <1>3, <1>6, <1>7, CopyLandsStaging DEF IInv, PipelineInv

\* Who is not concerned by a step of a consumer.
OthersKept(c) ==
    /\ \A w \in Warps : w # c => pc'[w] = pc[w] /\ gi'[w] = gi[w]
    /\ \A d \in Consumers : d # c => /\ ki'[d] = ki[d] /\ prev'[d] = prev[d]
                                     /\ mmas'[d] = mmas[d] /\ acc'[d] = acc[d]

LEMMA OtherConsumers ==
    ASSUME IInv, NEW c \in Consumers, OthersKept(c), UNCHANGED full
    PROVE  \A d \in Consumers : d # c => ConsumerInv(d)' /\ Taken(d)' = Taken(d)
<1> SUFFICES ASSUME NEW d \in Consumers, d # c
             PROVE  ConsumerInv(d)' /\ Taken(d)' = Taken(d)
  OBVIOUS
<1>1. /\ Types /\ ConsumerInv(d)
      /\ pc'[d] = pc[d] /\ gi'[d] = gi[d] /\ ki'[d] = ki[d] /\ prev'[d] = prev[d]
      /\ mmas'[d] = mmas[d] /\ acc'[d] = acc[d]
  BY DEF IInv, PipelineInv, OthersKept, Warps
<1>2. \A s \in Slots : full'[s].phase \in Nat /\ full'[s].phase >= full[s].phase
  BY <1>1, BarrierTypes
<1>3. QED
  BY <1>1, <1>2, ConsumerSame, TakenSame

LEMMA QuietConsumer ==
    ASSUME IInv, NEW c \in Consumers, OthersKept(c), Types', ConsumerInv(c)',
           Taken(c)' = Taken(c), UNCHANGED <<issued, flying, smem, full, empty>>
    PROVE  IInv'
<1>1. \A p \in Producers : pc'[p] = pc[p] /\ gi'[p] = gi[p]
  BY PipelineAssumption DEF OthersKept, Warps
<1>2. \A d \in Consumers : ConsumerInv(d)' /\ Taken(d)' = Taken(d)
  BY OtherConsumers
<1>3. ASSUME NEW s \in Slots PROVE BarrierInv(s)'
  BY <1>1, <1>2, BarrierSame DEF IInv, PipelineInv, FlyingTo
<1>4. StagingInv'
  <2>1. StagingInv /\ Leader \in Producers
    BY PipelineAssumption DEF IInv, PipelineInv
  <2>2. /\ \A g : Staged(g)' = Staged(g)
        /\ \A p \in Producers : slot(p)' = slot(p) /\ round(p)' = round(p)
        /\ \A p \in Producers : \A step : at(p, step)' <=> at(p, step)
    BY <1>1, <2>1 DEF Staged, slot, round, at
  <2>3. QED
    BY <1>1, <2>1, <2>2 DEF StagingInv, Copy, at
<1>5. QED
  BY <1>2, <1>3, <1>4 DEF IInv, PipelineInv

LEMMA ReleasingConsumer ==
    ASSUME IInv, NEW c \in Consumers, OthersKept(c), ConsumerInv(c)', Releases(c),
           Taken(c) < gi[c], UNCHANGED <<issued, smem>>
    PROVE  /\ empty' \in [Slots -> Barriers]
           /\ Types' => IInv'
<1>1. \A p \in Producers : pc'[p] = pc[p] /\ gi'[p] = gi[p]
  BY PipelineAssumption DEF OthersKept, Warps
<1>2. UNCHANGED full
  BY DEF Releases
<1>3. \A d \in Consumers : ConsumerInv(d)'
  BY <1>2, OtherConsumers
<1>4. ASSUME NEW s \in Slots PROVE BarrierInv(s)' /\ empty'[s] \in Barriers
  BY ReleaseBarrier
<1>5. empty' \in [Slots -> Barriers]
  BY <1>4 DEF Releases, IInv, Types
<1>6. StagingInv'
  BY <1>1, ReleaseStaging
<1>7. QED
  BY <1>3, <1>4, <1>5, <1>6 DEF IInv, PipelineInv

LEMMA AdvanceTypes ==
    ASSUME IInv, NEW c \in Consumers, Advance(c), (at(c, "mma") /\ ki[c] = 0) \/ at(c, "retire")
    PROVE  /\ pc' \in [Warps -> {"wait", "tma", "arrive", "mma", "retire", "drain", "epilogue"}]
           /\ gi' \in [Warps -> 0 .. Total] /\ ki' \in [Consumers -> 0 .. KIters]
           /\ prev' \in [Consumers -> Slots]
           /\ \A w \in Warps : w # c => pc'[w] = pc[w] /\ gi'[w] = gi[w]
           /\ \A d \in Consumers : d # c => ki'[d] = ki[d] /\ prev'[d] = prev[d]
<1>1. Types /\ c \in Warps /\ ConsumerInv(c) /\ gi[c] \in Nat /\ ki[c] \in Nat /\ slot(c) \in Slots
  BY TakenNat, ConsumerTypes DEF IInv, PipelineInv, Warps
<1>2. gi[c] < Total /\ ki[c] + 1 <= KIters
  BY <1>1, AdvanceCounters DEF Advance, Types
<1>3. gi[c] + 1 \in 0 .. Total /\ ki[c] + 1 \in 0 .. KIters
  BY <1>1, <1>2, TotalNat, PipelineAssumption
<1>4. QED
  BY <1>1, <1>3 DEF Advance, Goto, Types

LEMMA ConsumerWaitInductive ==
    ASSUME IInv, NEW c \in Consumers, ConsumerWait(c)
    PROVE  IInv'
<1>1. /\ Types /\ c \in Warps /\ at(c, "wait") /\ pc' = [pc EXCEPT ![c] = "mma"]
      /\ UNCHANGED <<gi, issued, flying, ki, prev, smem, mmas, acc, full, empty>>
  BY DEF IInv, ConsumerWait, Goto, producing, consuming, Warps
<1>2. Types' /\ OthersKept(c) /\ pc'[c] = "mma"
  BY <1>1 DEF Types, OthersKept
<1>3. Taken(c)' = Taken(c)
  BY <1>1, <1>2 DEF Taken, at
<1>4. QED
  BY <1>1, <1>2, <1>3, ConsumerWaitInv, QuietConsumer

LEMMA MmaInductive ==
    ASSUME IInv, NEW c \in Consumers, Mma(c)
    PROVE  IInv'
<1>1. /\ Types /\ c \in Warps /\ at(c, "mma") /\ ConsumerInv(c) /\ gi[c] \in Nat
      /\ UNCHANGED <<issued, flying, smem, acc, full, empty>>
      /\ mmas' = [mmas EXCEPT ![c] = Append(@, [step |-> gi[c], clear |-> ki[c] = 0])]
  BY TakenNat DEF IInv, PipelineInv, Mma, producing, Warps
<1>2. gi[c] \in Steps
  BY <1>1, TotalNat DEF ConsumerInv, Steps
<1>3. mmas' \in [Consumers -> Seq([step : Steps, clear : BOOLEAN])]
      /\ \A d \in Consumers : d # c => mmas'[d] = mmas[d]
  <2> DEFINE M == [step : Steps, clear : BOOLEAN]
  <2>1. [step |-> gi[c], clear |-> ki[c] = 0] \in M /\ mmas \in [Consumers -> Seq(M)]
    BY <1>1, <1>2 DEF Types
  <2> HIDE DEF M
  <2>2. Append(mmas[c], [step |-> gi[c], clear |-> ki[c] = 0]) \in Seq(M)
    BY <2>1
  <2>3. mmas' \in [Consumers -> Seq(M)] /\ \A d \in Consumers : d # c => mmas'[d] = mmas[d]
    BY <1>1, <2>1, <2>2
  <2>4. QED
    BY <2>3 DEF M
<1>4. Types' /\ OthersKept(c) /\ Taken(c)' = Taken(c)
  <2>1. CASE ki[c] = 0
    <3>1. Advance(c)
      BY <2>1 DEF Mma
    <3>2. Taken(c)' = gi[c] /\ Taken(c) = gi[c]
      BY <1>1, <2>1, <3>1, AdvanceCounters DEF Taken
    <3>3. QED
      BY <1>1, <1>3, <2>1, <3>1, <3>2, AdvanceTypes, ZenonT(30) DEF Types, OthersKept
  <2>2. CASE ki[c] # 0
    <3>1. pc' = [pc EXCEPT ![c] = "retire"] /\ UNCHANGED <<gi, ki, prev>>
      BY <2>2 DEF Mma, Goto, consuming
    <3>2. QED
      BY <1>1, <1>3, <3>1 DEF Types, OthersKept, Taken, at
  <2>3. QED
    BY <2>1, <2>2
<1>5. QED
  BY <1>1, <1>4, MmaConsumer, QuietConsumer

LEMMA RetireInductive ==
    ASSUME IInv, NEW c \in Consumers, Retire(c)
    PROVE  IInv'
<1>1. /\ Types /\ at(c, "retire") /\ Advance(c)
      /\ UNCHANGED <<issued, flying, smem, mmas, acc, full>>
  BY DEF IInv, Retire, producing
<1>2. OthersKept(c)
  BY <1>1, AdvanceTypes DEF OthersKept
<1>3. empty' \in [Slots -> Barriers] /\ (Types' => IInv')
  BY <1>1, <1>2, RetireConsumer, ReleasingConsumer
<1>4. Types'
  BY <1>1, <1>3, AdvanceTypes DEF Types
<1>5. QED
  BY <1>3, <1>4

LEMMA DrainInductive ==
    ASSUME IInv, NEW c \in Consumers, Drain(c)
    PROVE  IInv'
<1>1. /\ Types /\ c \in Warps /\ pc' = [pc EXCEPT ![c] = "epilogue"]
      /\ UNCHANGED <<gi, issued, flying, ki, prev, smem, mmas, acc, full>>
  BY DEF IInv, Drain, Goto, producing, consuming, Warps
<1>2. OthersKept(c)
  BY <1>1 DEF Types, OthersKept
<1>3. empty' \in [Slots -> Barriers] /\ (Types' => IInv')
  BY <1>1, <1>2, DrainConsumer, ReleasingConsumer
<1>4. Types'
  BY <1>1, <1>3 DEF Types
<1>5. QED
  BY <1>3, <1>4

LEMMA StoreInductive ==
    ASSUME IInv, NEW c \in Consumers, Store(c)
    PROVE  IInv'
<1>1. /\ Types /\ c \in Warps /\ pc' = [pc EXCEPT ![c] = "wait"] /\ ki' = [ki EXCEPT ![c] = 0]
      /\ UNCHANGED <<gi, issued, flying, prev, smem, mmas, acc, full, empty>>
  BY DEF IInv, Store, Goto, producing, Warps
<1>2. 0 \in 0 .. KIters
  BY PipelineAssumption
<1>3. Types' /\ OthersKept(c)
  BY <1>1, <1>2 DEF Types, OthersKept
<1>4. QED
  BY <1>1, <1>3, StoreConsumer, QuietConsumer

LEMMA MmaLandsInductive ==
    ASSUME IInv, NEW c \in Consumers, MmaLands(c)
    PROVE  IInv'
<1> DEFINE M == [step : Steps, clear : BOOLEAN]
           A == [Operands -> Steps \cup {NoStep}]
<1>1. Types /\ UNCHANGED <<pc, gi, issued, flying, ki, prev, smem, full, empty>>
  BY DEF IInv, MmaLands, producing, consuming
<1>2. /\ mmas \in [Consumers -> Seq(M)] /\ acc \in [Consumers -> Seq(A)]
      /\ mmas'[c] \in Seq(M) /\ acc'[c] \in Seq(A)
  BY <1>1, MmaLandsConsumer DEF Types
<1> HIDE DEF M, A
<1>3. \E m, a : mmas' = [mmas EXCEPT ![c] = m] /\ acc' = [acc EXCEPT ![c] = a]
  BY DEF MmaLands
<1>4. mmas' \in [Consumers -> Seq(M)] /\ acc' \in [Consumers -> Seq(A)]
  BY <1>2, <1>3
<1>5. OthersKept(c)
  BY <1>1, <1>2, <1>3 DEF OthersKept
<1>6. Types'
  BY <1>1, <1>4 DEF Types, M, A
<1>7. Taken(c)' = Taken(c)
  BY <1>1 DEF Taken, at
<1>8. QED
  BY <1>1, <1>5, <1>6, <1>7, MmaLandsConsumer, QuietConsumer

LEMMA Initially == Init => IInv
<1> SUFFICES ASSUME Init PROVE IInv
  OBVIOUS
<1>1. /\ NumStages \in Nat \ {0} /\ KIters \in Nat \ {0} /\ Leader \in Producers /\ Leader \in Warps
      /\ Total \in Nat /\ 0 \div NumStages = 0 /\ 0 % NumStages = 0
  <2>1. NumStages \in Nat \ {0} /\ KIters \in Nat \ {0} /\ Leader \in Producers /\ Leader \in Warps
    BY PipelineAssumption DEF Warps
  <2>2. NumStages * 0 + 0 = 0 /\ 0 \in Slots
    BY <2>1 DEF Slots
  <2>3. 0 \div NumStages = 0 /\ 0 % NumStages = 0
    BY <2>2, Decompose
  <2>4. QED
    BY <2>1, <2>3, TotalNat
<1>2. Types
  <2>1. 0 \in 0 .. Total /\ 0 \in 0 .. KIters /\ 0 \in Slots
    BY <1>1 DEF Slots
  <2>2. Fresh \in Barriers
    BY DEF Fresh, Barriers
  <2>3. QED
    BY <2>1, <2>2 DEF Init, Types
<1>3. \A w \in Warps : gi[w] = 0 /\ pc[w] = "wait"
  BY DEF Init
<1>4. \A c \in Consumers : ki[c] = 0 /\ gi[c] = 0 /\ pc[c] = "wait" /\ mmas[c] = <<>>
  BY <1>3 DEF Init, Warps
<1>5. \A c \in Consumers : Taken(c) = 0 /\ Begun(c) = 0 /\ Base(c) = 0 /\ Oldest(c) = 0
  BY <1>4 DEF Taken, Begun, Base, Oldest, at
<1>6. \A s \in Slots : Visits(0, s) = 0 /\ full[s] = Fresh /\ empty[s] = Fresh
  BY <1>1 DEF Visits, Init, Slots
<1>7. FullCount \in Nat /\ FullCount > 0 /\ EmptyCount \in Nat /\ EmptyCount > 0
  BY PipelineAssumption, FS_CardinalityType, FS_EmptySet DEF FullCount, EmptyCount
<1>8. ASSUME NEW s \in Slots PROVE BarrierInv(s)
  <2>1. Staging(s) = {} /\ Releasing(s) = {} /\ FlyingTo(s) = {}
    BY <1>3, <1>5, <1>6 DEF Staging, Releasing, FlyingTo, Fresh, Init, Warps
  <2>2. \A p \in Producers : gi[p] = 0
    BY <1>3 DEF Warps
  <2>3. QED
    BY <1>5, <1>6, <1>7, <2>1, <2>2, FS_EmptySet DEF BarrierInv, Fresh
<1>9. StagingInv
  <2>1. \A g \in Steps : Staged(g) = {}
    BY <1>1, <1>3 DEF Staged, Steps, Init, at
  <2>2. flying = {} /\ issued = {}
    BY DEF Init
  <2>3. QED
    BY <1>1, <1>3, <2>1, <2>2, FS_EmptySet DEF StagingInv, at, Warps
<1>10. ASSUME NEW c \in Consumers PROVE ConsumerInv(c)
  <2>1. MmaInv(c)
    BY <1>4, <1>5 DEF MmaInv
  <2>2. QED
    BY <1>1, <1>4, <1>5, <1>6, <2>1 DEF ConsumerInv, at, Fresh
<1>11. QED
  BY <1>2, <1>8, <1>9, <1>10 DEF IInv, PipelineInv

LEMMA Inductive == IInv /\ [Next]_vars => IInv'
<1> SUFFICES ASSUME IInv, [Next]_vars PROVE IInv'
  OBVIOUS
<1>1. ASSUME NEW p \in Producers, ProducerStep(p) PROVE IInv'
  BY <1>1, ProducerWaitInv, ProducerArriveInv DEF ProducerStep
<1>2. CASE LeaderCopies
  BY <1>2, TmaCopyInv DEF LeaderCopies
<1>3. ASSUME NEW c \in Consumers, ConsumerStep(c) PROVE IInv'
  BY <1>3, ConsumerWaitInductive, MmaInductive, RetireInductive, DrainInductive, StoreInductive
     DEF ConsumerStep
<1>4. ASSUME NEW c \in Consumers, MmaLands(c) PROVE IInv'
  BY <1>4, MmaLandsInductive
<1>5. CASE CopyEngine
  BY <1>5, CopyLandsInv DEF CopyEngine
<1>6. CASE UNCHANGED vars
  <2>1. UNCHANGED <<pc, gi, issued, ki, prev, flying, smem, mmas, acc, full, empty>>
    BY <1>6 DEF vars
  <2>2. Types' /\ IInv
    BY <2>1 DEF IInv, Types
  <2>3. \A c \in Consumers : ConsumerInv(c)' /\ Taken(c)' = Taken(c)
    BY <2>1, ConsumersKept, BarrierTypes, TakenSame DEF IInv
  <2>4. PICK c \in Consumers : TRUE
    BY PipelineAssumption
  <2>5. OthersKept(c)
    BY <2>1 DEF OthersKept
  <2>6. QED
    BY <2>1, <2>2, <2>3, <2>5, QuietConsumer
<1>7. QED
  BY <1>1, <1>2, <1>3, <1>4, <1>5, <1>6 DEF Next

LEMMA Invariant == Spec => []IInv
BY Initially, Inductive, PTL DEF Spec

-----------------------------------------------------------------------------
\* No barrier gets an arrival or a landing beyond its counts, whatever the number of
\* threads, slots, steps and tiles (dense.py:1878, 1879).
THEOREM TypeCorrect == Spec => []TypeOK
BY Invariant, CountsBounded, PTL

\* Waiting by parity waits for the round (dense.py:1902, 1934).
THEOREM ParitiesDecide == Spec => []ParityTellsRounds
BY Invariant, Parities, PTL

\* No copy overwrites what a matrix instruction in flight reads, although a slot is released
\* one step late and without the newest instruction being waited for (dense.py:1945).
THEOREM NeverOverwritten == Spec => []NoOverwrite
BY Invariant, NothingOverwritten, PTL

\* Every tile stored is the sum of its steps, each once and in order (dense.py:1948).
THEOREM TilesAreWhole == Spec => []TileComplete
BY Invariant, TilesWhole, PTL

-----------------------------------------------------------------------------
(* The barriers implement the window of steps.                              *)

LEMMA Published ==
    ASSUME IInv, NEW g \in Steps,
           full[g % NumStages].phase = g \div NumStages,
           empty[g % NumStages].phase = g \div NumStages,
           full'[g % NumStages].phase = g \div NumStages + 1,
           \A s \in Slots : s # g % NumStages => full'[s].phase = full[s].phase,
           \A c \in Consumers : Taken(c)' = Taken(c)
    PROVE  Stream!Publish(g)
<1>1. g \in Nat /\ g % NumStages \in Slots /\ g \div NumStages \in Nat /\ Types
  BY StepNat DEF IInv
<1>2. g \notin Ready
  BY <1>1 DEF Ready
<1>3. ASSUME NEW c \in Consumers PROVE g < Taken(c) + NumStages
  <2>1. Taken(c) \in Nat /\ BarrierInv(g % NumStages)
    BY <1>1, TakenNat DEF IInv, PipelineInv
  <2>2. Visits(Taken(c), g % NumStages) >= g \div NumStages
    BY <1>1, <2>1 DEF BarrierInv
  <2>3. QED
    BY <1>1, <2>1, <2>2, WithinWindow
<1>4. Ready' = Ready \cup {g}
  <2>1. ASSUME NEW i \in Steps
        PROVE  full'[i % NumStages].phase > i \div NumStages
               <=> full[i % NumStages].phase > i \div NumStages \/ i = g
    <3>1. /\ i \in Nat /\ i % NumStages \in Slots /\ i \div NumStages \in Nat
          /\ full[i % NumStages].phase \in Nat
      BY <1>1, StepNat, BarrierTypes
    <3>2. CASE i % NumStages # g % NumStages
      BY <3>1, <3>2
    <3>3. CASE i % NumStages = g % NumStages
      <4>1. i \div NumStages = g \div NumStages => i = g
        BY <1>1, <3>1, <3>3, SameStep
      <4> DEFINE a == i \div NumStages
                 b == g \div NumStages
      <4>2. a \in Nat /\ b \in Nat /\ (a = b <=> i = g)
        BY <1>1, <3>1, <4>1
      <4> HIDE DEF a, b
      <4>3. b + 1 > a <=> b > a \/ i = g
        BY <4>2
      <4>4. QED
        BY <3>3, <4>3 DEF a, b
    <3>4. QED
      BY <3>2, <3>3
  <2>2. QED
    BY <2>1 DEF Ready
<1>5. QED
  BY <1>2, <1>3, <1>4 DEF Stream!Publish

LEMMA Stuttered ==
    ASSUME \A s \in Slots : full'[s].phase = full[s].phase,
           \A c \in Consumers : Taken(c)' = Taken(c)
    PROVE  UNCHANGED Stream!vars
<1>1. \A i \in Steps : i % NumStages \in Slots
  BY StepNat
<1>2. Ready' = Ready
  BY <1>1 DEF Ready
<1>3. QED
  BY <1>2 DEF Stream!vars

LEMMA TakenOne ==
    ASSUME IInv, NEW c \in Consumers, Taken(c) < gi[c], Releases(c)
    PROVE  Stream!Take(c)
<1>1. Types /\ Taken(c) \in Nat /\ gi[c] \in Nat /\ gi[c] <= Total
  <2>1. Types /\ Taken(c) \in Nat /\ gi[c] \in Nat
    BY TakenNat DEF IInv, PipelineInv
  <2>2. gi[c] \in 0 .. Total
    BY <2>1 DEF Types, Warps
  <2>3. QED
    BY <2>1, <2>2, TotalNat
<1>2. Taken(c) \in Ready
  <2>1. Taken(c) \in Steps
    BY <1>1, TotalNat DEF Steps
  <2>2. LET s == Taken(c) % NumStages IN
        /\ s \in Slots /\ Taken(c) \div NumStages = empty[s].phase
        /\ full[s].phase = empty[s].phase + 1
    BY ConsumerHolds
  <2>3. full[Taken(c) % NumStages].phase > Taken(c) \div NumStages
    BY <1>1, <2>2, BarrierTypes
  <2>4. QED
    BY <2>1, <2>3 DEF Ready
<1>3. Ready' = Ready
  BY DEF Ready, Releases
<1>4. QED
  BY <1>2, <1>3 DEF Stream!Take, Releases

LEMMA StreamInit == Init => Stream!Init
<1> SUFFICES ASSUME Init PROVE Stream!Init
  OBVIOUS
<1>1. IInv
  BY Initially
<1>2. ASSUME NEW c \in Consumers PROVE Taken(c) = 0
  BY DEF Init, Taken, Warps
<1>3. ASSUME NEW i \in Steps PROVE ~(full[i % NumStages].phase > i \div NumStages)
  <2>1. i % NumStages \in Slots /\ i \div NumStages \in Nat
    BY StepNat
  <2>2. full[i % NumStages].phase = 0
    BY <2>1 DEF Init, Fresh
  <2>3. QED
    BY <2>1, <2>2
<1>4. QED
  BY <1>2, <1>3 DEF Stream!Init, Ready

LEMMA StreamStep == IInv /\ [Next]_vars => [Stream!Next]_Stream!vars
<1> SUFFICES ASSUME IInv, [Next]_vars PROVE [Stream!Next]_Stream!vars
  OBVIOUS
<1>1. Types /\ StagingInv
  BY DEF IInv, PipelineInv
<1>2. ASSUME NEW g \in Steps, Stream!Publish(g) PROVE Stream!Next
  BY <1>2 DEF Stream!Next, Steps
<1>3. ASSUME NEW c \in Consumers, Stream!Take(c) PROVE Stream!Next
  BY <1>3 DEF Stream!Next
<1>4. ASSUME NEW p \in Producers, ProducerWait(p) PROVE UNCHANGED Stream!vars
  <2>1. UNCHANGED <<gi, full, ki, prev>>
        /\ pc' = [pc EXCEPT ![p] = IF p = Leader THEN "tma" ELSE "arrive"]
    BY <1>4 DEF ProducerWait, consuming, Goto
  <2>2. \A c \in Consumers : Taken(c)' = Taken(c)
    BY <1>1, <2>1, ConsumersApart DEF consuming
  <2>3. QED
    BY <2>1, <2>2, Stuttered
<1>5. ASSUME NEW op \in Operands, TmaCopy(op) PROVE UNCHANGED Stream!vars
  <2>1. /\ UNCHANGED <<gi, ki, prev>> /\ Leader \in Producers
        /\ pc' = [pc EXCEPT ![Leader] = IF issued \cup {op} = Operands THEN "arrive" ELSE "tma"]
        /\ full' = [full EXCEPT ![slot(Leader)] = Expecting(@)]
    BY <1>1, <1>5, PipelineAssumption DEF TmaCopy, consuming, Goto, at, Types
  <2>2. \A c \in Consumers : Taken(c)' = Taken(c)
    BY <1>1, <2>1, ConsumersApart DEF consuming
  <2>3. ASSUME NEW s \in Slots PROVE full'[s].phase = full[s].phase
    <3>1. full[s] \in Barriers /\ full'[s] = IF s = slot(Leader) THEN Expecting(full[s]) ELSE full[s]
      BY <1>1, <2>1, BarrierTypes DEF Types
    <3>2. QED
      BY <3>1, CompletedFields
  <2>4. QED
    BY <2>2, <2>3, Stuttered
<1>6. ASSUME NEW p \in Producers, ProducerArrive(p) PROVE [Stream!Next]_Stream!vars
  <2>1. /\ p \in Warps /\ at(p, "arrive") /\ UNCHANGED <<ki, prev>>
        /\ pc' = [pc EXCEPT ![p] = "wait"] /\ gi' = [gi EXCEPT ![p] = @ + 1]
    BY <1>6 DEF ProducerArrive, Goto, producing, consuming, Warps
  <2>2. \A c \in Consumers : gi'[c] = gi[c] /\ Taken(c)' = Taken(c)
    <3>1. \A c \in Consumers : gi'[c] = gi[c]
      BY <1>1, <2>1, PipelineAssumption DEF Types, Warps
    <3>2. QED
      BY <1>1, <2>1, <3>1, ConsumersApart DEF consuming
  <2>3. /\ full[slot(p)].phase = round(p) /\ empty[slot(p)].phase = round(p)
        /\ gi[p] \in Steps /\ slot(p) \in Slots
    BY <1>1, <2>1, ProducerLevel, ProducerTypes, TotalNat DEF at, Steps
  <2>4. \A s \in Slots : full'[s].phase # full[s].phase =>
          s = slot(p) /\ full'[s].phase = full[s].phase + 1
    BY <1>6, ProducerArriveBarrier
  <2>5. CASE full'[slot(p)].phase = full[slot(p)].phase
    BY <2>2, <2>4, <2>5, Stuttered
  <2>6. CASE full'[slot(p)].phase # full[slot(p)].phase
    <3>1. full'[slot(p)].phase = round(p) + 1
          /\ \A s \in Slots : s # slot(p) => full'[s].phase = full[s].phase
      BY <2>3, <2>4, <2>6
    <3>2. Stream!Publish(gi[p])
      BY <2>2, <2>3, <3>1, Published DEF slot, round
    <3>3. QED
      BY <1>2, <2>3, <3>2
  <2>7. QED
    BY <2>5, <2>6
<1>7. ASSUME NEW copy \in flying, CopyLands(copy) PROVE [Stream!Next]_Stream!vars
  <2>1. UNCHANGED <<pc, gi, ki, prev>>
    BY <1>7 DEF CopyLands, consuming
  <2>2. \A c \in Consumers : Taken(c)' = Taken(c)
    BY <2>1, TakenSame
  <2>3. /\ copy.slot = copy.step % NumStages /\ copy.slot \in Slots /\ copy.step \in Steps
        /\ full[copy.slot].phase = copy.step \div NumStages
        /\ empty[copy.slot].phase = copy.step \div NumStages
    BY <1>1, FlyingTypes DEF StagingInv
  <2>4. \A s \in Slots : full'[s].phase # full[s].phase =>
          s = copy.slot /\ full'[s].phase = full[s].phase + 1
    BY <1>7, CopyLandsBarrier
  <2>5. CASE full'[copy.slot].phase = full[copy.slot].phase
    BY <2>2, <2>4, <2>5, Stuttered
  <2>6. CASE full'[copy.slot].phase # full[copy.slot].phase
    <3>1. full'[copy.slot].phase = copy.step \div NumStages + 1
          /\ \A s \in Slots : s # copy.slot => full'[s].phase = full[s].phase
      BY <2>3, <2>4, <2>6
    <3>2. Stream!Publish(copy.step)
      BY <2>2, <2>3, <3>1, Published
    <3>3. QED
      BY <1>2, <2>3, <3>2
  <2>7. QED
    BY <2>5, <2>6
<1>8. ASSUME NEW c \in Consumers, ConsumerWait(c) \/ Mma(c) \/ Store(c) \/ MmaLands(c)
      PROVE  UNCHANGED Stream!vars
  <2>1. UNCHANGED full
    BY <1>8 DEF ConsumerWait, Mma, Store, MmaLands
  <2>2. \A d \in Consumers : d # c => Taken(d)' = Taken(d)
    <3>1. \A w \in Warps : w # c => pc'[w] = pc[w] /\ gi'[w] = gi[w]
      BY <1>1, <1>8 DEF ConsumerWait, Mma, Store, MmaLands, Advance, Goto, Types
    <3>2. \A d \in Consumers : d # c => ki'[d] = ki[d]
      BY <1>1, <1>8 DEF ConsumerWait, Mma, Store, MmaLands, Advance, consuming, Types
    <3>3. QED
      BY <3>1, <3>2, TakenSame DEF Warps
  <2>3. Taken(c)' = Taken(c)
    <3>1. CASE ConsumerWait(c)
      BY <1>1, <3>1 DEF ConsumerWait, Goto, Taken, at, Types, Warps, consuming
    <3>2. CASE Mma(c)
      <4>1. CASE ki[c] = 0
        BY <3>2, <4>1, AdvanceCounters DEF Mma, Taken
      <4>2. CASE ki[c] # 0
        BY <1>1, <3>2, <4>2 DEF Mma, Goto, Taken, at, Types, Warps, consuming
      <4>3. QED
        BY <4>1, <4>2
    <3>3. CASE Store(c)
      BY <3>3, StoreConsumer
    <3>4. CASE MmaLands(c)
      BY <3>4 DEF MmaLands, Taken, at, consuming
    <3>5. QED
      BY <1>8, <3>1, <3>2, <3>3, <3>4
  <2>4. \A d \in Consumers : Taken(d)' = Taken(d)
    BY <2>2, <2>3
  <2>5. QED
    BY <2>1, <2>4, Stuttered
<1>9. ASSUME NEW c \in Consumers, Retire(c) \/ Drain(c) PROVE Stream!Next
  <2>1. Releases(c) /\ Taken(c) < gi[c]
    BY <1>9, RetireConsumer, DrainConsumer
  <2>2. QED
    BY <1>3, <2>1, TakenOne
<1>10. CASE UNCHANGED vars
  BY <1>10, TakenSame, Stuttered DEF vars
<1>11. QED
  BY <1>4, <1>5, <1>6, <1>7, <1>8, <1>9, <1>10
     DEF Next, ProducerStep, LeaderCopies, ConsumerStep, CopyEngine

\* The two barriers of every slot implement the window of num_stages steps: each step is
\* published once, over one every consumer has released, and taken in order
\* (dense.py:1854-1980).
THEOREM BarriersStream == Spec => Streams
<1>1. Spec => []IInv
  BY Invariant
<1>2. QED
  BY <1>1, StreamInit, StreamStep, PTL DEF Spec, Streams, Stream!Spec

-----------------------------------------------------------------------------
(* Nobody waits for ever: the ring stops only when every tile is done.      *)

\* The guards of the actions.
ProducerCan(p) ==
    \/ at(p, "wait") /\ gi[p] < Total /\ Passes(empty[slot(p)], 1 - phase(p))
    \/ at(p, "arrive")
LeaderCan == at(Leader, "tma") /\ \E op \in Operands : op \notin issued
ConsumerCan(c) ==
    \/ at(c, "wait") /\ gi[c] < Total /\ Passes(full[slot(c)], phase(c))
    \/ at(c, "mma") \/ at(c, "epilogue")
    \/ at(c, "retire") /\ Len(mmas[c]) <= 1
    \/ at(c, "drain") /\ mmas[c] = <<>>
    \/ mmas[c] # <<>>

SomeoneCan ==
    \/ \E p \in Producers : ProducerCan(p)
    \/ LeaderCan
    \/ \E c \in Consumers : ConsumerCan(c)
    \/ flying # {}

AllIssued == issued = Operands

LEMMA SomeIssuable ==
    ASSUME Types, ~AllIssued, [Next]_vars
    PROVE  ~AllIssued'
<1>1. CASE UNCHANGED vars
  BY <1>1 DEF AllIssued, vars
<1>2. ASSUME NEW p \in Producers, ProducerStep(p) PROVE ~AllIssued'
  BY <1>2 DEF AllIssued, ProducerStep, ProducerWait, ProducerArrive, producing
<1>3. ASSUME NEW op \in Operands, TmaCopy(op) PROVE ~AllIssued'
  BY <1>3, PipelineAssumption DEF AllIssued, TmaCopy
<1>4. ASSUME NEW c \in Consumers, ConsumerStep(c) \/ MmaLands(c) PROVE ~AllIssued'
  BY <1>4 DEF AllIssued, ConsumerStep, ConsumerWait, Mma, Retire, Drain, Store, MmaLands,
              producing
<1>5. ASSUME NEW copy \in flying, CopyLands(copy) PROVE ~AllIssued'
  BY <1>5 DEF AllIssued, CopyLands
<1>6. QED
  BY <1>1, <1>2, <1>3, <1>4, <1>5 DEF Next, LeaderCopies, CopyEngine

\* The consumer that is furthest behind.
LEMMA Hindmost ==
    ASSUME Types
    PROVE  \E c \in Consumers : \A d \in Consumers : gi[c] <= gi[d]
<1> DEFINE S == {gi[c] : c \in Consumers}
<1>1. \A c \in Consumers : gi[c] \in Nat
  BY ConsumerTypes
<1>2. S \subseteq Nat /\ S # {}
  BY <1>1, PipelineAssumption
<1>3. PICK x \in S : \A y \in S : ~(<<y, x>> \in OpToRel(<, Nat))
  <2> HIDE DEF S
  <2>1. QED
    BY <1>2, NatLessThanWellFounded, WFMin
<1>4. \A y \in S : y < x => <<y, x>> \in OpToRel(<, Nat)
  BY <1>2 DEF OpToRel
<1>5. \A y \in S : ~(y < x)
  BY <1>3, <1>4, Zenon
<1>6. PICK c \in Consumers : x = gi[c]
  BY <1>3
<1>7. ASSUME NEW d \in Consumers PROVE gi[c] <= gi[d]
  <2>1. gi[d] \in S
    OBVIOUS
  <2>2. ~(gi[d] < gi[c])
    BY <1>5, <1>6, <2>1
  <2>3. QED
    BY <1>1, <2>2
<1>8. QED
  BY <1>7

\* Who has made no more visits than step g before it is at g or behind it.
LEMMA NotPast ==
    ASSUME NEW m \in Nat, NEW g \in Nat, Visits(m, g % NumStages) <= g \div NumStages
    PROVE  m <= g
<1>1. SUFFICES ASSUME g + 1 <= m PROVE FALSE
  OBVIOUS
<1>2. g % NumStages \in Slots /\ g \div NumStages \in Nat
  BY DivMod
<1>3. Visits(g + 1, g % NumStages) = g \div NumStages + 1
  BY <1>2, VisitsNext, VisitsSelf
<1>4. Visits(g + 1, g % NumStages) <= Visits(m, g % NumStages)
  BY <1>1, <1>2, VisitsMonotone
<1>5. QED
  BY <1>2, <1>3, <1>4, VisitsNat

\* Who has made fewer visits than step g before it is a window behind it.
LEMMA WindowBehind ==
    ASSUME NEW m \in Nat, NEW g \in Nat, Visits(m, g % NumStages) < g \div NumStages
    PROVE  m + NumStages <= g
<1> DEFINE s == g % NumStages
           q == g \div NumStages
<1>1. s \in Slots /\ q \in Nat /\ g = NumStages * q + s /\ Visits(m, s) \in Nat
  BY DivMod, VisitsNat
<1>2. Visits(m, s) < q
  OBVIOUS
<1> HIDE DEF s, q
<1>3. q - 1 \in Nat
  BY <1>1, <1>2
<1> DEFINE h == NumStages * (q - 1) + s
<1>4. h \in Nat /\ h + NumStages = g
  BY <1>1, <1>3, PipelineAssumption DEF Slots
<1>5. h \div NumStages = q - 1 /\ h % NumStages = s
  BY <1>1, <1>3, Decompose
<1> HIDE DEF h
<1>6. m <= h
  BY <1>1, <1>2, <1>3, <1>4, <1>5, NotPast
<1>7. QED
  BY <1>4, <1>6, PipelineAssumption

\* When nothing can move every warp is at a wait, and no copy is on its way.
LEMMA Stopped ==
    ASSUME IInv, ~AllIssued, ~SomeoneCan
    PROVE  /\ flying = {}
           /\ \A p \in Producers : /\ at(p, "wait")
                                   /\ gi[p] < Total => empty[slot(p)].phase < round(p)
           /\ \A c \in Consumers : /\ at(c, "wait") /\ ki[c] < KIters
                                   /\ gi[c] < Total => full[slot(c)].phase <= round(c)
<1>1. Types /\ StagingInv /\ ParityTellsRounds /\ \A c \in Consumers : ConsumerInv(c)
  BY Parities DEF IInv, PipelineInv
<1>2. flying = {}
  BY DEF SomeoneCan
<1>3. ASSUME NEW p \in Producers
      PROVE  at(p, "wait") /\ (gi[p] < Total => empty[slot(p)].phase < round(p))
  <2>1. ~at(p, "tma")
    <3>1. SUFFICES ASSUME at(p, "tma") PROVE FALSE
      OBVIOUS
    <3>2. p = Leader
      BY <1>1, <3>1 DEF StagingInv
    <3>3. \E op \in Operands : op \notin issued
      BY <1>1 DEF AllIssued, Types
    <3>4. QED
      BY <3>1, <3>2, <3>3 DEF SomeoneCan, LeaderCan
  <2>2. ~ProducerCan(p)
    BY DEF SomeoneCan
  <2>3. at(p, "wait")
    BY <1>1, <2>1, <2>2 DEF StagingInv, ProducerCan, at
  <2>4. empty[slot(p)].phase \in Nat /\ round(p) \in Nat
    BY <1>1, ProducerTypes, BarrierTypes
  <2>5. Passes(empty[slot(p)], 1 - phase(p)) <=> empty[slot(p)].phase >= round(p)
    BY <1>1, <2>3 DEF ParityTellsRounds
  <2>6. QED
    BY <2>2, <2>3, <2>4, <2>5 DEF ProducerCan
<1>4. ASSUME NEW c \in Consumers
      PROVE  /\ at(c, "wait") /\ ki[c] < KIters
             /\ gi[c] < Total => full[slot(c)].phase <= round(c)
  <2>1. ~ConsumerCan(c)
    BY DEF SomeoneCan
  <2>2. mmas[c] = <<>> /\ Len(mmas[c]) <= 1
    BY <2>1 DEF ConsumerCan
  <2>3. at(c, "wait")
    BY <1>1, <2>1, <2>2 DEF ConsumerInv, ConsumerCan, at
  <2>4. full[slot(c)].phase \in Nat /\ round(c) \in Nat
    BY <1>1, ConsumerTypes, BarrierTypes
  <2>5. Passes(full[slot(c)], phase(c)) <=> full[slot(c)].phase > round(c)
    BY <1>1, <2>3 DEF ParityTellsRounds
  <2>6. QED
    BY <1>1, <2>1, <2>3, <2>4, <2>5 DEF ConsumerCan, ConsumerInv
<1>5. QED
  BY <1>2, <1>3, <1>4

\* A producer waits for a consumer a whole window behind it.
LEMMA ProducerWaitsFor ==
    ASSUME IInv, NEW p \in Producers, empty[slot(p)].phase < round(p)
    PROVE  \E d \in Consumers : Taken(d) + NumStages <= gi[p]
<1> DEFINE t == slot(p)
           e == empty[t].phase
<1>1. Types /\ t \in Slots /\ e \in Nat /\ gi[p] \in Nat /\ BarrierInv(t)
  BY ProducerTypes, BarrierTypes DEF IInv, PipelineInv
<1>2. Cardinality(Releasing(t)) < EmptyCount
  BY <1>1 DEF BarrierInv
<1>3. Releasing(t) # Consumers
  BY <1>1, <1>2 DEF EmptyCount, BarrierInv, Types, Barriers
<1>4. PICK d \in Consumers : d \notin Releasing(t)
  BY <1>3 DEF Releasing
<1>5. Taken(d) \in Nat
  BY TakenNat DEF IInv, PipelineInv
<1>6. Visits(Taken(d), t) = e
  BY <1>1, <1>4 DEF BarrierInv, Releasing
<1>7. Visits(Taken(d), gi[p] % NumStages) < gi[p] \div NumStages
  BY <1>6 DEF slot, round
<1>8. Taken(d) + NumStages <= gi[p]
  BY <1>1, <1>5, <1>7, WindowBehind
<1>9. QED
  BY <1>8

\* A consumer waits for a producer that is not past its step.
LEMMA ConsumerWaitsFor ==
    ASSUME IInv, flying = {}, NEW c \in Consumers, full[slot(c)].phase <= round(c)
    PROVE  \E p \in Producers : gi[p] <= gi[c]
<1> DEFINE s == slot(c)
           f == full[s].phase
<1>1. Types /\ s \in Slots /\ f \in Nat /\ gi[c] \in Nat /\ BarrierInv(s) /\ full[s].tx \in Nat
  BY ConsumerTypes, BarrierTypes DEF IInv, PipelineInv
<1>2. FlyingTo(s) = {}
  BY DEF FlyingTo
<1>3. full[s].tx = 0
  BY <1>1, <1>2, FS_EmptySet DEF BarrierInv
<1>4. Cardinality(Staging(s)) < FullCount
  BY <1>1, <1>3 DEF BarrierInv
<1>5. Cardinality(Staging(s)) \in Nat
  BY <1>1, BarrierTypes DEF BarrierInv
<1>6. Staging(s) # Producers
  BY <1>4, <1>5 DEF FullCount
<1>7. PICK p \in Producers : p \notin Staging(s)
  BY <1>6 DEF Staging
<1>8. gi[p] \in Nat
  BY <1>1, ProducerTypes
<1>9. Visits(gi[p], s) = f
  BY <1>1, <1>7 DEF BarrierInv, Staging
<1>10. Visits(gi[p], gi[c] % NumStages) <= gi[c] \div NumStages
  BY <1>9 DEF slot, round
<1>11. gi[p] <= gi[c]
  BY <1>1, <1>8, <1>10, NotPast
<1>12. QED
  BY <1>11

\* A ring of at least two slots: a slot is released a step late, so with one slot and
\* more than one step in a tile its consumer waits for itself (dense.py:1945).
LateReleaseFits == NumStages >= 2 \/ KIters = 1

Going == Finished \/ SomeoneCan

\* The consumer furthest behind would wait for a producer no further than itself, and
\* that one for a consumer further behind still.
LEMMA NeverStuck ==
    ASSUME IInv, ~AllIssued, LateReleaseFits
    PROVE  Going
<1>1. SUFFICES ASSUME ~SomeoneCan, ~Finished PROVE FALSE
  BY DEF Going
<1>2. Types
  BY DEF IInv
<1>3. /\ \A w \in Warps : gi[w] \in Nat /\ gi[w] <= Total
      /\ Total \in Nat
  BY <1>2, TotalNat DEF Types
<1>4. /\ flying = {}
      /\ \A p \in Producers : /\ at(p, "wait")
                              /\ gi[p] < Total => empty[slot(p)].phase < round(p)
      /\ \A c \in Consumers : /\ at(c, "wait") /\ ki[c] < KIters
                              /\ gi[c] < Total => full[slot(c)].phase <= round(c)
  BY <1>1, Stopped
<1>5. ASSUME NEW d \in Consumers
      PROVE  Taken(d) \in Nat /\ gi[d] < Taken(d) + NumStages
  <2>1. Taken(d) \in Nat /\ ki[d] \in Nat /\ gi[d] \in Nat
    BY TakenNat DEF IInv, PipelineInv
  <2>2. CASE KIters = 1
    <3>1. ki[d] = 0
      BY <1>4, <2>1, <2>2
    <3>2. QED
      BY <2>1, <3>1, PipelineAssumption DEF Taken
  <2>3. CASE NumStages >= 2
    BY <2>1, <2>3, PipelineAssumption DEF Taken
  <2>4. QED
    BY <2>2, <2>3 DEF LateReleaseFits
<1>6. ASSUME NEW p \in Producers, gi[p] < Total
      PROVE  \E d \in Consumers : gi[d] < gi[p]
  <2>1. PICK d \in Consumers : Taken(d) + NumStages <= gi[p]
    BY <1>4, <1>6, ProducerWaitsFor
  <2>2. Taken(d) \in Nat /\ gi[d] < Taken(d) + NumStages /\ gi[d] \in Nat /\ gi[p] \in Nat
    BY <1>3, <1>5 DEF Warps
  <2>3. QED
    BY <2>1, <2>2, PipelineAssumption
<1>7. PICK c \in Consumers : \A d \in Consumers : gi[c] <= gi[d]
  BY <1>2, Hindmost
<1>8. \E p \in Producers : gi[p] <= gi[c] /\ gi[p] < Total
  <2>1. CASE gi[c] < Total
    <3>1. PICK p \in Producers : gi[p] <= gi[c]
      BY <1>4, <2>1, ConsumerWaitsFor
    <3>2. QED
      BY <1>3, <2>1, <3>1 DEF Warps
  <2>2. CASE gi[c] = Total
    <3>1. \A d \in Consumers : gi[d] = Total
      BY <1>3, <1>7, <2>2 DEF Warps
    <3>2. PICK p \in Producers : gi[p] # Total
      BY <1>1, <1>4, <3>1 DEF Finished, Warps
    <3>3. QED
      BY <1>3, <2>2, <3>2 DEF Warps
  <2>3. QED
    BY <1>3, <2>1, <2>2 DEF Warps
<1>9. PICK p \in Producers : gi[p] <= gi[c] /\ gi[p] < Total
  BY <1>8
<1>10. PICK d \in Consumers : gi[d] < gi[p]
  BY <1>6, <1>9
<1>11. QED
  BY <1>3, <1>7, <1>9, <1>10 DEF Warps

\* Producer and consumers never all wait for each other: until every tile is done some
\* warp or engine can take its step (dense.py:1902, 1934).
THEOREM NoDeadlock == ASSUME LateReleaseFits PROVE Spec => []Going
<1>1. Spec => []IInv
  BY Invariant
<1>2. Init => ~AllIssued
  BY PipelineAssumption DEF Init, AllIssued
<1>3. IInv /\ ~AllIssued /\ [Next]_vars => ~AllIssued'
  BY SomeIssuable DEF IInv
<1>4. IInv /\ ~AllIssued => Going
  BY NeverStuck
<1>5. QED
  BY <1>1, <1>2, <1>3, <1>4, PTL DEF Spec

-----------------------------------------------------------------------------
(* A ring of one slot, which the code does not rule out.                    *)

OneSlot == NumStages = 1 /\ KIters >= 2

FirstStep(c) ==
    /\ gi[c] <= 1 /\ ki[c] = gi[c]
    /\ at(c, "wait") \/ (at(c, "mma") /\ gi[c] = 0)

NobodyPastFirst == \A c \in Consumers : FirstStep(c)

\* Nobody released the slot, so it was not staged twice.
LEMMA NeverRefilled ==
    ASSUME IInv, NobodyPastFirst, OneSlot, NEW s \in Slots
    PROVE  full[s].phase <= 1
<1>1. Types /\ BarrierInv(s) /\ s = 0 /\ full[s].phase \in Nat /\ empty[s].phase \in Nat
  BY BarrierTypes DEF IInv, PipelineInv, OneSlot, Slots
<1>2. PICK c \in Consumers : TRUE
  BY PipelineAssumption
<1>3. Taken(c) = 0
  <2>1. gi[c] \in Nat
    BY <1>1, ConsumerTypes
  <2>2. QED
    BY <2>1 DEF NobodyPastFirst, FirstStep, Taken, at
<1>4. Visits(0, s) = 0
  BY <1>1 DEF Visits, OneSlot
<1>5. QED
  BY <1>1, <1>3, <1>4 DEF BarrierInv

LEMMA NobodyPasses ==
    ASSUME IInv, NobodyPastFirst, OneSlot, [Next]_vars
    PROVE  NobodyPastFirst'
<1>1. Types /\ Leader \in Producers /\ \A c \in Consumers : c \in Warps
  BY PipelineAssumption DEF IInv, Warps
<1>2. ASSUME \A c \in Consumers : pc'[c] = pc[c] /\ gi'[c] = gi[c] /\ ki'[c] = ki[c]
      PROVE  NobodyPastFirst'
  BY <1>2 DEF NobodyPastFirst, FirstStep, at
<1>3. CASE UNCHANGED vars
  BY <1>2, <1>3 DEF vars, consuming
<1>4. ASSUME NEW p \in Producers, ProducerStep(p) PROVE NobodyPastFirst'
  <2>1. \A c \in Consumers : c # p
    BY PipelineAssumption
  <2>2. QED
    BY <1>1, <1>2, <1>4, <2>1
       DEF ProducerStep, ProducerWait, ProducerArrive, Goto, consuming, Types
<1>5. ASSUME NEW op \in Operands, TmaCopy(op) PROVE NobodyPastFirst'
  <2>1. \A c \in Consumers : c # Leader
    BY PipelineAssumption
  <2>2. QED
    BY <1>1, <1>2, <1>5, <2>1 DEF TmaCopy, Goto, consuming, Types
<1>6. ASSUME NEW copy \in flying, CopyLands(copy) PROVE NobodyPastFirst'
  BY <1>2, <1>6 DEF CopyLands, consuming
<1>7. ASSUME NEW c \in Consumers, MmaLands(c) PROVE NobodyPastFirst'
  BY <1>2, <1>7 DEF MmaLands, consuming
<1>8. ASSUME NEW c \in Consumers, Retire(c) \/ Drain(c) \/ Store(c) PROVE NobodyPastFirst'
  BY <1>8 DEF NobodyPastFirst, FirstStep, Retire, Drain, Store, at
<1>9. ASSUME NEW c \in Consumers, ConsumerWait(c) PROVE NobodyPastFirst'
  <2>1. gi[c] \in Nat /\ gi[c] <= 1 /\ slot(c) \in Slots /\ ki[c] = gi[c]
    BY <1>1, ConsumerTypes DEF NobodyPastFirst, FirstStep
  <2>2. round(c) = gi[c]
    BY <2>1 DEF round, OneSlot
  <2>3. full[slot(c)].phase > round(c)
    <3>1. Passes(full[slot(c)], phase(c)) <=> full[slot(c)].phase > round(c)
      BY <1>9, Parities DEF ParityTellsRounds, ConsumerWait
    <3>2. QED
      BY <1>9, <3>1 DEF ConsumerWait
  <2>4. full[slot(c)].phase <= 1 /\ full[slot(c)].phase \in Nat
    BY <1>1, <2>1, NeverRefilled, BarrierTypes
  <2>5. gi[c] = 0
    BY <2>1, <2>2, <2>3, <2>4
  <2>6. gi' = gi /\ ki' = ki /\ pc' = [pc EXCEPT ![c] = "mma"]
    BY <1>9 DEF ConsumerWait, Goto, consuming
  <2>7. \A d \in Consumers : pc'[d] = IF d = c THEN "mma" ELSE pc[d]
    BY <1>1, <2>6 DEF Types
  <2>8. QED
    BY <2>5, <2>6, <2>7 DEF NobodyPastFirst, FirstStep, at
<1>10. ASSUME NEW c \in Consumers, Mma(c) PROVE NobodyPastFirst'
  <2>1. gi[c] = 0 /\ ki[c] = 0
    BY <1>10 DEF NobodyPastFirst, FirstStep, Mma, at
  <2>2. /\ gi' = [gi EXCEPT ![c] = @ + 1] /\ ki' = [ki EXCEPT ![c] = @ + 1]
        /\ pc' = [pc EXCEPT ![c] = IF ki[c] + 1 = KIters THEN "drain" ELSE "wait"]
    BY <1>10, <2>1 DEF Mma, Advance, Goto
  <2>3. ki[c] + 1 # KIters
    BY <2>1, PipelineAssumption DEF OneSlot
  <2>4. \A d \in Consumers : /\ gi'[d] = IF d = c THEN 1 ELSE gi[d]
                             /\ ki'[d] = IF d = c THEN 1 ELSE ki[d]
                             /\ pc'[d] = IF d = c THEN "wait" ELSE pc[d]
    BY <1>1, <2>1, <2>2, <2>3 DEF Types
  <2>5. QED
    BY <2>4 DEF NobodyPastFirst, FirstStep, at
<1>11. QED
  BY <1>3, <1>4, <1>5, <1>6, <1>7, <1>8, <1>9, <1>10
     DEF Next, LeaderCopies, ConsumerStep, CopyEngine

\* With one slot and several steps to a tile no consumer ever gets past the first step of
\* its first tile, and no tile is stored: the wait that would release the slot comes
\* after the next step (dense.py:1945).
THEOREM OneSlotStalls == ASSUME OneSlot PROVE Spec => []NobodyPastFirst
<1>1. Spec => []IInv
  BY Invariant
<1>2. Init => NobodyPastFirst
  BY DEF Init, NobodyPastFirst, FirstStep, at, Warps
<1>3. IInv /\ NobodyPastFirst /\ [Next]_vars => NobodyPastFirst'
  BY NobodyPasses
<1>4. QED
  BY <1>1, <1>2, <1>3, PTL DEF Spec

=============================================================================
