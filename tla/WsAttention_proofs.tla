---------------------------- MODULE WsAttention_proofs ----------------------------
(***************************************************************************)
(* The attention kernel for any number of warps, tiles and key blocks:     *)
(* types, turns, that no copy overtakes a product, what is stored, and     *)
(* that nobody waits for ever.                                             *)
(***************************************************************************)
EXTENDS WsAttention, FiniteSetTheorems, WellFoundedInduction, TLAPS

Ops == {"k", "v"}
Mmas == [op : Ops, slot : 0 .. 1]
Terms == [p : Probs, v : Contents, scale : Nat]
Tags == Seq(Nat)
MmaSeqs == Seq(Mmas)
Rows == {None} \cup [o : Sums, scale : Nat, sums : Nat]    \* what a warp stores
Pcs == {"q", "q_full", "k_full", "turn", "v_full", "hand_over", "scores", "softmax",
        "product", "last_v", "drain", "store"}
WarpStates == [pc : Pcs, tile : Nat, n : Nat, gi_q : Nat, gi_k : Nat, gi_v : Nat, gen : Nat,
               q : Tags, mmas : MmaSeqs, s : Scores, p : Probs, o : Sums, max : Nat,
               scale : Nat]

\* The type invariant with its sets named.
LEMMA Types ==
    TypeOK <=>
      /\ causal \in BOOLEAN
      /\ prod \in [pc : {"k", "v", "last_v"}, tile : Nat, n : Nat, gi_k : Nat, gi_v : Nat]
      /\ (prod.pc = "v" => prod.n > 0) /\ (prod.pc # "k" => prod.tile < NumTiles)
      /\ copies \subseteq [op : Ops, slot : 0 .. 1, block : Nat \X Nat]
      /\ smem \in [Ops -> [0 .. 1 -> Contents]]
      /\ full \in [Ops -> Barriers] /\ empty \in [Ops -> Barriers]
      /\ named \in [1 .. 4 -> Barriers] /\ q_full \in [1 .. 2 -> Barriers]
      /\ warp \in [Warps -> WarpStates] /\ out \in [Tiles -> [Warps -> Rows]]
BY DEF TypeOK, Ops, Mmas, Terms, Tags, MmaSeqs, Rows, Pcs, WarpStates

-----------------------------------------------------------------------------
(* Barriers. *)

LEMMA WarpsFinite ==
    /\ IsFiniteSet(Warps) /\ IsFiniteSet(Group1) /\ IsFiniteSet(Group2)
    /\ Cardinality(Group1) \in Nat \ {0} /\ Cardinality(Group1) = Cardinality(Group2)
    /\ Cardinality(Warps) = 2 * Cardinality(Group1)
    /\ Group1 # {} /\ Group2 # {} /\ Warps # {}
<1>1. IsFiniteSet(Warps) /\ IsFiniteSet(Group1) /\ IsFiniteSet(Group2)
  BY AttentionAssumption, FS_Subset DEF Warps
<1>2. Cardinality(Group1) \in Nat /\ Cardinality(Group1) # 0
  BY <1>1, AttentionAssumption, FS_CardinalityType, FS_EmptySet
<1>3. Cardinality(Group2) # 0 /\ Group2 # {}
  BY <1>1, <1>2, AttentionAssumption, FS_EmptySet
<1>4. Cardinality(Warps) = Cardinality(Group1) + Cardinality(Group2)
                           - Cardinality(Group1 \cap Group2)
  BY <1>1, FS_Union DEF Warps
<1>5. Cardinality(Group1 \cap Group2) = 0
  BY AttentionAssumption, FS_EmptySet
<1>6. Cardinality(Warps) = 2 * Cardinality(Group1)
  BY <1>2, <1>4, <1>5, AttentionAssumption
<1>7. Warps # {}
  BY AttentionAssumption DEF Warps
<1> QED BY <1>1, <1>2, <1>3, <1>6, <1>7, AttentionAssumption

LEMMA BarrierTypes ==
    ASSUME NEW b \in Barriers, NEW count
    PROVE  /\ b.phase \in Nat /\ b.arrived \in Nat
           /\ Arrived(b, count) \in Barriers
           /\ Arrived(b, count).phase = IF b.arrived + 1 = count THEN b.phase + 1 ELSE b.phase
           /\ Arrived(b, count).arrived = IF b.arrived + 1 = count THEN 0 ELSE b.arrived + 1
<1>1. b = [phase |-> b.phase, arrived |-> b.arrived] /\ b.phase \in Nat /\ b.arrived \in Nat
  BY DEF Barriers
<1>2. Arrived(b, count) = IF b.arrived + 1 = count THEN [phase |-> b.phase + 1, arrived |-> 0]
                          ELSE [phase |-> b.phase, arrived |-> b.arrived + 1]
  BY <1>1 DEF Arrived
<1>3. CASE b.arrived + 1 = count
  BY <1>1, <1>2, <1>3 DEF Barriers
<1>4. CASE b.arrived + 1 # count
  BY <1>1, <1>2, <1>4 DEF Barriers
<1> QED BY <1>3, <1>4

LEMMA FreshType == Fresh \in Barriers /\ Fresh.phase = 0 /\ Fresh.arrived = 0
BY DEF Fresh, Barriers

\* f counts the arrivals of every member of G at b: nobody is more than one phase ahead, and
\* those who are wait for somebody who is not.
LevelOf(G, b, f) ==
    /\ \A x \in G : f[x] \in {b.phase, b.phase + 1}
    /\ b.arrived = Cardinality({x \in G : f[x] = b.phase + 1})
    /\ \E x \in G : f[x] = b.phase

Level(b, f) == LevelOf(Warps, b, f)

LEMMA OneMore ==
    ASSUME NEW S, IsFiniteSet(S), NEW T \in SUBSET S, NEW x \in S, x \notin T
    PROVE  /\ Cardinality(T) \in Nat /\ Cardinality(S) \in Nat
           /\ Cardinality(T \cup {x}) = Cardinality(T) + 1
           /\ Cardinality(T) + 1 <= Cardinality(S)
           /\ Cardinality(T) + 1 = Cardinality(S) => T \cup {x} = S
<1>1. IsFiniteSet(T) /\ IsFiniteSet(T \cup {x}) /\ Cardinality(T \cup {x}) = Cardinality(T) + 1
  BY FS_Subset, FS_AddElement
<1>2. T \cup {x} \in SUBSET S
  OBVIOUS
<1>3. Cardinality(T \cup {x}) <= Cardinality(S)
      /\ (Cardinality(S) = Cardinality(T \cup {x}) => S = T \cup {x})
  BY <1>2, FS_Subset
<1> QED BY <1>1, <1>3, FS_CardinalityType

\* A warp that has not arrived in this phase arrives.
LEMMA ArrivalOf ==
    ASSUME NEW G, IsFiniteSet(G), NEW b \in Barriers, NEW f, NEW g,
           \A y \in G : f[y] \in Nat /\ g[y] \in Nat, LevelOf(G, b, f), NEW x \in G,
           f[x] = b.phase, g[x] = f[x] + 1, \A y \in G \ {x} : g[y] = f[y]
    PROVE  /\ LevelOf(G, Arrived(b, Cardinality(G)), g)
           /\ Arrived(b, Cardinality(G)).phase \in {b.phase, b.phase + 1}
<1> DEFINE T == {y \in G : f[y] = b.phase + 1}
           B == Arrived(b, Cardinality(G))
<1>1. b.phase \in Nat /\ b.arrived \in Nat
  BY BarrierTypes
<1>2. T \in SUBSET G /\ x \notin T /\ b.arrived = Cardinality(T)
  BY <1>1 DEF LevelOf
<1>3. /\ Cardinality(T) + 1 <= Cardinality(G)
      /\ Cardinality(T \cup {x}) = Cardinality(T) + 1
      /\ Cardinality(T) + 1 = Cardinality(G) => T \cup {x} = G
  <2> HIDE DEF T
  <2> QED BY <1>2, OneMore
<1>4. CASE b.arrived + 1 = Cardinality(G)
  <2>1. B.phase = b.phase + 1 /\ B.arrived = 0
    BY <1>4, BarrierTypes
  <2>2. \A y \in G : g[y] = b.phase + 1
    BY <1>1, <1>2, <1>3, <1>4
  <2>3. {y \in G : g[y] = B.phase + 1} = {}
    BY <1>1, <2>1, <2>2
  <2>4. Cardinality({y \in G : g[y] = B.phase + 1}) = 0
    BY <2>3, FS_EmptySet
  <2>5. \A y \in G : g[y] = B.phase
    BY <2>1, <2>2
  <2>6. \E y \in G : g[y] = B.phase
    BY <2>5
  <2>7. LevelOf(G, B, g)
    BY <2>1, <2>4, <2>5, <2>6 DEF LevelOf
  <2> QED BY <2>1, <2>7
<1>5. CASE b.arrived + 1 # Cardinality(G)
  <2>1. B.phase = b.phase /\ B.arrived = b.arrived + 1
    BY <1>5, BarrierTypes
  <2>2. {y \in G : g[y] = B.phase + 1} = T \cup {x}
    BY <1>1, <2>1
  <2>3. \A y \in G : g[y] \in {b.phase, b.phase + 1}
    BY <1>1 DEF LevelOf
  <2>4. T \cup {x} # G
    BY <1>2, <1>3, <1>5
  <2>5. \E y \in G : g[y] = b.phase
    BY <1>2, <2>3, <2>4, <1>1
  <2> QED BY <1>2, <1>3, <2>1, <2>2, <2>3, <2>5 DEF LevelOf
<1> QED BY <1>4, <1>5

LEMMA Arrival ==
    ASSUME NEW b \in Barriers, NEW f \in [Warps -> Nat], NEW g \in [Warps -> Nat],
           Level(b, f), NEW x \in Warps, f[x] = b.phase, g[x] = f[x] + 1,
           \A y \in Warps \ {x} : g[y] = f[y]
    PROVE  /\ Level(Arrived(b, Cardinality(Warps)), g)
           /\ Arrived(b, Cardinality(Warps)).phase \in {b.phase, b.phase + 1}
BY WarpsFinite, ArrivalOf DEF Level

LEMMA LevelSame ==
    ASSUME NEW b, NEW f, NEW g, Level(b, f), \A y \in Warps : g[y] = f[y]
    PROVE  Level(b, g)
<1>1. {x \in Warps : f[x] = b.phase + 1} = {x \in Warps : g[x] = b.phase + 1}
  OBVIOUS
<1> QED BY <1>1 DEF Level, LevelOf

-----------------------------------------------------------------------------
(* What a step of a warp does to it: a lemma for every action, and for the *)
(* record it leaves behind.                                                *)

Others(x) == \A y \in Warps \ {x} : warp'[y] = warp[y]

LEMMA Steps ==
    ASSUME TypeOK, NEW x \in Warps, NEW w \in WarpStates, NEW from, Becomes(x, from, w)
    PROVE  /\ warp[x].pc = from /\ warp[x].tile < NumTiles
           /\ warp' \in [Warps -> WarpStates] /\ warp'[x] = w /\ Others(x)
           /\ UNCHANGED <<causal, prod, copies, smem, full, out>>
BY Types DEF Becomes, Others

Fields == {"pc", "tile", "n", "gi_q", "gi_k", "gi_v", "gen", "q", "mmas", "s", "p", "o", "max",
           "scale"}
Keeps(x, changed) == \A f \in Fields \ changed : warp'[x][f] = warp[x][f]

LEMMA Groups ==
    ASSUME NEW x \in Warps
    PROVE  /\ group(x) \in {1, 2} /\ x \in members(group(x))
           /\ members(1) = Group1 /\ members(2) = Group2 /\ members(group(x)) \subseteq Warps
           /\ \A y \in members(3 - group(x)) : y \in Warps /\ group(y) = 3 - group(x)
           /\ \A y \in Warps : y \in members(group(y))
           /\ \E y \in Warps : y \in members(3 - group(x))
BY AttentionAssumption, WarpsFinite DEF group, members, Warps

LEMMA Appends ==
    ASSUME NEW w \in WarpStates, NEW op \in Ops, NEW slot \in 0 .. 1
    PROVE  Append(w.mmas, [op |-> op, slot |-> slot]) \in MmaSeqs
<1>1. [op |-> op, slot |-> slot] \in Mmas /\ w.mmas \in Seq(Mmas)
  BY DEF Mmas, MmaSeqs, WarpStates
<1> QED BY <1>1 DEF MmaSeqs

LEMMA MmasType ==
    ASSUME NEW w \in WarpStates, NEW pc \in Pcs, NEW mmas \in MmaSeqs
    PROVE  [w EXCEPT !.pc = pc, !.mmas = mmas] \in WarpStates
BY DEF WarpStates

LEMMA StartType ==
    ASSUME NEW w \in WarpStates, NEW gi_q \in Nat, NEW q \in Tags, NEW o \in Sums
    PROVE  [w EXCEPT !.pc = "k_full", !.gi_q = gi_q, !.q = q, !.n = 0, !.o = o,
                     !.max = 0, !.scale = 0] \in WarpStates
<1> DEFINE w1 == [w EXCEPT !.pc = "k_full", !.gi_q = gi_q, !.q = q]
           w2 == [w1 EXCEPT !.n = 0, !.o = o]
<1>1. w1 \in WarpStates
  BY DEF WarpStates, Pcs
<1> HIDE DEF w1
<1>2. w2 \in WarpStates
  BY <1>1 DEF WarpStates
<1> HIDE DEF w2
<1>3. [w2 EXCEPT !.max = 0, !.scale = 0] \in WarpStates
  BY <1>2 DEF WarpStates
<1> QED BY <1>3 DEF w1, w2

LEMMA Slot == ASSUME NEW n \in Nat PROVE n % 2 \in 0 .. 1
OBVIOUS

LEMMA LoadQStep ==
    ASSUME TypeOK, NEW x \in Warps, LoadQ(x)
    PROVE  /\ warp[x].pc = "q" /\ warp'[x].pc = "q_full" /\ warp' \in [Warps -> WarpStates]
           /\ Others(x) /\ Keeps(x, {"pc"})
           /\ UNCHANGED <<causal, prod, copies, smem, full, out, empty, named>>
<1> DEFINE w == [warp[x] EXCEPT !.pc = "q_full"]
<1>1. warp[x] \in WarpStates
  BY Types
<1>3. w \in WarpStates
  BY <1>1 DEF WarpStates, Pcs
<1>4. Becomes(x, "q", w)
  BY DEF LoadQ
<1>5. w.pc = "q_full"
  BY <1>1 DEF WarpStates, w
<1>6. \A f \in Fields \ {"pc"} : w[f] = warp[x][f]
  BY <1>1 DEF WarpStates, w, Fields
<1> HIDE DEF w
<1>7. /\ warp[x].pc = "q" /\ warp[x].tile < NumTiles /\ warp'[x] = w
      /\ warp' \in [Warps -> WarpStates]
      /\ Others(x) /\ UNCHANGED <<causal, prod, copies, smem, full, out>>
  BY <1>3, <1>4, Steps
<1> QED BY <1>5, <1>6, <1>7 DEF Keeps, LoadQ, Release

LEMMA StartTileStep ==
    ASSUME TypeOK, NEW x \in Warps, StartTile(x)
    PROVE  /\ warp[x].pc = "q_full" /\ warp'[x].pc = "k_full" /\ warp' \in [Warps -> WarpStates]
           /\ Others(x) /\ Keeps(x, {"pc", "gi_q", "q", "n", "o", "max", "scale"})
           /\ warp'[x].gi_q = warp[x].gi_q + 1
           /\ warp'[x].q = <<warp[x].tile>>
           /\ warp'[x].n = 0
           /\ warp'[x].o = <<>>
           /\ warp'[x].max = 0
           /\ warp'[x].scale = 0
           /\ warp[x].tile < NumTiles
           /\ UNCHANGED <<causal, prod, copies, smem, full, out, empty, named, q_full>>
<1> DEFINE w == [warp[x] EXCEPT !.pc = "k_full", !.gi_q = warp[x].gi_q + 1,
                                !.q = <<warp[x].tile>>, !.n = 0, !.o = <<>>, !.max = 0,
                                !.scale = 0]
<1>1. warp[x] \in WarpStates
  BY Types
<1>2. <<warp[x].tile>> \in Tags /\ <<>> \in Sums /\ warp[x].gi_q + 1 \in Nat
  BY <1>1 DEF WarpStates, Tags, Sums
<1>3. w \in WarpStates
  BY <1>1, <1>2, StartType
<1>4. Becomes(x, "q_full", w)
  BY DEF StartTile
<1>5. /\ w.pc = "k_full" /\ w.gi_q = warp[x].gi_q + 1 /\ w.q = <<warp[x].tile>> /\ w.n = 0
      /\ w.o = <<>> /\ w.max = 0 /\ w.scale = 0
  BY <1>1 DEF WarpStates, w
<1>6. \A f \in Fields \ {"pc", "gi_q", "q", "n", "o", "max", "scale"} : w[f] = warp[x][f]
  BY <1>1 DEF WarpStates, w, Fields
<1> HIDE DEF w
<1>7. /\ warp[x].pc = "q_full" /\ warp[x].tile < NumTiles /\ warp'[x] = w
      /\ warp' \in [Warps -> WarpStates]
      /\ Others(x) /\ UNCHANGED <<causal, prod, copies, smem, full, out>>
  BY <1>3, <1>4, Steps
<1> QED BY <1>5, <1>6, <1>7 DEF Keeps, StartTile, Release

LEMMA AwaitKStep ==
    ASSUME TypeOK, NEW x \in Warps, AwaitK(x)
    PROVE  /\ warp[x].pc = "k_full" /\ warp'[x].pc = "turn" /\ warp' \in [Warps -> WarpStates]
           /\ Others(x) /\ Keeps(x, {"pc", "gen"})
           /\ warp'[x].gen = named[group(x)].phase
           /\ Passes(full["k"], warp[x].gi_k % 2)
           /\ named' = [named EXCEPT ![group(x)] = Arrived(@, Cardinality(Warps))]
           /\ UNCHANGED <<causal, prod, copies, smem, full, out, empty, q_full>>
<1> DEFINE w == [warp[x] EXCEPT !.pc = "turn", !.gen = named[group(x)].phase]
<1>1. warp[x] \in WarpStates
  BY Types
<1>2. named[group(x)].phase \in Nat
  BY Types, Groups DEF Barriers
<1>3. w \in WarpStates
  BY <1>1, <1>2 DEF WarpStates, Pcs
<1>4. Becomes(x, "k_full", w)
  BY DEF AwaitK
<1>5. w.pc = "turn" /\ w.gen = named[group(x)].phase
  BY <1>1 DEF WarpStates, w
<1>6. \A f \in Fields \ {"pc", "gen"} : w[f] = warp[x][f]
  BY <1>1 DEF WarpStates, w, Fields
<1> HIDE DEF w
<1>7. /\ warp[x].pc = "k_full" /\ warp[x].tile < NumTiles /\ warp'[x] = w
      /\ warp' \in [Warps -> WarpStates]
      /\ Others(x) /\ UNCHANGED <<causal, prod, copies, smem, full, out>>
  BY <1>3, <1>4, Steps
<1>8. Passes(full["k"], warp[x].gi_k % 2)
  BY DEF AwaitK
<1> QED BY <1>5, <1>6, <1>7, <1>8 DEF Keeps, AwaitK, Release

LEMMA IssueQKStep ==
    ASSUME TypeOK, NEW x \in Warps, IssueQK(x)
    PROVE  /\ warp[x].pc = "turn"
           /\ warp'[x].pc = (IF warp[x].n = 0 THEN "hand_over" ELSE "v_full")
           /\ warp' \in [Warps -> WarpStates]
           /\ Others(x) /\ Keeps(x, {"pc", "mmas"})
           /\ warp'[x].mmas = Append(warp[x].mmas, [op |-> "k", slot |-> warp[x].gi_k % 2])
           /\ named[group(x)].phase # warp[x].gen
           /\ UNCHANGED <<causal, prod, copies, smem, full, out, empty, named, q_full>>
<1> DEFINE w == [warp[x] EXCEPT !.pc = (IF warp[x].n = 0 THEN "hand_over" ELSE "v_full"),
                                !.mmas = Append(warp[x].mmas,
                                                [op |-> "k", slot |-> warp[x].gi_k % 2])]
<1>1. warp[x] \in WarpStates
  BY Types
<1>2. Append(warp[x].mmas, [op |-> "k", slot |-> warp[x].gi_k % 2]) \in MmaSeqs
  BY <1>1, Slot, Appends DEF WarpStates, Ops
<1>3. w \in WarpStates
  BY <1>1, <1>2, MmasType DEF Pcs
<1>4. Becomes(x, "turn", w)
  BY DEF IssueQK, Issue
<1>5. /\ w.pc = (IF warp[x].n = 0 THEN "hand_over" ELSE "v_full")
      /\ w.mmas = Append(warp[x].mmas, [op |-> "k", slot |-> warp[x].gi_k % 2])
  BY <1>1 DEF WarpStates, w
<1>6. \A f \in Fields \ {"pc", "mmas"} : w[f] = warp[x][f]
  BY <1>1 DEF WarpStates, w, Fields
<1> HIDE DEF w
<1>7. /\ warp[x].pc = "turn" /\ warp[x].tile < NumTiles /\ warp'[x] = w
      /\ warp' \in [Warps -> WarpStates]
      /\ Others(x) /\ UNCHANGED <<causal, prod, copies, smem, full, out>>
  BY <1>3, <1>4, Steps
<1>8. named[group(x)].phase # warp[x].gen
  BY DEF IssueQK, Issue
<1> QED BY <1>5, <1>6, <1>7, <1>8 DEF Keeps, IssueQK, Release

LEMMA IssuePVStep ==
    ASSUME TypeOK, NEW x \in Warps, IssuePV(x)
    PROVE  /\ warp[x].pc = "v_full" /\ warp'[x].pc = "hand_over"
           /\ warp' \in [Warps -> WarpStates]
           /\ Others(x) /\ Keeps(x, {"pc", "mmas"})
           /\ warp'[x].mmas = Append(warp[x].mmas, [op |-> "v", slot |-> warp[x].gi_v % 2])
           /\ Passes(full["v"], warp[x].gi_v % 2)
           /\ UNCHANGED <<causal, prod, copies, smem, full, out, empty, named, q_full>>
<1> DEFINE w == [warp[x] EXCEPT !.pc = "hand_over",
                                !.mmas = Append(warp[x].mmas,
                                                [op |-> "v", slot |-> warp[x].gi_v % 2])]
<1>1. warp[x] \in WarpStates
  BY Types
<1>2. Append(warp[x].mmas, [op |-> "v", slot |-> warp[x].gi_v % 2]) \in MmaSeqs
  BY <1>1, Slot, Appends DEF WarpStates, Ops
<1>3. w \in WarpStates
  BY <1>1, <1>2, MmasType DEF Pcs
<1>4. Becomes(x, "v_full", w)
  BY DEF IssuePV, Issue
<1>5. /\ w.pc = "hand_over"
      /\ w.mmas = Append(warp[x].mmas, [op |-> "v", slot |-> warp[x].gi_v % 2])
  BY <1>1 DEF WarpStates, w
<1>6. \A f \in Fields \ {"pc", "mmas"} : w[f] = warp[x][f]
  BY <1>1 DEF WarpStates, w, Fields
<1> HIDE DEF w
<1>7. /\ warp[x].pc = "v_full" /\ warp[x].tile < NumTiles /\ warp'[x] = w
      /\ warp' \in [Warps -> WarpStates]
      /\ Others(x) /\ UNCHANGED <<causal, prod, copies, smem, full, out>>
  BY <1>3, <1>4, Steps
<1>8. Passes(full["v"], warp[x].gi_v % 2)
  BY DEF IssuePV, Issue
<1> QED BY <1>5, <1>6, <1>7, <1>8 DEF Keeps, IssuePV, Release

LEMMA HandOverStep ==
    ASSUME TypeOK, NEW x \in Warps, HandOver(x)
    PROVE  /\ warp[x].pc = "hand_over" /\ warp'[x].pc = "scores"
           /\ warp' \in [Warps -> WarpStates]
           /\ Others(x) /\ Keeps(x, {"pc"})
           /\ named' = [named EXCEPT ![3 - group(x)] = Arrived(@, Cardinality(Warps))]
           /\ UNCHANGED <<causal, prod, copies, smem, full, out, empty, q_full>>
<1> DEFINE w == [warp[x] EXCEPT !.pc = "scores"]
<1>1. warp[x] \in WarpStates
  BY Types
<1>3. w \in WarpStates
  BY <1>1 DEF WarpStates, Pcs
<1>4. Becomes(x, "hand_over", w)
  BY DEF HandOver
<1>5. w.pc = "scores"
  BY <1>1 DEF WarpStates, w
<1>6. \A f \in Fields \ {"pc"} : w[f] = warp[x][f]
  BY <1>1 DEF WarpStates, w, Fields
<1> HIDE DEF w
<1>7. /\ warp[x].pc = "hand_over" /\ warp[x].tile < NumTiles /\ warp'[x] = w
      /\ warp' \in [Warps -> WarpStates]
      /\ Others(x) /\ UNCHANGED <<causal, prod, copies, smem, full, out>>
  BY <1>3, <1>4, Steps
<1> QED BY <1>5, <1>6, <1>7 DEF Keeps, HandOver, Release

LEMMA AwaitScoresStep ==
    ASSUME TypeOK, NEW x \in Warps, AwaitScores(x)
    PROVE  /\ warp[x].pc = "scores" /\ warp'[x].pc = "softmax"
           /\ warp' \in [Warps -> WarpStates]
           /\ Others(x) /\ Keeps(x, {"pc"})
           /\ Len(warp[x].mmas) <= (IF warp[x].n = 0 THEN 0 ELSE 1)
           /\ empty' = [empty EXCEPT !["k"] = Arrived(@, Cardinality(Warps))]
           /\ UNCHANGED <<causal, prod, copies, smem, full, out, named, q_full>>
<1> DEFINE w == [warp[x] EXCEPT !.pc = "softmax"]
<1>1. warp[x] \in WarpStates
  BY Types
<1>3. w \in WarpStates
  BY <1>1 DEF WarpStates, Pcs
<1>4. Becomes(x, "scores", w)
  BY DEF AwaitScores
<1>5. w.pc = "softmax"
  BY <1>1 DEF WarpStates, w
<1>6. \A f \in Fields \ {"pc"} : w[f] = warp[x][f]
  BY <1>1 DEF WarpStates, w, Fields
<1> HIDE DEF w
<1>7. /\ warp[x].pc = "scores" /\ warp[x].tile < NumTiles /\ warp'[x] = w
      /\ warp' \in [Warps -> WarpStates]
      /\ Others(x) /\ UNCHANGED <<causal, prod, copies, smem, full, out>>
  BY <1>3, <1>4, Steps
<1>8. Len(warp[x].mmas) <= (IF warp[x].n = 0 THEN 0 ELSE 1)
  BY DEF AwaitScores
<1> QED BY <1>5, <1>6, <1>7, <1>8 DEF Keeps, AwaitScores, Release

LEMMA IssueLastPVStep ==
    ASSUME TypeOK, NEW x \in Warps, IssueLastPV(x)
    PROVE  /\ warp[x].pc = "last_v" /\ warp'[x].pc = "drain" /\ warp' \in [Warps -> WarpStates]
           /\ Others(x) /\ Keeps(x, {"pc", "mmas"})
           /\ warp'[x].mmas = Append(warp[x].mmas, [op |-> "v", slot |-> warp[x].gi_v % 2])
           /\ Passes(full["v"], warp[x].gi_v % 2)
           /\ UNCHANGED <<causal, prod, copies, smem, full, out, empty, named, q_full>>
<1> DEFINE w == [warp[x] EXCEPT !.pc = "drain",
                                !.mmas = Append(warp[x].mmas,
                                                [op |-> "v", slot |-> warp[x].gi_v % 2])]
<1>1. warp[x] \in WarpStates
  BY Types
<1>2. Append(warp[x].mmas, [op |-> "v", slot |-> warp[x].gi_v % 2]) \in MmaSeqs
  BY <1>1, Slot, Appends DEF WarpStates, Ops
<1>3. w \in WarpStates
  BY <1>1, <1>2, MmasType DEF Pcs
<1>4. Becomes(x, "last_v", w)
  BY DEF IssueLastPV, Issue
<1>5. w.pc = "drain" /\ w.mmas = Append(warp[x].mmas, [op |-> "v", slot |-> warp[x].gi_v % 2])
  BY <1>1 DEF WarpStates, w
<1>6. \A f \in Fields \ {"pc", "mmas"} : w[f] = warp[x][f]
  BY <1>1 DEF WarpStates, w, Fields
<1> HIDE DEF w
<1>7. /\ warp[x].pc = "last_v" /\ warp[x].tile < NumTiles /\ warp'[x] = w
      /\ warp' \in [Warps -> WarpStates]
      /\ Others(x) /\ UNCHANGED <<causal, prod, copies, smem, full, out>>
  BY <1>3, <1>4, Steps
<1>8. Passes(full["v"], warp[x].gi_v % 2)
  BY DEF IssueLastPV, Issue
<1> QED BY <1>5, <1>6, <1>7, <1>8 DEF Keeps, IssueLastPV, Release

LEMMA ColumnsType == ASSUME NEW x, NEW i, NEW n PROVE masked(x, i, n) \subseteq columns(n)
BY DEF masked

LEMMA CastType ==
    ASSUME TypeOK, NEW x \in Warps, NEW w \in WarpStates
    PROVE  /\ Cast(x, w) \in WarpStates
           /\ Cast(x, w).gi_k = w.gi_k + 1 /\ Cast(x, w).n = w.n + 1
           /\ Cast(x, w).pc \in {"k_full", "last_v"}
           /\ \A f \in Fields \ {"pc", "p", "gi_k", "n"} : Cast(x, w)[f] = w[f]
<1> DEFINE p == [s |-> w.s, columns |-> masked(x, w.tile, w.n), max |-> w.max]
           pc == IF w.n + 1 < loop_range(w.tile) THEN "k_full" ELSE "last_v"
           gi_k == w.gi_k + 1
           n == w.n + 1
           c == [w EXCEPT !.p = p, !.gi_k = gi_k, !.n = n, !.pc = pc]
<1>1. columns(w.n) \subseteq Int
  BY AttentionAssumption DEF columns, WarpStates
<1>2. p \in Probs
  BY <1>1, ColumnsType DEF Probs, WarpStates
<1>3. pc \in {"k_full", "last_v"}
  OBVIOUS
<1>4. Cast(x, w) = c
  BY DEF Cast
<1>5. gi_k \in Nat /\ n \in Nat /\ pc \in Pcs
  BY <1>3 DEF WarpStates, Pcs
<1> HIDE DEF p, pc, gi_k, n
<1>6. /\ c \in WarpStates /\ c.gi_k = gi_k /\ c.n = n /\ c.pc = pc
  BY <1>2, <1>5 DEF WarpStates
<1>7. \A f \in Fields \ {"pc", "p", "gi_k", "n"} : c[f] = w[f]
  BY DEF WarpStates, Fields
<1> HIDE DEF c
<1> QED BY <1>3, <1>4, <1>6, <1>7 DEF gi_k, n

LEMMA SoftmaxStep ==
    ASSUME TypeOK, NEW x \in Warps, Softmax(x)
    PROVE  /\ warp[x].pc = "softmax" /\ warp' \in [Warps -> WarpStates]
           /\ Others(x) /\ Keeps(x, {"pc", "p", "gi_k", "n", "max", "scale"})
           /\ \/ /\ warp[x].n = 0 /\ warp'[x].pc \in {"k_full", "last_v"}
                 /\ warp'[x].gi_k = warp[x].gi_k + 1 /\ warp'[x].n = warp[x].n + 1
              \/ /\ warp[x].n # 0 /\ warp'[x].pc = "product"
                 /\ warp'[x].gi_k = warp[x].gi_k /\ warp'[x].n = warp[x].n
           /\ UNCHANGED <<causal, prod, copies, smem, full, out, empty, named, q_full>>
<1> DEFINE w == [warp[x] EXCEPT !.max = @ + 1]
           w1 == [w EXCEPT !.scale = 1]
           w2 == [w EXCEPT !.pc = "product"]
<1>1. warp[x] \in WarpStates
  BY Types
<1>2. w \in WarpStates /\ w.n = warp[x].n
  BY <1>1 DEF WarpStates
<1>3. \A f \in Fields \ {"max"} : w[f] = warp[x][f]
  BY <1>1 DEF WarpStates, Fields
<1>4. Becomes(x, "softmax", IF w.n = 0 THEN Cast(x, w1) ELSE w2)
      /\ UNCHANGED <<empty, named, q_full>>
  BY DEF Softmax
<1> HIDE DEF w
<1>5. w1 \in WarpStates /\ \A f \in Fields \ {"scale"} : w1[f] = w[f]
  BY <1>2 DEF WarpStates, Fields
<1>6. w2 \in WarpStates /\ w2.pc = "product" /\ \A f \in Fields \ {"pc"} : w2[f] = w[f]
  BY <1>2 DEF WarpStates, Fields, Pcs
<1> HIDE DEF w1, w2
<1>7. CASE w.n = 0
  <2>1. Becomes(x, "softmax", Cast(x, w1))
    BY <1>4, <1>7
  <2>2. /\ Cast(x, w1) \in WarpStates
        /\ Cast(x, w1).gi_k = w1.gi_k + 1 /\ Cast(x, w1).n = w1.n + 1
        /\ Cast(x, w1).pc \in {"k_full", "last_v"}
        /\ \A f \in Fields \ {"pc", "p", "gi_k", "n"} : Cast(x, w1)[f] = w1[f]
    BY <1>5, CastType
  <2> DEFINE c == Cast(x, w1)
  <2> HIDE DEF c
  <2>3. /\ warp[x].pc = "softmax" /\ warp' \in [Warps -> WarpStates] /\ warp'[x] = c
        /\ Others(x) /\ UNCHANGED <<causal, prod, copies, smem, full, out>>
    BY <2>1, <2>2, Steps DEF c
  <2>4. c.gi_k = warp[x].gi_k + 1 /\ c.n = warp[x].n + 1
    BY <1>3, <1>5, <2>2 DEF c, Fields
  <2>5. \A f \in Fields \ {"pc", "p", "gi_k", "n", "max", "scale"} : c[f] = warp[x][f]
    BY <1>3, <1>5, <2>2 DEF c
  <2>6. c.pc \in {"k_full", "last_v"}
    BY <2>2 DEF c
  <2> QED BY <1>2, <1>4, <1>7, <2>3, <2>4, <2>5, <2>6 DEF Keeps
<1>8. CASE w.n # 0
  <2>1. Becomes(x, "softmax", w2)
    BY <1>4, <1>8
  <2>2. /\ warp[x].pc = "softmax" /\ warp' \in [Warps -> WarpStates] /\ warp'[x] = w2
        /\ Others(x) /\ UNCHANGED <<causal, prod, copies, smem, full, out>>
    BY <1>6, <2>1, Steps
  <2>3. \A f \in Fields \ {"pc", "max"} : w2[f] = warp[x][f]
    BY <1>3, <1>6
  <2>4. w2.gi_k = warp[x].gi_k /\ w2.n = warp[x].n
    BY <2>3 DEF Fields
  <2> QED BY <1>2, <1>4, <1>6, <1>8, <2>2, <2>3, <2>4 DEF Keeps
<1> QED BY <1>7, <1>8

LEMMA RescaleStep ==
    ASSUME TypeOK, NEW x \in Warps, Rescale(x)
    PROVE  /\ warp[x].pc = "product" /\ warp[x].mmas = <<>> /\ warp' \in [Warps -> WarpStates]
           /\ Others(x) /\ Keeps(x, {"pc", "p", "gi_k", "gi_v", "n", "scale"})
           /\ warp'[x].pc \in {"k_full", "last_v"} /\ warp'[x].gi_k = warp[x].gi_k + 1
           /\ warp'[x].gi_v = warp[x].gi_v + 1 /\ warp'[x].n = warp[x].n + 1
           /\ empty' = [empty EXCEPT !["v"] = Arrived(@, Cardinality(Warps))]
           /\ UNCHANGED <<causal, prod, copies, smem, full, out, named, q_full>>
<1> DEFINE scale == warp[x].scale + 1
           gi_v == warp[x].gi_v + 1
           w == [warp[x] EXCEPT !.scale = scale, !.gi_v = gi_v]
           c == Cast(x, w)
<1>1. warp[x] \in WarpStates
  BY Types
<1>2. w \in WarpStates /\ w.gi_v = gi_v
  <2>1. scale \in Nat /\ gi_v \in Nat
    BY <1>1 DEF WarpStates
  <2> HIDE DEF scale, gi_v
  <2> QED BY <1>1, <2>1 DEF WarpStates
<1>3. \A f \in Fields \ {"scale", "gi_v"} : w[f] = warp[x][f]
  BY <1>1 DEF WarpStates, Fields
<1>4. Becomes(x, "product", c) /\ warp[x].mmas = <<>> /\ UNCHANGED <<named, q_full>>
  BY DEF Rescale
<1>5. empty' = [empty EXCEPT !["v"] = Arrived(@, Cardinality(Warps))]
  BY DEF Rescale, Release
<1> HIDE DEF w
<1>6. /\ c \in WarpStates /\ c.gi_k = w.gi_k + 1 /\ c.n = w.n + 1
      /\ c.pc \in {"k_full", "last_v"}
      /\ \A f \in Fields \ {"pc", "p", "gi_k", "n"} : c[f] = w[f]
  BY <1>2, CastType
<1> HIDE DEF c
<1>7. /\ warp[x].pc = "product" /\ warp' \in [Warps -> WarpStates] /\ warp'[x] = c
      /\ Others(x) /\ UNCHANGED <<causal, prod, copies, smem, full, out>>
  BY <1>4, <1>6, Steps
<1>8. c.gi_k = warp[x].gi_k + 1 /\ c.n = warp[x].n + 1 /\ c.gi_v = warp[x].gi_v + 1
  BY <1>2, <1>3, <1>6 DEF Fields
<1>9. \A f \in Fields \ {"pc", "p", "gi_k", "gi_v", "n", "scale"} : c[f] = warp[x][f]
  BY <1>3, <1>6
<1> QED BY <1>4, <1>5, <1>6, <1>7, <1>8, <1>9 DEF Keeps

LEMMA DrainStep ==
    ASSUME TypeOK, NEW x \in Warps, Drain(x)
    PROVE  /\ warp[x].pc = "drain" /\ warp'[x].pc = "store" /\ warp[x].mmas = <<>>
           /\ warp' \in [Warps -> WarpStates]
           /\ Others(x) /\ Keeps(x, {"pc", "gi_v", "q", "gen"})
           /\ warp'[x].gi_v = warp[x].gi_v + 1 /\ warp'[x].gen = named[group(x) + 2].phase
           /\ empty' = [empty EXCEPT !["v"] = Arrived(@, Cardinality(Warps))]
           /\ named' = [named EXCEPT
                          ![group(x) + 2] = Arrived(@, Cardinality(members(group(x))))]
           /\ UNCHANGED <<causal, prod, copies, smem, full, out, q_full>>
<1> DEFINE gen == named[group(x) + 2].phase
           gi_v == warp[x].gi_v + 1
           w == [warp[x] EXCEPT !.pc = "store", !.gi_v = gi_v, !.q = None, !.gen = gen]
<1>1. warp[x] \in WarpStates
  BY Types
<1>2. gen \in Nat /\ None \in Tags
  BY Types, Groups DEF Barriers, None, Tags
<1>3. /\ Becomes(x, "drain", w) /\ warp[x].mmas = <<>> /\ UNCHANGED q_full
      /\ empty' = [empty EXCEPT !["v"] = Arrived(@, Cardinality(Warps))]
      /\ named' = [named EXCEPT ![group(x) + 2] = Arrived(@, Cardinality(members(group(x))))]
  BY DEF Drain, Release
<1> HIDE DEF gen
<1>4. w \in WarpStates
  <2>1. gi_v \in Nat
    BY <1>1 DEF WarpStates
  <2> HIDE DEF gi_v
  <2> QED BY <1>1, <1>2, <2>1 DEF WarpStates, Pcs
<1>5. w.pc = "store" /\ w.gi_v = warp[x].gi_v + 1 /\ w.gen = gen
  BY <1>1 DEF WarpStates
<1>6. \A f \in Fields \ {"pc", "gi_v", "q", "gen"} : w[f] = warp[x][f]
  BY <1>1 DEF WarpStates, Fields
<1> HIDE DEF w
<1>7. /\ warp[x].pc = "drain" /\ warp' \in [Warps -> WarpStates] /\ warp'[x] = w
      /\ Others(x) /\ UNCHANGED <<causal, prod, copies, smem, full, out>>
  BY <1>3, <1>4, Steps
<1> QED BY <1>3, <1>5, <1>6, <1>7 DEF Keeps, gen

LEMMA StoreStep ==
    ASSUME TypeOK, NEW x \in Warps, Store(x)
    PROVE  /\ warp[x].pc = "store" /\ warp'[x].pc = "q" /\ warp' \in [Warps -> WarpStates]
           /\ Others(x) /\ Keeps(x, {"pc", "tile"}) /\ warp'[x].tile = warp[x].tile + 1
           /\ UNCHANGED <<causal, prod, copies, smem, full, empty, named, q_full>>
<1> DEFINE tile == warp[x].tile + 1
           w == [warp[x] EXCEPT !.pc = "q", !.tile = tile]
<1>1. warp[x] \in WarpStates /\ warp \in [Warps -> WarpStates]
  BY Types
<1>2. warp' = [warp EXCEPT ![x] = w]
  BY <1>1 DEF Store
<1>3. w \in WarpStates /\ w.pc = "q" /\ w.tile = warp[x].tile + 1
  <2>1. tile \in Nat
    BY <1>1 DEF WarpStates
  <2> HIDE DEF tile
  <2>2. w \in WarpStates /\ w.pc = "q" /\ w.tile = tile
    BY <1>1, <2>1 DEF WarpStates, Pcs
  <2> QED BY <2>2 DEF tile
<1>4. \A f \in Fields \ {"pc", "tile"} : w[f] = warp[x][f]
  BY <1>1 DEF WarpStates, Fields
<1> HIDE DEF w
<1>5. warp'[x] = w /\ warp' \in [Warps -> WarpStates] /\ Others(x)
  BY <1>1, <1>2, <1>3 DEF Others
<1>6. /\ warp[x].pc = "store"
      /\ UNCHANGED <<causal, prod, copies, smem, full, empty, named, q_full>>
  BY DEF Store
<1> QED BY <1>3, <1>4, <1>5, <1>6 DEF Keeps

LEMMA MmaStep ==
    ASSUME TypeOK, NEW x \in Warps, Mma(x)
    PROVE  /\ warp[x].mmas # <<>> /\ warp'[x].mmas = Tail(warp[x].mmas)
           /\ warp' \in [Warps -> WarpStates]
           /\ Others(x) /\ Keeps(x, {"mmas", "s", "o"})
           /\ UNCHANGED <<causal, prod, copies, smem, full, empty, named, q_full, out>>
<1> DEFINE m == Head(warp[x].mmas)
           mmas == Tail(warp[x].mmas)
           operand == smem[m.op][m.slot]
           s == <<warp[x].q, operand>>
           o == Append(warp[x].o, [p |-> warp[x].p, v |-> operand, scale |-> warp[x].scale])
           w1 == [warp[x] EXCEPT !.mmas = mmas, !.s = s]
           w2 == [warp[x] EXCEPT !.mmas = mmas, !.o = o]
           w == IF m.op = "k" THEN w1 ELSE w2
<1>1. warp[x] \in WarpStates /\ warp \in [Warps -> WarpStates]
  BY Types
<1>2. warp[x].mmas \in Seq(Mmas) /\ warp[x].mmas # <<>> /\ warp[x].o \in Seq(Terms)
  BY <1>1 DEF WarpStates, Mma, MmaSeqs, Sums, Terms
<1>3. m \in Mmas /\ mmas \in MmaSeqs
  BY <1>2 DEF MmaSeqs
<1>4. operand \in Contents
  <2>1. m.op \in Ops /\ m.slot \in 0 .. 1
    BY <1>3 DEF Mmas
  <2>2. smem \in [Ops -> [0 .. 1 -> Contents]]
    BY Types
  <2> HIDE DEF m
  <2> QED BY <2>1, <2>2
<1>5. s \in Scores
  BY <1>1, <1>4 DEF Scores, WarpStates, Tags
<1>6. o \in Sums
  <2>1. [p |-> warp[x].p, v |-> operand, scale |-> warp[x].scale] \in Terms
    BY <1>1, <1>4 DEF Terms, WarpStates
  <2> QED BY <1>2, <2>1 DEF Sums, Terms
<1>7. warp' = [warp EXCEPT ![x] = w]
      /\ UNCHANGED <<causal, prod, copies, smem, full, empty, named, q_full, out>>
  BY <1>1 DEF Mma
<1> HIDE DEF m, mmas, s, o, operand
<1>8. /\ w1 \in WarpStates /\ w1.mmas = mmas
      /\ \A f \in Fields \ {"mmas", "s", "o"} : w1[f] = warp[x][f]
  BY <1>1, <1>3, <1>5 DEF WarpStates, Fields
<1>9. /\ w2 \in WarpStates /\ w2.mmas = mmas
      /\ \A f \in Fields \ {"mmas", "s", "o"} : w2[f] = warp[x][f]
  BY <1>1, <1>3, <1>6 DEF WarpStates, Fields
<1> HIDE DEF w1, w2
<1>10. /\ w \in WarpStates /\ w.mmas = mmas
       /\ \A f \in Fields \ {"mmas", "s", "o"} : w[f] = warp[x][f]
  BY <1>8, <1>9
<1> HIDE DEF w
<1>11. warp'[x] = w /\ warp' \in [Warps -> WarpStates] /\ Others(x)
  BY <1>1, <1>7, <1>10 DEF Others
<1> QED BY <1>2, <1>7, <1>10, <1>11 DEF Keeps, mmas

-----------------------------------------------------------------------------
(* Types. *)

LEMMA TypesNext ==
    ASSUME causal' \in BOOLEAN,
           prod' \in [pc : {"k", "v", "last_v"}, tile : Nat, n : Nat, gi_k : Nat, gi_v : Nat],
           prod'.pc = "v" => prod'.n > 0, prod'.pc # "k" => prod'.tile < NumTiles',
           copies' \subseteq [op : Ops, slot : 0 .. 1, block : Nat \X Nat],
           smem' \in [Ops -> [0 .. 1 -> Contents]],
           full' \in [Ops -> Barriers], empty' \in [Ops -> Barriers],
           named' \in [1 .. 4 -> Barriers], q_full' \in [1 .. 2 -> Barriers],
           warp' \in [Warps -> WarpStates], out' \in [Tiles' -> [Warps -> Rows]]
    PROVE  TypeOK'
BY DEF TypeOK, Ops, Mmas, Terms, Tags, MmaSeqs, Rows, Pcs, WarpStates

LEMMA BarriersType ==
    ASSUME TypeOK, NEW count
    PROVE  /\ \A b \in 1 .. 4 :
                [named EXCEPT ![b] = Arrived(@, count)] \in [1 .. 4 -> Barriers]
           /\ \A g \in 1 .. 2 :
                [q_full EXCEPT ![g] = Arrived(@, count)] \in [1 .. 2 -> Barriers]
           /\ \A op \in Ops : /\ [full EXCEPT ![op] = Arrived(@, count)] \in [Ops -> Barriers]
                              /\ [empty EXCEPT ![op] = Arrived(@, count)] \in [Ops -> Barriers]
<1>1. \A b \in Barriers : Arrived(b, count) \in Barriers
  BY BarrierTypes
<1> QED BY <1>1, Types

LEMMA InitType == Init => TypeOK
<1> SUFFICES ASSUME Init PROVE TypeOK
  OBVIOUS
<1>1. Cardinality(Group1) \in Nat
  BY WarpsFinite
<1>2. /\ full \in [Ops -> Barriers] /\ empty \in [Ops -> Barriers]
      /\ q_full \in [1 .. 2 -> Barriers]
  BY FreshType DEF Init, Ops
<1>3. named \in [1 .. 4 -> Barriers]
  <2>1. [phase |-> 0, arrived |-> Cardinality(Group1)] \in Barriers
    BY <1>1 DEF Barriers
  <2> QED BY <2>1, FreshType DEF Init
<1>4. NewWarp \in WarpStates
  BY DEF NewWarp, WarpStates, Pcs, None, Tags, MmaSeqs, Scores, Probs, Sums
<1>5. smem \in [Ops -> [0 .. 1 -> Contents]]
  BY DEF Init, Ops, Contents
<1>6. warp \in [Warps -> WarpStates]
  BY <1>4 DEF Init
<1>7. /\ causal \in BOOLEAN /\ copies = {}
      /\ prod \in [pc : {"k", "v", "last_v"}, tile : Nat, n : Nat, gi_k : Nat, gi_v : Nat]
      /\ prod.pc = "k"
  BY DEF Init
<1>8. out \in [Tiles -> [Warps -> Rows]]
  BY DEF Init, Rows
<1> QED BY <1>2, <1>3, <1>5, <1>6, <1>7, <1>8, Types

LEMMA CountType ==
    NumTiles \in Nat /\ (causal => Len(Pairs) \in Nat /\ NumTiles = 2 * Len(Pairs))
<1>1. Len(Pairs) \in Nat /\ Plain \in Nat
  BY AttentionAssumption
<1> QED BY <1>1 DEF NumTiles

LEMMA TileType == ASSUME TypeOK, causal, NEW i \in Tiles PROVE tile_m(i) \in Nat
<1> DEFINE j == i \div 2 + 1
           p == Pairs[j]
<1>1. i \in Nat /\ i < 2 * Len(Pairs) /\ Len(Pairs) \in Nat /\ i % 2 \in {0, 1}
  BY CountType DEF Tiles
<1>2. j \in 1 .. Len(Pairs)
  BY <1>1
<1>3. p \in 0 .. MBlocks \div 2 - 1 /\ MBlocks \in Nat
  BY <1>2, AttentionAssumption
<1>4. tile_m(i) = p + (i % 2) * (MBlocks - 1 - 2 * p)
  BY DEF tile_m
<1> HIDE DEF p, j
<1>5. tile_m(i) = p \/ tile_m(i) = p + (MBlocks - 1 - 2 * p)
  BY <1>1, <1>3, <1>4
<1> QED BY <1>3, <1>5, AttentionAssumption

\* There is something to do in every tile.
LEMMA TilesType ==
    ASSUME TypeOK, NEW i \in Tiles
    PROVE  NumTiles \in Nat /\ i \in Nat /\ loop_range(i) \in Nat \ {0}
<1>1. NumTiles \in Nat /\ i \in Nat /\ i < NumTiles
  BY CountType DEF Tiles
<1>2. causal => tile_m(i) \in Nat
  BY TileType
<1>3. ASSUME NEW a \in Nat \ {0}, NEW b \in Nat \ {0}
      PROVE  a * b \in Nat \ {0} /\ CeilDiv(a, b) \in Nat \ {0}
  <2>1. a * b \in Nat \ {0}
    OBVIOUS
  <2>2. CeilDiv(a, b) \in Nat \ {0}
    BY SMTT(30) DEF CeilDiv
  <2> QED BY <2>1, <2>2
<1>4. CASE ~ causal
  BY <1>1, <1>4, AttentionAssumption DEF loop_range
<1>5. CASE causal
  <2>1. tile_m(i) + 1 \in Nat \ {0} /\ BlockM \in Nat \ {0} /\ BlockN \in Nat \ {0}
    BY <1>2, <1>5, AttentionAssumption
  <2>2. (tile_m(i) + 1) * BlockM \in Nat \ {0}
    BY <1>3, <2>1
  <2> QED BY <1>1, <1>2, <1>3, <1>5, <2>1, <2>2 DEF loop_range
<1> QED BY <1>4, <1>5

\* The producer's record after a step, and the copy it started.
LEMMA LoadStep ==
    ASSUME TypeOK, Producer
    PROVE  \E op \in Ops :
             /\ prod' \in [pc : {"k", "v", "last_v"}, tile : Nat, n : Nat,
                           gi_k : Nat, gi_v : Nat]
             /\ (prod'.pc = "v" => prod'.n > 0) /\ (prod'.pc # "k" => prod'.tile < NumTiles)
             /\ prod'.gi_k = IF op = "k" THEN prod.gi_k + 1 ELSE prod.gi_k
             /\ prod'.gi_v = IF op = "v" THEN prod.gi_v + 1 ELSE prod.gi_v
             /\ Passes(empty[op], ((IF op = "k" THEN prod.gi_k ELSE prod.gi_v) + 1) % 2)
             /\ \E slot \in 0 .. 1, block \in Nat \X Nat : Copy(op, slot, block)
<1> DEFINE Prods == [pc : {"k", "v", "last_v"}, tile : Nat, n : Nat, gi_k : Nat, gi_v : Nat]
<1>1. /\ prod \in Prods /\ (prod.pc = "v" => prod.n > 0)
      /\ prod.pc # "k" => prod.tile < NumTiles
  BY Types
<1>2. ASSUME NEW p \in Prods
      PROVE  /\ AfterK(p) \in Prods /\ AfterK(p).pc # "v" /\ AfterK(p).tile = p.tile
             /\ AfterK(p).gi_k = p.gi_k /\ AfterK(p).gi_v = p.gi_v
  <2> DEFINE n == p.n + 1
             more == [p EXCEPT !.n = n, !.pc = "k"]
             last == [p EXCEPT !.pc = "last_v"]
  <2>1. n \in Nat
    OBVIOUS
  <2>2. AfterK(p) = IF n < loop_range(p.tile) THEN more ELSE last
    BY DEF AfterK
  <2> HIDE DEF n
  <2>3. /\ more \in Prods /\ more.pc # "v" /\ more.tile = p.tile
        /\ more.gi_k = p.gi_k /\ more.gi_v = p.gi_v
    BY <2>1
  <2>4. /\ last \in Prods /\ last.pc # "v" /\ last.tile = p.tile
        /\ last.gi_k = p.gi_k /\ last.gi_v = p.gi_v
    OBVIOUS
  <2> HIDE DEF more, last
  <2> QED BY <2>2, <2>3, <2>4
<1>3. CASE LoadK
  <2> DEFINE p == [prod EXCEPT !.gi_k = @ + 1]
             v == [p EXCEPT !.pc = "v"]
  <2>1. /\ p \in Prods /\ p.gi_k = prod.gi_k + 1 /\ p.gi_v = prod.gi_v /\ p.n = prod.n
        /\ p.tile = prod.tile
    BY <1>1
  <2>2. /\ prod' = IF prod.n > 0 THEN v ELSE AfterK(p)
        /\ Passes(empty["k"], (prod.gi_k + 1) % 2) /\ prod.tile < NumTiles
        /\ Copy("k", prod.gi_k % 2, <<prod.tile, prod.n>>)
    BY <1>3 DEF LoadK
  <2> HIDE DEF p
  <2>3. v \in Prods /\ v.gi_k = p.gi_k /\ v.gi_v = p.gi_v /\ v.n = p.n /\ v.tile = p.tile
    BY <2>1
  <2> HIDE DEF v
  <2>4. /\ prod' \in Prods /\ prod'.gi_k = p.gi_k /\ prod'.gi_v = p.gi_v
        /\ prod'.tile = prod.tile /\ (prod'.pc = "v" => prod'.n > 0)
    BY <1>2, <2>1, <2>2, <2>3
  <2>5. prod.gi_k % 2 \in 0 .. 1 /\ <<prod.tile, prod.n>> \in Nat \X Nat
    BY <1>1
  <2>6. \E slot \in 0 .. 1, block \in Nat \X Nat : Copy("k", slot, block)
    BY <2>2, <2>5
  <2> QED BY <2>1, <2>2, <2>4, <2>6 DEF Ops
<1>4. CASE LoadV
  <2> DEFINE p == [prod EXCEPT !.gi_v = @ + 1]
  <2>1. p \in Prods /\ p.gi_v = prod.gi_v + 1 /\ p.gi_k = prod.gi_k /\ p.tile = prod.tile
    BY <1>1
  <2>2. /\ prod' = AfterK(p) /\ Passes(empty["v"], (prod.gi_v + 1) % 2) /\ prod.pc = "v"
        /\ Copy("v", prod.gi_v % 2, <<prod.tile, prod.n - 1>>)
    BY <1>4 DEF LoadV
  <2> HIDE DEF p
  <2>3. prod.gi_v % 2 \in 0 .. 1 /\ <<prod.tile, prod.n - 1>> \in Nat \X Nat
    BY <1>1, <2>2
  <2>4. /\ prod' \in Prods /\ prod'.gi_k = p.gi_k /\ prod'.gi_v = p.gi_v /\ prod'.pc # "v"
        /\ prod'.tile < NumTiles
    BY <1>1, <1>2, <2>1, <2>2
  <2>5. \E slot \in 0 .. 1, block \in Nat \X Nat : Copy("v", slot, block)
    BY <2>2, <2>3
  <2> QED BY <2>1, <2>2, <2>4, <2>5 DEF Ops
<1>5. CASE LoadLastV
  <2> DEFINE gi_v == prod.gi_v + 1
             tile == prod.tile + 1
             p == [prod EXCEPT !.gi_v = gi_v, !.tile = tile, !.n = 0, !.pc = "k"]
  <2>1. p \in Prods /\ p.gi_v = prod.gi_v + 1 /\ p.gi_k = prod.gi_k /\ p.pc = "k"
    <3>1. gi_v \in Nat /\ tile \in Nat
      BY <1>1
    <3> HIDE DEF gi_v, tile
    <3>2. p \in Prods /\ p.gi_v = gi_v /\ p.gi_k = prod.gi_k /\ p.pc = "k"
      BY <1>1, <3>1
    <3> QED BY <3>2 DEF gi_v
  <2>2. /\ prod' = p /\ Passes(empty["v"], (prod.gi_v + 1) % 2) /\ prod.pc = "last_v"
        /\ Copy("v", prod.gi_v % 2, <<prod.tile, loop_range(prod.tile) - 1>>)
    BY <1>5 DEF LoadLastV
  <2> HIDE DEF p
  <2>3. prod.tile \in Tiles
    <3>1. NumTiles \in Nat
      BY CountType
    <3> QED BY <1>1, <2>2, <3>1 DEF Tiles
  <2>4. <<prod.tile, loop_range(prod.tile) - 1>> \in Nat \X Nat
    BY <1>1, <2>3, TilesType
  <2>5. prod.gi_v % 2 \in 0 .. 1
    BY <1>1
  <2>6. \E slot \in 0 .. 1, block \in Nat \X Nat : Copy("v", slot, block)
    BY <2>2, <2>4, <2>5
  <2> QED BY <2>1, <2>2, <2>6 DEF Ops
<1> QED BY <1>3, <1>4, <1>5 DEF Producer

LEMMA TypeStep == TypeOK /\ [Next]_vars => TypeOK'
<1> SUFFICES ASSUME TypeOK, [Next]_vars PROVE TypeOK'
  OBVIOUS
<1> USE Types
<1>1. CASE UNCHANGED vars
  BY <1>1 DEF vars, TypeOK, Tiles, NumTiles
<1>2. CASE Producer
  <2>1. PICK op \in Ops :
          /\ prod' \in [pc : {"k", "v", "last_v"}, tile : Nat, n : Nat, gi_k : Nat, gi_v : Nat]
          /\ (prod'.pc = "v" => prod'.n > 0) /\ (prod'.pc # "k" => prod'.tile < NumTiles)
          /\ \E slot \in 0 .. 1, block \in Nat \X Nat : Copy(op, slot, block)
    BY <1>2, LoadStep
  <2>2. PICK slot \in 0 .. 1, block \in Nat \X Nat : Copy(op, slot, block)
    BY <2>1
  <2>3. smem' \in [Ops -> [0 .. 1 -> Contents]]
    BY <2>2 DEF Copy, Contents
  <2>4. copies' \subseteq [op : Ops, slot : 0 .. 1, block : Nat \X Nat]
    BY <2>2 DEF Copy
  <2>5. UNCHANGED <<causal, full, empty, named, q_full, warp, out>>
    BY <2>2 DEF Copy
  <2> QED BY <2>1, <2>3, <2>4, <2>5, TypesNext DEF Tiles, NumTiles
<1>3. ASSUME NEW c \in copies, Land(c) PROVE TypeOK'
  <2>1. c.op \in Ops /\ c.slot \in 0 .. 1 /\ c.block \in Contents
    BY DEF Contents
  <2>2. smem' \in [Ops -> [0 .. 1 -> Contents]]
    BY <1>3, <2>1 DEF Land
  <2>3. full' \in [Ops -> Barriers] /\ copies' \subseteq copies
    BY <1>3, <2>1, BarriersType DEF Land
  <2>4. UNCHANGED <<causal, prod, empty, named, q_full, warp, out>>
    BY <1>3 DEF Land
  <2> QED BY <2>2, <2>3, <2>4, TypesNext DEF Tiles, NumTiles
<1>4. ASSUME NEW x \in Warps, WarpStep(x) \/ Mma(x) PROVE TypeOK'
  <2>1. group(x) \in {1, 2}
    BY Groups
  <2>2. CASE LoadQ(x)
    <3>1. q_full' \in [1 .. 2 -> Barriers]
      BY <2>1, <2>2, BarriersType DEF LoadQ
    <3> QED BY <2>2, <3>1, LoadQStep, TypesNext DEF Tiles, NumTiles
  <2>3. CASE StartTile(x)
    BY <2>3, StartTileStep, TypesNext DEF Tiles, NumTiles
  <2>4. CASE AwaitK(x)
    <3>1. named' \in [1 .. 4 -> Barriers]
      BY <2>1, <2>4, BarriersType, AwaitKStep
    <3> QED BY <2>4, <3>1, AwaitKStep, TypesNext DEF Tiles, NumTiles
  <2>5. CASE IssueQK(x)
    <3>1. /\ warp' \in [Warps -> WarpStates]
          /\ UNCHANGED <<causal, prod, copies, smem, full, out, empty, named, q_full>>
      BY <2>5, IssueQKStep
    <3> QED BY <3>1, TypesNext DEF Tiles, NumTiles
  <2>6. CASE IssuePV(x)
    <3>1. /\ warp' \in [Warps -> WarpStates]
          /\ UNCHANGED <<causal, prod, copies, smem, full, out, empty, named, q_full>>
      BY <2>6, IssuePVStep
    <3> QED BY <3>1, TypesNext DEF Tiles, NumTiles
  <2>7. CASE HandOver(x)
    <3>1. named' \in [1 .. 4 -> Barriers]
      BY <2>1, <2>7, BarriersType, HandOverStep
    <3> QED BY <2>7, <3>1, HandOverStep, TypesNext DEF Tiles, NumTiles
  <2>8. CASE AwaitScores(x)
    <3>1. empty' \in [Ops -> Barriers]
      BY <2>8, BarriersType, AwaitScoresStep DEF Ops
    <3> QED BY <2>8, <3>1, AwaitScoresStep, TypesNext DEF Tiles, NumTiles
  <2>9. CASE Softmax(x)
    BY <2>9, SoftmaxStep, TypesNext DEF Tiles, NumTiles
  <2>10. CASE Rescale(x)
    <3>1. empty' \in [Ops -> Barriers]
      BY <2>10, BarriersType, RescaleStep DEF Ops
    <3> QED BY <2>10, <3>1, RescaleStep, TypesNext DEF Tiles, NumTiles
  <2>11. CASE IssueLastPV(x)
    <3>1. /\ warp' \in [Warps -> WarpStates]
          /\ UNCHANGED <<causal, prod, copies, smem, full, out, empty, named, q_full>>
      BY <2>11, IssueLastPVStep
    <3> QED BY <3>1, TypesNext DEF Tiles, NumTiles
  <2>12. CASE Drain(x)
    <3>1. empty' \in [Ops -> Barriers]
      BY <2>12, BarriersType, DrainStep DEF Ops
    <3>2. named' \in [1 .. 4 -> Barriers]
      BY <2>1, <2>12, BarriersType, DrainStep
    <3> QED BY <2>12, <3>1, <3>2, DrainStep, TypesNext DEF Tiles, NumTiles
  <2>13. CASE Store(x)
    <3> DEFINE row == [o |-> warp[x].o, scale |-> warp[x].scale, sums |-> warp[x].max]
    <3>1. row \in Rows
      BY DEF WarpStates, Rows
    <3>2. out' = [out EXCEPT ![warp[x].tile][x] = row]
      BY <2>13 DEF Store
    <3> HIDE DEF row
    <3>3. out' \in [Tiles -> [Warps -> Rows]]
      BY <3>1, <3>2
    <3> QED BY <2>13, <3>3, StoreStep, TypesNext DEF Tiles, NumTiles
  <2>14. CASE Mma(x)
    BY <2>14, MmaStep, TypesNext DEF Tiles, NumTiles
  <2> QED BY <1>4, <2>2, <2>3, <2>4, <2>5, <2>6, <2>7, <2>8, <2>9, <2>10, <2>11, <2>12, <2>13,
             <2>14 DEF WarpStep
<1> QED BY <1>1, <1>2, <1>3, <1>4 DEF Next

\* Every variable keeps its type: the counters are natural numbers, what a slot holds is
\* nothing or a block, a warp's records and what it stores are of their shape.
THEOREM TypeCorrect == Spec => []TypeOK
<1> QED BY InitType, TypeStep, PTL DEF Spec

-----------------------------------------------------------------------------
(* The inductive invariant.  A round of K (of V) has been issued by the    *)
(* producer, has landed, is taken by a warp once it passed the full        *)
(* barrier, and is released by it.  A warp's turns count its arrivals at   *)
(* the named barrier of a group, with the first turn given away.           *)

Handed == {"scores", "softmax", "product"}            \* handed over, not yet at the next block
Passed == Handed \cup {"v_full", "hand_over"}         \* past its turn
Inside == Passed \cup {"turn"}                        \* past the full barrier of K

One(b) == IF b THEN 1 ELSE 0
Issued(op) == IF op = "k" THEN prod.gi_k ELSE prod.gi_v
Round(w, op) == IF op = "k" THEN w.gi_k ELSE w.gi_v
Rel(w, op) == Round(w, op) + One(op = "k" /\ w.pc \in {"softmax", "product"})
Tak(w, op) ==
    Round(w, op) + One(IF op = "k" THEN w.pc \in Inside
                       ELSE \/ w.pc \in {"product", "drain"}
                            \/ w.n # 0 /\ w.pc \in {"hand_over", "scores", "softmax"})
Trn(x, w, g) ==
    LET counted == IF group(x) = g THEN Inside ELSE Handed
    IN w.gi_k + One(w.pc \in counted) + One(group(x) = 2 /\ g = 1)

Released(op) == [x \in Warps |-> Rel(warp[x], op)]
Turns(g) == [x \in Warps |-> Trn(x, warp[x], g)]

\* At most one round is ahead of the releases, and at most one copy under way.
FlowInv(op) ==
    /\ Level(empty[op], Released(op))
    /\ Issued(op) \in {empty[op].phase, empty[op].phase + 1}
    /\ full[op].arrived = 0
    /\ \/ full[op].phase = Issued(op) /\ {c \in copies : c.op = op} = {}
       \/ full[op].phase + 1 = Issued(op) /\ \E c \in copies : {d \in copies : d.op = op} = {c}
    /\ \A x \in Warps : Tak(warp[x], op) <= full[op].phase

Turned(w, b) ==
    /\ w.gi_k <= b.phase /\ (w.pc \in Passed => w.gi_k < b.phase)
    /\ w.pc = "turn" => w.gen = w.gi_k

TurnInv(g) ==
    /\ Level(named[g], Turns(g))
    /\ \A x \in members(g) : Turned(warp[x], named[g])

\* The products of a warp that are not finished.
K(w) == [op |-> "k", slot |-> w.gi_k % 2]
V(w) == [op |-> "v", slot |-> w.gi_v % 2]
Pending(w) ==
    CASE w.pc = "v_full" -> {<<>>, <<K(w)>>}
      [] w.pc \in {"hand_over", "scores"} ->
           IF w.n = 0 THEN {<<>>, <<K(w)>>} ELSE {<<>>, <<V(w)>>, <<K(w), V(w)>>}
      [] w.pc = "softmax" -> IF w.n = 0 THEN {<<>>} ELSE {<<>>, <<V(w)>>}
      [] w.pc \in {"product", "drain"} -> {<<>>, <<V(w)>>}
      [] OTHER -> {<<>>}

Shaped(w) == (w.pc \in {"v_full", "product"} => w.n # 0) /\ w.mmas \in Pending(w)
ShapeInv == \A x \in Warps : Shaped(warp[x])

IInv == /\ TypeOK /\ ShapeInv
        /\ FlowInv("k") /\ FlowInv("v") /\ TurnInv(1) /\ TurnInv(2)

LEMMA CountersType ==
    ASSUME TypeOK, NEW op \in Ops, NEW x \in Warps, NEW g \in {1, 2}
    PROVE  /\ warp[x].gi_k \in Nat /\ warp[x].gi_v \in Nat /\ warp[x].n \in Nat
           /\ Rel(warp[x], op) \in Nat /\ Tak(warp[x], op) \in Nat
           /\ Trn(x, warp[x], g) \in Nat /\ Rel(warp[x], op) <= Tak(warp[x], op)
           /\ Released(op) \in [Warps -> Nat] /\ Turns(g) \in [Warps -> Nat]
           /\ Released(op)[x] = Rel(warp[x], op) /\ Turns(g)[x] = Trn(x, warp[x], g)
<1>1. ASSUME NEW y \in Warps
      PROVE  /\ warp[y].gi_k \in Nat /\ warp[y].gi_v \in Nat /\ warp[y].n \in Nat
             /\ Rel(warp[y], op) \in Nat /\ Tak(warp[y], op) \in Nat
             /\ Trn(y, warp[y], g) \in Nat
  <2>1. warp[y].gi_k \in Nat /\ warp[y].gi_v \in Nat /\ warp[y].n \in Nat
    BY Types DEF WarpStates
  <2> QED BY <2>1 DEF Rel, Tak, Trn, Round, One
<1>2. Rel(warp[x], op) <= Tak(warp[x], op)
  BY <1>1 DEF Rel, Tak, Round, One, Inside, Passed, Handed, Ops
<1> QED BY <1>1, <1>2 DEF Released, Turns

LEMMA FlowTypes ==
    ASSUME TypeOK, NEW op \in Ops
    PROVE  /\ full[op] \in Barriers /\ full[op].phase \in Nat /\ full[op].arrived \in Nat
           /\ empty[op] \in Barriers /\ empty[op].phase \in Nat /\ Issued(op) \in Nat
BY Types DEF Barriers, Issued

\* A warp that releases nothing, and takes only what has landed.
LEMMA FlowKeep ==
    ASSUME TypeOK, NEW op \in Ops, FlowInv(op), NEW x \in Warps, Others(x),
           UNCHANGED <<prod, copies, full>>, empty'[op] = empty[op],
           Rel(warp'[x], op) = Rel(warp[x], op), Tak(warp'[x], op) <= full[op].phase
    PROVE  FlowInv(op)'
<1>1. \A y \in Warps : Released(op)'[y] = Released(op)[y]
  BY DEF Released, Others, Rel, Round, One
<1>2. Level(empty'[op], Released(op)')
  BY <1>1, LevelSame DEF FlowInv
<1>3. \A y \in Warps : Tak(warp'[y], op) <= full'[op].phase
  BY DEF Others, FlowInv
<1>4. Issued(op)' = Issued(op)
  BY DEF Issued
<1> QED BY <1>2, <1>3, <1>4 DEF FlowInv

\* A warp releases a round it has taken.
LEMMA FlowRelease ==
    ASSUME TypeOK, NEW op \in Ops, FlowInv(op), NEW x \in Warps, Others(x),
           UNCHANGED <<prod, copies, full>>,
           empty'[op] = Arrived(empty[op], Cardinality(Warps)),
           Rel(warp'[x], op) = Rel(warp[x], op) + 1, Tak(warp'[x], op) = Tak(warp[x], op),
           Rel(warp[x], op) < Tak(warp[x], op)
    PROVE  FlowInv(op)'
<1> DEFINE f == Released(op)
           h == Released(op)'
<1>1. /\ f \in [Warps -> Nat] /\ h \in [Warps -> Nat]
      /\ f[x] = Rel(warp[x], op) /\ h[x] = f[x] + 1
      /\ \A y \in Warps \ {x} : h[y] = f[y]
  <2>1. f \in [Warps -> Nat] /\ f[x] = Rel(warp[x], op)
    BY CountersType
  <2>2. \A y \in Warps \ {x} : h[y] = f[y]
    BY DEF Released, Others
  <2>3. h = [y \in Warps |-> Rel(warp'[y], op)]
    BY DEF Released, Rel, Round, One
  <2>4. \A y \in Warps : h[y] \in Nat
    BY <2>1, <2>2, <2>3
  <2> QED BY <2>1, <2>2, <2>3, <2>4
<1>2. /\ Level(empty[op], f) /\ f[x] \in {empty[op].phase, empty[op].phase + 1}
      /\ Issued(op) \in {empty[op].phase, empty[op].phase + 1}
      /\ full[op].phase <= Issued(op) /\ Tak(warp[x], op) <= full[op].phase
  BY FlowTypes DEF FlowInv, Level, LevelOf
<1>3. f[x] = empty[op].phase
  <2>1. Tak(warp[x], op) \in Nat /\ Rel(warp[x], op) \in Nat
    BY CountersType
  <2> HIDE DEF f
  <2> QED BY <1>1, <1>2, <2>1, FlowTypes
<1>4. Level(empty'[op], h) /\ empty'[op].phase \in {empty[op].phase, empty[op].phase + 1}
  <2> HIDE DEF f, h
  <2> QED BY <1>1, <1>2, <1>3, FlowTypes, Arrival
<1>5. Issued(op)' = Issued(op)
  BY DEF Issued
<1>6. Issued(op)' \in {empty'[op].phase, empty'[op].phase + 1}
  <2>1. PICK y \in Warps : h[y] = empty'[op].phase
    BY <1>4 DEF Level, LevelOf
  <2>2. h[y] <= Tak(warp'[y], op) /\ Tak(warp'[y], op) <= full[op].phase
    <3>1. CASE y = x
      BY <1>1, <1>2, <3>1, CountersType
    <3>2. CASE y # x
      <4>1. h[y] = f[y] /\ warp'[y] = warp[y]
        BY <1>1, <3>2 DEF Others
      <4> QED BY <4>1, CountersType DEF FlowInv
    <3> QED BY <3>1, <3>2
  <2>3. h[y] \in Nat /\ Tak(warp'[y], op) \in Nat
    BY <1>1, CountersType DEF Others
  <2> HIDE DEF h, f
  <2> QED BY <1>2, <1>4, <1>5, <2>1, <2>2, <2>3, FlowTypes
<1>7. \A y \in Warps : Tak(warp'[y], op) <= full'[op].phase
  BY <1>2 DEF Others, FlowInv
<1> QED BY <1>4, <1>5, <1>6, <1>7 DEF FlowInv

\* A warp that passes the full barrier by the parity of its round takes a round that landed.
LEMMA Take ==
    ASSUME TypeOK, NEW op \in Ops, FlowInv(op), NEW x \in Warps, NEW r \in Nat,
           Passes(full[op], r % 2), Tak(warp[x], op) = r
    PROVE  r + 1 <= full[op].phase
<1>1. r <= full[op].phase /\ full[op].phase % 2 # r % 2
  BY DEF FlowInv, Passes
<1> QED BY <1>1, FlowTypes

\* The producer starts a copy only when every earlier round was released, so that none is
\* under way, and no warp has taken a round it has not released.
LEMMA Drained ==
    ASSUME TypeOK, NEW op \in Ops, FlowInv(op), Passes(empty[op], (Issued(op) + 1) % 2)
    PROVE  /\ Issued(op) = empty[op].phase /\ full[op].phase = Issued(op)
           /\ {c \in copies : c.op = op} = {}
           /\ \A x \in Warps : Rel(warp[x], op) = Tak(warp[x], op)
<1>1. /\ Issued(op) \in {empty[op].phase, empty[op].phase + 1}
      /\ empty[op].phase % 2 # (Issued(op) + 1) % 2
  BY DEF FlowInv, Passes
<1>2. Issued(op) = empty[op].phase
  BY <1>1, FlowTypes
<1>3. PICK y \in Warps : Released(op)[y] = empty[op].phase
  BY DEF FlowInv, Level, LevelOf
<1>4. empty[op].phase <= full[op].phase
  <2>1. Rel(warp[y], op) <= Tak(warp[y], op) /\ Tak(warp[y], op) <= full[op].phase
        /\ Rel(warp[y], op) \in Nat /\ Tak(warp[y], op) \in Nat
        /\ Released(op)[y] = Rel(warp[y], op)
    BY CountersType DEF FlowInv
  <2> QED BY <1>3, <2>1, FlowTypes
<1>5. full[op].phase = Issued(op) /\ {c \in copies : c.op = op} = {}
  BY <1>2, <1>4, FlowTypes DEF FlowInv
<1>6. ASSUME NEW x \in Warps PROVE Rel(warp[x], op) = Tak(warp[x], op)
  <2>1. /\ Rel(warp[x], op) <= Tak(warp[x], op) /\ Tak(warp[x], op) <= full[op].phase
        /\ Rel(warp[x], op) \in Nat /\ Tak(warp[x], op) \in Nat
    BY CountersType DEF FlowInv
  <2>2. empty[op].phase <= Rel(warp[x], op)
    BY CountersType, FlowTypes DEF FlowInv, Level, LevelOf
  <2> QED BY <1>2, <1>5, <2>1, <2>2, FlowTypes
<1> QED BY <1>2, <1>5, <1>6

LEMMA FlowLoad ==
    ASSUME TypeOK, NEW op \in Ops, FlowInv(op), Passes(empty[op], (Issued(op) + 1) % 2),
           NEW slot, NEW block, Copy(op, slot, block), Issued(op)' = Issued(op) + 1
    PROVE  FlowInv(op)'
<1> DEFINE c == [op |-> op, slot |-> slot, block |-> block]
<1>1. /\ Issued(op) = empty[op].phase /\ full[op].phase = Issued(op)
      /\ {d \in copies : d.op = op} = {}
  BY Drained
<1>2. UNCHANGED <<full, empty, warp>> /\ copies' = copies \cup {c}
  BY DEF Copy
<1>3. \A y \in Warps : Released(op)'[y] = Released(op)[y]
  BY <1>2 DEF Released, Rel, Round, One
<1>4. Level(empty'[op], Released(op)')
  BY <1>2, <1>3, LevelSame DEF FlowInv
<1>5. c \in copies' /\ {d \in copies' : d.op = op} = {c}
  BY <1>1, <1>2
<1>6. full'[op].phase + 1 = Issued(op)' /\ Issued(op)' = empty'[op].phase + 1
  BY <1>1, <1>2
<1>7. \A y \in Warps : Tak(warp'[y], op) <= full'[op].phase
  BY <1>2 DEF FlowInv
<1> HIDE DEF c
<1> QED BY <1>2, <1>4, <1>5, <1>6, <1>7 DEF FlowInv

\* The other operand's copies do not matter.
LEMMA FlowOther ==
    ASSUME TypeOK, NEW op \in Ops, FlowInv(op), full'[op] = full[op], empty'[op] = empty[op],
           UNCHANGED warp, Issued(op)' = Issued(op),
           {c \in copies' : c.op = op} = {c \in copies : c.op = op}
    PROVE  FlowInv(op)'
<1>1. \A y \in Warps : Released(op)'[y] = Released(op)[y]
  BY DEF Released, Rel, Round, One
<1>2. Level(empty'[op], Released(op)')
  BY <1>1, LevelSame DEF FlowInv
<1>3. \A y \in Warps : Tak(warp'[y], op) <= full'[op].phase
  BY DEF FlowInv
<1>4. (\E c \in copies : {d \in copies : d.op = op} = {c})
        => \E c \in copies' : {d \in copies' : d.op = op} = {c}
  <2> SUFFICES ASSUME NEW c \in copies, {d \in copies : d.op = op} = {c}
               PROVE  \E e \in copies' : {d \in copies' : d.op = op} = {e}
    OBVIOUS
  <2>1. c \in {d \in copies' : d.op = op}
    OBVIOUS
  <2> QED BY <2>1
<1> QED BY <1>2, <1>3, <1>4 DEF FlowInv

LEMMA FlowLand ==
    ASSUME TypeOK, NEW c \in copies, FlowInv(c.op), Land(c)
    PROVE  FlowInv(c.op)'
<1> DEFINE op == c.op
<1>1. op \in Ops
  BY Types
<1>2. /\ full' = [full EXCEPT ![op] = Arrived(@, 1)] /\ copies' = copies \ {c}
      /\ UNCHANGED <<prod, empty, warp>>
  BY DEF Land
<1>3. c \in {d \in copies : d.op = op}
  OBVIOUS
<1>4. full[op].phase + 1 = Issued(op) /\ {d \in copies : d.op = op} = {c}
  BY <1>3 DEF FlowInv
<1>5. full'[op] = Arrived(full[op], 1)
  BY <1>1, <1>2, Types
<1>6. full'[op].phase = full[op].phase + 1 /\ full'[op].arrived = 0
  BY <1>1, <1>5, FlowTypes, BarrierTypes DEF FlowInv
<1>7. {d \in copies' : d.op = op} = {}
  BY <1>2, <1>4
<1>8. Issued(op)' = Issued(op) /\ \A y \in Warps : Released(op)'[y] = Released(op)[y]
  BY <1>2 DEF Issued, Released, Rel, Round, One
<1>9. Level(empty'[op], Released(op)')
  BY <1>2, <1>8, LevelSame DEF FlowInv
<1>10. \A y \in Warps : Tak(warp'[y], op) <= full'[op].phase
  <2> SUFFICES ASSUME NEW y \in Warps PROVE Tak(warp'[y], op) <= full'[op].phase
    OBVIOUS
  <2>1. Tak(warp[y], op) \in Nat /\ Tak(warp[y], op) <= full[op].phase
    BY <1>1, CountersType DEF FlowInv
  <2> QED BY <1>1, <1>2, <1>6, <2>1, FlowTypes
<1> HIDE DEF op
<1>11. FlowInv(op)'
  BY <1>2, <1>4, <1>6, <1>7, <1>8, <1>9, <1>10 DEF FlowInv
<1> QED BY <1>11 DEF op

-----------------------------------------------------------------------------
(* The turns. *)

LEMMA TurnTypes ==
    ASSUME TypeOK, NEW g \in {1, 2}
    PROVE  named[g] \in Barriers /\ named[g].phase \in Nat
BY Types DEF Barriers

\* A step without an arrival at the group's barrier.
LEMMA TurnKeep ==
    ASSUME TypeOK, NEW g \in {1, 2}, TurnInv(g), NEW x \in Warps, Others(x),
           named'[g] = named[g], Trn(x, warp'[x], g) = Trn(x, warp[x], g),
           group(x) = g => Turned(warp'[x], named[g])
    PROVE  TurnInv(g)'
<1>1. \A y \in Warps : Turns(g)'[y] = Turns(g)[y]
  BY DEF Turns, Others, Trn, One
<1>2. Level(named'[g], Turns(g)')
  BY <1>1, LevelSame DEF TurnInv
<1>3. \A y \in members(g) : Turned(warp'[y], named'[g])
  <2> SUFFICES ASSUME NEW y \in members(g) PROVE Turned(warp'[y], named'[g])
    OBVIOUS
  <2>1. y \in Warps /\ group(y) = g
    BY AttentionAssumption DEF members, group, Warps
  <2> QED BY <2>1 DEF TurnInv, Others
<1> QED BY <1>2, <1>3 DEF TurnInv, members

\* An arrival: of a warp of the group for its next turn, or of one of the other group.
LEMMA TurnArrive ==
    ASSUME TypeOK, NEW g \in {1, 2}, TurnInv(g), NEW x \in Warps, Others(x),
           named'[g] = Arrived(named[g], Cardinality(Warps)),
           Trn(x, warp'[x], g) = Trn(x, warp[x], g) + 1, warp' \in [Warps -> WarpStates],
           Trn(x, warp[x], g) = named[g].phase,
           group(x) = g => Turned(warp'[x], named[g])
    PROVE  TurnInv(g)'
<1> DEFINE f == Turns(g)
           h == Turns(g)'
<1>1. /\ f \in [Warps -> Nat] /\ h \in [Warps -> Nat]
      /\ f[x] = named[g].phase /\ h[x] = f[x] + 1 /\ \A y \in Warps \ {x} : h[y] = f[y]
  <2>1. f \in [Warps -> Nat] /\ f[x] = Trn(x, warp[x], g)
    BY CountersType DEF Ops
  <2>2. \A y \in Warps \ {x} : h[y] = f[y]
    BY DEF Turns, Others
  <2>3. h = [y \in Warps |-> Trn(y, warp'[y], g)]
    BY DEF Turns, Trn, One
  <2>4. \A y \in Warps : h[y] \in Nat
    BY <2>1, <2>2, <2>3
  <2> QED BY <2>1, <2>2, <2>3, <2>4
<1>2. Level(named[g], f)
  BY DEF TurnInv
<1>3. Level(named'[g], h) /\ named'[g].phase \in {named[g].phase, named[g].phase + 1}
  <2> HIDE DEF f, h
  <2> QED BY <1>1, <1>2, TurnTypes, Arrival
<1>4. \A y \in members(g) : Turned(warp'[y], named'[g])
  <2> SUFFICES ASSUME NEW y \in members(g) PROVE Turned(warp'[y], named'[g])
    OBVIOUS
  <2>1. y \in Warps /\ group(y) = g
    BY AttentionAssumption DEF members, group, Warps
  <2>2. Turned(warp'[y], named[g])
    BY <2>1 DEF TurnInv, Others
  <2>3. warp'[y].gi_k \in Nat
    BY <2>1 DEF WarpStates
  <2> QED BY <1>3, <2>2, <2>3, TurnTypes DEF Turned
<1> QED BY <1>3, <1>4 DEF TurnInv, members

-----------------------------------------------------------------------------
(* The steps keep the invariant. *)

LEMMA ShapeKeep ==
    ASSUME ShapeInv, NEW x \in Warps, Others(x), Shaped(warp'[x])
    PROVE  ShapeInv'
BY DEF ShapeInv, Others, Shaped, Pending, K, V

LEMMA Short ==
    ASSUME NEW a, NEW b
    PROVE  /\ Append(<<>>, b) = <<b>> /\ Append(<<a>>, b) = <<a, b>>
           /\ Tail(<<a>>) = <<>> /\ Tail(<<a, b>>) = <<b>>
           /\ Len(<<a, b>>) = 2 /\ Len(<<a>>) = 1
<1>1. Append(<<>>, b) = <<b>>
  OBVIOUS
<1>2. Tail(<<a>>) = <<>>
  OBVIOUS
<1>3. Tail(<<a, b>>) = <<b>>
  OBVIOUS
<1>4. Len(<<a, b>>) = 2 /\ Len(<<a>>) = 1
  OBVIOUS
<1>5. Append(<<a>>, b) = <<a, b>>
  <2> DEFINE s == Append(<<a>>, b)
             t == <<a, b>>
  <2>1. <<a>> \in Seq({a, b}) /\ b \in {a, b}
    OBVIOUS
  <2>2. s \in Seq({a, b}) /\ Len(s) = 2 /\ s[1] = a /\ s[2] = b
    BY <2>1
  <2>3. t \in Seq({a, b}) /\ Len(t) = 2 /\ t[1] = a /\ t[2] = b
    OBVIOUS
  <2> HIDE DEF s, t
  <2>4. /\ DOMAIN s = 1 .. 2 /\ s = [i \in 1 .. 2 |-> s[i]]
        /\ DOMAIN t = 1 .. 2 /\ t = [i \in 1 .. 2 |-> t[i]]
    BY <2>2, <2>3
  <2>5. \A i \in 1 .. 2 : i = 1 \/ i = 2
    OBVIOUS
  <2>6. \A i \in 1 .. 2 : s[i] = t[i]
    BY <2>2, <2>3, <2>5
  <2>7. s = t
    BY <2>4, <2>6
  <2> QED BY <2>7 DEF s, t
<1> QED BY <1>1, <1>2, <1>3, <1>4, <1>5

LEMMA Numbers ==
    ASSUME TypeOK, NEW x \in Warps
    PROVE  /\ warp[x].gi_k \in Nat /\ warp[x].gi_v \in Nat /\ warp[x].n \in Nat
           /\ warp[x].gen \in Nat
BY Types DEF WarpStates

\* What the invariant says of one warp.
LEMMA Unpack ==
    ASSUME IInv, NEW x \in Warps
    PROVE  /\ TypeOK /\ FlowInv("k") /\ FlowInv("v") /\ TurnInv(1) /\ TurnInv(2) /\ ShapeInv
           /\ Shaped(warp[x]) /\ Turned(warp[x], named[group(x)])
           /\ group(x) \in {1, 2} /\ {"k", "v"} = Ops
           /\ Tak(warp[x], "k") <= full["k"].phase /\ Tak(warp[x], "v") <= full["v"].phase
<1>1. group(x) \in {1, 2} /\ x \in members(group(x))
  BY Groups
<1> QED BY <1>1 DEF IInv, ShapeInv, TurnInv, FlowInv, Ops

\* A step of a warp that arrives nowhere.
LEMMA Quiet ==
    ASSUME IInv, TypeOK', NEW x \in Warps, Others(x),
           UNCHANGED <<prod, copies, full, empty, named>>,
           \A op \in Ops : /\ Rel(warp'[x], op) = Rel(warp[x], op)
                           /\ Tak(warp'[x], op) <= full[op].phase,
           \A g \in {1, 2} : Trn(x, warp'[x], g) = Trn(x, warp[x], g),
           Turned(warp'[x], named[group(x)]), Shaped(warp'[x])
    PROVE  IInv'
<1>1. FlowInv("k")' /\ FlowInv("v")'
  BY Unpack, FlowKeep
<1>2. TurnInv(1)' /\ TurnInv(2)'
  BY Unpack, TurnKeep
<1>3. ShapeInv'
  BY Unpack, ShapeKeep
<1> QED BY <1>1, <1>2, <1>3 DEF IInv

LEMMA LoadQKeeps == ASSUME IInv, TypeOK', NEW x \in Warps, LoadQ(x) PROVE IInv'
<1>1. /\ warp[x].pc = "q" /\ warp'[x].pc = "q_full" /\ warp'[x].n = warp[x].n
      /\ warp'[x].gi_k = warp[x].gi_k /\ warp'[x].gi_v = warp[x].gi_v
      /\ warp'[x].mmas = warp[x].mmas /\ Others(x)
      /\ UNCHANGED <<prod, copies, full, empty, named>>
  BY Unpack, LoadQStep DEF Keeps, Fields
<1>2. \A op \in Ops :
          /\ Rel(warp'[x], op) = Rel(warp[x], op)
          /\ Tak(warp'[x], op) = Tak(warp[x], op)
  BY <1>1 DEF Rel, Tak, Round, One, Inside, Passed, Handed
<1>3. \A g \in {1, 2} : Trn(x, warp'[x], g) = Trn(x, warp[x], g)
  BY <1>1 DEF Trn, One, Inside, Passed, Handed
<1>4. Turned(warp'[x], named[group(x)])
  BY <1>1, Unpack DEF Turned, Passed, Handed
<1>5. Shaped(warp'[x])
  BY <1>1, Unpack DEF Shaped, Pending
<1> QED BY <1>1, <1>2, <1>3, <1>4, <1>5, Unpack, Quiet

LEMMA StartTileKeeps == ASSUME IInv, TypeOK', NEW x \in Warps, StartTile(x) PROVE IInv'
<1>1. /\ warp[x].pc = "q_full" /\ warp'[x].pc = "k_full"
      /\ warp'[x].gi_k = warp[x].gi_k /\ warp'[x].gi_v = warp[x].gi_v
      /\ warp'[x].mmas = warp[x].mmas /\ Others(x)
      /\ UNCHANGED <<prod, copies, full, empty, named>>
  BY Unpack, StartTileStep DEF Keeps, Fields
<1>2. \A op \in Ops :
          /\ Rel(warp'[x], op) = Rel(warp[x], op)
          /\ Tak(warp'[x], op) = Tak(warp[x], op)
  BY <1>1 DEF Rel, Tak, Round, One, Inside, Passed, Handed
<1>3. \A g \in {1, 2} : Trn(x, warp'[x], g) = Trn(x, warp[x], g)
  BY <1>1 DEF Trn, One, Inside, Passed, Handed
<1>4. Turned(warp'[x], named[group(x)])
  BY <1>1, Unpack DEF Turned, Passed, Handed
<1>5. Shaped(warp'[x])
  BY <1>1, Unpack DEF Shaped, Pending
<1> QED BY <1>1, <1>2, <1>3, <1>4, <1>5, Unpack, Quiet

LEMMA StoreKeeps == ASSUME IInv, TypeOK', NEW x \in Warps, Store(x) PROVE IInv'
<1>1. /\ warp[x].pc = "store" /\ warp'[x].pc = "q" /\ warp'[x].n = warp[x].n
      /\ warp'[x].gi_k = warp[x].gi_k /\ warp'[x].gi_v = warp[x].gi_v
      /\ warp'[x].mmas = warp[x].mmas /\ Others(x)
      /\ UNCHANGED <<prod, copies, full, empty, named>>
  BY Unpack, StoreStep DEF Keeps, Fields
<1>2. \A op \in Ops :
          /\ Rel(warp'[x], op) = Rel(warp[x], op)
          /\ Tak(warp'[x], op) = Tak(warp[x], op)
  BY <1>1 DEF Rel, Tak, Round, One, Inside, Passed, Handed
<1>3. \A g \in {1, 2} : Trn(x, warp'[x], g) = Trn(x, warp[x], g)
  BY <1>1 DEF Trn, One, Inside, Passed, Handed
<1>4. Turned(warp'[x], named[group(x)])
  BY <1>1, Unpack DEF Turned, Passed, Handed
<1>5. Shaped(warp'[x])
  BY <1>1, Unpack DEF Shaped, Pending
<1> QED BY <1>1, <1>2, <1>3, <1>4, <1>5, Unpack, Quiet

LEMMA AwaitKKeeps == ASSUME IInv, TypeOK', NEW x \in Warps, AwaitK(x) PROVE IInv'
<1> DEFINE g == group(x)
           h == 3 - g
<1>1. /\ warp[x].pc = "k_full" /\ warp'[x].pc = "turn" /\ warp'[x].n = warp[x].n
      /\ warp'[x].gi_k = warp[x].gi_k /\ warp'[x].gi_v = warp[x].gi_v
      /\ warp'[x].mmas = warp[x].mmas /\ warp'[x].gen = named[g].phase /\ Others(x)
      /\ warp' \in [Warps -> WarpStates]
      /\ UNCHANGED <<prod, copies, full, empty>> /\ Passes(full["k"], warp[x].gi_k % 2)
      /\ named' = [named EXCEPT ![g] = Arrived(@, Cardinality(Warps))]
  BY Unpack, AwaitKStep DEF Keeps, Fields
<1>2. /\ \A op \in Ops : Rel(warp'[x], op) = Rel(warp[x], op)
      /\ Tak(warp[x], "k") = warp[x].gi_k /\ Tak(warp'[x], "k") = warp[x].gi_k + 1
      /\ Tak(warp'[x], "v") = Tak(warp[x], "v")
  BY <1>1, Unpack, Numbers DEF Rel, Tak, Round, One, Inside, Passed, Handed
<1>3. FlowInv("v")'
  BY <1>1, <1>2, Unpack, FlowKeep
<1>4. FlowInv("k")'
  <2>1. Tak(warp'[x], "k") <= full["k"].phase
    BY <1>1, <1>2, Unpack, Numbers, Take
  <2> QED BY <1>1, <1>2, <2>1, Unpack, FlowKeep
<1>5. g \in {1, 2} /\ h \in {1, 2} /\ h # g
  BY Unpack
<1>6. named'[g] = Arrived(named[g], Cardinality(Warps)) /\ named'[h] = named[h]
  BY <1>1, <1>5, Unpack, Types
<1>7. /\ Trn(x, warp'[x], g) = Trn(x, warp[x], g) + 1
      /\ Trn(x, warp'[x], h) = Trn(x, warp[x], h)
      /\ Trn(x, warp[x], g) = warp[x].gi_k
  BY <1>1, <1>5, Unpack, Numbers DEF Trn, One, Inside, Passed, Handed
<1>8. named[g].phase = warp[x].gi_k
  <2>1. warp[x].gi_k <= named[g].phase
    BY Unpack DEF Turned
  <2>2. Turns(g)[x] \in {named[g].phase, named[g].phase + 1} /\ Turns(g)[x] = Trn(x, warp[x], g)
    BY <1>5, Unpack, CountersType DEF TurnInv, Level, LevelOf
  <2> QED BY <1>5, <1>7, <2>1, <2>2, Unpack, Numbers, TurnTypes
<1>9. Turned(warp'[x], named[g])
  BY <1>1, <1>8, Unpack, Numbers DEF Turned, Passed, Handed
<1>10. TurnInv(g)'
  BY <1>1, <1>5, <1>6, <1>7, <1>8, <1>9, Unpack, TurnArrive
<1>11. TurnInv(h)'
  BY <1>1, <1>5, <1>6, <1>7, Unpack, TurnKeep
<1>12. Shaped(warp'[x])
  BY <1>1, Unpack DEF Shaped, Pending
<1> QED BY <1>1, <1>3, <1>4, <1>5, <1>10, <1>11, <1>12, Unpack, ShapeKeep DEF IInv

LEMMA IssueQKKeeps == ASSUME IInv, TypeOK', NEW x \in Warps, IssueQK(x) PROVE IInv'
<1>1. /\ warp[x].pc = "turn" /\ warp'[x].n = warp[x].n
      /\ warp'[x].pc = (IF warp[x].n = 0 THEN "hand_over" ELSE "v_full")
      /\ warp'[x].gi_k = warp[x].gi_k /\ warp'[x].gi_v = warp[x].gi_v /\ Others(x)
      /\ warp'[x].mmas = Append(warp[x].mmas, K(warp[x]))
      /\ named[group(x)].phase # warp[x].gen
      /\ UNCHANGED <<prod, copies, full, empty, named>>
  BY Unpack, IssueQKStep DEF Keeps, Fields, K
<1>2. \A op \in Ops :
          /\ Rel(warp'[x], op) = Rel(warp[x], op)
          /\ Tak(warp'[x], op) = Tak(warp[x], op)
  BY <1>1 DEF Rel, Tak, Round, One, Inside, Passed, Handed
<1>3. \A g \in {1, 2} : Trn(x, warp'[x], g) = Trn(x, warp[x], g)
  BY <1>1 DEF Trn, One, Inside, Passed, Handed
<1>4. Turned(warp'[x], named[group(x)])
  BY <1>1, Unpack, Numbers, TurnTypes DEF Turned
<1>5. Shaped(warp'[x])
  <2>1. warp[x].mmas = <<>>
    BY <1>1, Unpack DEF Shaped, Pending
  <2>2. warp'[x].mmas = <<K(warp[x])>>
    BY <1>1, <2>1
  <2>3. K(warp'[x]) = K(warp[x])
    BY <1>1 DEF K
  <2> QED BY <1>1, <2>2, <2>3 DEF Shaped, Pending
<1> QED BY <1>1, <1>2, <1>3, <1>4, <1>5, Unpack, Quiet

LEMMA IssuePVKeeps == ASSUME IInv, TypeOK', NEW x \in Warps, IssuePV(x) PROVE IInv'
<1>1. /\ warp[x].pc = "v_full" /\ warp'[x].pc = "hand_over" /\ warp'[x].n = warp[x].n
      /\ warp'[x].gi_k = warp[x].gi_k /\ warp'[x].gi_v = warp[x].gi_v /\ Others(x)
      /\ warp'[x].mmas = Append(warp[x].mmas, V(warp[x]))
      /\ Passes(full["v"], warp[x].gi_v % 2)
      /\ UNCHANGED <<prod, copies, full, empty, named>>
  BY Unpack, IssuePVStep DEF Keeps, Fields, V
<1>2. /\ \A op \in Ops : Rel(warp'[x], op) = Rel(warp[x], op)
      /\ Tak(warp'[x], "k") = Tak(warp[x], "k")
      /\ Tak(warp[x], "v") = warp[x].gi_v /\ Tak(warp'[x], "v") <= warp[x].gi_v + 1
  BY <1>1, Unpack, Numbers DEF Rel, Tak, Round, One, Inside, Passed, Handed
<1>3. \A op \in Ops : Tak(warp'[x], op) <= full[op].phase
  <2>1. warp[x].gi_v + 1 <= full["v"].phase
    BY <1>1, <1>2, Unpack, Numbers, Take
  <2>2. Tak(warp'[x], "v") \in Int
    BY <1>1, Unpack, Numbers DEF Tak, Round, One
  <2>3. Tak(warp'[x], "v") <= full["v"].phase
    BY <1>2, <2>1, <2>2, Unpack, Numbers, FlowTypes
  <2> QED BY <1>2, <2>3, Unpack
<1>4. \A g \in {1, 2} : Trn(x, warp'[x], g) = Trn(x, warp[x], g)
  BY <1>1 DEF Trn, One, Inside, Passed, Handed
<1>5. Turned(warp'[x], named[group(x)])
  BY <1>1, Unpack DEF Turned, Passed, Handed
<1>6. Shaped(warp'[x])
  <2>1. warp[x].mmas \in {<<>>, <<K(warp[x])>>} /\ warp[x].n # 0
    BY <1>1, Unpack DEF Shaped, Pending
  <2>2. warp'[x].mmas \in {<<V(warp[x])>>, <<K(warp[x]), V(warp[x])>>}
    BY <1>1, <2>1, Short
  <2>3. K(warp'[x]) = K(warp[x]) /\ V(warp'[x]) = V(warp[x])
    BY <1>1 DEF K, V
  <2> QED BY <1>1, <2>1, <2>2, <2>3 DEF Shaped, Pending
<1> QED BY <1>1, <1>2, <1>3, <1>4, <1>5, <1>6, Unpack, Quiet

LEMMA HandOverKeeps == ASSUME IInv, TypeOK', NEW x \in Warps, HandOver(x) PROVE IInv'
<1> DEFINE g == group(x)
           h == 3 - g
<1>1. /\ warp[x].pc = "hand_over" /\ warp'[x].pc = "scores" /\ warp'[x].n = warp[x].n
      /\ warp'[x].gi_k = warp[x].gi_k /\ warp'[x].gi_v = warp[x].gi_v
      /\ warp'[x].mmas = warp[x].mmas /\ Others(x) /\ warp' \in [Warps -> WarpStates]
      /\ UNCHANGED <<prod, copies, full, empty>>
      /\ named' = [named EXCEPT ![h] = Arrived(@, Cardinality(Warps))]
  BY Unpack, HandOverStep DEF Keeps, Fields
<1>2. \A op \in Ops :
          /\ Rel(warp'[x], op) = Rel(warp[x], op)
          /\ Tak(warp'[x], op) = Tak(warp[x], op)
  BY <1>1 DEF Rel, Tak, Round, One, Inside, Passed, Handed
<1>3. FlowInv("k")' /\ FlowInv("v")'
  BY <1>1, <1>2, Unpack, FlowKeep
<1>4. g \in {1, 2} /\ h \in {1, 2} /\ h # g
  BY Unpack
<1>5. named'[h] = Arrived(named[h], Cardinality(Warps)) /\ named'[g] = named[g]
  BY <1>1, <1>4, Unpack, Types
<1>6. /\ Trn(x, warp'[x], g) = Trn(x, warp[x], g)
      /\ Trn(x, warp'[x], h) = Trn(x, warp[x], h) + 1
      /\ Trn(x, warp[x], h) = warp[x].gi_k + One(g = 2)
  BY <1>1, <1>4, Unpack, Numbers DEF Trn, One, Inside, Passed, Handed
<1>7. warp[x].gi_k < named[g].phase
  BY <1>1, Unpack DEF Turned, Passed, Handed
<1>8. Trn(x, warp[x], h) = named[h].phase
  <2>1. PICK y \in Warps : group(y) = h /\ y \in members(h)
    BY Groups
  <2>2. Trn(y, warp[y], g) \in {named[g].phase, named[g].phase + 1}
    BY <1>4, Unpack, CountersType DEF TurnInv, Level, LevelOf, Ops
  <2>3. Trn(y, warp[y], g) = warp[y].gi_k + One(warp[y].pc \in Handed) + One(g = 1)
    BY <1>4, <2>1, Unpack, Numbers DEF Trn, One
  <2>4. warp[y].gi_k + One(warp[y].pc \in Handed) <= named[h].phase
    BY <1>4, <2>1, Unpack, Numbers, TurnTypes DEF TurnInv, Turned, One, Passed
  <2>5. One(warp[y].pc \in Handed) \in {0, 1} /\ One(g = 1) + One(g = 2) = 1
        /\ One(g = 1) \in {0, 1} /\ One(g = 2) \in {0, 1}
    BY <1>4 DEF One
  <2>6. Trn(x, warp[x], h) \in {named[h].phase, named[h].phase + 1}
    <3>1. TurnInv(h) /\ TypeOK
      BY <1>4, Unpack
    <3> HIDE DEF h
    <3>2. Turns(h)[x] = Trn(x, warp[x], h)
      BY <1>4, <3>1, CountersType DEF Ops
    <3> QED BY <3>1, <3>2 DEF TurnInv, Level, LevelOf
  <2>7. /\ named[g].phase \in Nat /\ named[h].phase \in Nat
        /\ warp[x].gi_k \in Nat /\ warp[y].gi_k \in Nat
    BY <1>4, Unpack, Numbers, TurnTypes
  <2> HIDE DEF g, h
  <2> QED BY <1>6, <1>7, <2>2, <2>3, <2>4, <2>5, <2>6, <2>7
<1>9. Turned(warp'[x], named[g])
  BY <1>1, Unpack DEF Turned, Passed, Handed
<1>10. TurnInv(g)'
  BY <1>1, <1>4, <1>5, <1>6, <1>9, Unpack, TurnKeep
<1>11. TurnInv(h)'
  BY <1>1, <1>4, <1>5, <1>6, <1>8, Unpack, TurnArrive
<1>12. Shaped(warp'[x])
  BY <1>1, Unpack DEF Shaped, Pending, K, V
<1> QED BY <1>1, <1>3, <1>4, <1>10, <1>11, <1>12, Unpack, ShapeKeep DEF IInv

LEMMA AwaitScoresKeeps == ASSUME IInv, TypeOK', NEW x \in Warps, AwaitScores(x) PROVE IInv'
<1>1. /\ warp[x].pc = "scores" /\ warp'[x].pc = "softmax" /\ warp'[x].n = warp[x].n
      /\ warp'[x].gi_k = warp[x].gi_k /\ warp'[x].gi_v = warp[x].gi_v
      /\ warp'[x].mmas = warp[x].mmas /\ Others(x)
      /\ UNCHANGED <<prod, copies, full, named>>
      /\ empty' = [empty EXCEPT !["k"] = Arrived(@, Cardinality(Warps))]
      /\ Len(warp[x].mmas) <= (IF warp[x].n = 0 THEN 0 ELSE 1)
  BY Unpack, AwaitScoresStep DEF Keeps, Fields
<1>2. /\ Rel(warp'[x], "k") = Rel(warp[x], "k") + 1 /\ Rel(warp'[x], "v") = Rel(warp[x], "v")
      /\ \A op \in Ops : Tak(warp'[x], op) = Tak(warp[x], op)
      /\ Rel(warp[x], "k") < Tak(warp[x], "k")
  BY <1>1, Unpack, Numbers DEF Rel, Tak, Round, One, Inside, Passed, Handed, Ops
<1>3. empty'["k"] = Arrived(empty["k"], Cardinality(Warps)) /\ empty'["v"] = empty["v"]
  BY <1>1, Unpack, Types
<1>4. FlowInv("k")'
  BY <1>1, <1>2, <1>3, Unpack, FlowRelease
<1>5. FlowInv("v")'
  BY <1>1, <1>2, <1>3, Unpack, FlowKeep
<1>6. \A g \in {1, 2} : Trn(x, warp'[x], g) = Trn(x, warp[x], g)
  BY <1>1 DEF Trn, One, Inside, Passed, Handed
<1>7. Turned(warp'[x], named[group(x)])
  BY <1>1, Unpack DEF Turned, Passed, Handed
<1>8. TurnInv(1)' /\ TurnInv(2)'
  BY <1>1, <1>6, <1>7, Unpack, TurnKeep
<1>9. Shaped(warp'[x])
  <2>1. /\ warp[x].n = 0 => warp[x].mmas \in {<<>>, <<K(warp[x])>>}
        /\ warp[x].n # 0 => warp[x].mmas \in {<<>>, <<V(warp[x])>>, <<K(warp[x]), V(warp[x])>>}
    BY <1>1, Unpack DEF Shaped, Pending
  <2>2. /\ warp[x].n = 0 => warp[x].mmas = <<>>
        /\ warp[x].n # 0 => warp[x].mmas \in {<<>>, <<V(warp[x])>>}
    BY <1>1, <2>1, Short
  <2>3. V(warp'[x]) = V(warp[x])
    BY <1>1 DEF V
  <2> QED BY <1>1, <2>2, <2>3 DEF Shaped, Pending
<1> QED BY <1>1, <1>4, <1>5, <1>8, <1>9, Unpack, ShapeKeep DEF IInv

LEMMA SoftmaxKeeps == ASSUME IInv, TypeOK', NEW x \in Warps, Softmax(x) PROVE IInv'
<1>1. /\ warp[x].pc = "softmax" /\ warp'[x].gi_v = warp[x].gi_v
      /\ warp'[x].mmas = warp[x].mmas /\ Others(x)
      /\ UNCHANGED <<prod, copies, full, empty, named>>
      /\ \/ /\ warp[x].n = 0 /\ warp'[x].pc \in {"k_full", "last_v"}
            /\ warp'[x].gi_k = warp[x].gi_k + 1
         \/ /\ warp[x].n # 0 /\ warp'[x].pc = "product" /\ warp'[x].n = warp[x].n
            /\ warp'[x].gi_k = warp[x].gi_k
  BY Unpack, SoftmaxStep DEF Keeps, Fields
<1>2. \A op \in Ops :
          /\ Rel(warp'[x], op) = Rel(warp[x], op)
          /\ Tak(warp'[x], op) = Tak(warp[x], op)
  BY <1>1, Unpack, Numbers DEF Rel, Tak, Round, One, Inside, Passed, Handed
<1>3. \A g \in {1, 2} : Trn(x, warp'[x], g) = Trn(x, warp[x], g)
  BY <1>1, Unpack, Numbers DEF Trn, One, Inside, Passed, Handed
<1>4. Turned(warp'[x], named[group(x)])
  BY <1>1, Unpack, Numbers, TurnTypes DEF Turned, Passed, Handed
<1>5. Shaped(warp'[x])
  <2>1. V(warp'[x]) = V(warp[x])
    BY <1>1 DEF V
  <2> QED BY <1>1, <2>1, Unpack DEF Shaped, Pending
<1> QED BY <1>1, <1>2, <1>3, <1>4, <1>5, Unpack, Quiet

LEMMA RescaleKeeps == ASSUME IInv, TypeOK', NEW x \in Warps, Rescale(x) PROVE IInv'
<1>1. /\ warp[x].pc = "product" /\ warp'[x].pc \in {"k_full", "last_v"}
      /\ warp'[x].gi_k = warp[x].gi_k + 1 /\ warp'[x].gi_v = warp[x].gi_v + 1
      /\ warp'[x].mmas = warp[x].mmas /\ warp[x].mmas = <<>> /\ Others(x)
      /\ UNCHANGED <<prod, copies, full, named>>
      /\ empty' = [empty EXCEPT !["v"] = Arrived(@, Cardinality(Warps))]
  BY Unpack, RescaleStep DEF Keeps, Fields
<1>2. /\ Rel(warp'[x], "k") = Rel(warp[x], "k") /\ Rel(warp'[x], "v") = Rel(warp[x], "v") + 1
      /\ \A op \in Ops : Tak(warp'[x], op) = Tak(warp[x], op)
      /\ Rel(warp[x], "v") < Tak(warp[x], "v")
  BY <1>1, Unpack, Numbers DEF Rel, Tak, Round, One, Inside, Passed, Handed, Ops
<1>3. empty'["v"] = Arrived(empty["v"], Cardinality(Warps)) /\ empty'["k"] = empty["k"]
  BY <1>1, Unpack, Types
<1>4. FlowInv("v")'
  BY <1>1, <1>2, <1>3, Unpack, FlowRelease
<1>5. FlowInv("k")'
  BY <1>1, <1>2, <1>3, Unpack, FlowKeep
<1>6. \A g \in {1, 2} : Trn(x, warp'[x], g) = Trn(x, warp[x], g)
  BY <1>1, Unpack, Numbers DEF Trn, One, Inside, Passed, Handed
<1>7. Turned(warp'[x], named[group(x)])
  BY <1>1, Unpack, Numbers, TurnTypes DEF Turned, Passed, Handed
<1>8. TurnInv(1)' /\ TurnInv(2)'
  BY <1>1, <1>6, <1>7, Unpack, TurnKeep
<1>9. Shaped(warp'[x])
  BY <1>1 DEF Shaped, Pending
<1> QED BY <1>1, <1>4, <1>5, <1>8, <1>9, Unpack, ShapeKeep DEF IInv

LEMMA IssueLastPVKeeps == ASSUME IInv, TypeOK', NEW x \in Warps, IssueLastPV(x) PROVE IInv'
<1>1. /\ warp[x].pc = "last_v" /\ warp'[x].pc = "drain"
      /\ warp'[x].gi_k = warp[x].gi_k /\ warp'[x].gi_v = warp[x].gi_v /\ Others(x)
      /\ warp'[x].mmas = Append(warp[x].mmas, V(warp[x]))
      /\ Passes(full["v"], warp[x].gi_v % 2)
      /\ UNCHANGED <<prod, copies, full, empty, named>>
  BY Unpack, IssueLastPVStep DEF Keeps, Fields, V
<1>2. /\ \A op \in Ops : Rel(warp'[x], op) = Rel(warp[x], op)
      /\ Tak(warp'[x], "k") = Tak(warp[x], "k")
      /\ Tak(warp[x], "v") = warp[x].gi_v /\ Tak(warp'[x], "v") = warp[x].gi_v + 1
  BY <1>1, Unpack, Numbers DEF Rel, Tak, Round, One, Inside, Passed, Handed
<1>3. \A op \in Ops : Tak(warp'[x], op) <= full[op].phase
  <2>1. warp[x].gi_v + 1 <= full["v"].phase
    BY <1>1, <1>2, Unpack, Numbers, Take
  <2> QED BY <1>2, <2>1, Unpack
<1>4. \A g \in {1, 2} : Trn(x, warp'[x], g) = Trn(x, warp[x], g)
  BY <1>1 DEF Trn, One, Inside, Passed, Handed
<1>5. Turned(warp'[x], named[group(x)])
  BY <1>1, Unpack DEF Turned, Passed, Handed
<1>6. Shaped(warp'[x])
  <2>1. warp[x].mmas = <<>>
    BY <1>1, Unpack DEF Shaped, Pending
  <2>2. warp'[x].mmas = <<V(warp[x])>> /\ V(warp'[x]) = V(warp[x])
    BY <1>1, <2>1, Short DEF V
  <2> QED BY <1>1, <2>2 DEF Shaped, Pending
<1> QED BY <1>1, <1>2, <1>3, <1>4, <1>5, <1>6, Unpack, Quiet

LEMMA DrainKeeps == ASSUME IInv, TypeOK', NEW x \in Warps, Drain(x) PROVE IInv'
<1>1. /\ warp[x].pc = "drain" /\ warp'[x].pc = "store"
      /\ warp'[x].gi_k = warp[x].gi_k /\ warp'[x].gi_v = warp[x].gi_v + 1
      /\ warp'[x].mmas = warp[x].mmas /\ warp[x].mmas = <<>> /\ Others(x)
      /\ UNCHANGED <<prod, copies, full>>
      /\ empty' = [empty EXCEPT !["v"] = Arrived(@, Cardinality(Warps))]
      /\ named' = [named EXCEPT ![group(x) + 2] = Arrived(@, Cardinality(members(group(x))))]
  BY Unpack, DrainStep DEF Keeps, Fields
<1>2. /\ Rel(warp'[x], "k") = Rel(warp[x], "k") /\ Rel(warp'[x], "v") = Rel(warp[x], "v") + 1
      /\ \A op \in Ops : Tak(warp'[x], op) = Tak(warp[x], op)
      /\ Rel(warp[x], "v") < Tak(warp[x], "v")
  BY <1>1, Unpack, Numbers DEF Rel, Tak, Round, One, Inside, Passed, Handed, Ops
<1>3. empty'["v"] = Arrived(empty["v"], Cardinality(Warps)) /\ empty'["k"] = empty["k"]
  BY <1>1, Unpack, Types
<1>4. FlowInv("v")'
  BY <1>1, <1>2, <1>3, Unpack, FlowRelease
<1>5. FlowInv("k")'
  BY <1>1, <1>2, <1>3, Unpack, FlowKeep
<1>6. \A g \in {1, 2} : Trn(x, warp'[x], g) = Trn(x, warp[x], g)
  BY <1>1 DEF Trn, One, Inside, Passed, Handed
<1>7. Turned(warp'[x], named[group(x)])
  BY <1>1, Unpack DEF Turned, Passed, Handed
<1>8. named'[1] = named[1] /\ named'[2] = named[2]
  BY <1>1, Unpack, Types
<1>9. TurnInv(1)' /\ TurnInv(2)'
  BY <1>1, <1>6, <1>7, <1>8, Unpack, TurnKeep
<1>10. Shaped(warp'[x])
  BY <1>1 DEF Shaped, Pending
<1> QED BY <1>1, <1>4, <1>5, <1>9, <1>10, Unpack, ShapeKeep DEF IInv

LEMMA MmaKeeps == ASSUME IInv, TypeOK', NEW x \in Warps, Mma(x) PROVE IInv'
<1>1. /\ warp'[x].pc = warp[x].pc /\ warp'[x].n = warp[x].n /\ warp'[x].gen = warp[x].gen
      /\ warp'[x].gi_k = warp[x].gi_k /\ warp'[x].gi_v = warp[x].gi_v /\ Others(x)
      /\ warp[x].mmas # <<>> /\ warp'[x].mmas = Tail(warp[x].mmas)
      /\ UNCHANGED <<prod, copies, full, empty, named>>
  BY Unpack, MmaStep DEF Keeps, Fields
<1>2. \A op \in Ops :
          /\ Rel(warp'[x], op) = Rel(warp[x], op)
          /\ Tak(warp'[x], op) = Tak(warp[x], op)
  BY <1>1 DEF Rel, Tak, Round, One
<1>3. \A g \in {1, 2} : Trn(x, warp'[x], g) = Trn(x, warp[x], g)
  BY <1>1 DEF Trn, One
<1>4. Turned(warp'[x], named[group(x)])
  BY <1>1, Unpack DEF Turned
<1>5. Shaped(warp'[x])
  <2>1. K(warp'[x]) = K(warp[x]) /\ V(warp'[x]) = V(warp[x])
    BY <1>1 DEF K, V
  <2>2. /\ Pending(warp'[x]) = Pending(warp[x])
    BY <1>1, <2>1 DEF Pending
  <2>3. warp[x].mmas \in Pending(warp[x]) \ {<<>>}
    BY <1>1, Unpack DEF Shaped
  <2>4. Tail(warp[x].mmas) \in Pending(warp[x])
    BY <2>3, Short DEF Pending
  <2> QED BY <1>1, <2>2, <2>4, Unpack DEF Shaped
<1> QED BY <1>1, <1>2, <1>3, <1>4, <1>5, Unpack, Quiet

LEMMA LoadKeeps == ASSUME IInv, TypeOK', Producer PROVE IInv'
<1>1. TypeOK /\ FlowInv("k") /\ FlowInv("v") /\ TurnInv(1) /\ TurnInv(2) /\ ShapeInv
  BY DEF IInv
<1>2. PICK op \in Ops :
        /\ prod'.gi_k = IF op = "k" THEN prod.gi_k + 1 ELSE prod.gi_k
        /\ prod'.gi_v = IF op = "v" THEN prod.gi_v + 1 ELSE prod.gi_v
        /\ Passes(empty[op], (Issued(op) + 1) % 2)
        /\ \E slot \in 0 .. 1, block \in Nat \X Nat : Copy(op, slot, block)
  BY <1>1, LoadStep DEF Issued
<1>3. PICK slot \in 0 .. 1, block \in Nat \X Nat : Copy(op, slot, block)
  BY <1>2
<1>4. UNCHANGED <<full, empty, named, warp>>
  BY <1>3 DEF Copy
<1>5. FlowInv(op)'
  <2>1. Issued(op)' = Issued(op) + 1
    BY <1>2 DEF Issued, Ops
  <2> QED BY <1>1, <1>2, <1>3, <2>1, FlowLoad DEF Ops
<1>6. ASSUME NEW other \in Ops, other # op PROVE FlowInv(other)'
  <2>1. Issued(other)' = Issued(other)
    BY <1>2, <1>6 DEF Issued, Ops
  <2>2. {c \in copies' : c.op = other} = {c \in copies : c.op = other}
    BY <1>3, <1>6 DEF Copy
  <2> QED BY <1>1, <1>4, <2>1, <2>2, FlowOther DEF Ops
<1>7. FlowInv("k")' /\ FlowInv("v")'
  BY <1>2, <1>5, <1>6 DEF Ops
<1>8. TurnInv(1)' /\ TurnInv(2)' /\ ShapeInv'
  BY <1>1, <1>4 DEF TurnInv, Turns, Trn, One, Level, LevelOf, members, Turned, ShapeInv, Shaped,
                    Pending, K, V
<1> QED BY <1>7, <1>8 DEF IInv

LEMMA LandKeeps == ASSUME IInv, TypeOK', NEW c \in copies, Land(c) PROVE IInv'
<1>1. TypeOK /\ FlowInv("k") /\ FlowInv("v") /\ TurnInv(1) /\ TurnInv(2) /\ ShapeInv
  BY DEF IInv
<1>2. /\ UNCHANGED <<prod, empty, named, warp>> /\ copies' = copies \ {c}
      /\ full' = [full EXCEPT ![c.op] = Arrived(@, 1)]
  BY DEF Land
<1>3. c.op \in Ops
  BY <1>1, Types
<1>4. FlowInv(c.op)'
  BY <1>1, <1>3, FlowLand DEF Ops
<1>5. ASSUME NEW other \in Ops, other # c.op PROVE FlowInv(other)'
  <2>1. full'[other] = full[other]
    BY <1>1, <1>2, <1>3, <1>5, Types
  <2>2. {d \in copies' : d.op = other} = {d \in copies : d.op = other}
    BY <1>2, <1>5
  <2>3. Issued(other)' = Issued(other)
    BY <1>2 DEF Issued
  <2> QED BY <1>1, <1>2, <2>1, <2>2, <2>3, FlowOther DEF Ops
<1>6. FlowInv("k")' /\ FlowInv("v")'
  BY <1>3, <1>4, <1>5 DEF Ops
<1>7. TurnInv(1)' /\ TurnInv(2)' /\ ShapeInv'
  BY <1>1, <1>2 DEF TurnInv, Turns, Trn, One, Level, LevelOf, members, Turned, ShapeInv, Shaped,
                    Pending, K, V
<1> QED BY <1>6, <1>7 DEF IInv

LEMMA InitInv == Init => IInv
<1> SUFFICES ASSUME Init PROVE IInv
  OBVIOUS
<1>1. TypeOK
  BY InitType
<1>2. \A x \in Warps : warp[x] = NewWarp
  BY DEF Init
<1>3. /\ NewWarp.pc = "q" /\ NewWarp.gi_k = 0 /\ NewWarp.gi_v = 0 /\ NewWarp.n = 0
      /\ NewWarp.mmas = <<>>
  BY DEF NewWarp
<1>4. ShapeInv
  BY <1>2, <1>3 DEF ShapeInv, Shaped, Pending
<1>5. ASSUME NEW f, NEW b \in Barriers, \A x \in Warps : f[x] = 0, b.phase = 0, b.arrived = 0
      PROVE  Level(b, f)
  <2>1. {x \in Warps : f[x] = b.phase + 1} = {}
    BY <1>5
  <2>2. Cardinality({x \in Warps : f[x] = b.phase + 1}) = 0
    BY <2>1, FS_EmptySet
  <2> QED BY <1>5, <2>2, WarpsFinite DEF Level, LevelOf
<1>6. \A x \in Warps, op \in Ops : Rel(warp[x], op) = 0 /\ Tak(warp[x], op) = 0
  BY <1>2, <1>3 DEF Rel, Tak, Round, One, Inside, Passed, Handed
<1>7. ASSUME NEW op \in Ops PROVE FlowInv(op)
  <2>1. /\ empty[op] = Fresh /\ full[op] = Fresh /\ copies = {} /\ Issued(op) = 0
    BY DEF Init, Ops, Issued
  <2>2. Level(empty[op], Released(op))
    BY <1>5, <1>6, <2>1, FreshType DEF Released
  <2> QED BY <1>6, <2>1, <2>2, FreshType DEF FlowInv
<1>8. TurnInv(2)
  <2>1. named[2] = Fresh
    BY DEF Init
  <2>2. \A x \in Warps : Turns(2)[x] = 0
    BY <1>2, <1>3 DEF Turns, Trn, One, Inside, Passed, Handed
  <2>3. Level(named[2], Turns(2))
    BY <1>5, <2>1, <2>2, FreshType
  <2>4. \A x \in members(2) : x \in Warps
    BY DEF members, Warps
  <2> QED BY <1>2, <1>3, <2>1, <2>3, <2>4, FreshType DEF TurnInv, Turned, Passed, Handed
<1>9. TurnInv(1)
  <2>1. named[1].phase = 0 /\ named[1].arrived = Cardinality(Group1)
    BY DEF Init
  <2>2. \A x \in Warps : Turns(1)[x] = IF x \in Group1 THEN 0 ELSE 1
    BY <1>2, <1>3 DEF Turns, Trn, One, Inside, Passed, Handed, group
  <2>3. {x \in Warps : Turns(1)[x] = 1} = Group2
    BY <2>2, AttentionAssumption DEF Warps
  <2>4. Level(named[1], Turns(1))
    <3>1. /\ named[1].phase + 1 = 1
          /\ Cardinality({x \in Warps : Turns(1)[x] = 1}) = named[1].arrived
      <4> DEFINE S == {x \in Warps : Turns(1)[x] = 1}
      <4>1. S = Group2 /\ Cardinality(Group1) = Cardinality(Group2)
        BY <2>3, AttentionAssumption
      <4> HIDE DEF S
      <4>2. Cardinality(S) = named[1].arrived
        BY <2>1, <4>1
      <4> QED BY <2>1, <4>2 DEF S
    <3>2. \E x \in Warps : Turns(1)[x] = 0
      BY <2>2, WarpsFinite DEF Warps
    <3>3. \A x \in Warps : Turns(1)[x] \in {0, 1}
      BY <2>2
    <3> QED BY <2>1, <3>1, <3>2, <3>3 DEF Level, LevelOf
  <2>5. \A x \in members(1) : x \in Warps
    BY DEF members, Warps
  <2> QED BY <1>2, <1>3, <2>1, <2>4, <2>5 DEF TurnInv, Turned, Passed, Handed
<1> QED BY <1>1, <1>4, <1>7, <1>8, <1>9 DEF IInv, Ops

LEMMA InvStep == IInv /\ [Next]_vars => IInv'
<1> SUFFICES ASSUME IInv, [Next]_vars PROVE IInv'
  OBVIOUS
<1>1. TypeOK'
  BY TypeStep DEF IInv
<1>2. CASE UNCHANGED vars
  BY <1>1, <1>2 DEF vars, IInv, TurnInv, Turns, Trn, One, Level, LevelOf, members, Turned, ShapeInv,
                    Shaped, Pending, K, V, FlowInv, Released, Rel, Tak, Round, Issued
<1>3. CASE Producer
  BY <1>1, <1>3, LoadKeeps
<1>4. ASSUME NEW c \in copies, Land(c) PROVE IInv'
  BY <1>1, <1>4, LandKeeps
<1>5. ASSUME NEW x \in Warps, WarpStep(x) \/ Mma(x) PROVE IInv'
  BY <1>1, <1>5, LoadQKeeps, StartTileKeeps, AwaitKKeeps, IssueQKKeeps, IssuePVKeeps,
     HandOverKeeps, AwaitScoresKeeps, SoftmaxKeeps, RescaleKeeps, IssueLastPVKeeps, DrainKeeps,
     StoreKeeps, MmaKeeps DEF WarpStep
<1> QED BY <1>2, <1>3, <1>4, <1>5 DEF Next

\* The inductive invariant holds.
THEOREM AttentionInvariant == Spec => []IInv
<1> QED BY InitInv, InvStep, PTL DEF Spec

-----------------------------------------------------------------------------
(* What follows. *)

\* While a warp has an unfinished product of an operand, the round it reads is taken and not
\* released, so the producer has started no other: no copy of that operand is under way.
LEMMA NoCopy ==
    ASSUME IInv, NEW c \in copies, NEW x \in Warps
    PROVE  Rel(warp[x], c.op) = Tak(warp[x], c.op)
<1> DEFINE op == c.op
<1>1. TypeOK /\ op \in Ops
  BY Types DEF IInv
<1>2. FlowInv(op)
  BY <1>1 DEF IInv, Ops
<1>3. c \in {d \in copies : d.op = op}
  OBVIOUS
<1> HIDE DEF op
<1>4. full[op].phase + 1 = Issued(op) /\ Issued(op) <= empty[op].phase + 1
  BY <1>1, <1>2, <1>3, FlowTypes DEF FlowInv
<1>5. empty[op].phase <= Rel(warp[x], op)
  BY <1>1, <1>2, CountersType, FlowTypes DEF FlowInv, Level, LevelOf
<1>6. /\ Rel(warp[x], op) <= Tak(warp[x], op) /\ Tak(warp[x], op) <= full[op].phase
      /\ Rel(warp[x], op) \in Nat /\ Tak(warp[x], op) \in Nat
  BY <1>1, <1>2, CountersType DEF FlowInv
<1>7. Rel(warp[x], op) = Tak(warp[x], op)
  BY <1>1, <1>4, <1>5, <1>6, FlowTypes
<1> QED BY <1>7 DEF op

LEMMA ReadsTaken ==
    ASSUME IInv, NEW x \in Warps, NEW j \in 1 .. Len(warp[x].mmas)
    PROVE  Rel(warp[x], warp[x].mmas[j].op) < Tak(warp[x], warp[x].mmas[j].op)
<1> DEFINE w == warp[x]
<1>1. Shaped(w) /\ w.gi_k \in Nat /\ w.gi_v \in Nat /\ w.n \in Nat
  BY Unpack, Numbers
<1>2. K(w).op = "k" /\ V(w).op = "v"
  BY DEF K, V
<1>3. \/ w.pc \in {"v_full", "hand_over", "scores"} /\ w.mmas[j].op = "k"
      \/ /\ w.pc \in {"hand_over", "scores", "softmax", "product", "drain"}
         /\ w.mmas[j].op = "v" /\ (w.pc \in {"hand_over", "scores", "softmax"} => w.n # 0)
  <2> HIDE DEF w
  <2>1. w.mmas \in Pending(w) /\ j \in 1 .. Len(w.mmas)
    BY <1>1 DEF Shaped, w
  <2>2. w.mmas # <<>>
    BY <2>1
  <2>3. CASE w.mmas = <<K(w)>>
    <3>1. w.mmas[j] = K(w)
      BY <2>1, <2>3
    <3>2. w.pc \in {"v_full", "hand_over", "scores"}
      <4>1. <<K(w)>> # <<>> /\ <<K(w)>>[1] # <<V(w)>>[1]
        BY <1>2
      <4> QED BY <2>1, <2>3, <4>1 DEF Pending
    <3> QED BY <1>2, <3>1, <3>2
  <2>4. CASE w.mmas = <<V(w)>>
    <3>1. w.mmas[j] = V(w)
      BY <2>1, <2>4
    <3>2. /\ w.pc \in {"hand_over", "scores", "softmax", "product", "drain"}
          /\ w.pc \in {"hand_over", "scores", "softmax"} => w.n # 0
      BY <1>2, <2>1, <2>4 DEF Pending
    <3> QED BY <1>2, <3>1, <3>2
  <2>5. CASE w.mmas = <<K(w), V(w)>>
    <3>1. w.mmas[j] \in {K(w), V(w)}
      BY <2>1, <2>5
    <3>2. w.pc \in {"hand_over", "scores"} /\ w.n # 0
      BY <2>1, <2>5, Short DEF Pending
    <3> QED BY <1>2, <3>1, <3>2
  <2> QED BY <2>1, <2>2, <2>3, <2>4, <2>5 DEF Pending
<1> HIDE DEF w
<1>4. Rel(w, w.mmas[j].op) < Tak(w, w.mmas[j].op)
  BY <1>1, <1>3 DEF Rel, Tak, Round, One, Inside, Passed, Handed
<1> QED BY <1>4 DEF w

\* No copy is under way into a slot that an unfinished product reads, for any number of
\* warps, tiles and key blocks.
THEOREM NoOverwrite == Spec => []SlotsHeld
<1>1. IInv => SlotsHeld
  <2> SUFFICES ASSUME IInv, NEW c \in copies, NEW x \in Warps, NEW j \in 1 .. Len(warp[x].mmas),
                      warp[x].mmas[j].op = c.op
               PROVE  FALSE
    BY DEF SlotsHeld
  <2>1. Rel(warp[x], c.op) = Tak(warp[x], c.op)
    BY NoCopy
  <2>2. Rel(warp[x], c.op) < Tak(warp[x], c.op)
    BY ReadsTaken
  <2>3. Rel(warp[x], c.op) \in Nat
    BY Unpack, CountersType, Types
  <2> QED BY <2>1, <2>2, <2>3
<1> QED BY <1>1, AttentionInvariant, PTL

LEMMA OneGroup ==
    ASSUME IInv, NEW x \in Group1, NEW y \in Group2, InTurn(x), InTurn(y)
    PROVE  FALSE
<1>1. x \in Warps /\ y \in Warps /\ group(x) = 1 /\ group(y) = 2
  BY AttentionAssumption DEF Warps, group
<1>2. ASSUME NEW z \in Warps, InTurn(z)
      PROVE  warp[z].gi_k < named[group(z)].phase /\ warp[z].pc \notin Handed
  BY <1>2, Unpack, Numbers, TurnTypes DEF InTurn, Turned, Passed, Handed
<1>3. /\ Trn(y, warp[y], 1) = warp[y].gi_k + 1 /\ Trn(x, warp[x], 2) = warp[x].gi_k
  BY <1>1, <1>2, Unpack, Numbers DEF Trn, One
<1>4. ASSUME NEW z \in Warps, NEW g \in {1, 2} PROVE named[g].phase <= Trn(z, warp[z], g)
  <2>1. TypeOK /\ TurnInv(g)
    BY Unpack
  <2>2. Turns(g)[z] = Trn(z, warp[z], g)
    BY <2>1, CountersType DEF Ops
  <2> QED BY <2>1, <2>2, TurnTypes DEF TurnInv, Level, LevelOf
<1>5. named[1].phase <= warp[y].gi_k + 1 /\ named[2].phase <= warp[x].gi_k
  BY <1>1, <1>3, <1>4
<1>6. warp[x].gi_k < named[1].phase /\ warp[y].gi_k < named[2].phase
  BY <1>1, <1>2
<1>7. /\ warp[x].gi_k \in Nat /\ warp[y].gi_k \in Nat
      /\ named[1].phase \in Nat /\ named[2].phase \in Nat
  BY <1>1, Unpack, Numbers, TurnTypes
<1> QED BY <1>5, <1>6, <1>7

LEMMA OneHandOver ==
    ASSUME IInv, NEW g \in {1, 2}
    PROVE  named[g].arrived <= Cardinality(members(3 - g))
                               + Cardinality({x \in members(g) : warp[x].pc = "turn"})
<1> DEFINE S == {x \in Warps : Turns(g)[x] = named[g].phase + 1}
           T == {x \in members(g) : warp[x].pc = "turn"}
           M == members(3 - g)
<1>1. TypeOK /\ TurnInv(g)
  BY DEF IInv
<1>2. M \subseteq Warps /\ T \subseteq Warps /\ Warps = M \cup members(g)
  BY DEF members, Warps
<1>3. S \subseteq M \cup T
  <2> SUFFICES ASSUME NEW x \in S, x \notin M PROVE x \in T
    OBVIOUS
  <2>1. x \in Warps /\ x \in members(g) /\ group(x) = g
    BY <1>2, AttentionAssumption DEF members, group, Warps
  <2>2. Turned(warp[x], named[g]) /\ Trn(x, warp[x], g) = named[g].phase + 1
    BY <1>1, <2>1, CountersType DEF TurnInv, Ops
  <2>3. Trn(x, warp[x], g) = warp[x].gi_k + One(warp[x].pc \in Inside)
    BY <1>1, <2>1, Numbers DEF Trn, One
  <2>4. warp[x].pc = "turn"
    BY <1>1, <2>1, <2>2, <2>3, Numbers, TurnTypes DEF Turned, One, Inside
  <2> QED BY <2>1, <2>4
<1>4. named[g].arrived = Cardinality(S)
  BY <1>1 DEF TurnInv, Level, LevelOf
<1> HIDE DEF S, T, M
<1>5. IsFiniteSet(M) /\ IsFiniteSet(T)
  BY <1>2, WarpsFinite, FS_Subset
<1>6. /\ IsFiniteSet(M \cup T)
      /\ Cardinality(M \cup T) = Cardinality(M) + Cardinality(T) - Cardinality(M \cap T)
  BY <1>5, FS_Union
<1>7. IsFiniteSet(M \cap T) /\ IsFiniteSet(S) /\ Cardinality(S) <= Cardinality(M \cup T)
  BY <1>3, <1>5, <1>6, FS_Subset
<1>8. /\ Cardinality(M \cap T) \in Nat /\ Cardinality(S) \in Nat
      /\ Cardinality(M) \in Nat /\ Cardinality(T) \in Nat
  BY <1>5, <1>7, FS_CardinalityType
<1>9. named[g].arrived <= Cardinality(M) + Cardinality(T)
  BY <1>4, <1>6, <1>7, <1>8
<1> QED BY <1>9 DEF M, T

\* The consumers issue their products in turn, one group at a time, and the arrivals a turn
\* waits for are those of one hand-over.
THEOREM TurnsTaken == Spec => []PingPong
<1>1. IInv => PingPong
  BY OneGroup, OneHandOver DEF PingPong
<1> QED BY <1>1, AttentionInvariant, PTL

-----------------------------------------------------------------------------
(* The data of the attention kernel.  The counters say how far the producer and a  *)
(* warp are apart; from that follows which block a slot holds, and from it what a  *)
(* warp has summed and stored.                                                     *)

\* Key blocks per tile and the masks, as functions; beyond the last tile one block.
Ls == [i \in Nat |-> IF i \in Tiles THEN loop_range(i) ELSE 1]
Cols == [x \in Warps |-> [i \in Nat |-> [n \in Nat |-> masked(x, i, n)]]]

\* The block after b, of K and of V alike.
Succ(b, ls) == IF b[2] + 1 < ls[b[1]] THEN <<b[1], b[2] + 1>> ELSE <<b[1] + 1, 0>>

Fetching == {"q", "q_full"}
Scoring == {"k_full", "turn", "v_full", "hand_over", "scores"}
Ending == {"last_v", "drain", "store"}

\* The block a warp releases next, and the one the producer stages next.
NextK(w, ls) ==
    IF w.pc \in Fetching THEN <<w.tile, 0>>
    ELSE IF w.pc \in Scoring THEN <<w.tile, w.n>>
    ELSE IF w.pc \in Ending THEN <<w.tile + 1, 0>>
    ELSE Succ(<<w.tile, w.n>>, ls)
NextV(w) ==
    IF w.pc = "store" THEN <<w.tile + 1, 0>>
    ELSE IF w.pc \in Fetching \/ w.n = 0 THEN <<w.tile, 0>>
    ELSE <<w.tile, w.n - 1>>
NextOf(w, op, ls) == IF op = "k" THEN NextK(w, ls) ELSE NextV(w)

StagedK(p, ls) ==
    IF p.pc = "k" THEN <<p.tile, p.n>>
    ELSE IF p.pc = "v" THEN Succ(<<p.tile, p.n>>, ls)
    ELSE <<p.tile + 1, 0>>
StagedV(p) == IF p.pc = "last_v" \/ p.n = 0 THEN <<p.tile, p.n>> ELSE <<p.tile, p.n - 1>>
StagedOf(p, op, ls) == IF op = "k" THEN StagedK(p, ls) ELSE StagedV(p)

\* The producer is at the block the warp waits for, or one further, and then the warp's is
\* in its slot or on its way there.
SyncOf(r, next, issued, staged, slots, flying, ls) ==
    /\ issued = r => staged = next
    /\ issued = r + 1 =>
         /\ staged = Succ(next, ls)
         /\ flying = {} => slots[r % 2] = next
         /\ \A c \in flying : c.block = next /\ c.slot = r % 2

Flying(op) == {c \in copies : c.op = op}
SyncInv(op) ==
    \A x \in Warps : SyncOf(Rel(warp[x], op), NextOf(warp[x], op, Ls), Issued(op),
                            StagedOf(prod, op, Ls), smem[op], Flying(op), Ls)

\* The producer's place in its tile.
Placed(p, ls) ==
    /\ p.pc \in {"k", "v"} => p.n < ls[p.tile]
    /\ p.pc = "last_v" => p.n + 1 = ls[p.tile]

\* The terms of a running sum.
Prob(i, n, cols) == [s |-> << <<i>>, <<i, n>> >>, columns |-> cols[i][n], max |-> n + 1]
Term(i, n, cols) == [p |-> Prob(i, n, cols), v |-> <<i, n>>, scale |-> n + 1]
SumOf(o, i, n, cols) == Len(o) = n /\ \A m \in 1 .. n : o[m] = Term(i, m - 1, cols)

\* An unfinished product with K, with V; and the blocks in a warp's sum.
KLeft(w) == w.mmas \in {<<K(w)>>, <<K(w), V(w)>>}
VLeft(w) == w.mmas \in {<<V(w)>>, <<K(w), V(w)>>}
Summed(w) ==
    IF w.n = 0 THEN 0
    ELSE IF w.pc \in {"k_full", "turn", "v_full", "last_v"} \/ VLeft(w) THEN w.n - 1
    ELSE w.n

\* What a warp holds of its tile.
LocalOf(w, ls, cols) ==
    w.pc \notin Fetching =>
      /\ IF w.pc \in Ending THEN w.n = ls[w.tile] ELSE w.n < ls[w.tile]
      /\ w.pc # "store" => w.q = <<w.tile>>
      /\ w.max = (IF w.pc = "product" THEN w.n + 1 ELSE w.n)
      /\ w.scale = w.n
      /\ w.n # 0 => w.p = Prob(w.tile, w.n - 1, cols)
      /\ w.pc \in {"v_full", "hand_over", "scores", "softmax", "product"} /\ ~KLeft(w)
           => w.s = << <<w.tile>>, <<w.tile, w.n>> >>
      /\ SumOf(w.o, w.tile, Summed(w), cols)

\* What is stored of a tile of n blocks.
StoredOf(row, i, n, cols) ==
    row # None => SumOf(row.o, i, n, cols) /\ row.scale = n /\ row.sums = n

DataInv ==
    /\ Placed(prod, Ls) /\ SyncInv("k") /\ SyncInv("v")
    /\ \A x \in Warps : LocalOf(warp[x], Ls, Cols[x])
    /\ \A i \in Tiles, x \in Warps : StoredOf(out[i][x], i, Ls[i], Cols[x])

-----------------------------------------------------------------------------
(* Staging. *)

\* A copy of the block that everybody waits for.
LEMMA SyncStart ==
    ASSUME NEW r \in Nat, NEW next, NEW staged, NEW slots, NEW slots1, NEW ls, NEW c,
           SyncOf(r, next, r, staged, slots, {}, ls), c.block = staged, c.slot = r % 2
    PROVE  SyncOf(r, next, r + 1, Succ(staged, ls), slots1, {c}, ls)
BY DEF SyncOf

\* It lands.
LEMMA SyncLand ==
    ASSUME NEW r \in Nat, NEW next, NEW staged, NEW slots \in [0 .. 1 -> Contents],
           NEW slots1, NEW ls, NEW c, c.slot \in 0 .. 1,
           SyncOf(r, next, r + 1, staged, slots, {c}, ls), slots1[c.slot] = c.block
    PROVE  SyncOf(r, next, r + 1, staged, slots1, {}, ls)
BY DEF SyncOf

\* A warp is done with its block.
LEMMA SyncRelease ==
    ASSUME NEW r \in Nat, NEW next, NEW staged, NEW slots, NEW ls, NEW flying,
           SyncOf(r, next, r + 1, staged, slots, flying, ls)
    PROVE  SyncOf(r + 1, Succ(next, ls), r + 1, staged, slots, flying, ls)
BY DEF SyncOf

\* The number of key blocks and the masks do not change.
LEMMA LsType == ASSUME TypeOK PROVE Ls \in [Nat -> Nat \ {0}]
<1>1. \A i \in Tiles : loop_range(i) \in Nat \ {0}
  BY TilesType
<1> QED BY <1>1 DEF Ls

LEMMA TablesKept == ASSUME causal' = causal PROVE Ls' = Ls /\ Cols' = Cols /\ Tiles' = Tiles
BY DEF Ls, Cols, Tiles, NumTiles, loop_range, tile_m, masked, row_base

\* How far the producer is from a warp.
LEMMA Apart ==
    ASSUME IInv, NEW op \in Ops, NEW x \in Warps
    PROVE  /\ Rel(warp[x], op) \in Nat /\ Issued(op) \in {Rel(warp[x], op), Rel(warp[x], op) + 1}
           /\ Rel(warp[x], op) < Tak(warp[x], op) =>
                Issued(op) = Rel(warp[x], op) + 1 /\ Flying(op) = {}
<1>1. TypeOK /\ FlowInv(op)
  BY DEF IInv, Ops
<1>2. /\ Rel(warp[x], op) \in Nat /\ Tak(warp[x], op) \in Nat
      /\ Rel(warp[x], op) <= Tak(warp[x], op) /\ Tak(warp[x], op) <= full[op].phase
      /\ empty[op].phase <= Rel(warp[x], op)
  BY <1>1, CountersType, FlowTypes DEF FlowInv, Level, LevelOf
<1>3. /\ Issued(op) \in {empty[op].phase, empty[op].phase + 1}
      /\ \/ full[op].phase = Issued(op) /\ Flying(op) = {}
         \/ full[op].phase + 1 = Issued(op)
  BY <1>1 DEF FlowInv, Flying
<1> QED BY <1>1, <1>2, <1>3, FlowTypes

-----------------------------------------------------------------------------
(* A step of a warp. *)

LEMMA DataOf ==
    ASSUME DataInv, NEW x \in Warps
    PROVE  /\ LocalOf(warp[x], Ls, Cols[x])
           /\ \A op \in Ops : SyncOf(Rel(warp[x], op), NextOf(warp[x], op, Ls), Issued(op),
                                     StagedOf(prod, op, Ls), smem[op], Flying(op), Ls)
BY DEF DataInv, SyncInv, Ops

LEMMA DataStep ==
    ASSUME DataInv, NEW x \in Warps, Others(x), UNCHANGED <<causal, prod, copies, smem>>,
           \A op \in Ops : SyncOf(Rel(warp'[x], op), NextOf(warp'[x], op, Ls), Issued(op),
                                  StagedOf(prod, op, Ls), smem[op], Flying(op), Ls),
           LocalOf(warp'[x], Ls, Cols[x]),
           \A i \in Tiles, y \in Warps : StoredOf(out'[i][y], i, Ls[i], Cols[y])
    PROVE  DataInv'
<1>1. /\ Ls' = Ls /\ Cols' = Cols /\ Tiles' = Tiles
      /\ \A op \in Ops : Issued(op)' = Issued(op) /\ Flying(op)' = Flying(op)
  BY TablesKept DEF Issued, Flying
<1>2. ASSUME NEW op \in Ops PROVE SyncInv(op)'
  <2> SUFFICES ASSUME NEW y \in Warps
               PROVE  SyncOf(Rel(warp'[y], op), NextOf(warp'[y], op, Ls'), Issued(op)',
                             StagedOf(prod', op, Ls'), smem'[op], Flying(op)', Ls')
    BY DEF SyncInv, SyncOf, Rel, NextOf, NextK, NextV, StagedOf, StagedK, StagedV,
           Round, One, Succ
  <2>1. SyncOf(Rel(warp'[y], op), NextOf(warp'[y], op, Ls), Issued(op),
               StagedOf(prod, op, Ls), smem[op], Flying(op), Ls)
    BY DataOf DEF Others
  <2> QED BY <1>1, <2>1
<1>3. Placed(prod', Ls') /\ \A y \in Warps : LocalOf(warp'[y], Ls', Cols'[y])
  BY <1>1 DEF DataInv, Others
<1>4. \A i \in Tiles', y \in Warps : StoredOf(out'[i][y], i, Ls'[i], Cols'[y])
  BY <1>1
<1> QED BY <1>2, <1>3, <1>4 DEF DataInv, Ops

\* A step that releases nothing.
LEMMA DataQuiet ==
    ASSUME DataInv, NEW x \in Warps, Others(x), UNCHANGED <<causal, prod, copies, smem, out>>,
           \A op \in Ops : /\ Rel(warp'[x], op) = Rel(warp[x], op)
                           /\ NextOf(warp'[x], op, Ls) = NextOf(warp[x], op, Ls),
           LocalOf(warp'[x], Ls, Cols[x])
    PROVE  DataInv'
<1>1. \A op \in Ops : SyncOf(Rel(warp'[x], op), NextOf(warp'[x], op, Ls), Issued(op),
                             StagedOf(prod, op, Ls), smem[op], Flying(op), Ls)
  BY DataOf
<1>2. \A i \in Tiles, y \in Warps : StoredOf(out'[i][y], i, Ls[i], Cols[y])
  BY DEF DataInv
<1> QED BY <1>1, <1>2, DataStep

\* A step that releases the block of one operand.
LEMMA DataRelease ==
    ASSUME IInv, DataInv, NEW x \in Warps, Others(x),
           UNCHANGED <<causal, prod, copies, smem, out>>,
           NEW op \in Ops, Rel(warp[x], op) < Tak(warp[x], op),
           Rel(warp'[x], op) = Rel(warp[x], op) + 1,
           NextOf(warp'[x], op, Ls) = Succ(NextOf(warp[x], op, Ls), Ls),
           \A other \in Ops \ {op} :
               /\ Rel(warp'[x], other) = Rel(warp[x], other)
               /\ NextOf(warp'[x], other, Ls) = NextOf(warp[x], other, Ls),
           LocalOf(warp'[x], Ls, Cols[x])
    PROVE  DataInv'
<1>1. SyncOf(Rel(warp'[x], op), NextOf(warp'[x], op, Ls), Issued(op),
             StagedOf(prod, op, Ls), smem[op], Flying(op), Ls)
  <2> DEFINE r == Rel(warp[x], op)
             next == NextOf(warp[x], op, Ls)
             staged == StagedOf(prod, op, Ls)
             flying == Flying(op)
  <2>1. r \in Nat /\ Issued(op) = r + 1
    BY Apart
  <2>2. SyncOf(r, next, r + 1, staged, smem[op], flying, Ls)
    BY <2>1, DataOf
  <2>3. Rel(warp'[x], op) = r + 1 /\ NextOf(warp'[x], op, Ls) = Succ(next, Ls)
    OBVIOUS
  <2> HIDE DEF r, next, staged, flying
  <2>4. SyncOf(r + 1, Succ(next, Ls), r + 1, staged, smem[op], flying, Ls)
    BY <2>1, <2>2, SyncRelease
  <2> QED BY <2>1, <2>3, <2>4 DEF staged, flying
<1>2. \A other \in Ops \ {op} :
        SyncOf(Rel(warp'[x], other), NextOf(warp'[x], other, Ls), Issued(other),
               StagedOf(prod, other, Ls), smem[other], Flying(other), Ls)
  BY DataOf
<1>3. \A i \in Tiles, y \in Warps : StoredOf(out'[i][y], i, Ls[i], Cols[y])
  BY DEF DataInv
<1> QED BY <1>1, <1>2, <1>3, DataStep

LEMMA Queues ==
    ASSUME NEW w
    PROVE  /\ <<K(w)>> # <<V(w)>> /\ <<K(w)>> # <<>> /\ <<V(w)>> # <<>>
           /\ <<K(w), V(w)>> # <<>> /\ <<K(w), V(w)>> # <<K(w)>> /\ <<K(w), V(w)>> # <<V(w)>>
           /\ K(w).op = "k" /\ V(w).op = "v" /\ K(w).slot = w.gi_k % 2 /\ V(w).slot = w.gi_v % 2
<1>1. /\ K(w).op = "k" /\ V(w).op = "v" /\ K(w).slot = w.gi_k % 2 /\ V(w).slot = w.gi_v % 2
      /\ K(w) # V(w)
  BY DEF K, V
<1> HIDE DEF K, V
<1>2. <<K(w)>>[1] # <<V(w)>>[1]
  BY <1>1
<1>3. <<K(w)>> # <<>> /\ <<V(w)>> # <<>> /\ <<K(w), V(w)>> # <<>>
  OBVIOUS
<1>4. Len(<<K(w), V(w)>>) # Len(<<K(w)>>) /\ Len(<<K(w), V(w)>>) # Len(<<V(w)>>)
  BY Short
<1> QED BY <1>1, <1>2, <1>3, <1>4

\* What the invariants say of one warp.
LEMMA LocalFacts ==
    ASSUME IInv, DataInv, NEW x \in Warps
    PROVE  /\ TypeOK /\ warp[x] \in WarpStates /\ Shaped(warp[x])
           /\ warp[x].gi_k \in Nat /\ warp[x].gi_v \in Nat /\ warp[x].n \in Nat
           /\ warp[x].tile \in Nat /\ warp[x].pc \in Pcs
           /\ Ls \in [Nat -> Nat \ {0}] /\ Ls[warp[x].tile] \in Nat \ {0}
           /\ LocalOf(warp[x], Ls, Cols[x])
<1>1. TypeOK /\ Shaped(warp[x])
  BY Unpack
<1>2. warp[x] \in WarpStates
  BY <1>1, Types
<1>3. /\ warp[x].gi_k \in Nat /\ warp[x].gi_v \in Nat /\ warp[x].n \in Nat
      /\ warp[x].tile \in Nat /\ warp[x].pc \in Pcs
  BY <1>2 DEF WarpStates
<1> QED BY <1>1, <1>2, <1>3, LsType, DataOf

LEMMA LoadQData == ASSUME IInv, DataInv, NEW x \in Warps, LoadQ(x) PROVE DataInv'
<1>1. /\ warp[x].pc = "q" /\ warp'[x].pc = "q_full" /\ warp'[x].n = warp[x].n
      /\ warp'[x].gi_k = warp[x].gi_k /\ warp'[x].gi_v = warp[x].gi_v
      /\ warp'[x].tile = warp[x].tile /\ Others(x)
      /\ UNCHANGED <<causal, prod, copies, smem, out>>
  BY LocalFacts, LoadQStep DEF Keeps, Fields
<1>2. \A op \in Ops : /\ Rel(warp'[x], op) = Rel(warp[x], op)
                      /\ NextOf(warp'[x], op, Ls) = NextOf(warp[x], op, Ls)
  BY <1>1 DEF Rel, Round, One, NextOf, NextK, NextV, Fetching
<1>3. LocalOf(warp'[x], Ls, Cols[x])
  BY <1>1 DEF LocalOf, Fetching
<1> QED BY <1>1, <1>2, <1>3, DataQuiet

LEMMA StartTileData == ASSUME IInv, DataInv, NEW x \in Warps, StartTile(x) PROVE DataInv'
<1>1. /\ warp[x].pc = "q_full" /\ warp'[x].pc = "k_full"
      /\ warp'[x].gi_k = warp[x].gi_k /\ warp'[x].gi_v = warp[x].gi_v
      /\ warp'[x].tile = warp[x].tile /\ warp'[x].q = <<warp[x].tile>>
      /\ warp'[x].n = 0 /\ warp'[x].o = <<>> /\ warp'[x].max = 0 /\ warp'[x].scale = 0
      /\ Others(x) /\ UNCHANGED <<causal, prod, copies, smem, out>>
  BY LocalFacts, StartTileStep DEF Keeps, Fields
<1>2. \A op \in Ops : /\ Rel(warp'[x], op) = Rel(warp[x], op)
                      /\ NextOf(warp'[x], op, Ls) = NextOf(warp[x], op, Ls)
  BY <1>1 DEF Rel, Round, One, NextOf, NextK, NextV, Fetching, Scoring
<1>3. LocalOf(warp'[x], Ls, Cols[x])
  <2>1. 0 < Ls[warp[x].tile]
    BY LocalFacts
  <2>2. SumOf(<<>>, warp[x].tile, 0, Cols[x])
    BY DEF SumOf
  <2> QED BY <1>1, <2>1, <2>2 DEF LocalOf, Fetching, Ending, Summed
<1> QED BY <1>1, <1>2, <1>3, DataQuiet

LEMMA AwaitKData == ASSUME IInv, DataInv, NEW x \in Warps, AwaitK(x) PROVE DataInv'
<1>1. /\ warp[x].pc = "k_full" /\ warp'[x].pc = "turn" /\ Others(x)
      /\ \A f \in {"gi_k", "gi_v", "tile", "n", "q", "s", "p", "o", "max", "scale", "mmas"} :
           warp'[x][f] = warp[x][f]
      /\ UNCHANGED <<causal, prod, copies, smem, out>>
  BY LocalFacts, AwaitKStep DEF Keeps, Fields
<1>2. \A op \in Ops : /\ Rel(warp'[x], op) = Rel(warp[x], op)
                      /\ NextOf(warp'[x], op, Ls) = NextOf(warp[x], op, Ls)
  BY <1>1 DEF Rel, Round, One, NextOf, NextK, NextV, Fetching, Scoring
<1>3. LocalOf(warp'[x], Ls, Cols[x])
  BY <1>1, LocalFacts DEF LocalOf, Fetching, Ending, Summed
<1> QED BY <1>1, <1>2, <1>3, DataQuiet

LEMMA HandOverData == ASSUME IInv, DataInv, NEW x \in Warps, HandOver(x) PROVE DataInv'
<1>1. /\ warp[x].pc = "hand_over" /\ warp'[x].pc = "scores" /\ Others(x)
      /\ \A f \in {"gi_k", "gi_v", "tile", "n", "q", "s", "p", "o", "max", "scale", "mmas"} :
           warp'[x][f] = warp[x][f]
      /\ UNCHANGED <<causal, prod, copies, smem, out>>
  BY LocalFacts, HandOverStep DEF Keeps, Fields
<1>2. \A op \in Ops : /\ Rel(warp'[x], op) = Rel(warp[x], op)
                      /\ NextOf(warp'[x], op, Ls) = NextOf(warp[x], op, Ls)
  BY <1>1 DEF Rel, Round, One, NextOf, NextK, NextV, Fetching, Scoring
<1>3. LocalOf(warp'[x], Ls, Cols[x])
  BY <1>1, LocalFacts DEF LocalOf, Fetching, Ending, Summed, KLeft, VLeft, K, V
<1> QED BY <1>1, <1>2, <1>3, DataQuiet

LEMMA IssueQKData == ASSUME IInv, DataInv, NEW x \in Warps, IssueQK(x) PROVE DataInv'
<1>1. /\ warp[x].pc = "turn" /\ Others(x)
      /\ warp'[x].pc = (IF warp[x].n = 0 THEN "hand_over" ELSE "v_full")
      /\ \A f \in {"gi_k", "gi_v", "tile", "n", "q", "s", "p", "o", "max", "scale"} :
           warp'[x][f] = warp[x][f]
      /\ warp'[x].mmas = Append(warp[x].mmas, K(warp[x]))
      /\ UNCHANGED <<causal, prod, copies, smem, out>>
  BY LocalFacts, IssueQKStep DEF Keeps, Fields, K
<1>2. \A op \in Ops : /\ Rel(warp'[x], op) = Rel(warp[x], op)
                      /\ NextOf(warp'[x], op, Ls) = NextOf(warp[x], op, Ls)
  BY <1>1 DEF Rel, Round, One, NextOf, NextK, NextV, Fetching, Scoring
<1>3. LocalOf(warp'[x], Ls, Cols[x])
  <2>1. KLeft(warp'[x])
    <3>1. warp[x].mmas = <<>>
      BY <1>1, LocalFacts DEF Shaped, Pending
    <3>2. warp'[x].mmas = <<K(warp[x])>> /\ K(warp'[x]) = K(warp[x])
      BY <1>1, <3>1, Short DEF K
    <3> QED BY <3>2 DEF KLeft
  <2>2. Summed(warp'[x]) = Summed(warp[x])
    BY <1>1 DEF Summed
  <2> QED BY <1>1, <2>1, <2>2, LocalFacts DEF LocalOf, Fetching, Ending
<1> QED BY <1>1, <1>2, <1>3, DataQuiet

LEMMA IssuePVData == ASSUME IInv, DataInv, NEW x \in Warps, IssuePV(x) PROVE DataInv'
<1>1. /\ warp[x].pc = "v_full" /\ warp'[x].pc = "hand_over" /\ Others(x)
      /\ \A f \in {"gi_k", "gi_v", "tile", "n", "q", "s", "p", "o", "max", "scale"} :
           warp'[x][f] = warp[x][f]
      /\ warp'[x].mmas = Append(warp[x].mmas, V(warp[x]))
      /\ UNCHANGED <<causal, prod, copies, smem, out>>
  BY LocalFacts, IssuePVStep DEF Keeps, Fields, V
<1>2. \A op \in Ops : /\ Rel(warp'[x], op) = Rel(warp[x], op)
                      /\ NextOf(warp'[x], op, Ls) = NextOf(warp[x], op, Ls)
  BY <1>1 DEF Rel, Round, One, NextOf, NextK, NextV, Fetching, Scoring
<1>3. LocalOf(warp'[x], Ls, Cols[x])
  <2>1. K(warp'[x]) = K(warp[x]) /\ V(warp'[x]) = V(warp[x])
    BY <1>1 DEF K, V
  <2>2. \/ warp[x].mmas = <<>> /\ warp'[x].mmas = <<V(warp[x])>>
        \/ warp[x].mmas = <<K(warp[x])>> /\ warp'[x].mmas = <<K(warp[x]), V(warp[x])>>
    BY <1>1, LocalFacts, Short DEF Shaped, Pending
  <2>3. VLeft(warp'[x]) /\ (KLeft(warp'[x]) <=> KLeft(warp[x]))
    BY <2>1, <2>2, Queues DEF KLeft, VLeft
  <2>4. warp[x].n # 0 /\ Summed(warp'[x]) = Summed(warp[x])
    BY <1>1, <2>3, LocalFacts DEF Summed, Shaped
  <2> QED BY <1>1, <2>3, <2>4, LocalFacts DEF LocalOf, Fetching, Ending
<1> QED BY <1>1, <1>2, <1>3, DataQuiet

LEMMA AwaitScoresData == ASSUME IInv, DataInv, NEW x \in Warps, AwaitScores(x) PROVE DataInv'
<1>1. /\ warp[x].pc = "scores" /\ warp'[x].pc = "softmax" /\ Others(x)
      /\ \A f \in {"gi_k", "gi_v", "tile", "n", "q", "s", "p", "o", "max", "scale", "mmas"} :
           warp'[x][f] = warp[x][f]
      /\ UNCHANGED <<causal, prod, copies, smem, out>>
  BY LocalFacts, AwaitScoresStep DEF Keeps, Fields
<1>2. /\ Rel(warp'[x], "k") = Rel(warp[x], "k") + 1 /\ Rel(warp[x], "k") < Tak(warp[x], "k")
      /\ Rel(warp'[x], "v") = Rel(warp[x], "v")
  BY <1>1, LocalFacts DEF Rel, Tak, Round, One, Inside, Passed, Handed
<1>3. /\ NextOf(warp'[x], "k", Ls) = Succ(NextOf(warp[x], "k", Ls), Ls)
      /\ NextOf(warp'[x], "v", Ls) = NextOf(warp[x], "v", Ls)
  BY <1>1 DEF NextOf, NextK, NextV, Fetching, Scoring, Ending
<1>4. LocalOf(warp'[x], Ls, Cols[x])
  BY <1>1, LocalFacts DEF LocalOf, Fetching, Ending, Summed, KLeft, VLeft, K, V
<1> QED BY <1>1, <1>2, <1>3, <1>4, DataRelease DEF Ops

LEMMA IssueLastPVData == ASSUME IInv, DataInv, NEW x \in Warps, IssueLastPV(x) PROVE DataInv'
<1>1. /\ warp[x].pc = "last_v" /\ warp'[x].pc = "drain" /\ Others(x)
      /\ \A f \in {"gi_k", "gi_v", "tile", "n", "q", "s", "p", "o", "max", "scale"} :
           warp'[x][f] = warp[x][f]
      /\ warp'[x].mmas = Append(warp[x].mmas, V(warp[x]))
      /\ UNCHANGED <<causal, prod, copies, smem, out>>
  BY LocalFacts, IssueLastPVStep DEF Keeps, Fields, V
<1>2. \A op \in Ops : /\ Rel(warp'[x], op) = Rel(warp[x], op)
                      /\ NextOf(warp'[x], op, Ls) = NextOf(warp[x], op, Ls)
  BY <1>1 DEF Rel, Round, One, NextOf, NextK, NextV, Fetching, Scoring, Ending
<1>3. LocalOf(warp'[x], Ls, Cols[x])
  <2>1. V(warp'[x]) = V(warp[x])
    BY <1>1 DEF V
  <2>2. warp[x].mmas = <<>> /\ warp'[x].mmas = <<V(warp[x])>>
    BY <1>1, LocalFacts, Short DEF Shaped, Pending
  <2>3. VLeft(warp'[x])
    BY <2>1, <2>2 DEF VLeft
  <2>4. Summed(warp'[x]) = Summed(warp[x])
    BY <1>1, <2>3 DEF Summed
  <2> QED BY <1>1, <2>4, LocalFacts DEF LocalOf, Fetching, Ending
<1> QED BY <1>1, <1>2, <1>3, DataQuiet

LEMMA DrainData == ASSUME IInv, DataInv, NEW x \in Warps, Drain(x) PROVE DataInv'
<1>1. /\ warp[x].pc = "drain" /\ warp'[x].pc = "store" /\ Others(x)
      /\ \A f \in {"gi_k", "tile", "n", "s", "p", "o", "max", "scale", "mmas"} :
           warp'[x][f] = warp[x][f]
      /\ warp'[x].gi_v = warp[x].gi_v + 1 /\ warp[x].mmas = <<>>
      /\ UNCHANGED <<causal, prod, copies, smem, out>>
  BY LocalFacts, DrainStep DEF Keeps, Fields
<1>2. warp[x].n = Ls[warp[x].tile] /\ warp[x].n # 0
  BY <1>1, LocalFacts DEF LocalOf, Fetching, Ending
<1>3. /\ Rel(warp'[x], "v") = Rel(warp[x], "v") + 1 /\ Rel(warp[x], "v") < Tak(warp[x], "v")
      /\ Rel(warp'[x], "k") = Rel(warp[x], "k")
  <2>1. warp'[x].gi_k = warp[x].gi_k
    BY <1>1
  <2>2. warp[x].gi_v \in Nat
    BY LocalFacts
  <2> QED BY <1>1, <2>1, <2>2 DEF Rel, Tak, Round, One
<1>4. NextOf(warp'[x], "v", Ls) = Succ(NextOf(warp[x], "v", Ls), Ls)
  <2>1. NextOf(warp[x], "v", Ls) = <<warp[x].tile, warp[x].n - 1>>
    BY <1>1, <1>2 DEF NextOf, NextV, Fetching
  <2>2. NextOf(warp'[x], "v", Ls) = <<warp[x].tile + 1, 0>>
    BY <1>1 DEF NextOf, NextV, Fetching
  <2> QED BY <1>2, <2>1, <2>2, LocalFacts DEF Succ
<1>5. NextOf(warp'[x], "k", Ls) = NextOf(warp[x], "k", Ls)
  BY <1>1 DEF NextOf, NextK, Fetching, Scoring, Ending
<1>6. LocalOf(warp'[x], Ls, Cols[x])
  <2>1. ~VLeft(warp'[x]) /\ ~VLeft(warp[x])
    <3>1. warp'[x].mmas = <<>> /\ warp[x].mmas = <<>>
      BY <1>1
    <3> QED BY <3>1, Queues DEF VLeft
  <2>2. Summed(warp'[x]) = Summed(warp[x])
    BY <1>1, <2>1 DEF Summed
  <2> QED BY <1>1, <2>2, LocalFacts DEF LocalOf, Fetching, Ending
<1> QED BY <1>1, <1>3, <1>4, <1>5, <1>6, DataRelease DEF Ops

\* The probabilities of the block whose scores are in.
LEMMA CastValue ==
    ASSUME NEW x \in Warps, NEW w \in WarpStates
    PROVE  /\ Cast(x, w).p = [s |-> w.s, columns |-> masked(x, w.tile, w.n), max |-> w.max]
           /\ Cast(x, w).pc = IF w.n + 1 < loop_range(w.tile) THEN "k_full" ELSE "last_v"
BY DEF Cast, WarpStates

\* Every probability, sum and maximum is that of the warp's place after a block is done.
LEMMA CastData ==
    ASSUME IInv, DataInv, NEW x \in Warps, NEW v,
           warp[x].pc \in {"softmax", "product"}, warp[x].tile < NumTiles,
           warp[x].mmas = <<>>, v.mmas = <<>>,
           v.pc = IF warp[x].n + 1 < loop_range(warp[x].tile) THEN "k_full" ELSE "last_v",
           v.n = warp[x].n + 1, v.tile = warp[x].tile, v.q = warp[x].q, v.o = warp[x].o,
           v.scale = warp[x].n + 1, v.max = warp[x].n + 1,
           v.p = [s |-> warp[x].s, columns |-> masked(x, warp[x].tile, warp[x].n),
                  max |-> warp[x].n + 1]
    PROVE  /\ LocalOf(v, Ls, Cols[x])
           /\ NextOf(v, "k", Ls) = NextOf(warp[x], "k", Ls)
<1> DEFINE w == warp[x]
<1>1. /\ w.n \in Nat /\ w.tile \in Nat /\ w.tile \in Tiles /\ LocalOf(w, Ls, Cols[x])
      /\ Ls[w.tile] = loop_range(w.tile) /\ Ls[w.tile] \in Nat \ {0}
  BY LocalFacts, CountType DEF Tiles, Ls
<1>2. /\ w.n < Ls[w.tile] /\ w.q = <<w.tile>> /\ w.s = << <<w.tile>>, <<w.tile, w.n>> >>
      /\ SumOf(w.o, w.tile, Summed(w), Cols[x])
  <2>1. ~KLeft(w)
    BY Queues DEF KLeft
  <2> QED BY <1>1, <2>1 DEF LocalOf, Fetching, Ending
<1>3. v.p = Prob(w.tile, w.n, Cols[x])
  <2>1. Cols[x][w.tile][w.n] = masked(x, w.tile, w.n)
    BY <1>1 DEF Cols
  <2> QED BY <1>2, <2>1 DEF Prob
<1>4. Summed(v) = w.n /\ Summed(w) = w.n
  <2>1. ~VLeft(w) /\ ~VLeft(v)
    BY Queues DEF VLeft
  <2>2. v.pc \in {"k_full", "last_v"} /\ v.n = w.n + 1
    OBVIOUS
  <2> QED BY <1>1, <2>1, <2>2 DEF Summed
<1>5. v.n - 1 = w.n /\ v.n # 0
  BY <1>1
<1>6. v.pc = "last_v" => v.n = Ls[w.tile]
  BY <1>1, <1>2
<1>7. v.pc # "last_v" => v.n < Ls[w.tile]
  BY <1>1, <1>2
<1>8. LocalOf(v, Ls, Cols[x])
  <2>1. v.pc \in {"k_full", "last_v"}
    OBVIOUS
  <2> HIDE DEF w
  <2> QED BY <1>2, <1>3, <1>4, <1>5, <1>6, <1>7, <2>1 DEF LocalOf, Fetching, Ending, w
<1>9. NextOf(v, "k", Ls) = NextOf(w, "k", Ls)
  <2>1. NextOf(w, "k", Ls) = Succ(<<w.tile, w.n>>, Ls)
    BY DEF NextOf, NextK, Fetching, Scoring, Ending
  <2>2. CASE v.pc = "k_full"
    BY <1>1, <2>1, <2>2 DEF NextOf, NextK, Fetching, Scoring, Succ
  <2>3. CASE v.pc = "last_v"
    BY <1>1, <2>1, <2>3 DEF NextOf, NextK, Fetching, Scoring, Ending, Succ
  <2> QED BY <2>2, <2>3
<1> QED BY <1>8, <1>9

LEMMA SoftmaxValue ==
    ASSUME IInv, NEW x \in Warps, Softmax(x)
    PROVE  /\ warp[x].pc = "softmax" /\ warp[x].tile < NumTiles
           /\ warp'[x].max = warp[x].max + 1
           /\ warp[x].n = 0 =>
                /\ warp'[x].scale = 1
                /\ warp'[x].pc = IF warp[x].n + 1 < loop_range(warp[x].tile)
                                 THEN "k_full" ELSE "last_v"
                /\ warp'[x].p = [s |-> warp[x].s,
                                 columns |-> masked(x, warp[x].tile, warp[x].n),
                                 max |-> warp[x].max + 1]
           /\ warp[x].n # 0 => warp'[x].p = warp[x].p /\ warp'[x].scale = warp[x].scale
<1> DEFINE max == warp[x].max + 1
           w == [warp[x] EXCEPT !.max = max]
           w1 == [w EXCEPT !.scale = 1]
           w2 == [w EXCEPT !.pc = "product"]
<1>1. warp[x] \in WarpStates /\ warp \in [Warps -> WarpStates]
  BY Unpack, Types
<1>2. /\ warp[x].pc = "softmax" /\ warp[x].tile < NumTiles
      /\ warp'[x] = IF w.n = 0 THEN Cast(x, w1) ELSE w2
  BY <1>1 DEF Softmax, Becomes
<1>3. max \in Nat
  BY <1>1 DEF WarpStates
<1> HIDE DEF max
<1>4. w \in WarpStates /\ w.max = max /\ \A f \in Fields \ {"max"} : w[f] = warp[x][f]
  BY <1>1, <1>3 DEF WarpStates, Fields
<1> HIDE DEF w
<1>5. w1 \in WarpStates /\ w1.scale = 1 /\ \A f \in Fields \ {"scale"} : w1[f] = w[f]
  BY <1>4 DEF WarpStates, Fields
<1>6. w2 \in WarpStates /\ \A f \in Fields \ {"pc"} : w2[f] = w[f]
  BY <1>4 DEF WarpStates, Fields, Pcs
<1> HIDE DEF w1, w2
<1>7. /\ w.n = warp[x].n /\ w1.n = warp[x].n /\ w1.tile = warp[x].tile /\ w1.s = warp[x].s
      /\ w1.max = max /\ w2.max = max /\ w2.p = warp[x].p /\ w2.scale = warp[x].scale
  BY <1>4, <1>5, <1>6 DEF Fields
<1>8. Cast(x, w1).scale = 1 /\ Cast(x, w1).max = max
  BY <1>5, <1>7, Unpack, CastType DEF Fields
<1>9. /\ Cast(x, w1).p = [s |-> warp[x].s, columns |-> masked(x, warp[x].tile, warp[x].n),
                          max |-> max]
      /\ Cast(x, w1).pc = IF warp[x].n + 1 < loop_range(warp[x].tile) THEN "k_full" ELSE "last_v"
  BY <1>5, <1>7, CastValue
<1> DEFINE c == Cast(x, w1)
<1> HIDE DEF c
<1>10. CASE warp[x].n = 0
  <2>1. warp'[x] = c
    BY <1>2, <1>7, <1>10 DEF c
  <2> QED BY <1>2, <1>8, <1>9, <1>10, <2>1 DEF c, max
<1>11. CASE warp[x].n # 0
  <2>1. warp'[x] = w2
    BY <1>2, <1>7, <1>11
  <2> QED BY <1>2, <1>7, <1>11, <2>1 DEF max
<1> QED BY <1>10, <1>11

LEMMA SoftmaxData == ASSUME IInv, DataInv, NEW x \in Warps, Softmax(x) PROVE DataInv'
<1>1. /\ warp[x].pc = "softmax" /\ Others(x)
      /\ warp'[x].gi_v = warp[x].gi_v /\ warp'[x].tile = warp[x].tile
      /\ warp'[x].q = warp[x].q /\ warp'[x].s = warp[x].s /\ warp'[x].o = warp[x].o
      /\ warp'[x].mmas = warp[x].mmas
      /\ UNCHANGED <<causal, prod, copies, smem, out>>
  BY LocalFacts, SoftmaxStep DEF Keeps, Fields
<1>2. /\ warp[x].max = warp[x].n /\ warp[x].scale = warp[x].n
      /\ warp[x].tile < NumTiles
  BY <1>1, LocalFacts, SoftmaxValue DEF LocalOf, Fetching
<1>3. CASE warp[x].n = 0
  <2>1. /\ warp'[x].gi_k = warp[x].gi_k + 1 /\ warp'[x].n = warp[x].n + 1
        /\ warp'[x].pc = IF warp[x].n + 1 < loop_range(warp[x].tile) THEN "k_full" ELSE "last_v"
        /\ warp'[x].scale = warp[x].n + 1 /\ warp'[x].max = warp[x].n + 1
        /\ warp'[x].p = [s |-> warp[x].s, columns |-> masked(x, warp[x].tile, warp[x].n),
                         max |-> warp[x].n + 1]
    BY <1>2, <1>3, LocalFacts, SoftmaxStep, SoftmaxValue
  <2>2. warp[x].mmas = <<>>
    BY <1>1, <1>3, LocalFacts DEF Shaped, Pending
  <2>3. /\ LocalOf(warp'[x], Ls, Cols[x])
        /\ NextOf(warp'[x], "k", Ls) = NextOf(warp[x], "k", Ls)
    BY <1>1, <1>2, <2>1, <2>2, CastData
  <2>4. \A op \in Ops : Rel(warp'[x], op) = Rel(warp[x], op)
    BY <1>1, <2>1, LocalFacts DEF Rel, Round, One, Ops
  <2>5. NextOf(warp'[x], "v", Ls) = NextOf(warp[x], "v", Ls)
    BY <1>1, <1>3, <2>1, LocalFacts DEF NextOf, NextV, Fetching
  <2> QED BY <1>1, <2>3, <2>4, <2>5, DataQuiet DEF Ops
<1>4. CASE warp[x].n # 0
  <2>1. /\ warp'[x].gi_k = warp[x].gi_k /\ warp'[x].n = warp[x].n /\ warp'[x].pc = "product"
        /\ warp'[x].scale = warp[x].scale /\ warp'[x].max = warp[x].n + 1
        /\ warp'[x].p = warp[x].p
    BY <1>2, <1>4, LocalFacts, SoftmaxStep, SoftmaxValue
  <2>2. \A op \in Ops : /\ Rel(warp'[x], op) = Rel(warp[x], op)
                        /\ NextOf(warp'[x], op, Ls) = NextOf(warp[x], op, Ls)
    BY <1>1, <2>1 DEF Rel, Round, One, NextOf, NextK, NextV, Fetching, Scoring, Ending
  <2>3. /\ KLeft(warp'[x]) <=> KLeft(warp[x])
        /\ VLeft(warp'[x]) <=> VLeft(warp[x])
    BY <1>1, <2>1 DEF KLeft, VLeft, K, V
  <2>4. Summed(warp'[x]) = Summed(warp[x])
    BY <1>1, <2>1, <2>3 DEF Summed
  <2>5. LocalOf(warp'[x], Ls, Cols[x])
    BY <1>1, <2>1, <2>3, <2>4, LocalFacts DEF LocalOf, Fetching, Ending
  <2> QED BY <1>1, <2>2, <2>5, DataQuiet
<1> QED BY <1>3, <1>4

LEMMA RescaleValue ==
    ASSUME IInv, NEW x \in Warps, Rescale(x)
    PROVE  /\ warp[x].tile < NumTiles /\ warp'[x].scale = warp[x].scale + 1
           /\ warp'[x].pc = IF warp[x].n + 1 < loop_range(warp[x].tile)
                            THEN "k_full" ELSE "last_v"
           /\ warp'[x].p = [s |-> warp[x].s, columns |-> masked(x, warp[x].tile, warp[x].n),
                            max |-> warp[x].max]
<1> DEFINE scale == warp[x].scale + 1
           gi_v == warp[x].gi_v + 1
           w == [warp[x] EXCEPT !.scale = scale, !.gi_v = gi_v]
<1>1. warp[x] \in WarpStates /\ warp \in [Warps -> WarpStates]
  BY Unpack, Types
<1>2. warp[x].tile < NumTiles /\ warp'[x] = Cast(x, w)
  BY <1>1 DEF Rescale, Becomes
<1>3. scale \in Nat /\ gi_v \in Nat
  BY <1>1 DEF WarpStates
<1> HIDE DEF scale, gi_v
<1>4. /\ w \in WarpStates /\ w.scale = scale
      /\ \A f \in Fields \ {"scale", "gi_v"} : w[f] = warp[x][f]
  BY <1>1, <1>3 DEF WarpStates, Fields
<1> HIDE DEF w
<1>5. /\ w.n = warp[x].n /\ w.tile = warp[x].tile /\ w.s = warp[x].s /\ w.max = warp[x].max
  BY <1>4 DEF Fields
<1>6. Cast(x, w).scale = scale
  BY <1>4, Unpack, CastType DEF Fields
<1>7. /\ Cast(x, w).p = [s |-> warp[x].s, columns |-> masked(x, warp[x].tile, warp[x].n),
                         max |-> warp[x].max]
      /\ Cast(x, w).pc = IF warp[x].n + 1 < loop_range(warp[x].tile) THEN "k_full" ELSE "last_v"
  BY <1>4, <1>5, CastValue
<1> QED BY <1>2, <1>6, <1>7 DEF scale

LEMMA RescaleData == ASSUME IInv, DataInv, NEW x \in Warps, Rescale(x) PROVE DataInv'
<1>1. /\ warp[x].pc = "product" /\ Others(x) /\ warp[x].mmas = <<>>
      /\ warp'[x].gi_k = warp[x].gi_k + 1 /\ warp'[x].gi_v = warp[x].gi_v + 1
      /\ warp'[x].n = warp[x].n + 1 /\ warp'[x].pc \in {"k_full", "last_v"}
      /\ UNCHANGED <<causal, prod, copies, smem, out>>
      /\ Keeps(x, {"pc", "p", "gi_k", "gi_v", "n", "scale"})
  BY LocalFacts, RescaleStep
<1>2. \A f \in {"tile", "q", "s", "o", "max", "mmas"} : warp'[x][f] = warp[x][f]
  BY <1>1 DEF Keeps, Fields
<1>3. /\ warp[x].max = warp[x].n + 1 /\ warp[x].scale = warp[x].n /\ warp[x].n # 0
      /\ warp[x].n < Ls[warp[x].tile]
  BY <1>1, LocalFacts DEF LocalOf, Fetching, Ending, Shaped
<1>4. /\ LocalOf(warp'[x], Ls, Cols[x])
      /\ NextOf(warp'[x], "k", Ls) = NextOf(warp[x], "k", Ls)
  <2>1. /\ warp[x].tile < NumTiles /\ warp'[x].scale = warp[x].n + 1
        /\ warp'[x].pc = IF warp[x].n + 1 < loop_range(warp[x].tile) THEN "k_full" ELSE "last_v"
        /\ warp'[x].p = [s |-> warp[x].s, columns |-> masked(x, warp[x].tile, warp[x].n),
                         max |-> warp[x].n + 1]
    BY <1>3, RescaleValue
  <2> QED BY <1>1, <1>2, <1>3, <2>1, CastData
<1>5. /\ Rel(warp'[x], "v") = Rel(warp[x], "v") + 1 /\ Rel(warp[x], "v") < Tak(warp[x], "v")
      /\ Rel(warp'[x], "k") = Rel(warp[x], "k")
  <2>1. warp[x].gi_v \in Nat /\ warp[x].gi_k \in Nat
    BY LocalFacts
  <2> QED BY <1>1, <2>1 DEF Rel, Tak, Round, One
<1>6. NextOf(warp'[x], "v", Ls) = Succ(NextOf(warp[x], "v", Ls), Ls)
  <2>1. NextOf(warp[x], "v", Ls) = <<warp[x].tile, warp[x].n - 1>>
    BY <1>1, <1>2, <1>3 DEF NextOf, NextV, Fetching
  <2>2. NextOf(warp'[x], "v", Ls) = <<warp[x].tile, warp[x].n>>
    <3>1. warp'[x].n # 0 /\ warp'[x].n - 1 = warp[x].n /\ warp'[x].tile = warp[x].tile
      <4>1. warp[x].n \in Nat
        BY LocalFacts
      <4> QED BY <1>1, <1>2, <4>1
    <3> QED BY <1>1, <3>1 DEF NextOf, NextV, Fetching
  <2>3. warp[x].n - 1 + 1 = warp[x].n
    BY LocalFacts
  <2> QED BY <1>3, <2>1, <2>2, <2>3 DEF Succ
<1> QED BY <1>1, <1>4, <1>5, <1>6, DataRelease DEF Ops

LEMMA StoreValue ==
    ASSUME TypeOK, NEW x \in Warps, Store(x), NEW i \in Tiles, NEW y \in Warps
    PROVE  out'[i][y] = IF i = warp[x].tile /\ y = x
                        THEN [o |-> warp[x].o, scale |-> warp[x].scale, sums |-> warp[x].max]
                        ELSE out[i][y]
<1> DEFINE row == [o |-> warp[x].o, scale |-> warp[x].scale, sums |-> warp[x].max]
<1>1. out' = [out EXCEPT ![warp[x].tile][x] = row]
  BY DEF Store
<1> HIDE DEF row
<1>2. out \in [Tiles -> [Warps -> Rows]]
  BY Types
<1>3. out'[i][y] = IF i = warp[x].tile /\ y = x THEN row ELSE out[i][y]
  BY <1>1, <1>2
<1> QED BY <1>3 DEF row

LEMMA StoreData == ASSUME IInv, DataInv, NEW x \in Warps, Store(x) PROVE DataInv'
<1>1. /\ warp[x].pc = "store" /\ warp'[x].pc = "q" /\ warp'[x].n = warp[x].n
      /\ warp'[x].gi_k = warp[x].gi_k /\ warp'[x].gi_v = warp[x].gi_v
      /\ warp'[x].tile = warp[x].tile + 1 /\ Others(x)
      /\ UNCHANGED <<causal, prod, copies, smem>>
  BY LocalFacts, StoreStep DEF Keeps, Fields
<1>2. /\ warp[x].n = Ls[warp[x].tile] /\ warp[x].max = warp[x].n /\ warp[x].scale = warp[x].n
      /\ SumOf(warp[x].o, warp[x].tile, warp[x].n, Cols[x])
  <2>1. warp[x].mmas = <<>>
    BY <1>1, LocalFacts DEF Shaped, Pending
  <2>2. ~VLeft(warp[x])
    BY <2>1, Queues DEF VLeft
  <2>3. Summed(warp[x]) = warp[x].n
    BY <1>1, <2>2 DEF Summed
  <2> QED BY <1>1, <2>3, LocalFacts DEF LocalOf, Fetching, Ending
<1>3. \A op \in Ops : SyncOf(Rel(warp'[x], op), NextOf(warp'[x], op, Ls), Issued(op),
                             StagedOf(prod, op, Ls), smem[op], Flying(op), Ls)
  <2>1. \A op \in Ops : /\ Rel(warp'[x], op) = Rel(warp[x], op)
                        /\ NextOf(warp'[x], op, Ls) = NextOf(warp[x], op, Ls)
    BY <1>1 DEF Rel, Round, One, NextOf, NextK, NextV, Fetching, Scoring, Ending
  <2> QED BY <2>1, DataOf
<1>4. LocalOf(warp'[x], Ls, Cols[x])
  BY <1>1 DEF LocalOf, Fetching
<1>5. ASSUME NEW i \in Tiles, NEW y \in Warps PROVE StoredOf(out'[i][y], i, Ls[i], Cols[y])
  <2>1. CASE i = warp[x].tile /\ y = x
    <3> DEFINE row == [o |-> warp[x].o, scale |-> warp[x].scale, sums |-> warp[x].max]
    <3>1. row.o = warp[x].o /\ row.scale = warp[x].scale /\ row.sums = warp[x].max
      OBVIOUS
    <3>2. out'[i][y] = row
      BY <2>1, LocalFacts, StoreValue
    <3> HIDE DEF row
    <3> QED BY <1>2, <2>1, <3>1, <3>2 DEF StoredOf
  <2>2. CASE i # warp[x].tile \/ y # x
    <3>1. out'[i][y] = out[i][y]
      <4> DEFINE row == [o |-> warp[x].o, scale |-> warp[x].scale, sums |-> warp[x].max]
      <4>1. out'[i][y] = IF i = warp[x].tile /\ y = x THEN row ELSE out[i][y]
        BY LocalFacts, StoreValue
      <4> HIDE DEF row
      <4> QED BY <2>2, <4>1
    <3> QED BY <3>1 DEF DataInv
  <2> QED BY <2>1, <2>2
<1> QED BY <1>1, <1>3, <1>4, <1>5, DataStep

LEMMA MmaValue ==
    ASSUME TypeOK, NEW x \in Warps, Mma(x)
    PROVE  LET op == Head(warp[x].mmas)
               operand == smem[op.op][op.slot]
           IN /\ op.op = "k" => /\ warp'[x].s = <<warp[x].q, operand>>
                                /\ warp'[x].o = warp[x].o
              /\ op.op # "k" => /\ warp'[x].s = warp[x].s
                                /\ warp'[x].o = Append(warp[x].o,
                                     [p |-> warp[x].p, v |-> operand, scale |-> warp[x].scale])
<1> DEFINE m == Head(warp[x].mmas)
           mmas == Tail(warp[x].mmas)
           operand == smem[m.op][m.slot]
           s == <<warp[x].q, operand>>
           o == Append(warp[x].o, [p |-> warp[x].p, v |-> operand, scale |-> warp[x].scale])
           w1 == [warp[x] EXCEPT !.mmas = mmas, !.s = s]
           w2 == [warp[x] EXCEPT !.mmas = mmas, !.o = o]
<1>1. warp[x] \in WarpStates /\ warp \in [Warps -> WarpStates]
  BY Types
<1>2. warp'[x] = IF m.op = "k" THEN w1 ELSE w2
  BY <1>1 DEF Mma
<1> HIDE DEF m, mmas, s, o, operand
<1>3. w1.s = s /\ w1.o = warp[x].o /\ w2.s = warp[x].s /\ w2.o = o
  BY <1>1 DEF WarpStates
<1> HIDE DEF w1, w2
<1> QED BY <1>2, <1>3 DEF m, s, o, operand

\* What an unfinished product reads is the block its warp waits for.
LEMMA Operand ==
    ASSUME IInv, DataInv, NEW x \in Warps, NEW op \in Ops, Rel(warp[x], op) < Tak(warp[x], op)
    PROVE  smem[op][Rel(warp[x], op) % 2] = NextOf(warp[x], op, Ls)
<1>1. Issued(op) = Rel(warp[x], op) + 1 /\ Flying(op) = {}
  BY Apart
<1> QED BY <1>1, DataOf DEF SyncOf

LEMMA SumAppend ==
    ASSUME NEW S, NEW o \in Seq(S), NEW k \in Nat, NEW i, NEW cols, SumOf(o, i, k, cols),
           NEW term, term = Term(i, k, cols)
    PROVE  SumOf(Append(o, term), i, k + 1, cols)
<1>1. Len(o) = k /\ \A m \in 1 .. k : o[m] = Term(i, m - 1, cols)
  BY DEF SumOf
<1>2. o \in Seq(S \cup {term}) /\ term \in S \cup {term}
  OBVIOUS
<1>3. /\ Len(Append(o, term)) = k + 1
      /\ \A m \in 1 .. k : Append(o, term)[m] = o[m]
      /\ Append(o, term)[k + 1] = term
  BY <1>1, <1>2
<1> HIDE DEF Term
<1>4. ASSUME NEW m \in 1 .. k + 1 PROVE Append(o, term)[m] = Term(i, m - 1, cols)
  <2>1. CASE m \in 1 .. k
    BY <1>1, <1>3, <2>1
  <2>2. CASE m = k + 1
    <3>1. m - 1 = k
      BY <2>2
    <3> QED BY <1>3, <2>2, <3>1
  <2>3. m \in 1 .. k \/ m = k + 1
    OBVIOUS
  <2> QED BY <2>1, <2>2, <2>3
<1> QED BY <1>3, <1>4 DEF SumOf

LEMMA MmaData == ASSUME IInv, DataInv, NEW x \in Warps, Mma(x) PROVE DataInv'
<1>1. /\ warp'[x].pc = warp[x].pc /\ warp'[x].n = warp[x].n /\ warp'[x].tile = warp[x].tile
      /\ warp'[x].gi_k = warp[x].gi_k /\ warp'[x].gi_v = warp[x].gi_v
      /\ warp'[x].q = warp[x].q /\ warp'[x].p = warp[x].p
      /\ warp'[x].max = warp[x].max /\ warp'[x].scale = warp[x].scale
      /\ warp[x].mmas # <<>> /\ warp'[x].mmas = Tail(warp[x].mmas) /\ Others(x)
      /\ UNCHANGED <<causal, prod, copies, smem, out>>
  BY LocalFacts, MmaStep DEF Keeps, Fields
<1>2. \A op \in Ops : /\ Rel(warp'[x], op) = Rel(warp[x], op)
                      /\ NextOf(warp'[x], op, Ls) = NextOf(warp[x], op, Ls)
  BY <1>1 DEF Rel, Round, One, NextOf, NextK, NextV
<1>3. K(warp'[x]) = K(warp[x]) /\ V(warp'[x]) = V(warp[x])
  BY <1>1 DEF K, V
<1>4. CASE KLeft(warp[x])
  <2>1. Head(warp[x].mmas) = K(warp[x]) /\ Tail(warp[x].mmas) \in {<<>>, <<V(warp[x])>>}
    <3>1. CASE warp[x].mmas = <<K(warp[x])>>
      <4>1. Head(<<K(warp[x])>>) = K(warp[x])
        OBVIOUS
      <4> QED BY <3>1, <4>1, Short
    <3>2. CASE warp[x].mmas = <<K(warp[x]), V(warp[x])>>
      <4>1. Head(<<K(warp[x]), V(warp[x])>>) = K(warp[x])
        OBVIOUS
      <4> QED BY <3>2, <4>1, Short
    <3> QED BY <1>4, <3>1, <3>2 DEF KLeft
  <2>2. /\ warp[x].pc \in {"v_full", "hand_over", "scores"}
    BY <1>4, LocalFacts, Queues DEF KLeft, Shaped, Pending
  <2>3. smem["k"][warp[x].gi_k % 2] = <<warp[x].tile, warp[x].n>>
    <3>1. Rel(warp[x], "k") = warp[x].gi_k /\ Rel(warp[x], "k") < Tak(warp[x], "k")
      <4>1. warp[x].gi_k \in Nat
        BY LocalFacts
      <4> QED BY <2>2, <4>1 DEF Rel, Tak, Round, One, Inside, Passed, Handed
    <3>2. NextOf(warp[x], "k", Ls) = <<warp[x].tile, warp[x].n>>
      BY <2>2 DEF NextOf, NextK, Fetching, Scoring
    <3> QED BY <3>1, <3>2, Operand DEF Ops
  <2>4. /\ warp'[x].s = <<warp[x].q, <<warp[x].tile, warp[x].n>> >>
        /\ warp'[x].o = warp[x].o
    <3> DEFINE m == Head(warp[x].mmas)
    <3>1. m.op = "k" /\ smem[m.op][m.slot] = <<warp[x].tile, warp[x].n>>
      BY <2>1, <2>3, Queues
    <3> QED BY <3>1, LocalFacts, MmaValue
  <2>5. VLeft(warp'[x]) <=> VLeft(warp[x])
    <3>1. CASE warp[x].mmas = <<K(warp[x])>>
      <4>1. warp'[x].mmas = <<>>
        BY <1>1, <3>1, Short
      <4> QED BY <3>1, <4>1, Queues DEF VLeft
    <3>2. CASE warp[x].mmas = <<K(warp[x]), V(warp[x])>>
      <4>1. warp'[x].mmas = <<V(warp'[x])>>
        BY <1>1, <1>3, <3>2, Short
      <4> QED BY <3>2, <4>1 DEF VLeft
    <3> QED BY <1>4, <3>1, <3>2 DEF KLeft
  <2>6. Summed(warp'[x]) = Summed(warp[x])
    BY <1>1, <2>5 DEF Summed
  <2>7. LocalOf(warp'[x], Ls, Cols[x])
    BY <1>1, <2>2, <2>4, <2>6, LocalFacts DEF LocalOf, Fetching, Ending
  <2> QED BY <1>1, <1>2, <2>7, DataQuiet
<1>5. CASE ~KLeft(warp[x])
  <2>1. warp[x].mmas = <<V(warp[x])>> /\ warp'[x].mmas = <<>>
    <3>1. warp[x].mmas = <<V(warp[x])>>
      BY <1>1, <1>5, LocalFacts DEF Shaped, Pending, KLeft
    <3> QED BY <1>1, <3>1, Short
  <2>2. /\ warp[x].pc \in {"hand_over", "scores", "softmax", "product", "drain"}
        /\ warp[x].n # 0
    <3>1. /\ warp[x].pc \in {"hand_over", "scores", "softmax", "product", "drain"}
          /\ warp[x].pc # "drain" => warp[x].n # 0
      BY <2>1, LocalFacts, Queues DEF Shaped, Pending
    <3>2. warp[x].pc = "drain" => warp[x].n # 0
      BY LocalFacts DEF LocalOf, Fetching, Ending
    <3> QED BY <3>1, <3>2
  <2>3. smem["v"][warp[x].gi_v % 2] = <<warp[x].tile, warp[x].n - 1>>
    <3>1. Rel(warp[x], "v") = warp[x].gi_v /\ Rel(warp[x], "v") < Tak(warp[x], "v")
      BY <2>2, LocalFacts DEF Rel, Tak, Round, One
    <3>2. NextOf(warp[x], "v", Ls) = <<warp[x].tile, warp[x].n - 1>>
      BY <2>2 DEF NextOf, NextV, Fetching
    <3> QED BY <3>1, <3>2, Operand DEF Ops
  <2> DEFINE term == [p |-> warp[x].p, v |-> <<warp[x].tile, warp[x].n - 1>>,
                      scale |-> warp[x].scale]
  <2>4. warp'[x].s = warp[x].s /\ warp'[x].o = Append(warp[x].o, term)
    <3> DEFINE m == Head(warp[x].mmas)
    <3>1. m.op = "v" /\ smem[m.op][m.slot] = <<warp[x].tile, warp[x].n - 1>>
      <4>1. m = V(warp[x])
        BY <2>1
      <4> QED BY <2>3, <4>1, Queues
    <3> QED BY <3>1, LocalFacts, MmaValue
  <2>5. Summed(warp[x]) = warp[x].n - 1 /\ Summed(warp'[x]) = warp[x].n
    <3>1. VLeft(warp[x]) /\ ~VLeft(warp'[x])
      BY <2>1, Queues DEF VLeft
    <3> QED BY <1>1, <2>2, <3>1 DEF Summed
  <2>6. SumOf(warp'[x].o, warp[x].tile, warp[x].n, Cols[x])
    <3> DEFINE o == warp[x].o
               k == warp[x].n - 1
               i == warp[x].tile
    <3>1. warp[x].scale = k + 1 /\ warp[x].p = Prob(i, k, Cols[x]) /\ k \in Nat
          /\ SumOf(o, i, k, Cols[x]) /\ k + 1 = warp[x].n
      BY <2>2, <2>5, LocalFacts DEF LocalOf, Fetching
    <3>2. term = Term(i, k, Cols[x])
      BY <3>1 DEF Term
    <3>3. o \in Seq(Terms)
      BY LocalFacts DEF WarpStates, Sums, Terms
    <3> HIDE DEF o, k, i, term
    <3>4. SumOf(Append(o, term), i, k + 1, Cols[x])
      BY <3>1, <3>2, <3>3, SumAppend
    <3> QED BY <2>4, <3>1, <3>4 DEF o, i
  <2>7. ~KLeft(warp'[x])
    BY <2>1, Queues DEF KLeft
  <2>8. LocalOf(warp'[x], Ls, Cols[x])
    BY <1>1, <1>5, <2>2, <2>4, <2>5, <2>6, <2>7, LocalFacts DEF LocalOf, Fetching, Ending
  <2> QED BY <1>1, <1>2, <2>8, DataQuiet
<1> QED BY <1>4, <1>5

-----------------------------------------------------------------------------
(* The producer and its copies. *)

\* A step of neither warps nor outputs.
LEMMA DataFixed ==
    ASSUME DataInv, UNCHANGED <<causal, warp, out>>, Placed(prod', Ls),
           \A op \in Ops, x \in Warps :
             SyncOf(Rel(warp[x], op), NextOf(warp[x], op, Ls), Issued(op)',
                    StagedOf(prod', op, Ls), smem'[op], Flying(op)', Ls)
    PROVE  DataInv'
<1>1. Ls' = Ls /\ Cols' = Cols /\ Tiles' = Tiles /\ warp' = warp /\ out' = out
  BY TablesKept
<1>2. ASSUME NEW op \in Ops PROVE SyncInv(op)'
  <2> SUFFICES ASSUME NEW x \in Warps
               PROVE  SyncOf(Rel(warp'[x], op), NextOf(warp'[x], op, Ls'), Issued(op)',
                             StagedOf(prod', op, Ls'), smem'[op], Flying(op)', Ls')
    BY DEF SyncInv, SyncOf, Rel, NextOf, NextK, NextV, StagedOf, StagedK, StagedV,
           Round, One, Succ
  <2> QED BY <1>1
<1>3. Placed(prod', Ls') /\ \A x \in Warps : LocalOf(warp'[x], Ls', Cols'[x])
  BY <1>1 DEF DataInv
<1>4. \A i \in Tiles', x \in Warps : StoredOf(out'[i][x], i, Ls'[i], Cols'[x])
  BY <1>1 DEF DataInv
<1> QED BY <1>2, <1>3, <1>4 DEF DataInv, Ops

LEMMA LandData == ASSUME IInv, DataInv, NEW c \in copies, Land(c) PROVE DataInv'
<1>1. /\ UNCHANGED <<causal, prod, warp, out>> /\ copies' = copies \ {c}
      /\ smem' = [smem EXCEPT ![c.op][c.slot] = c.block]
  BY DEF Land
<1>2. TypeOK /\ c.op \in Ops /\ c.slot \in 0 .. 1 /\ smem \in [Ops -> [0 .. 1 -> Contents]]
  BY Types DEF IInv
<1>3. FlowInv(c.op)
  BY <1>2 DEF IInv, Ops
<1>4. \A op \in Ops : /\ Issued(op)' = Issued(op)
                      /\ StagedOf(prod', op, Ls) = StagedOf(prod, op, Ls)
  BY <1>1 DEF Issued
<1>5. Placed(prod', Ls)
  BY <1>1 DEF DataInv
<1>6. ASSUME NEW op \in Ops, NEW x \in Warps
      PROVE  SyncOf(Rel(warp[x], op), NextOf(warp[x], op, Ls), Issued(op)',
                    StagedOf(prod', op, Ls), smem'[op], Flying(op)', Ls)
  <2> DEFINE r == Rel(warp[x], op)
             next == NextOf(warp[x], op, Ls)
             staged == StagedOf(prod, op, Ls)
  <2>1. SyncOf(r, next, Issued(op), staged, smem[op], Flying(op), Ls)
    BY DataOf
  <2>2. CASE op # c.op
    <3>1. smem'[op] = smem[op] /\ Flying(op)' = Flying(op)
      BY <1>1, <1>2, <2>2 DEF Flying
    <3> QED BY <1>4, <2>1, <3>1
  <2>3. CASE op = c.op
    <3>1. c \in Flying(op)
      BY <2>3 DEF Flying
    <3>2. full[op].phase + 1 = Issued(op) /\ Flying(op) = {c}
      BY <1>3, <2>3, <3>1 DEF FlowInv, Flying
    <3>3. r \in Nat /\ Issued(op) = r + 1
      <4>1. r \in Nat /\ Issued(op) \in {r, r + 1} /\ (r < Tak(warp[x], op) => Flying(op) = {})
        BY Apart
      <4>2. Tak(warp[x], op) \in Nat /\ r <= Tak(warp[x], op) /\ empty[op].phase <= r
            /\ full[op].phase \in Nat /\ Tak(warp[x], op) <= full[op].phase
        BY <1>2, <1>3, <2>3, CountersType, FlowTypes DEF FlowInv, Level, LevelOf
      <4> HIDE DEF r
      <4> QED BY <3>2, <4>1, <4>2
    <3>4. Flying(op)' = {}
      BY <1>1, <2>3, <3>2 DEF Flying
    <3>5. smem[op] \in [0 .. 1 -> Contents] /\ smem'[op][c.slot] = c.block
      BY <1>1, <1>2, <2>3
    <3> DEFINE slots == smem[op]
               slots1 == smem'[op]
    <3>6. SyncOf(r, next, r + 1, staged, slots, {c}, Ls)
      BY <2>1, <3>2, <3>3
    <3> HIDE DEF r, next, staged, slots, slots1
    <3>7. SyncOf(r, next, r + 1, staged, slots1, {}, Ls)
      BY <1>2, <3>3, <3>5, <3>6, SyncLand DEF slots, slots1
    <3> QED BY <1>4, <3>3, <3>4, <3>7 DEF r, next, staged, slots1
  <2> QED BY <2>2, <2>3
<1> QED BY <1>1, <1>4, <1>5, <1>6, DataFixed

\* A copy is started, of the block after those staged.
LEMMA CopyData ==
    ASSUME IInv, DataInv, NEW op \in Ops, NEW slot, NEW block, Copy(op, slot, block),
           Passes(empty[op], (Issued(op) + 1) % 2), Issued(op)' = Issued(op) + 1,
           slot = Issued(op) % 2, block = StagedOf(prod, op, Ls),
           StagedOf(prod', op, Ls) = Succ(StagedOf(prod, op, Ls), Ls),
           \A other \in Ops \ {op} : /\ Issued(other)' = Issued(other)
                                     /\ StagedOf(prod', other, Ls) = StagedOf(prod, other, Ls),
           Placed(prod', Ls)
    PROVE  DataInv'
<1> DEFINE c == [op |-> op, slot |-> slot, block |-> block]
<1>1. /\ UNCHANGED <<causal, warp, out>> /\ copies' = copies \cup {c}
      /\ smem' = [smem EXCEPT ![op][slot] = None]
  BY DEF Copy
<1>2. TypeOK /\ FlowInv(op) /\ smem \in [Ops -> [0 .. 1 -> Contents]]
  BY Types DEF IInv, Ops
<1>3. /\ Issued(op) = empty[op].phase /\ full[op].phase = Issued(op) /\ Flying(op) = {}
      /\ \A x \in Warps : Rel(warp[x], op) = Tak(warp[x], op)
  BY <1>2, Drained DEF Flying
<1>4. ASSUME NEW x \in Warps
      PROVE  SyncOf(Rel(warp[x], op), NextOf(warp[x], op, Ls), Issued(op)',
                    StagedOf(prod', op, Ls), smem'[op], Flying(op)', Ls)
  <2> DEFINE r == Rel(warp[x], op)
             next == NextOf(warp[x], op, Ls)
             staged == StagedOf(prod, op, Ls)
             slots == smem[op]
             slots1 == smem'[op]
  <2>1. r \in Nat /\ r = Issued(op)
    <3>1. r \in Nat /\ r = Tak(warp[x], op) /\ Tak(warp[x], op) <= full[op].phase
          /\ empty[op].phase <= r
      BY <1>2, <1>3, CountersType, FlowTypes DEF FlowInv, Level, LevelOf
    <3> HIDE DEF r
    <3> QED BY <1>2, <1>3, <3>1, FlowTypes
  <2>2. SyncOf(r, next, r, staged, slots, {}, Ls)
    BY <1>3, <2>1, DataOf
  <2>3. Flying(op)' = {c}
    BY <1>1, <1>3 DEF Flying
  <2>4. c.block = staged /\ c.slot = r % 2
    BY <2>1
  <2> HIDE DEF r, next, staged, slots, slots1, c
  <2>5. SyncOf(r, next, r + 1, Succ(staged, Ls), slots1, {c}, Ls)
    BY <2>1, <2>2, <2>4, SyncStart
  <2> QED BY <2>1, <2>3, <2>5 DEF r, next, staged, slots1
<1>5. ASSUME NEW other \in Ops \ {op}, NEW x \in Warps
      PROVE  SyncOf(Rel(warp[x], other), NextOf(warp[x], other, Ls), Issued(other)',
                    StagedOf(prod', other, Ls), smem'[other], Flying(other)', Ls)
  <2>1. smem'[other] = smem[other] /\ Flying(other)' = Flying(other)
    BY <1>1, <1>2 DEF Flying
  <2> QED BY <2>1, DataOf
<1>6. \A o \in Ops, x \in Warps :
        SyncOf(Rel(warp[x], o), NextOf(warp[x], o, Ls), Issued(o)',
               StagedOf(prod', o, Ls), smem'[o], Flying(o)', Ls)
  BY <1>4, <1>5
<1> HIDE DEF c
<1> QED BY <1>1, <1>6, DataFixed

LEMMA AfterKValue ==
    ASSUME NEW p \in [pc : {"k", "v", "last_v"}, tile : Nat, n : Nat, gi_k : Nat, gi_v : Nat],
           p.tile \in Tiles
    PROVE  LET q == AfterK(p)
           IN /\ q.tile = p.tile /\ q.gi_k = p.gi_k /\ q.gi_v = p.gi_v
              /\ \/ p.n + 1 < Ls[p.tile] /\ q.pc = "k" /\ q.n = p.n + 1
                 \/ ~(p.n + 1 < Ls[p.tile]) /\ q.pc = "last_v" /\ q.n = p.n
<1> DEFINE n == p.n + 1
           more == [p EXCEPT !.n = n, !.pc = "k"]
           last == [p EXCEPT !.pc = "last_v"]
<1>1. AfterK(p) = IF n < Ls[p.tile] THEN more ELSE last
  BY DEF AfterK, Ls
<1> HIDE DEF n
<1>2. /\ more.pc = "k" /\ more.n = n /\ more.tile = p.tile
      /\ more.gi_k = p.gi_k /\ more.gi_v = p.gi_v
  OBVIOUS
<1>3. /\ last.pc = "last_v" /\ last.n = p.n /\ last.tile = p.tile
      /\ last.gi_k = p.gi_k /\ last.gi_v = p.gi_v
  OBVIOUS
<1> HIDE DEF more, last
<1> QED BY <1>1, <1>2, <1>3 DEF n

LEMMA ProdFacts ==
    ASSUME IInv, DataInv, prod.tile < NumTiles
    PROVE  /\ TypeOK
           /\ prod \in [pc : {"k", "v", "last_v"}, tile : Nat, n : Nat, gi_k : Nat, gi_v : Nat]
           /\ prod.tile \in Nat /\ prod.n \in Nat /\ prod.gi_k \in Nat /\ prod.gi_v \in Nat
           /\ (prod.pc = "v" => prod.n > 0)
           /\ prod.tile \in Tiles /\ Ls[prod.tile] = loop_range(prod.tile)
           /\ Ls \in [Nat -> Nat \ {0}] /\ Ls[prod.tile] \in Nat \ {0} /\ Placed(prod, Ls)
<1>1. /\ TypeOK /\ (prod.pc = "v" => prod.n > 0) /\ Placed(prod, Ls)
      /\ prod \in [pc : {"k", "v", "last_v"}, tile : Nat, n : Nat, gi_k : Nat, gi_v : Nat]
  BY Types DEF IInv, DataInv
<1>2. prod.tile \in Tiles
  BY <1>1, CountType DEF Tiles
<1> QED BY <1>1, <1>2, LsType DEF Ls

LEMMA LoadKData == ASSUME IInv, DataInv, LoadK PROVE DataInv'
<1> DEFINE gi_k == prod.gi_k + 1
           p == [prod EXCEPT !.gi_k = gi_k]
           v == [p EXCEPT !.pc = "v"]
<1>1. /\ prod.tile < NumTiles /\ prod.pc = "k" /\ Passes(empty["k"], (prod.gi_k + 1) % 2)
      /\ Copy("k", prod.gi_k % 2, <<prod.tile, prod.n>>)
      /\ prod' = IF prod.n > 0 THEN v ELSE AfterK(p)
  BY DEF LoadK
<1>2. gi_k \in Nat
  BY <1>1, ProdFacts
<1> HIDE DEF gi_k
<1>3. /\ p \in [pc : {"k", "v", "last_v"}, tile : Nat, n : Nat, gi_k : Nat, gi_v : Nat]
      /\ p.gi_k = gi_k /\ p.gi_v = prod.gi_v /\ p.n = prod.n /\ p.tile = prod.tile
  BY <1>1, <1>2, ProdFacts
<1> HIDE DEF p
<1>4. v.pc = "v" /\ v.gi_k = gi_k /\ v.gi_v = prod.gi_v /\ v.n = prod.n /\ v.tile = prod.tile
  BY <1>3
<1> HIDE DEF v
<1>5. /\ prod'.gi_k = prod.gi_k + 1 /\ prod'.gi_v = prod.gi_v /\ prod'.tile = prod.tile
      /\ \/ prod.n # 0 /\ prod'.pc = "v" /\ prod'.n = prod.n
         \/ /\ prod.n = 0 /\ prod.n + 1 < Ls[prod.tile]
            /\ prod'.pc = "k" /\ prod'.n = prod.n + 1
         \/ /\ prod.n = 0 /\ ~(prod.n + 1 < Ls[prod.tile])
            /\ prod'.pc = "last_v" /\ prod'.n = prod.n
  <2>1. CASE prod.n > 0
    BY <1>1, <1>4, <2>1, ProdFacts DEF gi_k
  <2>2. CASE ~(prod.n > 0)
    BY <1>1, <1>3, <2>2, ProdFacts, AfterKValue DEF gi_k
  <2> QED BY <2>1, <2>2
<1>6. StagedOf(prod, "k", Ls) = <<prod.tile, prod.n>>
  BY <1>1 DEF StagedOf, StagedK
<1>7. StagedOf(prod', "k", Ls) = Succ(<<prod.tile, prod.n>>, Ls)
  BY <1>1, <1>5, ProdFacts DEF StagedOf, StagedK, Succ
<1>8. StagedOf(prod', "v", Ls) = StagedOf(prod, "v", Ls)
  BY <1>1, <1>5, ProdFacts DEF StagedOf, StagedV
<1>9. Placed(prod', Ls)
  BY <1>1, <1>5, ProdFacts DEF Placed
<1>10. /\ Issued("k") = prod.gi_k /\ Issued("k")' = prod.gi_k + 1 /\ Issued("v")' = Issued("v")
  BY <1>5 DEF Issued
<1> QED BY <1>1, <1>6, <1>7, <1>8, <1>9, <1>10, CopyData DEF Ops

LEMMA LoadVData == ASSUME IInv, DataInv, LoadV PROVE DataInv'
<1> DEFINE gi_v == prod.gi_v + 1
           p == [prod EXCEPT !.gi_v = gi_v]
<1>1. /\ prod.pc = "v" /\ Passes(empty["v"], (prod.gi_v + 1) % 2)
      /\ Copy("v", prod.gi_v % 2, <<prod.tile, prod.n - 1>>) /\ prod' = AfterK(p)
  BY DEF LoadV
<1>2. prod.tile < NumTiles
  BY <1>1, Types DEF IInv
<1>3. gi_v \in Nat
  BY <1>2, ProdFacts
<1> HIDE DEF gi_v
<1>4. /\ p \in [pc : {"k", "v", "last_v"}, tile : Nat, n : Nat, gi_k : Nat, gi_v : Nat]
      /\ p.gi_v = gi_v /\ p.gi_k = prod.gi_k /\ p.n = prod.n /\ p.tile = prod.tile
  BY <1>2, <1>3, ProdFacts
<1> HIDE DEF p
<1>5. /\ prod'.gi_v = prod.gi_v + 1 /\ prod'.gi_k = prod.gi_k /\ prod'.tile = prod.tile
      /\ \/ prod.n + 1 < Ls[prod.tile] /\ prod'.pc = "k" /\ prod'.n = prod.n + 1
         \/ ~(prod.n + 1 < Ls[prod.tile]) /\ prod'.pc = "last_v" /\ prod'.n = prod.n
  BY <1>1, <1>2, <1>4, ProdFacts, AfterKValue DEF gi_v
<1>6. /\ prod.n \in Nat \ {0} /\ prod.n < Ls[prod.tile] /\ Ls[prod.tile] \in Nat
      /\ prod.n - 1 + 1 = prod.n
  BY <1>1, <1>2, ProdFacts DEF Placed
<1>7. StagedOf(prod, "v", Ls) = <<prod.tile, prod.n - 1>>
  BY <1>1, <1>6 DEF StagedOf, StagedV
<1>8. StagedOf(prod', "v", Ls) = Succ(<<prod.tile, prod.n - 1>>, Ls)
  <2>1. StagedOf(prod', "v", Ls) = <<prod.tile, prod.n>>
    BY <1>5, <1>6 DEF StagedOf, StagedV
  <2> QED BY <1>6, <2>1 DEF Succ
<1>9. StagedOf(prod', "k", Ls) = StagedOf(prod, "k", Ls)
  BY <1>1, <1>5 DEF StagedOf, StagedK, Succ
<1>10. Placed(prod', Ls)
  BY <1>5, <1>6 DEF Placed
<1>11. /\ Issued("v") = prod.gi_v /\ Issued("v")' = prod.gi_v + 1 /\ Issued("k")' = Issued("k")
  BY <1>5 DEF Issued
<1> QED BY <1>1, <1>7, <1>8, <1>9, <1>10, <1>11, CopyData DEF Ops

LEMMA LoadLastVData == ASSUME IInv, DataInv, LoadLastV PROVE DataInv'
<1> DEFINE gi_v == prod.gi_v + 1
           tile == prod.tile + 1
           p == [prod EXCEPT !.gi_v = gi_v, !.tile = tile, !.n = 0, !.pc = "k"]
<1>1. /\ prod.pc = "last_v" /\ Passes(empty["v"], (prod.gi_v + 1) % 2) /\ prod' = p
      /\ Copy("v", prod.gi_v % 2, <<prod.tile, loop_range(prod.tile) - 1>>)
  BY DEF LoadLastV
<1>2. prod.tile < NumTiles
  BY <1>1, Types DEF IInv
<1> HIDE DEF gi_v, tile
<1>3. p.gi_v = gi_v /\ p.gi_k = prod.gi_k /\ p.n = 0 /\ p.tile = tile /\ p.pc = "k"
  BY <1>2, ProdFacts
<1> HIDE DEF p
<1>4. /\ prod'.gi_v = prod.gi_v + 1 /\ prod'.gi_k = prod.gi_k /\ prod'.tile = prod.tile + 1
      /\ prod'.n = 0 /\ prod'.pc = "k"
  BY <1>1, <1>3 DEF gi_v, tile
<1>5. /\ prod.n + 1 = Ls[prod.tile] /\ loop_range(prod.tile) - 1 = prod.n
      /\ ~(prod.n + 1 < Ls[prod.tile])
  BY <1>1, <1>2, ProdFacts DEF Placed
<1>6. StagedOf(prod, "v", Ls) = <<prod.tile, prod.n>>
  BY <1>1 DEF StagedOf, StagedV
<1>7. StagedOf(prod', "v", Ls) = Succ(<<prod.tile, prod.n>>, Ls)
  BY <1>4, <1>5 DEF StagedOf, StagedV, Succ
<1>8. StagedOf(prod', "k", Ls) = StagedOf(prod, "k", Ls)
  BY <1>1, <1>4 DEF StagedOf, StagedK
<1>9. Placed(prod', Ls)
  <2>1. prod.tile + 1 \in Nat /\ Ls \in [Nat -> Nat \ {0}]
    BY <1>2, ProdFacts
  <2>2. 0 < Ls[prod.tile + 1]
    BY <2>1
  <2> QED BY <1>4, <2>2 DEF Placed
<1>10. /\ Issued("v") = prod.gi_v /\ Issued("v")' = prod.gi_v + 1 /\ Issued("k")' = Issued("k")
  BY <1>4 DEF Issued
<1> QED BY <1>1, <1>5, <1>6, <1>7, <1>8, <1>9, <1>10, CopyData DEF Ops

-----------------------------------------------------------------------------
(* What is stored. *)

LEMMA InitData == Init => DataInv
<1> SUFFICES ASSUME Init PROVE DataInv
  OBVIOUS
<1>1. TypeOK /\ Ls \in [Nat -> Nat \ {0}]
  BY InitType, LsType
<1>2. /\ prod.pc = "k" /\ prod.tile = 0 /\ prod.n = 0 /\ prod.gi_k = 0 /\ prod.gi_v = 0
      /\ copies = {} /\ \A x \in Warps : warp[x] = NewWarp
  BY DEF Init
<1>3. NewWarp.pc = "q" /\ NewWarp.tile = 0 /\ NewWarp.gi_k = 0 /\ NewWarp.gi_v = 0
  BY DEF NewWarp
<1>4. Placed(prod, Ls)
  <2>1. 0 < Ls[0]
    BY <1>1
  <2> QED BY <1>2, <2>1 DEF Placed
<1>5. ASSUME NEW op \in Ops PROVE SyncInv(op)
  <2>1. Issued(op) = 0 /\ StagedOf(prod, op, Ls) = <<0, 0>>
    BY <1>2 DEF Issued, StagedOf, StagedK, StagedV, Ops
  <2>2. ASSUME NEW x \in Warps
        PROVE  Rel(warp[x], op) = 0 /\ NextOf(warp[x], op, Ls) = <<0, 0>>
    BY <1>2, <1>3 DEF Rel, Round, One, NextOf, NextK, NextV, Fetching, Ops
  <2> QED BY <2>1, <2>2 DEF SyncInv, SyncOf
<1>6. \A x \in Warps : LocalOf(warp[x], Ls, Cols[x])
  BY <1>2, <1>3 DEF LocalOf, Fetching
<1>7. \A i \in Tiles, x \in Warps : StoredOf(out[i][x], i, Ls[i], Cols[x])
  BY DEF Init, StoredOf
<1> QED BY <1>4, <1>5, <1>6, <1>7 DEF DataInv, Ops

LEMMA DataNext == IInv /\ DataInv /\ [Next]_vars => DataInv'
<1> SUFFICES ASSUME IInv, DataInv, [Next]_vars PROVE DataInv'
  OBVIOUS
<1>1. CASE UNCHANGED vars
  <2>1. \A op \in Ops : /\ Issued(op)' = Issued(op) /\ Flying(op)' = Flying(op)
                        /\ StagedOf(prod', op, Ls) = StagedOf(prod, op, Ls)
    BY <1>1 DEF vars, Issued, Flying
  <2>2. UNCHANGED <<causal, prod, smem, warp, out>> /\ Placed(prod', Ls)
    BY <1>1 DEF vars, DataInv
  <2> QED BY <2>1, <2>2, DataOf, DataFixed
<1>2. CASE Producer
  BY <1>2, LoadKData, LoadVData, LoadLastVData DEF Producer
<1>3. ASSUME NEW c \in copies, Land(c) PROVE DataInv'
  BY <1>3, LandData
<1>4. ASSUME NEW x \in Warps, WarpStep(x) \/ Mma(x) PROVE DataInv'
  BY <1>4, LoadQData, StartTileData, AwaitKData, IssueQKData, IssuePVData, HandOverData,
     AwaitScoresData, SoftmaxData, RescaleData, IssueLastPVData, DrainData, StoreData,
     MmaData DEF WarpStep
<1> QED BY <1>1, <1>2, <1>3, <1>4 DEF Next

\* What the warps hold and what is staged follows from how far everybody is.
THEOREM DataInvariant == Spec => [](IInv /\ DataInv)
<1>1. Init => IInv /\ DataInv
  BY InitInv, InitData
<1>2. IInv /\ DataInv /\ [Next]_vars => (IInv /\ DataInv)'
  BY InvStep, DataNext
<1> QED BY <1>1, <1>2, PTL DEF Spec

\* A key block spans whole row blocks, so that a mask is needed in the last one only.
Aligned == \E c \in Nat \ {0} : BlockN = c * BlockM

LEMMA CeilBound ==
    ASSUME NEW a \in Nat, NEW b \in Nat \ {0}, NEW m \in Int, m < CeilDiv(a, b)
    PROVE  m * b < a
<1> DEFINE q == CeilDiv(a, b)
<1>1. q \in Int /\ q * b <= a + b - 1
  BY SMTT(30) DEF CeilDiv
<1> HIDE DEF q
<1>2. (m + 1) * b <= q * b
  <2>1. m + 1 <= q
    BY <1>1 DEF q
  <2> QED BY <1>1, <2>1
<1>3. (m + 1) * b = m * b + b /\ m * b \in Int
  OBVIOUS
<1>4. q * b \in Int
  BY <1>1
<1> QED BY <1>1, <1>2, <1>3, <1>4

\* The blocks before the last lie before the rows of the tile.
LEMMA BeforeRows ==
    ASSUME TypeOK, Aligned, causal, NEW i \in Tiles, NEW x \in Warps,
           NEW n \in Nat, n + 1 < loop_range(i), NEW col \in columns(n)
    PROVE  col <= row_base(x, i)
<1>1. tile_m(i) \in Nat
  BY TileType
<1>2. PICK c \in Nat \ {0} : BlockN = c * BlockM
  BY DEF Aligned
<1>3. BlockM \in Nat \ {0} /\ BlockN \in Nat \ {0} /\ BlockM % 2 = 0
  BY AttentionAssumption
<1>4. (n + 1) * BlockN < (tile_m(i) + 1) * BlockM
  <2>1. (tile_m(i) + 1) * BlockM \in Nat
    BY <1>1, <1>3
  <2>2. n + 1 < CeilDiv((tile_m(i) + 1) * BlockM, BlockN)
    BY DEF loop_range
  <2> QED BY <1>3, <2>1, <2>2, CeilBound
<1>5. (n + 1) * c <= tile_m(i)
  <2> DEFINE d == (n + 1) * c
             t == tile_m(i)
  <2>1. d \in Nat /\ t \in Nat
    BY <1>1
  <2>2. d * BlockM < (t + 1) * BlockM
    <3>1. (n + 1) * BlockN = d * BlockM
      BY <1>2, <1>3
    <3> QED BY <1>4, <3>1
  <2> HIDE DEF d, t
  <2>3. ASSUME t + 1 <= d PROVE FALSE
    <3>1. (t + 1) * BlockM <= d * BlockM
      BY <1>3, <2>1, <2>3
    <3>2. (t + 1) * BlockM \in Int /\ d * BlockM \in Int
      BY <1>3, <2>1
    <3> QED BY <2>2, <3>1, <3>2
  <2>4. d <= t
    BY <2>1, <2>3
  <2> QED BY <2>4 DEF d, t
<1>6. (n + 1) * BlockN <= tile_m(i) * BlockM
  <2> DEFINE d == (n + 1) * c
             t == tile_m(i)
  <2>1. (n + 1) * BlockN = d * BlockM
    BY <1>2, <1>3
  <2>2. d \in Nat /\ t \in Nat /\ d <= t
    BY <1>1, <1>5
  <2> HIDE DEF d, t
  <2>3. d * BlockM <= t * BlockM
    BY <1>3, <2>2
  <2> QED BY <2>1, <2>3 DEF t
<1>7. tile_m(i) * BlockM <= row_base(x, i) /\ row_base(x, i) \in Int
      /\ tile_m(i) * BlockM \in Int
  <2>1. group(x) - 1 \in {0, 1} /\ BlockM \div 2 \in Nat /\ tile_m(i) * BlockM \in Int
    BY <1>1, <1>3, Groups
  <2>2. row_base(x, i) = tile_m(i) * BlockM + (group(x) - 1) * (BlockM \div 2)
    BY DEF row_base
  <2>3. (group(x) - 1) * (BlockM \div 2) \in {0, BlockM \div 2}
    BY <2>1
  <2> QED BY <2>1, <2>2, <2>3
<1>8. col \in Int /\ col <= (n + 1) * BlockN - 1 /\ (n + 1) * BlockN \in Int
  BY <1>3 DEF columns
<1> QED BY <1>6, <1>7, <1>8

\* A stored tile is the attention of its rows, for any number of warps, tiles and key blocks.
THEOREM TilesWhole == ASSUME Aligned PROVE Spec => []TileWhole
<1>1. IInv /\ DataInv => TileWhole
  <2> SUFFICES ASSUME IInv, DataInv, NEW i \in Tiles, NEW x \in Warps,
                      out[i][x] # None
               PROVE  /\ Len(out[i][x].o) = loop_range(i)
                      /\ out[i][x].scale = loop_range(i) /\ out[i][x].sums = loop_range(i)
                      /\ \A n \in 0 .. loop_range(i) - 1 :
                           /\ out[i][x].o[n + 1].v = <<i, n>>
                           /\ out[i][x].o[n + 1].p.s = << <<i>>, <<i, n>> >>
                           /\ out[i][x].o[n + 1].p.max = n + 1
                           /\ out[i][x].o[n + 1].scale = n + 1
                           /\ out[i][x].o[n + 1].p.columns =
                                IF causal THEN {col \in columns(n) : col <= row_base(x, i)}
                                ELSE columns(n)
    BY DEF TileWhole
  <2>1. TypeOK
    BY DEF IInv
  <2>2. i \in Nat /\ loop_range(i) \in Nat \ {0} /\ Ls[i] = loop_range(i)
    BY <2>1, TilesType DEF Ls
  <2>3. /\ SumOf(out[i][x].o, i, loop_range(i), Cols[x])
        /\ out[i][x].scale = loop_range(i) /\ out[i][x].sums = loop_range(i)
    BY <2>2 DEF DataInv, StoredOf
  <2>4. ASSUME NEW n \in 0 .. loop_range(i) - 1
        PROVE  /\ out[i][x].o[n + 1].v = <<i, n>>
               /\ out[i][x].o[n + 1].p.s = << <<i>>, <<i, n>> >>
               /\ out[i][x].o[n + 1].p.max = n + 1 /\ out[i][x].o[n + 1].scale = n + 1
               /\ out[i][x].o[n + 1].p.columns = masked(x, i, n)
    <3>1. n \in Nat /\ n + 1 \in 1 .. loop_range(i) /\ n + 1 - 1 = n
      BY <2>2
    <3>2. out[i][x].o[n + 1] = Term(i, n, Cols[x])
      BY <2>3, <3>1 DEF SumOf
    <3>3. Cols[x][i][n] = masked(x, i, n)
      BY <2>2, <3>1 DEF Cols
    <3> QED BY <3>2, <3>3 DEF Term, Prob
  <2>5. ASSUME NEW n \in 0 .. loop_range(i) - 1
        PROVE  masked(x, i, n) = IF causal THEN {col \in columns(n) : col <= row_base(x, i)}
                                 ELSE columns(n)
    <3>1. CASE causal /\ n # loop_range(i) - 1
      <4>1. n \in Nat /\ n + 1 < loop_range(i)
        BY <2>2, <3>1
      <4>2. \A col \in columns(n) : col <= row_base(x, i)
        BY <2>1, <3>1, <4>1, BeforeRows
      <4> QED BY <3>1, <4>2 DEF masked
    <3>2. CASE causal /\ n = loop_range(i) - 1
      <4>1. \A col \in columns(n) : row_base(x, i) >= col <=> col <= row_base(x, i)
        OBVIOUS
      <4> QED BY <3>2, <4>1 DEF masked
    <3>3. CASE ~causal
      BY <3>3 DEF masked
    <3> QED BY <3>1, <3>2, <3>3
  <2>6. Len(out[i][x].o) = loop_range(i)
    BY <2>3 DEF SumOf
  <2> QED BY <2>3, <2>4, <2>5, <2>6
<1> QED BY <1>1, DataInvariant, PTL

-----------------------------------------------------------------------------
(* Nobody waits for ever: the kernel stops only when every tile is stored.  *)
(* A group's warps also wait for each other, before a tile for its Q and    *)
(* after it to store; those barriers count tiles.                           *)

Asked == [x \in Warps |-> warp[x].gi_q + One(warp[x].pc = "q_full")]
Stores == [x \in Warps |-> warp[x].tile + One(warp[x].pc = "store")]

\* A warp, the barrier of its group's Q and the one it stores behind.
Begun(w, q, s) ==
    /\ w.tile <= NumTiles /\ (w.pc # "q" => w.tile < NumTiles)
    /\ w.gi_q = w.tile + One(w.pc \notin Fetching)
    /\ w.gi_q <= q.phase /\ w.tile <= s.phase
    /\ w.pc = "store" => w.gen = w.tile

GroupInv(g) ==
    /\ LevelOf(members(g), q_full[g], Asked) /\ LevelOf(members(g), named[g + 2], Stores)
    /\ \A x \in members(g) : Begun(warp[x], q_full[g], named[g + 2])

GroupTypes(x) ==
    /\ warp[x] \in WarpStates /\ warp[x].tile \in Nat /\ warp[x].gi_q \in Nat
    /\ warp[x].gen \in Nat /\ NumTiles \in Nat
    /\ Asked[x] = warp[x].gi_q + One(warp[x].pc = "q_full") /\ Asked[x] \in Nat
    /\ Stores[x] = warp[x].tile + One(warp[x].pc = "store") /\ Stores[x] \in Nat

LEMMA GroupType ==
    ASSUME TypeOK, NEW x \in Warps
    PROVE  GroupTypes(x)
<1>1. /\ warp[x] \in WarpStates /\ warp[x].tile \in Nat /\ warp[x].gi_q \in Nat
      /\ warp[x].gen \in Nat /\ NumTiles \in Nat
  BY Types, CountType DEF WarpStates
<1> QED BY <1>1 DEF GroupTypes, Asked, Stores, One

LEMMA GroupFacts ==
    ASSUME NEW g \in {1, 2}
    PROVE  /\ IsFiniteSet(members(g)) /\ members(g) # {}
           /\ \A x \in members(g) : x \in Warps /\ group(x) = g
           /\ \A x \in Warps : group(x) = g => x \in members(g)
           /\ g + 2 \in 1 .. 4 /\ g \in 1 .. 2
BY WarpsFinite, AttentionAssumption DEF members, group, Warps

LEMMA GroupBarriers ==
    ASSUME TypeOK, NEW g \in {1, 2}
    PROVE  /\ q_full[g] \in Barriers /\ q_full[g].phase \in Nat
           /\ named[g + 2] \in Barriers /\ named[g + 2].phase \in Nat
<1>1. q_full[g] \in Barriers /\ named[g + 2] \in Barriers
  BY Types
<1> QED BY <1>1, BarrierTypes

LEMMA LevelOfSame ==
    ASSUME NEW G, NEW b, NEW f, NEW h, LevelOf(G, b, f), \A y \in G : h[y] = f[y]
    PROVE  LevelOf(G, b, h)
<1>1. {x \in G : f[x] = b.phase + 1} = {x \in G : h[x] = b.phase + 1}
  OBVIOUS
<1> QED BY <1>1 DEF LevelOf

\* A step of another warp, or one that leaves the warp in its tile.
LEMMA GroupKeep ==
    ASSUME NEW g \in {1, 2}, GroupInv(g), UNCHANGED causal,
           q_full'[g] = q_full[g], named'[g + 2] = named[g + 2],
           \A y \in members(g) : /\ Asked'[y] = Asked[y] /\ Stores'[y] = Stores[y]
                                 /\ Begun(warp'[y], q_full[g], named[g + 2])
    PROVE  GroupInv(g)'
<1>1. /\ LevelOf(members(g), q_full'[g], Asked')
      /\ LevelOf(members(g), named'[g + 2], Stores')
  BY LevelOfSame DEF GroupInv
<1>2. NumTiles' = NumTiles
  BY DEF NumTiles
<1> QED BY <1>1, <1>2 DEF GroupInv, Begun, members

\* A step within a tile, between the two barriers of the group.
LEMMA GroupInner ==
    ASSUME TypeOK, NEW g \in {1, 2}, GroupInv(g), NEW x \in Warps, Others(x),
           UNCHANGED <<causal, q_full>>, named'[g + 2] = named[g + 2],
           warp'[x].tile = warp[x].tile, warp'[x].gi_q = warp[x].gi_q,
           \/ warp'[x].pc = warp[x].pc /\ warp'[x].gen = warp[x].gen
           \/ {warp[x].pc, warp'[x].pc} \cap {"q", "q_full", "store"} = {}
    PROVE  GroupInv(g)'
<1>1. ASSUME NEW y \in members(g)
      PROVE  /\ Asked'[y] = Asked[y] /\ Stores'[y] = Stores[y]
             /\ Begun(warp'[y], q_full[g], named[g + 2])
  <2>1. y \in Warps /\ Begun(warp[y], q_full[g], named[g + 2])
    BY GroupFacts DEF GroupInv
  <2>2. CASE y = x
    BY <2>1, <2>2 DEF Asked, Stores, One, Begun, Fetching
  <2>3. CASE y # x
    BY <2>1, <2>3 DEF Asked, Stores, One, Others
  <2> QED BY <2>2, <2>3
<1> QED BY <1>1, GroupKeep

\* The other group's barriers.
LEMMA GroupOther ==
    ASSUME TypeOK, NEW g \in {1, 2}, GroupInv(g), NEW x \in Warps, group(x) # g, Others(x),
           UNCHANGED causal, q_full'[g] = q_full[g], named'[g + 2] = named[g + 2]
    PROVE  GroupInv(g)'
<1>1. ASSUME NEW y \in members(g)
      PROVE  /\ Asked'[y] = Asked[y] /\ Stores'[y] = Stores[y]
             /\ Begun(warp'[y], q_full[g], named[g + 2])
  <2>1. y \in Warps /\ y # x /\ Begun(warp[y], q_full[g], named[g + 2])
    BY GroupFacts DEF GroupInv
  <2> QED BY <2>1 DEF Asked, Stores, One, Others
<1> QED BY <1>1, GroupKeep

\* An arrival at one of the two barriers of the warp's group.
LEMMA GroupArrives ==
    ASSUME NEW g \in {1, 2}, NEW b \in Barriers, NEW f, NEW h,
           \A y \in members(g) : f[y] \in Nat /\ h[y] \in Nat,
           LevelOf(members(g), b, f), NEW x \in members(g), f[x] <= b.phase,
           h[x] = f[x] + 1, \A y \in members(g) \ {x} : h[y] = f[y]
    PROVE  LET c == Arrived(b, Cardinality(members(g)))
           IN LevelOf(members(g), c, h) /\ c.phase \in {b.phase, b.phase + 1}
<1>1. f[x] = b.phase
  BY BarrierTypes DEF LevelOf
<1> QED BY <1>1, GroupFacts, ArrivalOf

LEMMA LoadQGroup ==
    ASSUME TypeOK, TypeOK', NEW x \in Warps, LoadQ(x), GroupInv(1), GroupInv(2)
    PROVE  GroupInv(1)' /\ GroupInv(2)'
<1> DEFINE g == group(x)
           c == Arrived(q_full[g], Cardinality(members(g)))
<1>1. /\ warp[x].pc = "q" /\ warp'[x].pc = "q_full" /\ Others(x)
      /\ warp'[x].tile = warp[x].tile /\ warp'[x].gi_q = warp[x].gi_q
      /\ UNCHANGED <<causal, named>>
  BY LoadQStep DEF Keeps, Fields
<1>2. q_full' = [q_full EXCEPT ![g] = c] /\ warp[x].tile < NumTiles
  BY DEF LoadQ, Becomes
<1>3. g \in {1, 2} /\ x \in members(g) /\ q_full \in [1 .. 2 -> Barriers]
  BY Groups, Types
<1>4. \A h \in {1, 2} : h # g => GroupInv(h)'
  <2> SUFFICES ASSUME NEW h \in {1, 2}, h # g PROVE GroupInv(h)'
    OBVIOUS
  <2>1. q_full'[h] = q_full[h]
    BY <1>2, <1>3
  <2> QED BY <1>1, <2>1, GroupOther
<1>5. GroupInv(g) /\ q_full[g] \in Barriers /\ q_full'[g] = c
  BY <1>2, <1>3
<1>6. ASSUME NEW y \in members(g)
      PROVE  /\ y \in Warps /\ Asked[y] \in Nat /\ Asked'[y] \in Nat
             /\ Asked'[y] = (IF y = x THEN Asked[x] + 1 ELSE Asked[y])
             /\ Stores'[y] = Stores[y]
  <2>1. y \in Warps
    BY <1>3, GroupFacts
  <2>2. GroupTypes(y) /\ GroupTypes(x)
    BY <2>1, GroupType
  <2>3. CASE y = x
    BY <1>1, <2>1, <2>2, <2>3 DEF Asked, Stores, One, GroupTypes
  <2>4. CASE y # x
    BY <1>1, <2>1, <2>2, <2>4 DEF Asked, Stores, One, GroupTypes, Others
  <2> QED BY <2>1, <2>3, <2>4
<1>7. Asked[x] <= q_full[g].phase
  <2>1. Begun(warp[x], q_full[g], named[g + 2]) /\ GroupTypes(x)
    BY <1>3, <1>5, GroupType DEF GroupInv
  <2> QED BY <1>1, <2>1 DEF Begun, GroupTypes, One
<1>8. LevelOf(members(g), c, Asked') /\ c.phase \in {q_full[g].phase, q_full[g].phase + 1}
  <2>1. LevelOf(members(g), q_full[g], Asked)
    BY <1>5 DEF GroupInv
  <2> HIDE DEF g
  <2> QED BY <1>3, <1>5, <1>6, <1>7, <2>1, GroupArrives
<1>9. LevelOf(members(g), named'[g + 2], Stores')
  BY <1>1, <1>5, <1>6, LevelOfSame DEF GroupInv
<1>10. ASSUME NEW y \in members(g) PROVE Begun(warp'[y], c, named[g + 2])
  <2>1. /\ y \in Warps /\ Begun(warp[y], q_full[g], named[g + 2]) /\ GroupTypes(y)
        /\ q_full[g].phase \in Nat
    BY <1>3, <1>5, <1>6, GroupType, GroupBarriers DEF GroupInv
  <2>2. q_full[g].phase <= c.phase
    BY <1>8, <2>1
  <2>3. CASE y = x
    BY <1>1, <1>2, <1>8, <2>1, <2>3 DEF Begun, GroupTypes, Fetching, One
  <2>4. CASE y # x
    <3>1. warp'[y] = warp[y]
      BY <1>1, <2>1, <2>4 DEF Others
    <3> QED BY <1>8, <2>1, <3>1 DEF Begun, GroupTypes
  <2> QED BY <2>3, <2>4
<1>11. GroupInv(g)'
  <2>1. NumTiles' = NumTiles
    BY <1>1 DEF NumTiles
  <2>2. q_full'[g] = c /\ named'[g + 2] = named[g + 2] /\ \A h : members(h)' = members(h)
    BY <1>1, <1>5 DEF members
  <2> HIDE DEF c
  <2>3. g' = g
    BY DEF group
  <2> QED BY <1>8, <1>9, <1>10, <2>1, <2>2, <2>3 DEF GroupInv, Begun
<1> QED BY <1>3, <1>4, <1>11

LEMMA StartTileGroup ==
    ASSUME TypeOK, NEW x \in Warps, StartTile(x), GroupInv(1), GroupInv(2)
    PROVE  GroupInv(1)' /\ GroupInv(2)'
<1>1. /\ warp[x].pc = "q_full" /\ warp'[x].pc = "k_full" /\ Others(x)
      /\ warp'[x].tile = warp[x].tile /\ warp'[x].gi_q = warp[x].gi_q + 1
      /\ UNCHANGED <<causal, named, q_full>>
  BY StartTileStep DEF Keeps, Fields
<1>2. Passes(q_full[group(x)], warp[x].gi_q % 2)
  BY DEF StartTile
<1>3. ASSUME NEW g \in {1, 2}, NEW y \in members(g), GroupInv(g)
      PROVE  /\ Asked'[y] = Asked[y] /\ Stores'[y] = Stores[y]
             /\ Begun(warp'[y], q_full[g], named[g + 2])
  <2>1. /\ y \in Warps /\ group(y) = g /\ Begun(warp[y], q_full[g], named[g + 2])
        /\ GroupTypes(y) /\ q_full[g].phase \in Nat
        /\ Asked[y] \in {q_full[g].phase, q_full[g].phase + 1}
    BY <1>3, GroupFacts, GroupType, GroupBarriers DEF GroupInv, LevelOf
  <2>2. CASE y = x
    <3>1. Asked[x] = warp[x].gi_q + 1
      BY <1>1, <2>1, <2>2 DEF GroupTypes, One
    <3>2. q_full[g].phase = warp[x].gi_q + 1
      BY <1>2, <2>1, <2>2, <3>1 DEF Passes, GroupTypes
    <3> QED BY <1>1, <2>1, <2>2, <3>1, <3>2
            DEF Asked, Stores, GroupTypes, One, Begun, Fetching
  <2>3. CASE y # x
    BY <1>1, <2>1, <2>3 DEF Asked, Stores, One, Others
  <2> QED BY <2>2, <2>3
<1> QED BY <1>1, <1>3, GroupKeep

LEMMA StoreGroup ==
    ASSUME TypeOK, NEW x \in Warps, Store(x), GroupInv(1), GroupInv(2)
    PROVE  GroupInv(1)' /\ GroupInv(2)'
<1>1. /\ warp[x].pc = "store" /\ warp'[x].pc = "q" /\ Others(x)
      /\ warp'[x].tile = warp[x].tile + 1 /\ warp'[x].gi_q = warp[x].gi_q
      /\ UNCHANGED <<causal, named, q_full>>
  BY StoreStep DEF Keeps, Fields
<1>2. named[group(x) + 2].phase # warp[x].gen
  BY DEF Store
<1>3. ASSUME NEW g \in {1, 2}, NEW y \in members(g), GroupInv(g)
      PROVE  /\ Asked'[y] = Asked[y] /\ Stores'[y] = Stores[y]
             /\ Begun(warp'[y], q_full[g], named[g + 2])
  <2>1. /\ y \in Warps /\ group(y) = g /\ Begun(warp[y], q_full[g], named[g + 2])
        /\ GroupTypes(y) /\ named[g + 2].phase \in Nat
        /\ Stores[y] \in {named[g + 2].phase, named[g + 2].phase + 1}
    BY <1>3, GroupFacts, GroupType, GroupBarriers DEF GroupInv, LevelOf
  <2>2. CASE y = x
    <3>1. Stores[x] = warp[x].tile + 1 /\ warp[x].gen = warp[x].tile
      BY <1>1, <2>1, <2>2 DEF GroupTypes, One, Begun
    <3>2. named[g + 2].phase = warp[x].tile + 1
      BY <1>2, <2>1, <2>2, <3>1 DEF GroupTypes
    <3> QED BY <1>1, <2>1, <2>2, <3>1, <3>2
            DEF Asked, Stores, GroupTypes, One, Begun, Fetching
  <2>3. CASE y # x
    BY <1>1, <2>1, <2>3 DEF Asked, Stores, One, Others
  <2> QED BY <2>2, <2>3
<1> QED BY <1>1, <1>3, GroupKeep

LEMMA DrainGroup ==
    ASSUME TypeOK, TypeOK', NEW x \in Warps, Drain(x), GroupInv(1), GroupInv(2)
    PROVE  GroupInv(1)' /\ GroupInv(2)'
<1> DEFINE g == group(x)
           b == named[g + 2]
           c == Arrived(b, Cardinality(members(g)))
<1>1. /\ warp[x].pc = "drain" /\ warp'[x].pc = "store" /\ Others(x)
      /\ warp'[x].tile = warp[x].tile /\ warp'[x].gi_q = warp[x].gi_q
      /\ warp'[x].gen = b.phase /\ named' = [named EXCEPT ![g + 2] = c]
      /\ UNCHANGED <<causal, q_full>>
  BY DrainStep DEF Keeps, Fields
<1>2. g \in {1, 2} /\ x \in members(g) /\ named \in [1 .. 4 -> Barriers]
  BY Groups, Types
<1>3. \A h \in {1, 2} : h # g => GroupInv(h)'
  <2> SUFFICES ASSUME NEW h \in {1, 2}, h # g PROVE GroupInv(h)'
    OBVIOUS
  <2>1. named'[h + 2] = named[h + 2]
    BY <1>1, <1>2
  <2> QED BY <1>1, <2>1, GroupOther
<1>4. GroupInv(g) /\ b \in Barriers /\ b.phase \in Nat /\ named'[g + 2] = c
  BY <1>1, <1>2, GroupBarriers
<1>5. ASSUME NEW y \in members(g)
      PROVE  /\ y \in Warps /\ Stores[y] \in Nat /\ Stores'[y] \in Nat
             /\ Stores'[y] = (IF y = x THEN Stores[x] + 1 ELSE Stores[y])
             /\ Asked'[y] = Asked[y]
  <2>1. y \in Warps
    BY <1>2, GroupFacts
  <2>2. GroupTypes(y) /\ GroupTypes(x)
    BY <2>1, GroupType
  <2>3. CASE y = x
    BY <1>1, <2>1, <2>2, <2>3 DEF Asked, Stores, One, GroupTypes
  <2>4. CASE y # x
    BY <1>1, <2>1, <2>2, <2>4 DEF Asked, Stores, One, GroupTypes, Others
  <2> QED BY <2>1, <2>3, <2>4
<1>6. Stores[x] = b.phase /\ warp[x].tile = b.phase
  <2>1. /\ Begun(warp[x], q_full[g], b) /\ GroupTypes(x)
        /\ Stores[x] \in {b.phase, b.phase + 1}
    BY <1>2, <1>4, GroupType DEF GroupInv, LevelOf
  <2> HIDE DEF b
  <2> QED BY <1>1, <1>4, <2>1 DEF Begun, GroupTypes, One
<1>7. LevelOf(members(g), c, Stores') /\ c.phase \in {b.phase, b.phase + 1}
  <2>1. LevelOf(members(g), b, Stores)
    BY <1>4 DEF GroupInv
  <2>2. Stores[x] <= b.phase
    BY <1>4, <1>6
  <2> HIDE DEF g, b
  <2> QED BY <1>2, <1>4, <1>5, <2>1, <2>2, GroupArrives
<1>8. LevelOf(members(g), q_full'[g], Asked')
  BY <1>1, <1>4, <1>5, LevelOfSame DEF GroupInv
<1>9. ASSUME NEW y \in members(g) PROVE Begun(warp'[y], q_full[g], c)
  <2>1. y \in Warps /\ Begun(warp[y], q_full[g], b) /\ GroupTypes(y)
    BY <1>2, <1>4, <1>5, GroupType DEF GroupInv
  <2> HIDE DEF b, c
  <2>2. CASE y = x
    BY <1>1, <1>4, <1>6, <1>7, <2>1, <2>2 DEF Begun, GroupTypes, Fetching, One
  <2>3. CASE y # x
    <3>1. warp'[y] = warp[y]
      BY <1>1, <2>1, <2>3 DEF Others
    <3> QED BY <1>4, <1>7, <2>1, <3>1 DEF Begun, GroupTypes
  <2> QED BY <2>2, <2>3
<1>10. GroupInv(g)'
  <2>1. NumTiles' = NumTiles
    BY <1>1 DEF NumTiles
  <2>2. q_full'[g] = q_full[g] /\ named'[g + 2] = c /\ \A h : members(h)' = members(h)
    BY <1>1, <1>4 DEF members
  <2> HIDE DEF c
  <2>3. g' = g
    BY DEF group
  <2> QED BY <1>7, <1>8, <1>9, <2>1, <2>2, <2>3 DEF GroupInv, Begun
<1> QED BY <1>2, <1>3, <1>10

LEMMA GroupNext ==
    ASSUME TypeOK, GroupInv(1), GroupInv(2), [Next]_vars
    PROVE  GroupInv(1)' /\ GroupInv(2)'
<1>1. TypeOK'
  BY TypeStep
<1>2. ASSUME warp' = warp, UNCHANGED <<causal, named, q_full>>
      PROVE  GroupInv(1)' /\ GroupInv(2)'
  <2>1. \A g \in {1, 2} : \A y \in members(g) :
          /\ Asked'[y] = Asked[y] /\ Stores'[y] = Stores[y]
          /\ Begun(warp'[y], q_full[g], named[g + 2])
    BY <1>2 DEF Asked, Stores, GroupInv
  <2> QED BY <1>2, <2>1, GroupKeep
<1>3. CASE UNCHANGED vars
  BY <1>2, <1>3 DEF vars
<1>4. CASE Producer
  BY <1>2, <1>4 DEF Producer, LoadK, LoadV, LoadLastV, Copy
<1>5. ASSUME NEW c \in copies, Land(c) PROVE GroupInv(1)' /\ GroupInv(2)'
  BY <1>2, <1>5 DEF Land
<1>6. ASSUME NEW x \in Warps, IssueQK(x) \/ IssuePV(x) \/ AwaitScores(x) \/ Softmax(x)
                              \/ Rescale(x) \/ IssueLastPV(x) \/ Mma(x)
      PROVE  GroupInv(1)' /\ GroupInv(2)'
  <2>1. /\ Others(x) /\ warp'[x].tile = warp[x].tile /\ warp'[x].gi_q = warp[x].gi_q
        /\ UNCHANGED <<causal, named, q_full>>
        /\ \/ warp'[x].pc = warp[x].pc /\ warp'[x].gen = warp[x].gen
           \/ {warp[x].pc, warp'[x].pc} \cap {"q", "q_full", "store"} = {}
    <3>1. CASE IssueQK(x)
      BY <3>1, IssueQKStep DEF Keeps, Fields
    <3>2. CASE IssuePV(x)
      BY <3>2, IssuePVStep DEF Keeps, Fields
    <3>3. CASE AwaitScores(x)
      BY <3>3, AwaitScoresStep DEF Keeps, Fields
    <3>4. CASE Softmax(x)
      BY <3>4, SoftmaxStep DEF Keeps, Fields
    <3>5. CASE Rescale(x)
      BY <3>5, RescaleStep DEF Keeps, Fields
    <3>6. CASE IssueLastPV(x)
      BY <3>6, IssueLastPVStep DEF Keeps, Fields
    <3>7. CASE Mma(x)
      BY <3>7, MmaStep DEF Keeps, Fields
    <3> QED BY <1>6, <3>1, <3>2, <3>3, <3>4, <3>5, <3>6, <3>7
  <2> QED BY <2>1, GroupInner
<1>7. ASSUME NEW x \in Warps, AwaitK(x) \/ HandOver(x) PROVE GroupInv(1)' /\ GroupInv(2)'
  <2>1. /\ Others(x) /\ warp'[x].tile = warp[x].tile /\ warp'[x].gi_q = warp[x].gi_q
        /\ UNCHANGED <<causal, q_full>>
        /\ {warp[x].pc, warp'[x].pc} \cap {"q", "q_full", "store"} = {}
        /\ \E g \in {1, 2} : \E b : named' = [named EXCEPT ![g] = b]
    <3>1. group(x) \in {1, 2} /\ 3 - group(x) \in {1, 2}
      BY Groups
    <3>2. CASE AwaitK(x)
      BY <3>1, <3>2, AwaitKStep DEF Keeps, Fields
    <3>3. CASE HandOver(x)
      BY <3>1, <3>3, HandOverStep DEF Keeps, Fields
    <3> QED BY <1>7, <3>2, <3>3
  <2>2. named'[1 + 2] = named[1 + 2] /\ named'[2 + 2] = named[2 + 2]
    BY <2>1, Types
  <2> QED BY <2>1, <2>2, GroupInner
<1>8. ASSUME NEW x \in Warps, LoadQ(x) \/ StartTile(x) \/ Drain(x) \/ Store(x)
      PROVE  GroupInv(1)' /\ GroupInv(2)'
  BY <1>1, <1>8, LoadQGroup, StartTileGroup, DrainGroup, StoreGroup
<1> QED BY <1>3, <1>4, <1>5, <1>6, <1>7, <1>8 DEF Next, WarpStep

LEMMA GroupInit == Init => GroupInv(1) /\ GroupInv(2)
<1> SUFFICES ASSUME Init, NEW g \in {1, 2} PROVE GroupInv(g)
  OBVIOUS
<1>1. q_full[g] = Fresh /\ named[g + 2] = Fresh /\ Fresh.phase = 0 /\ Fresh.arrived = 0
  BY FreshType DEF Init
<1>2. \A x \in members(g) : x \in Warps /\ warp[x] = NewWarp
  BY GroupFacts DEF Init
<1>3. NewWarp.pc = "q" /\ NewWarp.tile = 0 /\ NewWarp.gi_q = 0
  BY DEF NewWarp
<1>4. \A x \in members(g) : Asked[x] = 0 /\ Stores[x] = 0
  BY <1>2, <1>3 DEF Asked, Stores, One
<1>5. ASSUME NEW f, \A x \in members(g) : f[x] = 0 PROVE LevelOf(members(g), Fresh, f)
  <2>1. {x \in members(g) : f[x] = Fresh.phase + 1} = {}
    BY <1>1, <1>5
  <2>2. Cardinality({x \in members(g) : f[x] = Fresh.phase + 1}) = 0
    BY <2>1, FS_EmptySet
  <2> QED BY <1>1, <1>5, <2>2, GroupFacts DEF LevelOf
<1>6. \A x \in members(g) : Begun(warp[x], Fresh, Fresh)
  BY <1>1, <1>2, <1>3, CountType DEF Begun, Fetching, One
<1>7. LevelOf(members(g), q_full[g], Asked) /\ LevelOf(members(g), named[g + 2], Stores)
  BY <1>1, <1>4, <1>5
<1> QED BY <1>1, <1>6, <1>7 DEF GroupInv

-----------------------------------------------------------------------------
(* When nothing can move.                                                   *)

\* The guards of the actions.
WarpCan(x) ==
    LET w == warp[x]
    IN \/ w.pc = "q" /\ w.tile < NumTiles
       \/ w.pc = "q_full" /\ Passes(q_full[group(x)], w.gi_q % 2)
       \/ w.pc = "k_full" /\ Passes(full["k"], w.gi_k % 2)
       \/ w.pc = "turn" /\ named[group(x)].phase # w.gen
       \/ w.pc \in {"v_full", "last_v"} /\ Passes(full["v"], w.gi_v % 2)
       \/ w.pc \in {"hand_over", "softmax"}
       \/ w.pc = "scores" /\ Len(w.mmas) <= (IF w.n = 0 THEN 0 ELSE 1)
       \/ w.pc \in {"product", "drain"} /\ w.mmas = <<>>
       \/ w.pc = "store" /\ named[group(x) + 2].phase # w.gen
       \/ w.mmas # <<>>

ProducerCan ==
    \/ prod.pc = "k" /\ prod.tile < NumTiles /\ Passes(empty["k"], (prod.gi_k + 1) % 2)
    \/ prod.pc \in {"v", "last_v"} /\ Passes(empty["v"], (prod.gi_v + 1) % 2)

SomeoneCan == ProducerCan \/ copies # {} \/ \E x \in Warps : WarpCan(x)

AllInv == IInv /\ DataInv /\ GroupInv(1) /\ GroupInv(2)
Still == AllInv /\ ~SomeoneCan

\* Where a warp can be stuck; the producer is at the block it waits for, or one further.
StuckAt(w, k, v) ==
    /\ w.pc \in {"q", "q_full", "k_full", "turn", "v_full", "last_v", "store"}
    /\ w.pc = "q" => w.tile = NumTiles
    /\ w.pc = "k_full" => w.gi_k = k
    /\ w.pc \in {"turn", "v_full"} => w.gi_k + 1 = k
    /\ w.pc \in {"v_full", "last_v"} => w.gi_v = v
    /\ w.gi_k \in Nat /\ w.gi_v \in Nat /\ w.n \in Nat /\ w.tile \in Nat
    /\ k \in {w.gi_k, w.gi_k + 1} /\ v \in {w.gi_v, w.gi_v + 1}
    /\ k = w.gi_k => StagedK(prod, Ls) = NextK(w, Ls)
    /\ k = w.gi_k + 1 => StagedK(prod, Ls) = Succ(NextK(w, Ls), Ls)
    /\ v = w.gi_v => StagedV(prod) = NextV(w)
    /\ v = w.gi_v + 1 => StagedV(prod) = Succ(NextV(w), Ls)
    /\ w.pc \in {"k_full", "turn", "v_full"} => w.n < Ls[w.tile]
    /\ w.pc = "v_full" => w.n # 0
    /\ w.pc \in {"last_v", "store"} => w.n = Ls[w.tile]

LEMMA StuckWarp ==
    ASSUME Still, NEW x \in Warps
    PROVE  StuckAt(warp[x], Issued("k"), Issued("v"))
<1> DEFINE w == warp[x]
<1>1. /\ IInv /\ DataInv /\ TypeOK /\ Shaped(w) /\ w.gi_k \in Nat /\ w.gi_v \in Nat
      /\ w.n \in Nat /\ w.tile \in Nat /\ w.pc \in Pcs /\ Ls \in [Nat -> Nat \ {0}]
      /\ LocalOf(w, Ls, Cols[x]) /\ "k" \in Ops /\ "v" \in Ops
      /\ GroupTypes(x) /\ Begun(w, q_full[group(x)], named[group(x) + 2])
  <2>1. group(x) \in {1, 2} /\ x \in members(group(x))
    BY Groups
  <2>2. Begun(w, q_full[group(x)], named[group(x) + 2])
    BY <2>1 DEF Still, AllInv, GroupInv
  <2> QED BY <2>2, LocalFacts, GroupType DEF Still, AllInv, Ops
<1>2. ~WarpCan(x) /\ copies = {}
  BY DEF Still, SomeoneCan
<1>3. /\ w.pc # "hand_over" /\ w.pc # "softmax" /\ w.pc # "scores"
      /\ w.pc # "product" /\ w.pc # "drain"
      /\ w.pc = "q" => ~(w.tile < NumTiles)
      /\ w.pc = "k_full" => ~Passes(full["k"], w.gi_k % 2)
      /\ w.pc \in {"v_full", "last_v"} => ~Passes(full["v"], w.gi_v % 2)
  <2>1. w.mmas = <<>> /\ Len(w.mmas) = 0
    BY <1>2 DEF WarpCan
  <2>2. w.pc # "scores"
    BY <1>2, <2>1 DEF WarpCan
  <2> QED BY <1>2, <2>1, <2>2 DEF WarpCan
<1>4. w.pc \in {"q", "q_full", "k_full", "turn", "v_full", "last_v", "store"}
  <2>1. w.pc \in Pcs
    BY <1>1
  <2> QED BY <1>3, <2>1 DEF Pcs
<1>5. w.pc = "q" => w.tile = NumTiles
  <2>1. w.tile \in Nat /\ NumTiles \in Nat /\ w.tile <= NumTiles
    BY <1>1 DEF Begun, GroupTypes
  <2> QED BY <1>3, <2>1
<1>6. /\ full["k"].phase = Issued("k") /\ full["v"].phase = Issued("v")
      /\ Tak(w, "k") <= Issued("k") /\ Issued("k") \in Nat /\ Issued("v") \in Nat
  BY <1>1, <1>2, FlowTypes, Unpack DEF FlowInv, Flying
<1>7. Rel(w, "k") = w.gi_k /\ Rel(w, "v") = w.gi_v
  BY <1>1, <1>4 DEF Rel, Round, One
<1>8. Issued("k") \in {w.gi_k, w.gi_k + 1} /\ Issued("v") \in {w.gi_v, w.gi_v + 1}
  BY <1>1, <1>7, Apart
<1>9. /\ w.pc = "k_full" => w.gi_k = Issued("k")
      /\ w.pc \in {"v_full", "last_v"} => w.gi_v = Issued("v")
  <2> DEFINE f == full["k"].phase
             h == full["v"].phase
             i == w.gi_k
             j == w.gi_v
  <2>1. i \in Nat /\ j \in Nat /\ f \in {i, i + 1} /\ h \in {j, j + 1}
    BY <1>1, <1>6, <1>8
  <2>2. /\ w.pc = "k_full" => f % 2 = i % 2
        /\ w.pc \in {"v_full", "last_v"} => h % 2 = j % 2
    BY <1>3 DEF Passes
  <2>3. f = Issued("k") /\ h = Issued("v")
    BY <1>6
  <2> HIDE DEF f, h, i, j
  <2>4. (f % 2 = i % 2 => f = i) /\ (h % 2 = j % 2 => h = j)
    BY <2>1
  <2> QED BY <2>2, <2>3, <2>4 DEF i, j
<1> HIDE DEF w
<1>10. w.pc \in {"turn", "v_full"} => w.gi_k + 1 = Issued("k")
  <2>1. w.pc \in {"turn", "v_full"} => Tak(w, "k") = w.gi_k + 1
    BY DEF Tak, Round, One, Inside, Passed
  <2> QED BY <1>1, <1>6, <1>8, <2>1
<1>11. /\ Issued("k") = w.gi_k => StagedK(prod, Ls) = NextK(w, Ls)
       /\ Issued("k") = w.gi_k + 1 => StagedK(prod, Ls) = Succ(NextK(w, Ls), Ls)
       /\ Issued("v") = w.gi_v => StagedV(prod) = NextV(w)
       /\ Issued("v") = w.gi_v + 1 => StagedV(prod) = Succ(NextV(w), Ls)
  <2>1. /\ SyncOf(w.gi_k, NextK(w, Ls), Issued("k"), StagedK(prod, Ls), smem["k"],
                  Flying("k"), Ls)
        /\ SyncOf(w.gi_v, NextV(w), Issued("v"), StagedV(prod), smem["v"], Flying("v"), Ls)
    BY <1>1, <1>7, DataOf DEF NextOf, StagedOf, w
  <2> QED BY <2>1 DEF SyncOf
<1>12. /\ w.pc \in {"k_full", "turn", "v_full"} => w.n < Ls[w.tile]
       /\ w.pc = "v_full" => w.n # 0
       /\ w.pc \in {"last_v", "store"} => w.n = Ls[w.tile]
  BY <1>1 DEF LocalOf, Shaped, Fetching, Ending
<1> QED BY <1>1, <1>4, <1>5, <1>8, <1>9, <1>10, <1>11, <1>12 DEF StuckAt, w

\* A stuck producer waits for a warp that has yet to release the round before.
LEMMA StuckProducer ==
    ASSUME Still
    PROVE  /\ prod.pc \in {"k", "v", "last_v"} /\ prod.tile \in Nat /\ prod.n \in Nat
           /\ Ls \in [Nat -> Nat \ {0}] /\ NumTiles \in Nat
           /\ prod.pc \in {"k", "v"} => prod.n < Ls[prod.tile]
           /\ prod.pc = "last_v" => prod.n + 1 = Ls[prod.tile]
           /\ prod.pc = "v" => prod.n > 0
           /\ prod.pc = "k" /\ prod.tile < NumTiles =>
                \E y \in Warps : warp[y].gi_k + 1 = Issued("k")
           /\ prod.pc \in {"v", "last_v"} => \E y \in Warps : warp[y].gi_v + 1 = Issued("v")
<1>1. /\ TypeOK /\ Placed(prod, Ls) /\ (prod.pc = "v" => prod.n > 0)
      /\ prod \in [pc : {"k", "v", "last_v"}, tile : Nat, n : Nat, gi_k : Nat, gi_v : Nat]
      /\ Ls \in [Nat -> Nat \ {0}] /\ NumTiles \in Nat
  BY Types, LsType, CountType DEF Still, AllInv, IInv, DataInv
<1>2. ASSUME NEW op \in Ops, ~Passes(empty[op], (Issued(op) + 1) % 2)
      PROVE  \E y \in Warps : Rel(warp[y], op) + 1 = Issued(op)
  <2>1. FlowInv(op) /\ empty[op].phase \in Nat /\ Issued(op) \in Nat
    BY <1>1, FlowTypes DEF Still, AllInv, IInv, Ops
  <2>2. empty[op].phase + 1 = Issued(op)
    BY <1>2, <2>1 DEF FlowInv, Passes
  <2>3. PICK y \in Warps : Released(op)[y] = empty[op].phase
    BY <2>1 DEF FlowInv, Level, LevelOf
  <2> QED BY <2>2, <2>3 DEF Released
<1>3. \A y \in Warps : Rel(warp[y], "k") = warp[y].gi_k /\ Rel(warp[y], "v") = warp[y].gi_v
  BY StuckWarp DEF StuckAt, Rel, Round, One
<1>4. ~ProducerCan /\ Issued("k") = prod.gi_k /\ Issued("v") = prod.gi_v
  BY DEF Still, SomeoneCan, Issued
<1>5. prod.pc = "k" /\ prod.tile < NumTiles =>
        \E y \in Warps : warp[y].gi_k + 1 = Issued("k")
  BY <1>2, <1>3, <1>4 DEF ProducerCan, Ops
<1>6. prod.pc \in {"v", "last_v"} => \E y \in Warps : warp[y].gi_v + 1 = Issued("v")
  BY <1>2, <1>3, <1>4 DEF ProducerCan, Ops
<1> QED BY <1>1, <1>5, <1>6 DEF Placed

\* Blocks by tile and number: what follows one, and where an actor is k rounds in all behind
\* or level with the i rounds of another.
Follows(t, n, u, m) == IF n + 1 < Ls[t] THEN u = t /\ m = n + 1 ELSE u = t + 1 /\ m = 0
Between(k, i, t, n, u, m) ==
    /\ i \in Nat /\ k \in {i, i + 1}
    /\ k = i => u = t /\ m = n
    /\ k = i + 1 => Follows(t, n, u, m)

\* The blocks of K and of V that a stuck warp releases next.
KTile(w) == w.tile + One(w.pc \in {"last_v", "store"})
KBlock(w) == IF w.pc \in {"k_full", "turn", "v_full"} THEN w.n ELSE 0
VTile(w) == w.tile + One(w.pc = "store")
VBlock(w) == IF w.pc = "last_v" THEN Ls[w.tile] - 1 ELSE IF KBlock(w) = 0 THEN 0 ELSE KBlock(w) - 1

\* The blocks a stuck producer stages next.
Within == prod.pc = "k" \/ (prod.pc = "v" /\ prod.n + 1 < Ls[prod.tile])
StageTile == IF Within THEN prod.tile ELSE prod.tile + 1
StageBlock == IF prod.pc = "k" THEN prod.n ELSE IF Within THEN prod.n + 1 ELSE 0
StageV == IF prod.pc = "last_v" \/ prod.n = 0 THEN prod.n ELSE prod.n - 1

StuckIn(w) ==
    /\ KTile(w) \in Nat /\ KBlock(w) \in Nat /\ KBlock(w) < Ls[KTile(w)]
    /\ VTile(w) \in Nat /\ VBlock(w) \in Nat /\ VBlock(w) < Ls[VTile(w)]
    /\ Between(Issued("k"), w.gi_k, KTile(w), KBlock(w), StageTile, StageBlock)
    /\ Between(Issued("v"), w.gi_v, VTile(w), VBlock(w), prod.tile, StageV)

LEMMA SuccFollows ==
    ASSUME Ls \in [Nat -> Nat \ {0}], NEW t \in Nat, NEW n \in Nat, NEW u \in Nat, NEW m \in Nat,
           <<u, m>> = Succ(<<t, n>>, Ls)
    PROVE  Follows(t, n, u, m)
<1>1. Succ(<<t, n>>, Ls) = IF n + 1 < Ls[t] THEN <<t, n + 1>> ELSE <<t + 1, 0>>
  BY DEF Succ
<1> QED BY <1>1 DEF Follows

LEMMA StuckCoords ==
    ASSUME Still, NEW x \in Warps
    PROVE  StuckIn(warp[x])
<1> DEFINE w == warp[x]
<1>1. StuckAt(w, Issued("k"), Issued("v")) /\ Ls \in [Nat -> Nat \ {0}]
  BY StuckWarp, StuckProducer
<1>2. /\ prod.pc \in {"k", "v", "last_v"} /\ prod.tile \in Nat /\ prod.n \in Nat
      /\ StageTile \in Nat /\ StageBlock \in Nat /\ StageV \in Nat
  BY StuckProducer DEF StageTile, StageBlock, StageV
<1> HIDE DEF w
<1>3. /\ w.pc \in {"q", "q_full", "k_full", "turn", "v_full", "last_v", "store"}
      /\ w.n \in Nat /\ w.tile \in Nat /\ w.gi_k \in Nat /\ w.gi_v \in Nat
      /\ w.pc \in {"k_full", "turn", "v_full"} => w.n < Ls[w.tile]
      /\ w.pc = "last_v" => w.n = Ls[w.tile]
      /\ Ls[w.tile] \in Nat \ {0} /\ Ls[w.tile + 1] \in Nat \ {0}
  BY <1>1 DEF StuckAt
<1>4. /\ KTile(w) \in Nat /\ KBlock(w) \in Nat /\ KBlock(w) < Ls[KTile(w)]
      /\ VTile(w) \in Nat /\ VBlock(w) \in Nat /\ VBlock(w) < Ls[VTile(w)]
  BY <1>3 DEF KTile, KBlock, VTile, VBlock, One
<1>5. NextK(w, Ls) = <<KTile(w), KBlock(w)>> /\ NextV(w) = <<VTile(w), VBlock(w)>>
  BY <1>3 DEF KTile, KBlock, VTile, VBlock, One, NextK, NextV, Fetching, Scoring, Ending
<1>6. StagedK(prod, Ls) = <<StageTile, StageBlock>> /\ StagedV(prod) = <<prod.tile, StageV>>
  <2>1. Succ(<<prod.tile, prod.n>>, Ls) =
          IF prod.n + 1 < Ls[prod.tile] THEN <<prod.tile, prod.n + 1>> ELSE <<prod.tile + 1, 0>>
    BY DEF Succ
  <2>2. StagedK(prod, Ls) = <<StageTile, StageBlock>>
    <3>1. CASE prod.pc = "v" /\ prod.n + 1 < Ls[prod.tile]
      BY <2>1, <3>1 DEF StagedK, StageTile, StageBlock, Within
    <3>2. CASE prod.pc = "v" /\ ~(prod.n + 1 < Ls[prod.tile])
      BY <2>1, <3>2 DEF StagedK, StageTile, StageBlock, Within
    <3>3. CASE prod.pc = "k"
      BY <3>3 DEF StagedK, StageTile, StageBlock, Within
    <3>4. CASE prod.pc = "last_v"
      BY <3>4 DEF StagedK, StageTile, StageBlock, Within
    <3> QED BY <1>2, <3>1, <3>2, <3>3, <3>4
  <2>3. StagedV(prod) = <<prod.tile, StageV>>
    BY DEF StagedV, StageV
  <2> QED BY <2>2, <2>3
<1>7. Between(Issued("k"), w.gi_k, KTile(w), KBlock(w), StageTile, StageBlock)
  <2>1. /\ Issued("k") \in {w.gi_k, w.gi_k + 1}
        /\ Issued("k") = w.gi_k =>
             <<StageTile, StageBlock>> = <<KTile(w), KBlock(w)>>
        /\ Issued("k") = w.gi_k + 1 =>
             <<StageTile, StageBlock>> = Succ(<<KTile(w), KBlock(w)>>, Ls)
    BY <1>1, <1>5, <1>6 DEF StuckAt
  <2>2. Issued("k") = w.gi_k + 1 => Follows(KTile(w), KBlock(w), StageTile, StageBlock)
    BY <1>1, <1>2, <1>4, <2>1, SuccFollows
  <2>3. Issued("k") = w.gi_k => StageTile = KTile(w) /\ StageBlock = KBlock(w)
    BY <2>1
  <2> QED BY <1>3, <2>1, <2>2, <2>3 DEF Between
<1>8. Between(Issued("v"), w.gi_v, VTile(w), VBlock(w), prod.tile, StageV)
  <2>1. /\ Issued("v") \in {w.gi_v, w.gi_v + 1}
        /\ Issued("v") = w.gi_v => <<prod.tile, StageV>> = <<VTile(w), VBlock(w)>>
        /\ Issued("v") = w.gi_v + 1 =>
             <<prod.tile, StageV>> = Succ(<<VTile(w), VBlock(w)>>, Ls)
    BY <1>1, <1>5, <1>6 DEF StuckAt
  <2>2. Issued("v") = w.gi_v + 1 => Follows(VTile(w), VBlock(w), prod.tile, StageV)
    BY <1>1, <1>2, <1>4, <2>1, SuccFollows
  <2>3. Issued("v") = w.gi_v => prod.tile = VTile(w) /\ StageV = VBlock(w)
    BY <2>1
  <2> QED BY <1>3, <2>1, <2>2, <2>3 DEF Between
<1> QED BY <1>4, <1>7, <1>8 DEF StuckIn, w

\* Two stuck warps with as many rounds of K behind them are at the same block, and one
\* more round is one more block.
LEMMA InStep ==
    ASSUME Still, NEW x \in Warps, NEW y \in Warps
    PROVE  LET a == warp[x]
               b == warp[y]
           IN /\ a.gi_k \in Nat /\ b.gi_k \in Nat /\ b.gi_k <= a.gi_k + 1
              /\ b.gi_k = a.gi_k => KTile(b) = KTile(a) /\ KBlock(b) = KBlock(a)
              /\ b.gi_k = a.gi_k + 1 => Follows(KTile(a), KBlock(a), KTile(b), KBlock(b))
<1> DEFINE a == warp[x]
           b == warp[y]
<1>1. StuckIn(a) /\ StuckIn(b)
  BY StuckCoords
<1>2. \A t \in Nat : Ls[t] \in Nat
  BY StuckProducer
<1> HIDE DEF a, b
<1>3. /\ a.gi_k \in Nat /\ b.gi_k \in Nat /\ b.gi_k <= a.gi_k + 1
      /\ b.gi_k = a.gi_k + 1 => Follows(KTile(a), KBlock(a), KTile(b), KBlock(b))
  BY <1>1 DEF StuckIn, Between
<1>4. b.gi_k = a.gi_k => KTile(b) = KTile(a) /\ KBlock(b) = KBlock(a)
  BY <1>1, <1>2 DEF StuckIn, Between, Follows
<1> QED BY <1>3, <1>4 DEF a, b

\* The V a stuck warp has yet to release is that of the block before, but at the last V.
LEMMA BlockBefore ==
    ASSUME NEW w
    PROVE  /\ VBlock(w) = IF w.pc = "last_v" THEN Ls[w.tile] - 1
                          ELSE IF KBlock(w) = 0 THEN 0 ELSE KBlock(w) - 1
           /\ w.pc # "last_v" => VTile(w) = KTile(w)
           /\ w.pc = "last_v" => VTile(w) = w.tile + 0 /\ KTile(w) = w.tile + 1 /\ KBlock(w) = 0
BY DEF VTile, VBlock, KTile, KBlock, One

\* The producer is never stuck at a V within a tile: who has yet to release the V before it
\* has not taken the K it already staged, and is not stuck.
LEMMA NotAtV ==
    ASSUME Still
    PROVE  prod.pc # "v"
<1> SUFFICES ASSUME prod.pc = "v" PROVE FALSE
  OBVIOUS
<1> DEFINE t == prod.tile
           n == prod.n
<1>1. t \in Nat /\ n \in Nat /\ n > 0 /\ n < Ls[t] /\ \A u \in Nat : Ls[u] \in Nat \ {0}
  BY StuckProducer
<1>2. PICK y \in Warps : warp[y].gi_v + 1 = Issued("v")
  BY StuckProducer
<1> DEFINE w == warp[y]
<1>3. StuckIn(w) /\ w.pc # "last_v"
  BY <1>2, StuckCoords, StuckWarp DEF StuckAt
<1> HIDE DEF w
<1>4. Follows(VTile(w), VBlock(w), t, n - 1)
  BY <1>1, <1>2, <1>3 DEF StuckIn, Between, StageV, w
<1>5. Follows(t, n, StageTile, StageBlock)
  BY <1>1 DEF StageTile, StageBlock, Within, Follows
<1> HIDE DEF t, n
<1>6. \/ KTile(w) = StageTile /\ KBlock(w) = StageBlock
      \/ Follows(KTile(w), KBlock(w), StageTile, StageBlock)
  BY <1>3 DEF StuckIn, Between
<1>7. /\ VTile(w) = KTile(w) /\ VBlock(w) = IF KBlock(w) = 0 THEN 0 ELSE KBlock(w) - 1
      /\ KTile(w) \in Nat /\ KBlock(w) \in Nat /\ KBlock(w) < Ls[KTile(w)]
  BY <1>3, BlockBefore DEF StuckIn
<1> DEFINE u == KTile(w)
           m == KBlock(w)
<1>8. /\ u \in Nat /\ m \in Nat /\ m < Ls[u]
      /\ Follows(u, IF m = 0 THEN 0 ELSE m - 1, t, n - 1)
      /\ (u = StageTile /\ m = StageBlock) \/ Follows(u, m, StageTile, StageBlock)
  BY <1>4, <1>6, <1>7
<1> HIDE DEF u, m
<1>9. (u = t /\ m = n) \/ Follows(t, n, u, m)
  BY <1>1, <1>5, <1>8 DEF Follows
<1> QED BY <1>1, <1>8, <1>9 DEF Follows

\* A warp that waits for a V within a tile waits for the one the producer staged last.
LEMMA NobodyAtVFull ==
    ASSUME Still, NEW x \in Warps
    PROVE  warp[x].pc # "v_full"
<1> SUFFICES ASSUME warp[x].pc = "v_full" PROVE FALSE
  OBVIOUS
<1> DEFINE w == warp[x]
           t == prod.tile
           n == prod.n
<1>1. /\ prod.pc \in {"k", "last_v"} /\ t \in Nat /\ n \in Nat
      /\ \A u \in Nat : Ls[u] \in Nat \ {0}
      /\ prod.pc = "last_v" => n + 1 = Ls[t]
  BY StuckProducer, NotAtV
<1>2. /\ StuckIn(w) /\ w.pc = "v_full" /\ w.n # 0 /\ w.n \in Nat /\ w.n < Ls[w.tile]
      /\ w.gi_k + 1 = Issued("k") /\ w.gi_v = Issued("v") /\ w.tile \in Nat
  BY StuckCoords, StuckWarp DEF StuckAt
<1> HIDE DEF w
<1>3. /\ KTile(w) = w.tile /\ VTile(w) = w.tile /\ KBlock(w) = w.n /\ VBlock(w) = w.n - 1
  BY <1>2 DEF KTile, KBlock, VTile, VBlock, One
<1>4. Follows(w.tile, w.n, StageTile, StageBlock)
  BY <1>2, <1>3 DEF StuckIn, Between
<1>5. w.tile = t /\ w.n - 1 = StageV
  BY <1>2, <1>3 DEF StuckIn, Between
<1>6. /\ StageTile = (IF prod.pc = "k" THEN t ELSE t + 1)
      /\ StageBlock = (IF prod.pc = "k" THEN n ELSE 0)
      /\ StageV = (IF prod.pc = "last_v" \/ n = 0 THEN n ELSE n - 1)
  BY <1>1 DEF StageTile, StageBlock, StageV, Within
<1> HIDE DEF t, n
<1>7. CASE prod.pc = "k"
  <2>1. Follows(t, w.n, t, n)
    BY <1>4, <1>5, <1>6, <1>7
  <2>2. n = w.n + 1
    BY <1>1, <1>2, <2>1 DEF Follows
  <2> QED BY <1>1, <1>2, <1>5, <1>6, <1>7, <2>2
<1>8. CASE prod.pc = "last_v"
  <2>1. w.n - 1 = n /\ n + 1 = Ls[t] /\ w.n < Ls[t]
    BY <1>1, <1>2, <1>5, <1>6, <1>8
  <2> QED BY <1>1, <1>2, <2>1
<1> QED BY <1>1, <1>7, <1>8

\* While the producer waits to stage the last V of a tile, somebody awaits the turn for
\* the last block.
LEMMA LastVWaitsFor ==
    ASSUME Still, prod.pc = "last_v"
    PROVE  \E y \in Warps : warp[y].pc = "turn" /\ warp[y].gi_k + 1 = Issued("k")
<1> DEFINE t == prod.tile
           n == prod.n
<1>1. /\ t \in Nat /\ n \in Nat /\ n + 1 = Ls[t] /\ \A u \in Nat : Ls[u] \in Nat \ {0}
  BY StuckProducer
<1>2. PICK y \in Warps : warp[y].gi_v + 1 = Issued("v")
  BY StuckProducer
<1> DEFINE w == warp[y]
           u == KTile(w)
           m == KBlock(w)
<1>3. /\ StuckIn(w) /\ w.pc # "last_v" /\ w.pc # "v_full"
      /\ w.pc \in {"q", "q_full", "k_full", "turn", "store"}
      /\ w.pc = "k_full" => w.gi_k = Issued("k")
  BY <1>2, StuckCoords, StuckWarp DEF StuckAt
<1>4. w.gi_v + 1 = Issued("v")
  BY <1>2
<1> HIDE DEF w
<1>5. StageTile = t + 1 /\ StageBlock = 0 /\ StageV = n
  BY DEF StageTile, StageBlock, StageV, Within
<1>6. /\ u \in Nat /\ m \in Nat /\ VTile(w) = u
      /\ VBlock(w) = IF m = 0 THEN 0 ELSE m - 1
      /\ m # 0 => w.pc \in {"k_full", "turn"}
  BY <1>3, BlockBefore DEF StuckIn, KBlock
<1>7. Follows(u, IF m = 0 THEN 0 ELSE m - 1, t, n)
  BY <1>3, <1>4, <1>5, <1>6 DEF StuckIn, Between
<1>8. /\ w.gi_k \in Nat /\ Issued("k") \in {w.gi_k, w.gi_k + 1}
      /\ Issued("k") = w.gi_k => u = t + 1 /\ m = 0
      /\ Issued("k") = w.gi_k + 1 => Follows(u, m, t + 1, 0)
  BY <1>3, <1>5 DEF StuckIn, Between
<1> HIDE DEF t, n, u, m
<1>9. Issued("k") # w.gi_k
  BY <1>1, <1>6, <1>7, <1>8 DEF Follows
<1>10. m # 0
  BY <1>1, <1>6, <1>7, <1>8, <1>9 DEF Follows
<1> QED BY <1>3, <1>6, <1>8, <1>9, <1>10 DEF w

\* A warp that waits for the last V of a tile waits for the producer at that V.
LEMMA LastV ==
    ASSUME Still, NEW x \in Warps, warp[x].pc = "last_v"
    PROVE  prod.pc = "last_v" /\ warp[x].gi_k = Issued("k")
<1> DEFINE w == warp[x]
           t == prod.tile
           n == prod.n
<1>1. /\ prod.pc \in {"k", "last_v"} /\ t \in Nat /\ n \in Nat
      /\ \A u \in Nat : Ls[u] \in Nat \ {0}
      /\ prod.pc = "k" => n < Ls[t]
  BY StuckProducer, NotAtV
<1>2. StuckIn(w) /\ w.pc = "last_v" /\ w.gi_v = Issued("v") /\ w.tile \in Nat
  BY StuckCoords, StuckWarp DEF StuckAt
<1> HIDE DEF w
<1>3. /\ KTile(w) = w.tile + 1 /\ VTile(w) = w.tile /\ KBlock(w) = 0
      /\ VBlock(w) = Ls[w.tile] - 1
  BY <1>2 DEF KTile, KBlock, VTile, VBlock, One
<1>4. /\ w.tile = t /\ StageV = Ls[t] - 1
      /\ w.gi_k \in Nat /\ Issued("k") \in {w.gi_k, w.gi_k + 1}
      /\ Issued("k") = w.gi_k => StageTile = w.tile + 1 /\ StageBlock = 0
      /\ Issued("k") = w.gi_k + 1 => Follows(w.tile + 1, 0, StageTile, StageBlock)
  BY <1>2, <1>3 DEF StuckIn, Between
<1>5. /\ StageTile = (IF prod.pc = "k" THEN t ELSE t + 1)
      /\ StageBlock = (IF prod.pc = "k" THEN n ELSE 0)
  BY <1>1 DEF StageTile, StageBlock, Within
<1> HIDE DEF t, n
<1>6. prod.pc = "last_v"
  BY <1>1, <1>4, <1>5 DEF Follows
<1>7. Issued("k") # w.gi_k + 1
  BY <1>1, <1>4, <1>5, <1>6 DEF Follows
<1> QED BY <1>4, <1>6, <1>7 DEF w

\* What stuck warps of a group wait for in one another.
LEMMA StuckTile ==
    ASSUME Still, NEW x \in Warps
    PROVE  LET w == warp[x]
           IN /\ w.pc \in {"q", "q_full", "k_full", "turn", "last_v", "store"}
              /\ w.tile \in Nat /\ NumTiles \in Nat /\ group(x) \in {1, 2}
              /\ w.pc = "q" <=> w.tile = NumTiles
              /\ w.tile <= NumTiles /\ StuckIn(w) /\ ~WarpCan(x)
<1>1. group(x) \in {1, 2} /\ x \in members(group(x)) /\ GroupTypes(x)
  BY Groups, GroupType DEF Still, AllInv, IInv
<1>2. Begun(warp[x], q_full[group(x)], named[group(x) + 2])
  BY <1>1 DEF Still, AllInv, GroupInv
<1>3. ~WarpCan(x)
  BY DEF Still, SomeoneCan
<1>4. /\ warp[x].pc \in {"q", "q_full", "k_full", "turn", "v_full", "last_v", "store"}
      /\ warp[x].pc = "q" => warp[x].tile = NumTiles
  BY StuckWarp DEF StuckAt
<1>5. warp[x].tile \in Nat /\ NumTiles \in Nat
  BY <1>1 DEF GroupTypes
<1>6. warp[x].tile <= NumTiles /\ (warp[x].pc # "q" => warp[x].tile < NumTiles)
  BY <1>2 DEF Begun
<1> QED BY <1>1, <1>3, <1>4, <1>5, <1>6, NobodyAtVFull, StuckCoords

LEMMA StoreWaitsFor ==
    ASSUME Still, NEW x \in Warps, warp[x].pc = "store"
    PROVE  \E u \in Warps :
             /\ group(u) = group(x) /\ warp[u].pc # "q"
             /\ \/ warp[u].tile = warp[x].tile /\ warp[u].pc # "store"
                \/ warp[u].tile + 1 = warp[x].tile /\ warp[u].pc = "store"
<1> DEFINE g == group(x)
           b == named[g + 2]
           w == warp[x]
<1>1. /\ g \in {1, 2} /\ x \in members(g) /\ TypeOK /\ ~WarpCan(x) /\ GroupInv(g)
      /\ w.tile \in Nat /\ NumTiles \in Nat /\ w.tile < NumTiles
  BY Groups, StuckTile DEF Still, AllInv, IInv
<1>2. b.phase = w.gen
  BY <1>1 DEF WarpCan
<1>3. w.gen = w.tile
  BY <1>1 DEF GroupInv, Begun
<1>4. PICK u \in members(g) : Stores[u] = b.phase
  BY <1>1 DEF GroupInv, LevelOf
<1>5. u \in Warps /\ group(u) = g
  BY <1>1, GroupFacts
<1>6. /\ Stores[u] = warp[u].tile + One(warp[u].pc = "store") /\ warp[u].tile \in Nat
      /\ warp[u].pc = "q" <=> warp[u].tile = NumTiles
  BY <1>1, <1>5, GroupType, StuckTile DEF GroupTypes
<1>7. warp[u].tile + One(warp[u].pc = "store") = w.tile
  BY <1>2, <1>3, <1>4, <1>6
<1> HIDE DEF w
<1>8. \/ warp[u].tile = w.tile /\ warp[u].pc # "store"
      \/ warp[u].tile + 1 = w.tile /\ warp[u].pc = "store"
  BY <1>6, <1>7 DEF One
<1>9. warp[u].pc # "q"
  BY <1>1, <1>6, <1>8
<1> QED BY <1>5, <1>8, <1>9 DEF w

LEMMA QWaitsFor ==
    ASSUME Still, NEW x \in Warps, warp[x].pc = "q_full"
    PROVE  \E u \in Warps :
             /\ group(u) = group(x) /\ warp[u].pc # "q" /\ warp[u].tile + 1 = warp[x].tile
<1> DEFINE g == group(x)
           b == q_full[g]
           w == warp[x]
<1>1. /\ g \in {1, 2} /\ x \in members(g) /\ TypeOK /\ ~WarpCan(x) /\ GroupInv(g)
      /\ w.tile \in Nat /\ NumTiles \in Nat /\ w.tile < NumTiles /\ w.gi_q \in Nat
  BY Groups, StuckTile, GroupType DEF Still, AllInv, IInv, GroupTypes
<1>2. b.phase \in Nat /\ b.phase % 2 = w.gi_q % 2
  BY <1>1, GroupBarriers DEF WarpCan, Passes
<1>3. w.gi_q = w.tile
  BY <1>1 DEF GroupInv, Begun, Fetching, One
<1>4. Asked[x] = w.gi_q + 1 /\ Asked[x] \in {b.phase, b.phase + 1} /\ w.gi_q <= b.phase
  <2>1. Asked[x] = w.gi_q + 1
    BY <1>1, GroupType DEF GroupTypes, One
  <2>2. LevelOf(members(g), b, Asked) /\ Begun(w, b, named[g + 2])
    BY <1>1 DEF GroupInv
  <2> QED BY <1>1, <2>1, <2>2 DEF LevelOf, Begun
<1>5. b.phase = w.tile
  <2> HIDE DEF b, w
  <2> QED BY <1>1, <1>2, <1>3, <1>4
<1>6. PICK u \in members(g) : Asked[u] = b.phase
  BY <1>1 DEF GroupInv, LevelOf
<1>7. u \in Warps /\ group(u) = g
  BY <1>1, GroupFacts
<1>8. /\ Asked[u] = warp[u].gi_q + One(warp[u].pc = "q_full") /\ warp[u].tile \in Nat
      /\ warp[u].gi_q = warp[u].tile + One(warp[u].pc \notin Fetching)
      /\ warp[u].pc = "q" <=> warp[u].tile = NumTiles
  BY <1>1, <1>6, <1>7, GroupType, StuckTile DEF GroupTypes, GroupInv, Begun
<1> HIDE DEF w
<1>9. warp[u].pc # "q"
  BY <1>1, <1>5, <1>6, <1>8 DEF One, Fetching
<1>10. warp[u].tile + 1 = w.tile
  BY <1>5, <1>6, <1>8, <1>9 DEF One, Fetching
<1> QED BY <1>7, <1>9, <1>10 DEF w

LEMMA TurnWaitsFor ==
    ASSUME Still, NEW x \in Warps, warp[x].pc = "turn"
    PROVE  \E z \in Warps :
             \/ /\ warp[z].gi_k = warp[x].gi_k
                /\ \/ group(z) = group(x) /\ warp[z].pc # "turn"
                   \/ group(z) < group(x)
             \/ warp[z].gi_k + 1 = warp[x].gi_k
<1> DEFINE g == group(x)
           b == named[g]
           w == warp[x]
<1>1. g \in {1, 2} /\ x \in members(g) /\ TypeOK /\ ~WarpCan(x) /\ TurnInv(g)
  BY Groups, StuckTile DEF Still, AllInv, IInv
<1>2. b.phase = w.gi_k
  BY <1>1 DEF WarpCan, TurnInv, Turned
<1>3. PICK z \in Warps : Turns(g)[z] = b.phase
  BY <1>1 DEF TurnInv, Level, LevelOf
<1>4. /\ Trn(z, warp[z], g) = w.gi_k /\ w.gi_k \in Nat /\ warp[z].gi_k \in Nat
      /\ group(z) \in {1, 2}
      /\ warp[z].pc \in {"q", "q_full", "k_full", "turn", "last_v", "store"}
  BY <1>2, <1>3, InStep, StuckTile DEF Turns
<1> HIDE DEF g, w
<1>5. CASE group(z) = g
  <2>1. warp[z].gi_k + One(warp[z].pc = "turn") = w.gi_k
    BY <1>4, <1>5 DEF Trn, One, Inside, Passed, Handed
  <2> QED BY <1>4, <1>5, <2>1 DEF One, g, w
<1>6. CASE group(z) # g
  <2>1. warp[z].gi_k + One(group(z) = 2 /\ g = 1) = w.gi_k
    BY <1>4, <1>6 DEF Trn, One, Handed
  <2>2. CASE g = 1
    BY <1>1, <1>4, <1>6, <2>1, <2>2 DEF One, g, w
  <2>3. CASE g = 2
    BY <1>1, <1>4, <1>6, <2>1, <2>3 DEF One, g, w
  <2> QED BY <1>1, <2>2, <2>3
<1> QED BY <1>5, <1>6

\* How far a stuck warp has come: its rounds of K, and in a round from the last V of the tile
\* before to the turn.
Stage(w) ==
    IF w.pc = "last_v" THEN 0 ELSE IF w.pc = "store" THEN 1
    ELSE IF w.pc = "q_full" THEN 2 ELSE IF w.pc = "k_full" THEN 3 ELSE 4
Rank(x) == 10 * warp[x].gi_k + 2 * Stage(warp[x]) + group(x)

LEMMA RankLess ==
    ASSUME Still, NEW x \in Warps, NEW y \in Warps
    PROVE  /\ Rank(x) \in Nat
           /\ warp[y].gi_k < warp[x].gi_k => Rank(y) < Rank(x)
           /\ warp[y].gi_k = warp[x].gi_k =>
                /\ Stage(warp[y]) < Stage(warp[x]) => Rank(y) < Rank(x)
                /\ Stage(warp[y]) = Stage(warp[x]) /\ group(y) < group(x) => Rank(y) < Rank(x)
<1>1. /\ warp[x].gi_k \in Nat /\ warp[y].gi_k \in Nat
      /\ Stage(warp[x]) \in 0 .. 4 /\ Stage(warp[y]) \in 0 .. 4
      /\ group(x) \in {1, 2} /\ group(y) \in {1, 2}
  BY InStep, Groups DEF Stage
<1> QED BY <1>1 DEF Rank

\* A warp not done that has come less far: who is stuck waits for it.
Lower(x) == \E y \in Warps : warp[y].pc # "q" /\ Rank(y) < Rank(x)

\* Of a warp a tile behind, or in the tile that the other ends.
LEMMA TileBehind ==
    ASSUME Still, NEW x \in Warps, NEW u \in Warps, KBlock(warp[x]) = 0,
           \/ KTile(warp[u]) < KTile(warp[x])
           \/ KTile(warp[u]) = KTile(warp[x]) /\ KBlock(warp[u]) = 0
    PROVE  warp[u].gi_k <= warp[x].gi_k
<1> DEFINE a == warp[x]
           b == warp[u]
<1>1. /\ a.gi_k \in Nat /\ b.gi_k \in Nat /\ b.gi_k <= a.gi_k + 1
      /\ b.gi_k = a.gi_k + 1 => Follows(KTile(a), KBlock(a), KTile(b), KBlock(b))
  BY InStep
<1>2. KTile(a) \in Nat /\ KTile(b) \in Nat
  BY StuckCoords DEF StuckIn
<1> HIDE DEF a, b
<1>3. ~Follows(KTile(a), 0, KTile(b), KBlock(b))
  BY <1>2 DEF Follows, a, b
<1> QED BY <1>1, <1>3 DEF a, b

LEMMA BehindLastV ==
    ASSUME Still, NEW x \in Warps, warp[x].pc = "last_v"
    PROVE  Lower(x)
<1>1. prod.pc = "last_v" /\ warp[x].gi_k = Issued("k")
  BY LastV
<1>2. PICK y \in Warps : warp[y].pc = "turn" /\ warp[y].gi_k + 1 = Issued("k")
  BY <1>1, LastVWaitsFor
<1>3. warp[y].gi_k < warp[x].gi_k
  BY <1>1, <1>2, InStep
<1> QED BY <1>2, <1>3, RankLess DEF Lower

LEMMA BehindStore ==
    ASSUME Still, NEW x \in Warps, warp[x].pc = "store"
    PROVE  Lower(x)
<1>1. PICK u \in Warps :
        /\ group(u) = group(x) /\ warp[u].pc # "q"
        /\ \/ warp[u].tile = warp[x].tile /\ warp[u].pc # "store"
           \/ warp[u].tile + 1 = warp[x].tile /\ warp[u].pc = "store"
  BY StoreWaitsFor
<1> DEFINE a == warp[x]
           b == warp[u]
<1>2. /\ a.tile \in Nat /\ b.tile \in Nat /\ StuckIn(a) /\ StuckIn(b)
      /\ b.pc \in {"q_full", "k_full", "turn", "last_v", "store"}
  BY <1>1, StuckTile
<1>3. /\ a.gi_k \in Nat /\ b.gi_k \in Nat
      /\ b.gi_k = a.gi_k => KTile(b) = KTile(a) /\ KBlock(b) = KBlock(a)
  BY InStep
<1>4. a.pc = "store" /\ KTile(a) = a.tile + 1 /\ KBlock(a) = 0
  BY DEF KTile, KBlock, One
<1> HIDE DEF a, b
<1>5. /\ KTile(b) = b.tile + One(b.pc \in {"last_v", "store"})
      /\ b.pc = "last_v" => KBlock(b) = 0
  BY DEF KTile, KBlock
<1>6. CASE b.pc = "last_v"
  <2>1. b.gi_k <= a.gi_k
    BY <1>1, <1>2, <1>4, <1>5, <1>6, TileBehind DEF One, a, b
  <2>2. Stage(b) < Stage(a)
    BY <1>4, <1>6 DEF Stage
  <2> QED BY <1>1, <1>3, <2>1, <2>2, RankLess DEF Lower, a, b
<1>7. CASE b.pc # "last_v"
  <2>1. KTile(b) < KTile(a)
    BY <1>1, <1>2, <1>4, <1>5, <1>7 DEF One, a, b
  <2>2. b.gi_k <= a.gi_k
    BY <1>4, <2>1, TileBehind DEF a, b
  <2>3. KTile(b) # KTile(a)
    BY <1>2, <1>4, <2>1 DEF StuckIn
  <2>4. b.gi_k < a.gi_k
    BY <1>3, <2>2, <2>3
  <2> QED BY <1>1, <2>4, RankLess DEF Lower, a, b
<1> QED BY <1>6, <1>7

LEMMA BehindQ ==
    ASSUME Still, NEW x \in Warps, warp[x].pc = "q_full"
    PROVE  Lower(x)
<1>1. PICK u \in Warps :
        group(u) = group(x) /\ warp[u].pc # "q" /\ warp[u].tile + 1 = warp[x].tile
  BY QWaitsFor
<1> DEFINE a == warp[x]
           b == warp[u]
<1>2. /\ a.tile \in Nat /\ b.tile \in Nat /\ StuckIn(a) /\ StuckIn(b)
      /\ b.pc \in {"q_full", "k_full", "turn", "last_v", "store"}
  BY <1>1, StuckTile
<1>3. /\ a.gi_k \in Nat /\ b.gi_k \in Nat
      /\ b.gi_k = a.gi_k => KTile(b) = KTile(a) /\ KBlock(b) = KBlock(a)
  BY InStep
<1>4. a.pc = "q_full" /\ KTile(a) = a.tile /\ KBlock(a) = 0 /\ b.tile + 1 = a.tile
  BY <1>1, <1>2 DEF KTile, KBlock, One
<1> HIDE DEF a, b
<1>5. /\ KTile(b) = b.tile + One(b.pc \in {"last_v", "store"})
      /\ b.pc \in {"last_v", "store"} => KBlock(b) = 0
  BY DEF KTile, KBlock
<1>6. CASE b.pc \in {"last_v", "store"}
  <2>1. b.gi_k <= a.gi_k
    BY <1>2, <1>4, <1>5, <1>6, TileBehind DEF One, a, b
  <2>2. Stage(b) < Stage(a)
    BY <1>4, <1>6 DEF Stage
  <2> QED BY <1>1, <1>3, <2>1, <2>2, RankLess DEF Lower, a, b
<1>7. CASE b.pc \notin {"last_v", "store"}
  <2>1. KTile(b) < KTile(a)
    BY <1>2, <1>4, <1>5, <1>7 DEF One
  <2>2. b.gi_k <= a.gi_k
    BY <1>4, <2>1, TileBehind DEF a, b
  <2>3. KTile(b) # KTile(a)
    BY <1>2, <1>4, <2>1 DEF StuckIn
  <2>4. b.gi_k < a.gi_k
    BY <1>3, <2>2, <2>3
  <2> QED BY <1>1, <2>4, RankLess DEF Lower, a, b
<1> QED BY <1>6, <1>7

\* A done warp is at the block after the last.
LEMMA DoneBlock ==
    ASSUME Still, NEW y \in Warps, warp[y].pc = "q"
    PROVE  KTile(warp[y]) = NumTiles /\ KBlock(warp[y]) = 0
<1>1. warp[y].tile = NumTiles /\ NumTiles \in Nat
  BY StuckTile
<1> QED BY <1>1 DEF KTile, KBlock, One

LEMMA BehindK ==
    ASSUME Still, NEW x \in Warps, warp[x].pc = "k_full"
    PROVE  Lower(x)
<1> DEFINE a == warp[x]
<1>1. /\ a.tile \in Nat /\ NumTiles \in Nat /\ a.tile < NumTiles /\ StuckIn(a)
      /\ a.gi_k \in Nat /\ a.gi_k = Issued("k")
  BY StuckTile, StuckWarp DEF StuckAt
<1>2. KTile(a) = a.tile
  BY <1>1 DEF KTile, One
<1> HIDE DEF a
<1>3. StageTile = a.tile
  BY <1>1, <1>2 DEF StuckIn, Between
<1>4. CASE prod.pc = "last_v"
  <2>1. PICK y \in Warps : warp[y].pc = "turn" /\ warp[y].gi_k + 1 = Issued("k")
    BY <1>4, LastVWaitsFor
  <2>2. warp[y].gi_k < warp[x].gi_k
    BY <1>1, <2>1, InStep DEF a
  <2> QED BY <2>1, <2>2, RankLess DEF Lower
<1>5. CASE prod.pc = "k"
  <2>1. prod.tile < NumTiles
    BY <1>1, <1>3, <1>5 DEF StageTile, Within
  <2>2. PICK y \in Warps : warp[y].gi_k + 1 = Issued("k")
    BY <1>5, <2>1, StuckProducer
  <2>3. Follows(KTile(warp[y]), KBlock(warp[y]), StageTile, StageBlock)
    <3>1. StuckIn(warp[y])
      BY StuckCoords
    <3> QED BY <2>2, <3>1 DEF StuckIn, Between
  <2>4. warp[y].pc # "q"
    BY <1>1, <1>3, <2>3, DoneBlock DEF Follows
  <2>5. warp[y].gi_k < warp[x].gi_k
    BY <1>1, <2>2, InStep DEF a
  <2> QED BY <2>4, <2>5, RankLess DEF Lower
<1> QED BY <1>4, <1>5, StuckProducer, NotAtV

LEMMA BehindTurn ==
    ASSUME Still, NEW x \in Warps, warp[x].pc = "turn"
    PROVE  Lower(x)
<1>1. PICK z \in Warps :
        \/ /\ warp[z].gi_k = warp[x].gi_k
           /\ \/ group(z) = group(x) /\ warp[z].pc # "turn"
              \/ group(z) < group(x)
        \/ warp[z].gi_k + 1 = warp[x].gi_k
  BY TurnWaitsFor
<1> DEFINE a == warp[x]
           b == warp[z]
<1>2. /\ a.tile \in Nat /\ NumTiles \in Nat /\ a.tile < NumTiles /\ a.pc = "turn"
      /\ b.pc \in {"q", "q_full", "k_full", "turn", "last_v", "store"}
  BY StuckTile
<1>3. /\ a.gi_k \in Nat /\ b.gi_k \in Nat
      /\ b.gi_k = a.gi_k => KTile(b) = KTile(a) /\ KBlock(b) = KBlock(a)
      /\ a.gi_k = b.gi_k + 1 => Follows(KTile(b), KBlock(b), KTile(a), KBlock(a))
  BY InStep
<1>4. b.pc = "q" => KTile(b) = NumTiles
  BY DoneBlock
<1> HIDE DEF a, b
<1>5. KTile(a) = a.tile
  BY <1>2 DEF KTile, One
<1>6. b.gi_k = a.gi_k \/ a.gi_k = b.gi_k + 1
  BY <1>1, <1>3 DEF a, b
<1>7. b.pc # "q"
  BY <1>2, <1>3, <1>4, <1>5, <1>6 DEF Follows
<1>8. Rank(z) < Rank(x)
  <2>1. CASE a.gi_k = b.gi_k + 1
    BY <1>3, <2>1, RankLess DEF a, b
  <2>2. CASE b.gi_k = a.gi_k
    <3>1. \/ group(z) = group(x) /\ b.pc # "turn"
          \/ group(z) < group(x)
      BY <1>1, <1>3, <2>2 DEF a, b
    <3>2. /\ b.pc # "turn" => Stage(b) < Stage(a)
          /\ b.pc = "turn" => Stage(b) = Stage(a)
      BY <1>2, <1>7 DEF Stage
    <3> QED BY <2>2, <3>1, <3>2, RankLess DEF a, b
  <2> QED BY <1>6, <2>1, <2>2
<1> QED BY <1>7, <1>8 DEF Lower, b

\* Who has come least far of those not done would have to wait for nobody.
LEMMA StillDone == Still => Done
<1> SUFFICES ASSUME Still, ~Done PROVE FALSE
  OBVIOUS
<1> DEFINE S == {Rank(x) : x \in {y \in Warps : warp[y].pc # "q"}}
<1>1. S \subseteq Nat /\ S # {}
  BY RankLess, StuckTile DEF Done
<1>2. PICK r \in S : \A s \in S : ~(<<s, r>> \in OpToRel(<, Nat))
  <2> HIDE DEF S
  <2>1. QED
    BY <1>1, NatLessThanWellFounded, WFMin
<1>3. \A s \in S : s < r => <<s, r>> \in OpToRel(<, Nat)
  BY <1>1 DEF OpToRel
<1>4. \A s \in S : ~(s < r)
  BY <1>2, <1>3, Zenon
<1>5. PICK x \in Warps : warp[x].pc # "q" /\ r = Rank(x)
  OBVIOUS
<1>6. Lower(x)
  BY <1>5, StuckTile, BehindLastV, BehindStore, BehindQ, BehindK, BehindTurn
<1>7. PICK y \in Warps : warp[y].pc # "q" /\ Rank(y) < Rank(x)
  BY <1>6 DEF Lower
<1>8. Rank(y) \in S
  BY <1>7
<1> QED BY <1>4, <1>5, <1>7, <1>8

\* The barriers of the kernel never bring everyone to a stop: until every warp has stored its
\* rows of the last tile, the producer can stage a block, a copy can land, or a warp can go
\* on (the producer's and the consumers' loops of gqa_fwd_ws.py, causal or not).
THEOREM NoDeadlock == Spec => [](Done \/ SomeoneCan)
<1>1. Init => GroupInv(1) /\ GroupInv(2)
  BY GroupInit
<1>2. /\ IInv /\ GroupInv(1) /\ GroupInv(2) /\ [Next]_vars
      => (GroupInv(1) /\ GroupInv(2))'
  BY GroupNext DEF IInv
<1>3. IInv /\ DataInv /\ GroupInv(1) /\ GroupInv(2) => Done \/ SomeoneCan
  BY StillDone DEF Still, AllInv
<1> QED BY <1>1, <1>2, <1>3, DataInvariant, PTL DEF Spec

=============================================================================
