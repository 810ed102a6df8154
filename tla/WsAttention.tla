------------------------------ MODULE WsAttention ------------------------------
(***************************************************************************)
(* One thread block of the persistent attention kernel                     *)
(* (tileops/kernels/attention/gqa_fwd_ws.py, causal and not): a producer   *)
(* warpgroup stages the blocks of K and of V in two slots each; two        *)
(* consumer warpgroups share every block, each for its half of the rows of *)
(* the tile.  In an iteration a consumer multiplies Q with K(n) while its  *)
(* product of the last probabilities with V(n - 1) is still under way, and *)
(* named barriers make the two consumers issue their products in turn.     *)
(*                                                                         *)
(* The four barriers of K and V count rounds, not slots: there is one for  *)
(* both slots, waited on by parity.  The matrix products are asynchronous, *)
(* those of a warp finish in order.  Rows and columns are counted in units *)
(* of half a tile, so that a causal mask falls between units.              *)
(***************************************************************************)
EXTENDS Integers, Sequences, FiniteSets

CONSTANTS Group1, Group2,   \* the warps of the consumer warpgroups
          BlockM, BlockN,   \* in units; a group has half of BlockM
          MBlocks,          \* row blocks of the sequence, an even number
          Pairs,            \* causal: the pairs of row blocks this thread block is given
          Plain,            \* not causal: the number of tiles it is given
          KBlocks           \* not causal: the key blocks of the sequence

Warps == Group1 \cup Group2

ASSUME AttentionAssumption ==
  /\ IsFiniteSet(Warps) /\ Group1 # {} /\ Group1 \cap Group2 = {}
  /\ Cardinality(Group1) = Cardinality(Group2)
  /\ {BlockM, BlockN, MBlocks, KBlocks} \subseteq Nat \ {0} /\ Plain \in Nat
  /\ MBlocks % 2 = 0 /\ BlockM % 2 = 0
  /\ Pairs \in Seq(0 .. MBlocks \div 2 - 1)

VARIABLES causal,   \* which of the two kernels
          prod,     \* the producer: its tile, block, step, and rounds of K and of V
          copies,   \* the copies on their way
          smem,     \* what the slots of K and V hold
          full, empty,   \* the barriers of K and of V
          named,    \* the named barriers: 1, 2 for the turns, 3, 4 inside a group
          q_full,   \* the barrier of each group's Q
          warp,     \* the consumer warps
          out       \* what was stored of each tile, per warp

vars == <<causal, prod, copies, smem, full, empty, named, q_full, warp, out>>

None == <<>>
CeilDiv(a, b) == (a + b - 1) \div b
-----------------------------------------------------------------------------
(* The tiles of this thread block, and their key blocks. *)

NumTiles == IF causal THEN 2 * Len(Pairs) ELSE Plain
Tiles == 0 .. NumTiles - 1

\* A pair is the k-th row block from the top and the k-th from the bottom, so that all
\* pairs take the same time.
tile_m(i) == LET pair_idx == Pairs[i \div 2 + 1]
             IN pair_idx + (i % 2) * (MBlocks - 1 - 2 * pair_idx)

loop_range(i) == IF causal THEN CeilDiv((tile_m(i) + 1) * BlockM, BlockN) ELSE KBlocks

group(x) == IF x \in Group1 THEN 1 ELSE 2
members(g) == IF g = 1 THEN Group1 ELSE Group2

\* The first row of a warp's group, and the columns of a key block.
row_base(x, i) == tile_m(i) * BlockM + (group(x) - 1) * (BlockM \div 2)
columns(n) == n * BlockN .. (n + 1) * BlockN - 1

\* The mask of the last block; the blocks before are taken whole.
masked(x, i, n) ==
  IF causal /\ n = loop_range(i) - 1 THEN {col \in columns(n) : row_base(x, i) >= col}
  ELSE columns(n)
-----------------------------------------------------------------------------
\* A barrier that "count" arrivals complete, waited on by the parity of its round.
Fresh == [phase |-> 0, arrived |-> 0]
Arrived(b, count) == IF b.arrived + 1 = count THEN [phase |-> b.phase + 1, arrived |-> 0]
                     ELSE [b EXCEPT !.arrived = @ + 1]
Passes(b, parity) == b.phase % 2 # parity

NewWarp == [pc |-> "q", tile |-> 0, n |-> 0,
            gi_q |-> 0, gi_k |-> 0, gi_v |-> 0,   \* its rounds
            gen |-> 0,        \* the round of a named barrier it waits out
            q |-> None,       \* the tile of its rows of Q
            mmas |-> <<>>,    \* products issued, oldest first
            s |-> None,       \* scores
            p |-> None,       \* probabilities, relative to the maximum of "max" blocks
            o |-> <<>>,       \* the products of p with V summed so far
            max |-> 0, scale |-> 0]  \* blocks the maximum covers, and o is relative to

Init ==
  /\ causal \in BOOLEAN
  /\ prod = [pc |-> "k", tile |-> 0, n |-> 0, gi_k |-> 0, gi_v |-> 0]
  /\ copies = {}
  /\ smem = [op \in {"k", "v"} |-> [s \in 0 .. 1 |-> None]]
  /\ full = [op \in {"k", "v"} |-> Fresh] /\ empty = [op \in {"k", "v"} |-> Fresh]
     \* Group 1 starts by giving itself the first turn on behalf of group 2.
  /\ named = [b \in 1 .. 4 |-> IF b = 1 THEN [phase |-> 0, arrived |-> Cardinality(Group1)]
                               ELSE Fresh]
  /\ q_full = [g \in 1 .. 2 |-> Fresh]
  /\ warp = [x \in Warps |-> NewWarp]
  /\ out = [i \in Tiles |-> [x \in Warps |-> None]]
-----------------------------------------------------------------------------
(* The producer.  Its threads wait and arrive together. *)

\* A copy into a slot; until it lands nobody knows what the slot holds.
Copy(op, slot, block) ==
  /\ smem' = [smem EXCEPT ![op][slot] = None]
  /\ copies' = copies \cup {[op |-> op, slot |-> slot, block |-> block]}
  /\ UNCHANGED <<causal, full, empty, named, q_full, warp, out>>

\* The next block of K, or the last V of the tile.
AfterK(p) == IF p.n + 1 < loop_range(p.tile) THEN [p EXCEPT !.n = @ + 1, !.pc = "k"]
             ELSE [p EXCEPT !.pc = "last_v"]

\* Bug: the wait takes the parity of a barrier per slot, but there is one for both.
LoadKSlotParity ==
  /\ prod.tile < NumTiles /\ prod.pc = "k"
  /\ Passes(empty["k"], (prod.gi_k \div 2 + 1) % 2)
  /\ Copy("k", prod.gi_k % 2, <<prod.tile, prod.n>>)
  /\ LET p == [prod EXCEPT !.gi_k = @ + 1]
     IN prod' = IF prod.n > 0 THEN [p EXCEPT !.pc = "v"] ELSE AfterK(p)

LoadK ==
  /\ prod.tile < NumTiles /\ prod.pc = "k"
  /\ Passes(empty["k"], (prod.gi_k + 1) % 2)
  /\ Copy("k", prod.gi_k % 2, <<prod.tile, prod.n>>)
  /\ LET p == [prod EXCEPT !.gi_k = @ + 1]
     IN prod' = IF prod.n > 0 THEN [p EXCEPT !.pc = "v"] ELSE AfterK(p)

\* V lags a block behind K.
LoadV ==
  /\ prod.pc = "v"
  /\ Passes(empty["v"], (prod.gi_v + 1) % 2)
  /\ Copy("v", prod.gi_v % 2, <<prod.tile, prod.n - 1>>)
  /\ prod' = AfterK([prod EXCEPT !.gi_v = @ + 1])

LoadLastV ==
  /\ prod.pc = "last_v"
  /\ Passes(empty["v"], (prod.gi_v + 1) % 2)
  /\ Copy("v", prod.gi_v % 2, <<prod.tile, loop_range(prod.tile) - 1>>)
  /\ prod' = [prod EXCEPT !.gi_v = @ + 1, !.tile = @ + 1, !.n = 0, !.pc = "k"]

\* The producer arrived when it issued the copy: the round is complete as it lands.
Land(c) ==
  /\ smem' = [smem EXCEPT ![c.op][c.slot] = c.block]
  /\ full' = [full EXCEPT ![c.op] = Arrived(@, 1)]
  /\ copies' = copies \ {c}
  /\ UNCHANGED <<causal, prod, empty, named, q_full, warp, out>>
-----------------------------------------------------------------------------
(* A consumer warp. *)

\* x goes on as the record w.
Becomes(x, from, w) ==
  /\ warp[x].pc = from /\ warp[x].tile < NumTiles
  /\ warp' = [warp EXCEPT ![x] = w]
  /\ UNCHANGED <<causal, prod, copies, smem, full, out>>

LoadQ(x) ==
  /\ Becomes(x, "q", [warp[x] EXCEPT !.pc = "q_full"])
  /\ q_full' = [q_full EXCEPT ![group(x)] = Arrived(@, Cardinality(members(group(x))))]
  /\ UNCHANGED <<empty, named>>

StartTile(x) ==
  /\ Passes(q_full[group(x)], warp[x].gi_q % 2)
  /\ Becomes(x, "q_full", [warp[x] EXCEPT !.pc = "k_full", !.gi_q = @ + 1,
                             !.q = <<warp[x].tile>>, !.n = 0, !.o = <<>>, !.max = 0, !.scale = 0])
  /\ UNCHANGED <<empty, named, q_full>>

\* The turn is taken at the group's own named barrier, which the other group's arrivals
\* complete: the arrival and the return are two steps.
AwaitK(x) ==
  LET b == group(x)
  IN /\ Passes(full["k"], warp[x].gi_k % 2)
     /\ Becomes(x, "k_full", [warp[x] EXCEPT !.pc = "turn", !.gen = named[b].phase])
     /\ named' = [named EXCEPT ![b] = Arrived(@, Cardinality(Warps))]
     /\ UNCHANGED <<empty, q_full>>

Issue(w, op, slot) == [w EXCEPT !.mmas = Append(@, [op |-> op, slot |-> slot])]

\* Bug: the first product of a tile does not wait for the turn.
IssueQKUnturned(x) ==
  /\ warp[x].n = 0 \/ named[group(x)].phase # warp[x].gen
  /\ Becomes(x, "turn", [Issue(warp[x], "k", warp[x].gi_k % 2) EXCEPT
                           !.pc = IF warp[x].n = 0 THEN "hand_over" ELSE "v_full"])
  /\ UNCHANGED <<empty, named, q_full>>

IssueQK(x) ==
  /\ named[group(x)].phase # warp[x].gen
  /\ Becomes(x, "turn", [Issue(warp[x], "k", warp[x].gi_k % 2) EXCEPT
                           !.pc = IF warp[x].n = 0 THEN "hand_over" ELSE "v_full"])
  /\ UNCHANGED <<empty, named, q_full>>

IssuePV(x) ==
  /\ Passes(full["v"], warp[x].gi_v % 2)
  /\ Becomes(x, "v_full", [Issue(warp[x], "v", warp[x].gi_v % 2) EXCEPT !.pc = "hand_over"])
  /\ UNCHANGED <<empty, named, q_full>>

HandOver(x) ==
  /\ Becomes(x, "hand_over", [warp[x] EXCEPT !.pc = "scores"])
  /\ named' = [named EXCEPT ![3 - group(x)] = Arrived(@, Cardinality(Warps))]
  /\ UNCHANGED <<empty, q_full>>

Release(op) == empty' = [empty EXCEPT ![op] = Arrived(@, Cardinality(Warps))]

\* wait_wgmma(0) in the first iteration, wait_wgmma(1) in the others.
AwaitScores(x) ==
  /\ Len(warp[x].mmas) <= (IF warp[x].n = 0 THEN 0 ELSE 1)
  /\ Becomes(x, "scores", [warp[x] EXCEPT !.pc = "softmax"])
  /\ Release("k")
  /\ UNCHANGED <<named, q_full>>

\* The probabilities become the operand of the next product.
Cast(x, w) == [w EXCEPT
  !.p = [s |-> w.s, columns |-> masked(x, w.tile, w.n), max |-> w.max],
  !.gi_k = @ + 1, !.n = @ + 1, !.pc = IF w.n + 1 < loop_range(w.tile) THEN "k_full" ELSE "last_v"]

Softmax(x) ==
  LET w == [warp[x] EXCEPT !.max = @ + 1]
  IN /\ Becomes(x, "softmax", IF w.n = 0 THEN Cast(x, [w EXCEPT !.scale = 1])
                              ELSE [w EXCEPT !.pc = "product"])
     /\ UNCHANGED <<empty, named, q_full>>

\* wait_wgmma(0): the product with V(n - 1) is in, V is released, and the sum is brought
\* to the new maximum.
Rescale(x) ==
  /\ warp[x].mmas = <<>>
  /\ Becomes(x, "product", Cast(x, [warp[x] EXCEPT !.scale = @ + 1, !.gi_v = @ + 1]))
  /\ Release("v")
  /\ UNCHANGED <<named, q_full>>

IssueLastPV(x) ==
  /\ Passes(full["v"], warp[x].gi_v % 2)
  /\ Becomes(x, "last_v", [Issue(warp[x], "v", warp[x].gi_v % 2) EXCEPT !.pc = "drain"])
  /\ UNCHANGED <<empty, named, q_full>>

\* Bug: the last product is not waited for.
DrainUnwaited(x) ==
  LET b == group(x) + 2
  IN /\ Becomes(x, "drain", [warp[x] EXCEPT !.pc = "store", !.gi_v = @ + 1, !.q = None,
                                            !.gen = named[b].phase])
     /\ Release("v")
     /\ named' = [named EXCEPT ![b] = Arrived(@, Cardinality(members(group(x))))]
     /\ UNCHANGED q_full

\* Bug: the V of the last block is not released.
DrainUnreleased(x) ==
  LET b == group(x) + 2
  IN /\ warp[x].mmas = <<>>
     /\ Becomes(x, "drain", [warp[x] EXCEPT !.pc = "store", !.gi_v = @ + 1, !.q = None,
                                            !.gen = named[b].phase])
     /\ named' = [named EXCEPT ![b] = Arrived(@, Cardinality(members(group(x))))]
     /\ UNCHANGED <<empty, q_full>>

\* The rows are brought over Q and stored by the whole group.
Drain(x) ==
  LET b == group(x) + 2
  IN /\ warp[x].mmas = <<>>
     /\ Becomes(x, "drain", [warp[x] EXCEPT !.pc = "store", !.gi_v = @ + 1, !.q = None,
                                            !.gen = named[b].phase])
     /\ Release("v")
     /\ named' = [named EXCEPT ![b] = Arrived(@, Cardinality(members(group(x))))]
     /\ UNCHANGED q_full

Store(x) ==
  /\ warp[x].pc = "store" /\ named[group(x) + 2].phase # warp[x].gen
  /\ out' = [out EXCEPT ![warp[x].tile][x] = [o |-> warp[x].o, scale |-> warp[x].scale,
                                              sums |-> warp[x].max]]
  /\ warp' = [warp EXCEPT ![x].pc = "q", ![x].tile = @ + 1]
  /\ UNCHANGED <<causal, prod, copies, smem, full, empty, named, q_full>>

\* The oldest product of a warp runs, on what its operands hold by now.
Mma(x) ==
  /\ warp[x].mmas # <<>>
  /\ LET op == Head(warp[x].mmas)
         w == [warp[x] EXCEPT !.mmas = Tail(@)]
         operand == smem[op.op][op.slot]
     IN warp' = [warp EXCEPT ![x] =
          IF op.op = "k" THEN [w EXCEPT !.s = <<w.q, operand>>]
          ELSE [w EXCEPT !.o = Append(@, [p |-> w.p, v |-> operand, scale |-> w.scale])]]
  /\ UNCHANGED <<causal, prod, copies, smem, full, empty, named, q_full, out>>
-----------------------------------------------------------------------------
WarpStep(x) ==
  \/ LoadQ(x) \/ StartTile(x) \/ AwaitK(x) \/ IssueQK(x) \/ IssuePV(x) \/ HandOver(x)
  \/ AwaitScores(x) \/ Softmax(x) \/ Rescale(x) \/ IssueLastPV(x) \/ Drain(x) \/ Store(x)

Producer == LoadK \/ LoadV \/ LoadLastV

Done == \A x \in Warps : warp[x].tile = NumTiles

Next ==
  \/ Producer
  \/ \E c \in copies : Land(c)
  \/ \E x \in Warps : WarpStep(x) \/ Mma(x)

Spec == Init /\ [][Next]_vars

\* The hardware schedules every warp, finishes every copy and every product.
FairSpec ==
  /\ Spec
  /\ WF_vars(Producer) /\ WF_vars(\E c \in copies : Land(c))
  /\ \A x \in Warps : WF_vars(WarpStep(x)) /\ WF_vars(Mma(x))
-----------------------------------------------------------------------------
(* What the barriers are for. *)

Barriers == [phase : Nat, arrived : Nat]
Contents == {None} \cup (Nat \X Nat)         \* of a slot: a block of a tile
Scores == {None} \cup (Seq(Nat) \X Contents)
Probs == {None} \cup [s : Scores, columns : SUBSET Int, max : Nat]
Sums == Seq([p : Probs, v : Contents, scale : Nat])

\* The type invariant.
TypeOK ==
  /\ causal \in BOOLEAN
  /\ prod \in [pc : {"k", "v", "last_v"}, tile : Nat, n : Nat, gi_k : Nat, gi_v : Nat]
  /\ (prod.pc = "v" => prod.n > 0) /\ (prod.pc # "k" => prod.tile < NumTiles)
  /\ copies \subseteq [op : {"k", "v"}, slot : 0 .. 1, block : Nat \X Nat]
  /\ smem \in [{"k", "v"} -> [0 .. 1 -> Contents]]
  /\ full \in [{"k", "v"} -> Barriers] /\ empty \in [{"k", "v"} -> Barriers]
  /\ named \in [1 .. 4 -> Barriers] /\ q_full \in [1 .. 2 -> Barriers]
  /\ warp \in [Warps -> [
       pc : {"q", "q_full", "k_full", "turn", "v_full", "hand_over", "scores", "softmax",
             "product", "last_v", "drain", "store"},
       tile : Nat, n : Nat, gi_q : Nat, gi_k : Nat, gi_v : Nat, gen : Nat, q : Seq(Nat),
       mmas : Seq([op : {"k", "v"}, slot : 0 .. 1]), s : Scores, p : Probs,
       o : Sums, max : Nat, scale : Nat]]
  /\ out \in [Tiles -> [Warps -> {None} \cup [o : Sums, scale : Nat, sums : Nat]]]

\* No copy is under way into a slot that a product issued but not finished reads.
SlotsHeld ==
  \A c \in copies, x \in Warps : \A j \in 1 .. Len(warp[x].mmas) :
    ~ (warp[x].mmas[j].op = c.op /\ warp[x].mmas[j].slot = c.slot)

\* The consumers issue their products in turn: between the turn and the handing over
\* there is one group, and the arrivals a turn waits for are those of one hand-over.
InTurn(x) == warp[x].pc \in {"v_full", "hand_over"} \/
             (warp[x].pc = "turn" /\ named[group(x)].phase # warp[x].gen)

PingPong ==
  /\ \A x \in Group1, y \in Group2 : ~ (InTurn(x) /\ InTurn(y))
  /\ \A g \in 1 .. 2 :
       named[g].arrived <= Cardinality(members(3 - g))
                           + Cardinality({x \in members(g) : warp[x].pc = "turn"})

\* A stored tile is the attention of its rows: every key block once, the scores of this
\* tile's Q with it, the V of the same block, each part relative to the maximum the
\* running sum had been brought to, and of the columns just those the mask leaves.
TileWhole ==
  \A i \in Tiles, x \in Warps : out[i][x] # None =>
    LET o == out[i][x].o
        L == loop_range(i)
    IN /\ Len(o) = L /\ out[i][x].scale = L /\ out[i][x].sums = L
       /\ \A n \in 0 .. L - 1 :
            /\ o[n + 1].v = <<i, n>> /\ o[n + 1].p.s = << <<i>>, <<i, n>> >>
            /\ o[n + 1].p.max = n + 1 /\ o[n + 1].scale = n + 1
            /\ o[n + 1].p.columns =
                 IF causal THEN {col \in columns(n) : col <= row_base(x, i)} ELSE columns(n)

\* The consumers, the producer and the copies never wait for one another for good.
Finishes == <>Done
=============================================================================
