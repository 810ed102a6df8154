------------------------------ MODULE MoePipeline ------------------------------
(***************************************************************************)
(* The routed experts of a mixture-of-experts layer, from the routes to    *)
(* the output (FusedRoutedExpert, MoeExpertMLP): sort the routes by expert *)
(* (MoePermute), gather the tokens into rows, multiply the rows by the     *)
(* weights of their experts twice (gate_up, then down, on the same layout) *)
(* and bring the products back to the tokens.  The launches follow one     *)
(* another on a stream; inside a GEMM the thread blocks run freely.        *)
(*                                                                         *)
(* Two schedules give the tiles to the thread blocks.  "waves" is the      *)
(* template's: block pid takes the tiles pid, pid + NumSms, ...  "counter" *)
(* is that of the persistent MACA kernel: every block takes its next tile  *)
(* from one global counter, max_iters times; one thread of the block makes *)
(* the claim and tells the others through shared memory.                   *)
(***************************************************************************)
EXTENDS MoePermute

CONSTANTS NumSms, BlockM, NumBlocksN, BlocksPerGroup,
          CounterCases   \* the calls that are also run by the persistent kernel

ASSUME PipelineAssumption ==
  /\ {NumSms, BlockM, NumBlocksN, BlocksPerGroup} \subseteq Nat \ {0}
  /\ CounterCases \subseteq Cases

INSTANCE GroupedTiles WITH NumGroups <- NumExperts

VARIABLES stage,      \* the launch under way, "permute" .. "done"
          schedule,
          a,          \* what each row of the operand holds
          s_cum,      \* the row blocks before each group, for a tight layout
          c,          \* the writes to each cell of the product, in order
          wave,       \* waves: the wave of each block
          cta,        \* counter: the threads and the shared memory of each block
          tile_counter,
          output      \* per token, the product each of its routes brought

gemmVars == <<s_cum, wave, cta, tile_counter>>
allVars == <<vars, stage, schedule, a, c, gemmVars, output>>

Sms == 0 .. NumSms - 1
Lanes == {0, 1}   \* two threads of a block: the one that claims, and another
Fragments == IF schedule = "counter" THEN Lanes ELSE {0}
Cells == Rows \X (0 .. NumBlocksN - 1) \X Fragments

\* The tight layouts are multiplied as they are, the aligned one when its rows are
\* whole tiles, which the op demands; the others feed kernels not modelled here.
Multiplies == tight \/ (variant = "aligned" /\ capacity % Alignment = 0)

ends == mem.metadata
num_m_blocks == IF tight THEN s_cum[NumExperts] ELSE capacity \div BlockM
num_blocks == num_m_blocks * NumBlocksN
num_waves == CeilDiv(num_blocks, NumSms)

\* An upper bound of the tiles, shared out with two rounds to spare.
max_iters == CeilDiv(((numel \div BlockM) + NumExperts) * NumBlocksN, NumSms) + 2

NewCta == [s_tile |-> Unset, s_expert |-> Unset,
           pc |-> [x \in Lanes |-> IF x = 0 THEN "claim" ELSE "top_sync"],
           iter |-> [x \in Lanes |-> 0], flat_id |-> [x \in Lanes |-> Unset]]

\* A launch of the GEMM: an empty product, a counter reset by forward(), and the sums
\* one thread of every block makes before the others pass its first barrier.
Launch ==
  /\ s_cum' = IF tight THEN tile_cumsum(ends) ELSE <<>>
  /\ c' = [cell \in Cells |-> <<>>]
  /\ wave' = [pid \in Sms |-> 0]
  /\ cta' = [pid \in Sms |-> NewCta]
  /\ tile_counter' = 0

PipelineInit ==
  /\ Init
  /\ stage = "permute"
  /\ schedule \in {"waves"} \cup
       (IF tight /\ <<variant, flat>> \in CounterCases THEN {"counter"} ELSE {})
  /\ a = <<>> /\ s_cum = <<>> /\ c = <<>> /\ wave = <<>> /\ cta = <<>> /\ tile_counter = Unset
  /\ output = [tok \in 0 .. NumTokens - 1 |-> <<>>]

Permute ==
  /\ stage = "permute" /\ PermuteNext
  /\ UNCHANGED <<stage, schedule, a, c, gemmVars, output>>

\* The gather: a row takes its token, a row of padding zeros.
Gather ==
  /\ stage = "permute" /\ Sorted /\ Multiplies
  /\ stage' = "gate_up"
  /\ a' = [r \in Rows |-> IF mem.rows[r] < NumTokens THEN <<mem.rows[r]>> ELSE <<>>]
  /\ Launch
  /\ UNCHANGED <<vars, schedule, output>>

InGemm == stage \in {"gate_up", "down"}

\* A fragment of a tile is stored: the rows of the tile, of a tight group's last one
\* no more than it has, hold the product with the group's weights.
StoreTile(tile, fragment) ==
  c' = [cell \in Cells |->
          IF /\ cell[1] \in tile.row0 .. tile.row0 + tile.rows - 1
             /\ cell[2] = tile.n /\ cell[3] = fragment
          THEN Append(c[cell], <<tile.group>> \o a[cell[1]]) ELSE c[cell]]

Wave(pid) ==
  /\ InGemm /\ schedule = "waves" /\ wave[pid] < num_waves
  /\ LET block_idx == wave[pid] * NumSms + pid
     IN IF block_idx < num_blocks
          THEN StoreTile(IF tight THEN TightTile(block_idx, ends, s_cum)
                         ELSE PerRowTile(block_idx, mem.metadata, capacity), 0)
          ELSE UNCHANGED c
  /\ wave' = [wave EXCEPT ![pid] = @ + 1]
  /\ UNCHANGED <<vars, stage, schedule, a, s_cum, cta, tile_counter, output>>
-----------------------------------------------------------------------------
(* A block of the persistent kernel. *)

CtaStep(pid, x, pc) ==
  /\ InGemm /\ schedule = "counter" /\ cta[pid].pc[x] = pc
  /\ UNCHANGED <<vars, stage, schedule, a, s_cum, wave, output>>

NextIteration(x, state) ==
  LET last == state.iter[x] + 1 = max_iters
  IN [state EXCEPT !.iter[x] = @ + 1,
                   !.pc[x] = IF last THEN "exit" ELSE IF x = 0 THEN "claim" ELSE "top_sync"]

TakeTile(pid) ==
  /\ CtaStep(pid, 0, "claim")
  /\ cta' = [cta EXCEPT ![pid].s_tile = tile_counter, ![pid].pc[0] = "top_sync"]
  /\ tile_counter' = tile_counter + 1
  /\ UNCHANGED c

\* One hardware barrier serves both places the threads of a block meet at.
Barrier(pid) ==
  /\ CtaStep(pid, 0, cta[pid].pc[0])
  /\ \A x \in Lanes : cta[pid].pc[x] \in {"top_sync", "expert_sync"}
  /\ cta' = [cta EXCEPT ![pid].pc =
               [x \in Lanes |-> IF @[x] = "top_sync" THEN "read" ELSE "compute"]]
  /\ UNCHANGED <<c, tile_counter>>

\* Every thread reads the tile number for itself and, past the last tile, goes on to
\* the next round without another barrier.  The claiming thread leaves the expert of
\* the tile in shared memory.
ReadTile(pid, x) ==
  /\ CtaStep(pid, x, "read")
  /\ LET id == cta[pid].s_tile
     IN cta' = [cta EXCEPT ![pid] =
          IF id < num_blocks
            THEN [@ EXCEPT !.flat_id[x] = id, !.pc[x] = "expert_sync",
                           !.s_expert = IF x = 0 THEN CounterExpert(id, s_cum)
                                                      ELSE cta[pid].s_expert]
            ELSE NextIteration(x, @)]
  /\ UNCHANGED <<c, tile_counter>>

\* The rows come from the expert in shared memory, the columns from the tile number.
Compute(pid, x) ==
  /\ CtaStep(pid, x, "compute")
  /\ StoreTile(CounterTile(cta[pid].flat_id[x], cta[pid].s_expert, ends, s_cum), x)
  /\ cta' = [cta EXCEPT ![pid] = NextIteration(x, @)]
  /\ UNCHANGED tile_counter

CtaNext(pid) ==
  \/ Wave(pid) \/ TakeTile(pid) \/ Barrier(pid)
  \/ \E x \in Lanes : ReadTile(pid, x) \/ Compute(pid, x)

GemmDone ==
  /\ InGemm
  /\ IF schedule = "waves"
       THEN \A pid \in Sms : wave[pid] = num_waves
       ELSE \A pid \in Sms, x \in Lanes : cta[pid].pc[x] = "exit"

\* The row of a product is read as a whole: what its cells agree on.
ProductRow(r) ==
  LET writes == {c[cell] : cell \in {x \in Cells : x[1] = r}}
  IN IF \E v \in writes : writes = {v} /\ Len(v) = 1
     THEN Head(CHOOSE v \in writes : TRUE) ELSE <<>>

Down ==
  /\ stage = "gate_up" /\ GemmDone
  /\ stage' = "down"
  /\ a' = [r \in Rows |-> ProductRow(r)]
  /\ Launch
  /\ UNCHANGED <<vars, schedule, output>>

\* One block per token adds up the rows of the token's routes.
Unpermute(tok) ==
  /\ stage = "down" /\ GemmDone
  /\ output[tok] = <<>>
  /\ output' = [output EXCEPT ![tok] =
                  [k \in 1 .. TopK |-> ProductRow(mem.inverse[tok * TopK + k - 1])]]
  /\ UNCHANGED <<vars, stage, schedule, a, c, gemmVars>>

AllBack == \A tok \in DOMAIN output : output[tok] # <<>>

\* Nothing is left to do.
Finished ==
  /\ IF Multiplies THEN AllBack ELSE Sorted
  /\ UNCHANGED allVars

Next == \/ Permute \/ Gather \/ Down \/ Finished
        \/ \E pid \in Sms : CtaNext(pid)
        \/ \E tok \in 0 .. NumTokens - 1 : Unpermute(tok)

Spec == PipelineInit /\ [][Next]_allVars
-----------------------------------------------------------------------------
(* What the kernels owe each other. *)

RoutesTo(e) == {idx \in Routes : flat[idx] = e}
RegionSize(e) == IF tight THEN Cardinality(RoutesTo(e)) ELSE Pad(Cardinality(RoutesTo(e)))
RegionStart(e) == MapThenSumSet(RegionSize, 0 .. e - 1)
LiveRows(e) == RegionStart(e) .. RegionStart(e) + Cardinality(RoutesTo(e)) - 1

\* A thread about to store a route holds a row among the rows of the route's expert
\* which no other thread holds and to which nothing was stored: the atomic cursors,
\* the barriers before them and the prefix sums together keep the routes apart.
RowsTakenOnce ==
  \A t \in Threads : slot_buf[t] # Nothing =>
    LET idx == slot_buf[t][1]
        slot == slot_buf[t][2]
    IN /\ slot \in LiveRows(flat[idx])
       /\ mem.rows[slot] \in {Unset, Sentinel}
       /\ \A u \in Threads \ {t} : slot_buf[u] # Nothing => slot_buf[u][2] # slot

\* The permutation a GEMM is launched on: the live rows of an expert hold its routes,
\* each once, all other rows the padding value; the inverse leads every route to its
\* row; and the metadata names the ends of the regions, or the owner of every row, or
\* of every row block of a region.
Permuted ==
  stage = "permute" /\ Sorted =>
    /\ \A r \in Rows \ UNION {LiveRows(e) : e \in Experts} : mem.rows[r] = Sentinel
    /\ IF variant \in {"align", "small"}
         THEN \A e \in Experts :
                /\ {mem.rows[r] : r \in LiveRows(e)} = RoutesTo(e)
                /\ \A b \in RowBlocks :
                     b * Alignment \in RegionStart(e) .. RegionStart(e + 1) - 1
                       => mem.metadata[b] = e
         ELSE /\ \A idx \in Routes : mem.inverse[idx] \in LiveRows(flat[idx])
              /\ Cardinality({mem.inverse[idx] : idx \in Routes}) = numel
              /\ \A idx \in Routes : mem.rows[mem.inverse[idx]] = idx \div TopK
              /\ IF tight
                   THEN \A e \in Experts : mem.metadata[e] = RegionStart(e + 1)
                   ELSE \A r \in Rows :
                          mem.metadata[r] = Cardinality({e \in Experts : RegionStart(e + 1) <= r})

\* The tiles cover the product once: no cell is written twice, whoever computes the
\* tile, and a row of an expert is multiplied with the weights of that expert.
TilesOnce ==
  InGemm => \A cell \in Cells :
    /\ Len(c[cell]) <= 1
    /\ c[cell] # <<>> =>
         \A idx \in Routes : mem.inverse[idx] = cell[1] => Head(c[cell][1]) = flat[idx]

\* The end of the road: what comes back to a token for its k-th route is that token,
\* multiplied with the two weights of the expert the route names.
Delivered ==
  AllBack => \A tok \in DOMAIN output, k \in 1 .. TopK :
    LET e == flat[tok * TopK + k - 1] IN output[tok][k] = <<e, e, tok>>
=============================================================================
