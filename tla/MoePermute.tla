------------------------------ MODULE MoePermute ------------------------------
(***************************************************************************)
(* The kernels that sort the routes of a mixture-of-experts call by expert *)
(* (kernels/moe/permute_contiguous.py and kernels/moe/permute_align.py).   *)
(* All of them are a counting sort run by many threads: count the routes   *)
(* of every expert, turn the counts into first rows, and hand out the rows *)
(* by incrementing a cursor per expert.  They differ in what happens       *)
(* between which two barriers, in where the cursors live, and in the       *)
(* padding and the metadata they leave:                                    *)
(*                                                                         *)
(*   tight     one thread block, no padding, the end row of every expert   *)
(*   parallel  the same over several thread blocks and three launches      *)
(*   aligned   padded regions, the owner of every row                      *)
(*   align     padded regions, a warp scan, the owner of every row block;  *)
(*             the rows are handed out by a second launch, on the output   *)
(*             of the scan itself                                          *)
(*   small     a fused kernel whose workers keep private counts            *)
(*                                                                         *)
(* A thread is at one of the segments its variant's program lists; a       *)
(* segment is what a thread does between two barriers.                     *)
(***************************************************************************)
EXTENDS PowersOfTwo, Sequences, FiniteSets, FiniteSetsExt

CONSTANTS NumTokens, TopK, NumExperts,
          Alignment,       \* rows of a padded region come in multiples of it
          BlockThreads,    \* threads of one block of the parallel variant
          RoutesPerBlock,  \* routes of one block of the parallel variant
          WarpSize,        \* lanes of a warp (32)
          MinWorkers,      \* workers of the small kernel at least (32)
          Cases            \* the calls: pairs of a variant and a route table

numel == NumTokens * TopK
Routes == 0 .. numel - 1
Experts == 0 .. NumExperts - 1

Variants == {"tight", "parallel", "aligned", "align", "small"}

ASSUME PermuteAssumption ==
  /\ {NumTokens, TopK, NumExperts, Alignment, BlockThreads, RoutesPerBlock, WarpSize, MinWorkers}
       \subseteq Nat \ {0}
  /\ Cases \subseteq Variants \X [Routes -> Experts]

\* Nothing is assumed of RoutesPerBlock: the last round of a block's loops has no bound
\* but the end of the routes, and no line checks that the rounds of BlockThreads fill a
\* block.  Where they overrun it (the defaults, 512 by 256, do not), the blocks count
\* and place routes of the next block too: the theorems and the run exclude that.

Unset == -1   \* what torch.empty and shared memory hold before a store
Nothing == <<>>

CeilDiv(a, b) == (a + b - 1) \div b
Pad(n) == CeilDiv(n, Alignment) * Alignment

VARIABLES variant, flat,
          at,        \* the segment each thread is in
          left,      \* the routes a thread has yet to place
          slot_buf,  \* the route a thread is placing, with its row
          mem        \* the arrays in memory, see Init

vars == <<variant, flat, at, left, slot_buf, mem>>
-----------------------------------------------------------------------------
(* The shape of a launch. *)

Blocks == CeilDiv(numel, RoutesPerBlock)
Workers == IF NumExperts > MinWorkers THEN NumExperts ELSE MinWorkers

Threads == CASE variant = "parallel" -> 0 .. Blocks * BlockThreads - 1
             [] variant = "small"    -> 0 .. Workers
             [] OTHER                -> 0 .. 2 * WarpSize - 1

Program ==
  CASE variant = "tight"    -> <<"zero", "count", "prefix", "cursor", "scatter">>
    [] variant = "parallel" -> <<"zero", "count", "totals", "prefix", "cursor", "scatter">>
    [] variant = "aligned"  -> <<"zero", "count", "prefix", "cursor", "scatter">>
    [] variant = "align"    -> <<"zero", "count", "vals", "warp_scan", "warp_excl",
                                 "cumsum", "finalize", "scatter">>
    [] variant = "small"    -> <<"fill_count", "column", "prefix", "finalize", "scatter">>

tight == variant \in {"tight", "parallel"}

capacity == CASE tight -> numel
              [] variant = "aligned" -> numel + NumExperts * (Alignment - 1)
              [] OTHER -> numel + (NumExperts + 1) * (Alignment - 1)

Rows == 0 .. capacity - 1
RowBlocks == 0 .. CeilDiv(capacity, Alignment) - 1

\* What a padding row holds: one more than the last token, or than the last route.
Sentinel == IF variant = "aligned" THEN NumTokens ELSE numel

\* Bug: no barrier between the cursors and the placing of the routes.
AwaitsNotToScatter(t, u, s) == s # "scatter" /\ ~(variant = "parallel" /\ s = "count")

\* t waits for u to reach the segment s: every barrier is one of the whole launch,
\* but for the one inside a block of the counting launch and for the placing of
\* routes in the small kernel, which follows no barrier.
Awaits(t, u, s) ==
  CASE variant = "parallel" /\ s = "count" -> t \div BlockThreads = u \div BlockThreads
    [] variant = "small" /\ s = "scatter"  -> FALSE
    [] OTHER -> TRUE

InSegment(t, s) ==
  /\ Program[at[t]] = s
  /\ \A u \in Threads : Awaits(t, u, s) => at[u] >= at[t]

\* The members of 0 .. n - 1 a thread's strided loop visits.
Strided(t, threads, n) == {k \in 0 .. n - 1 : k % threads = t}
Mine(t, n) == Strided(t, Cardinality(Threads), n)

BlockIdx(t) == IF variant = "parallel" THEN t \div BlockThreads ELSE 0

RoutesOf(t) ==
  CASE variant = "parallel" ->
         {BlockIdx(t) * RoutesPerBlock + i * BlockThreads + (t % BlockThreads) :
            i \in 0 .. CeilDiv(RoutesPerBlock, BlockThreads) - 1} \cap Routes
    [] variant = "small" -> IF t = 0 THEN {} ELSE Strided(t - 1, Workers, numel)
    [] OTHER -> Mine(t, numel)

\* The routes of a thread to an expert.
Tally(t, e) == Cardinality({idx \in RoutesOf(t) : flat[idx] = e})

\* The function f with the values of g on S, and the running sum of n terms.
Overlay(f, S, g(_)) == [x \in DOMAIN f |-> IF x \in S THEN g(x) ELSE f[x]]
RunningSum(n, term(_)) ==
  LET sum[k \in 0 .. n] == IF k = 0 THEN 0 ELSE sum[k - 1] + term(k - 1) IN sum
-----------------------------------------------------------------------------
Init ==
  /\ \E c \in Cases : variant = c[1] /\ flat = c[2]
  /\ at = [t \in Threads |-> 1]
  /\ left = [t \in Threads |-> RoutesOf(t)]
  /\ slot_buf = [t \in Threads |-> Nothing]
  /\ mem = [
       \* per table row: counts of the experts, later cursors
       counts |-> [b \in CASE variant = "parallel" -> 0 .. Blocks - 1
                           [] variant = "small" -> 0 .. Workers
                           [] OTHER -> {0} |-> [e \in Experts |-> Unset]],
       \* the totals of the experts, or the values of the scan
       vals |-> [x \in Threads \cup Experts |-> Unset],
       \* the sum of every warp, later of the warps before it
       warp |-> [w \in 0 .. 1 |-> Unset],
       \* the first row of every expert, and the end
       offsets |-> [e \in 0 .. NumExperts |-> Unset],
       \* ends of experts, or owners of rows or of row blocks
       metadata |-> [x \in CASE tight -> Experts
                             [] variant = "aligned" -> Rows
                             [] OTHER -> RowBlocks |-> Unset],
       \* permuted_idx or sorted_token_ids: what each row holds
       rows |-> [r \in Rows |-> Unset],
       \* the row of every route
       inverse |-> [idx \in Routes |-> Unset]]

Segment(t, s) ==
  /\ InSegment(t, s)
  /\ at' = [at EXCEPT ![t] = @ + 1]
  /\ UNCHANGED <<variant, flat, left, slot_buf>>

\* Each thread clears the counts its loop visits, in the parallel variant those of
\* its block; the aligned variant blanks the outputs in the same segment.
Zero(t) ==
  /\ Segment(t, "zero")
  /\ LET mine == IF variant = "parallel"
                   THEN Strided(t % BlockThreads, BlockThreads, NumExperts)
                   ELSE Mine(t, NumExperts)
         cleared == [mem EXCEPT !.counts[BlockIdx(t)] = Overlay(@, mine, LAMBDA e : 0)]
     IN mem' = IF variant # "aligned" THEN cleared
               ELSE [cleared EXCEPT
                       !.rows = Overlay(@, Mine(t, capacity), LAMBDA r : Sentinel),
                       !.metadata = Overlay(@, Mine(t, capacity), LAMBDA r : NumExperts)]

\* The atomic additions of a thread's routes, which commute with everybody's.
Count(t) ==
  /\ Segment(t, "count")
  /\ mem' = [mem EXCEPT !.counts[BlockIdx(t)] = [e \in Experts |-> @[e] + Tally(t, e)]]

\* The small kernel: thread 0 stands for the threads that blank the rows, the other
\* threads are the workers; worker w counts into the table row w + 1.
FillCount(t) ==
  /\ Segment(t, "fill_count")
  /\ mem' = IF t = 0 THEN [mem EXCEPT !.rows = [r \in Rows |-> Sentinel]]
            ELSE [mem EXCEPT !.counts[t] = [e \in Experts |-> Tally(t, e)]]

\* A worker whose number is an expert's adds up the column of that expert: row k
\* becomes the routes of the first k workers, the ranks worker k starts from.
Column(t) ==
  /\ Segment(t, "column")
  /\ LET sums == RunningSum(Workers, LAMBDA k : mem.counts[k + 1][t - 1])
     IN mem' = IF t - 1 \notin Experts THEN mem
               ELSE [mem EXCEPT !.counts =
                       [k \in DOMAIN @ |-> [@[k] EXCEPT ![t - 1] = sums[k]]]]

Totals(t) ==
  /\ Segment(t, "totals")
  /\ mem' = [mem EXCEPT !.vals = Overlay(@, Mine(t, NumExperts),
               LAMBDA e : MapThenSumSet(LAMBDA b : mem.counts[b][e], 0 .. Blocks - 1))]

\* The rows of an expert's region, as the one thread reads them for the prefix sum.
PhysicalSize(e) ==
  CASE variant = "tight"    -> mem.counts[0][e]
    [] variant = "parallel" -> mem.vals[e]
    [] variant = "aligned"  -> Pad(mem.counts[0][e])
    [] variant = "small"    -> Pad(mem.counts[Workers][e])

Prefix(t) ==
  /\ Segment(t, "prefix")
  /\ mem' = IF t = (IF variant = "small" THEN 1 ELSE 0)
            THEN [mem EXCEPT !.offsets = RunningSum(NumExperts, PhysicalSize)]
            ELSE mem

\* Bug: one round of the search too few.
OwnerRoundShort(r) ==
  LET bounds[n \in 0 .. 2] ==
        IF n = 0 THEN <<0, NumExperts>>
        ELSE LET middle == (bounds[n - 1][1] + bounds[n - 1][2]) \div 2
             IN IF r < mem.offsets[middle + 1] THEN <<bounds[n - 1][1], middle>>
                ELSE <<middle + 1, bounds[n - 1][2]>>
  IN IF r < mem.offsets[NumExperts] THEN bounds[2][1] ELSE NumExperts

\* The expert whose region holds row r, by the binary search over the offsets.
Owner(r) ==
  LET steps == CHOOSE n \in 1 .. NumExperts : Pow2[n] > NumExperts /\ Pow2[n - 1] <= NumExperts
      bounds[n \in 0 .. steps] ==
        IF n = 0 THEN <<0, NumExperts>>
        ELSE LET lower == bounds[n - 1][1]
                 upper == bounds[n - 1][2]
                 middle == (lower + upper) \div 2
             IN IF r < mem.offsets[middle + 1] THEN <<lower, middle>> ELSE <<middle + 1, upper>>
  IN IF r < mem.offsets[NumExperts] THEN bounds[steps][1] ELSE NumExperts

\* The counts become cursors, in the parallel variant one per block, which start at
\* the routes of the blocks before; the metadata of the layout is written beside.
Cursor(t) ==
  /\ Segment(t, "cursor")
  /\ LET mine == Mine(t, NumExperts)
         before(b, e) == MapThenSumSet(LAMBDA c : mem.counts[c][e], 0 .. b - 1)
     IN mem' = [mem EXCEPT
          !.counts = [b \in DOMAIN @ |->
             Overlay(@[b], mine, LAMBDA e : mem.offsets[e] + before(b, e))],
          !.metadata = IF variant = "aligned" THEN Overlay(@, Mine(t, capacity), Owner)
                       ELSE Overlay(@, mine, LAMBDA e : mem.offsets[e + 1])]
-----------------------------------------------------------------------------
(* The scan of the align variant. *)

own_padded(t) == IF t < NumExperts THEN Pad(mem.counts[0][t]) ELSE 0

Vals(t) ==
  /\ Segment(t, "vals")
  /\ mem' = [mem EXCEPT !.vals[t] = own_padded(t)]

\* One warp runs the shuffle rounds in lockstep: in the round of distance 2 ^ d a
\* lane adds the value 2 ^ d lanes below.  The last lane leaves the warp's sum.
WarpScan(w) ==
  LET lanes == w * WarpSize .. (w + 1) * WarpSize - 1
      rounds == CHOOSE n \in 0 .. WarpSize : Pow2[n] = WarpSize
      scan[d \in 0 .. rounds] ==
        IF d = 0 THEN mem.vals
        ELSE LET stride == Pow2[d - 1]
             IN Overlay(scan[d - 1], {t \in lanes : t % WarpSize >= stride},
                        LAMBDA t : scan[d - 1][t] + scan[d - 1][t - stride])
  IN /\ variant = "align"
     /\ \A t \in lanes : InSegment(t, "warp_scan")
     /\ at' = Overlay(at, lanes, LAMBDA t : at[t] + 1)
     /\ mem' = [mem EXCEPT !.vals = scan[rounds],
                           !.warp[w] = scan[rounds][(w + 1) * WarpSize - 1]]
     /\ UNCHANGED <<variant, flat, left, slot_buf>>

WarpExcl(t) ==
  /\ Segment(t, "warp_excl")
  /\ mem' = IF t = 0
            THEN [mem EXCEPT !.warp =
                    [w \in DOMAIN @ |-> RunningSum(Cardinality(DOMAIN @), LAMBDA x : @[x])[w]]]
            ELSE mem

Cumsum(t) ==
  /\ Segment(t, "cumsum")
  /\ LET incl == mem.vals[t] + mem.warp[t \div WarpSize]
     IN mem' = [mem EXCEPT !.offsets =
          [e \in DOMAIN @ |-> CASE e = t /\ t < NumExperts -> incl - own_padded(t)
                                [] e = NumExperts /\ t = NumExperts - 1 -> incl
                                [] OTHER -> @[e]]]

\* Thread e owns the row blocks of expert e; the align variant blanks the rows in the
\* same segment.  In the small kernel it is worker e, the thread e + 1.
Finalize(t) ==
  /\ Segment(t, "finalize")
  /\ LET e == IF variant = "small" THEN t - 1 ELSE t
         owned == IF e \notin Experts THEN {}
                  ELSE {b \in RowBlocks : /\ b >= mem.offsets[e] \div Alignment
                                          /\ b < mem.offsets[e + 1] \div Alignment}
         blank == IF variant = "small" THEN {} ELSE Mine(t, capacity)
     IN mem' = [mem EXCEPT !.metadata = Overlay(@, owned, LAMBDA b : e),
                           !.rows = Overlay(@, blank, LAMBDA r : Sentinel)]
-----------------------------------------------------------------------------
(* Placing the routes. *)

\* The next row of an expert, taken by an atomic addition to its cursor; a worker of
\* the small kernel has a row of the table to itself and needs none.
Claim(t) ==
  /\ InSegment(t, "scatter")
  /\ left[t] # {} /\ slot_buf[t] = Nothing
  /\ LET idx == Min(left[t])
         e == flat[idx]
         b == IF variant = "small" THEN t - 1 ELSE BlockIdx(t)
     IN IF variant = "align"
          THEN /\ slot_buf' = [slot_buf EXCEPT ![t] = <<idx, mem.offsets[e]>>]
               /\ mem' = [mem EXCEPT !.offsets[e] = @ + 1]
          ELSE /\ slot_buf' = [slot_buf EXCEPT ![t] =
                    <<idx, mem.counts[b][e] + (IF variant = "small" THEN mem.offsets[e] ELSE 0)>>]
               /\ mem' = [mem EXCEPT !.counts[b][e] = @ + 1]
  /\ UNCHANGED <<variant, flat, at, left>>

Store(t) ==
  /\ slot_buf[t] # Nothing
  /\ LET idx == slot_buf[t][1]
         slot == slot_buf[t][2]
     IN /\ mem' = IF variant \in {"align", "small"} THEN [mem EXCEPT !.rows[slot] = idx]
                  ELSE [mem EXCEPT !.rows[slot] = idx \div TopK, !.inverse[idx] = slot]
        /\ left' = [left EXCEPT ![t] = @ \ {idx}]
  /\ slot_buf' = [slot_buf EXCEPT ![t] = Nothing]
  /\ UNCHANGED <<variant, flat, at>>

Sorted == \A t \in Threads : at[t] = Len(Program) /\ left[t] = {}

ThreadStep(t) ==
  \/ Zero(t) \/ Count(t) \/ FillCount(t) \/ Column(t) \/ Totals(t) \/ Prefix(t) \/ Cursor(t)
  \/ Vals(t) \/ WarpExcl(t) \/ Cumsum(t) \/ Finalize(t) \/ Claim(t) \/ Store(t)

PermuteNext == (\E t \in Threads : ThreadStep(t)) \/ (\E w \in 0 .. 1 : WarpScan(w))
=============================================================================
