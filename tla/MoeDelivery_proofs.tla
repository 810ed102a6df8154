-------------------------- MODULE MoeDelivery_proofs --------------------------
(***************************************************************************)
(* The routed experts from the rows to the output: every live row of a     *)
(* product is written, by whichever schedule, and every token gets back    *)
(* the products of its own routes.  MoePipeline_proofs shows that no cell  *)
(* is written twice and by which weights; here, that none is left out: the *)
(* tiles cover the rows of the experts, the tile counter is above the last *)
(* tile when the blocks stop, and a tile that is gone was stored.          *)
(***************************************************************************)
EXTENDS MoePipeline_proofs, SequenceTheorems

-----------------------------------------------------------------------------
(* Every place has a tile. *)

Lands(b, h, m, n) ==
  b \in Nat /\ b < h * NumBlocksN /\ swizzle_block(b, h).m = m /\ swizzle_block(b, h).n = n

\* The swizzle reaches every row block and column block.
LEMMA SwizzleOnto ==
  ASSUME NEW h \in Nat, NEW m \in Nat, m < h, NEW n \in 0 .. NumBlocksN - 1
  PROVE  \E b : Lands(b, h, m, n)
<1>1. PICK G \in Nat \ {0}, N \in Nat \ {0}, NG \in Nat \ {0} :
        G = BlocksPerGroup /\ N = NumBlocksN /\ NG = NumBlocksN * BlocksPerGroup
  BY TileSizes
<1>2. PICK q, s : q = m \div G /\ s = m % G OBVIOUS
<1>3. q \in Nat /\ s \in 0 .. G - 1 /\ m = G * q + s
  BY <1>1, <1>2, DivMod
<1>4. PICK first \in Nat : first = q * G /\ first = G * q BY <1>3, <1>1, TimesMono
<1>5. PICK height : height = Lesser(G, h - first) OBVIOUS
<1>6. /\ height \in Nat \ {0} /\ height <= G /\ first + height <= h /\ s \in 0 .. height - 1
      /\ m = first + s
  BY <1>1, <1>3, <1>4, <1>5 DEF Lesser
<1>7. PICK x \in Nat : x = height * n BY <1>1, <1>6, TimesMono
<1>8. PICK full \in Nat : full = height * N /\ full = N * height /\ x + height <= full
  <2>1. height * (n + 1) <= height * N /\ height * N \in Nat /\ height * N = N * height
    BY <1>1, <1>6, TimesMono
  <2>2. height * (n + 1) = height * n + height BY <1>1, <1>6
  <2> QED BY <1>1, <1>6, <1>7, <2>1, <2>2
<1>9. full <= NG
  <2>1. N * height <= N * G BY <1>1, <1>6, TimesMono
  <2> QED BY <1>1, <1>8, <2>1
<1>10. PICK i : i = x + s OBVIOUS
<1>11. i \in 0 .. NG - 1 /\ i < full BY <1>1, <1>6, <1>7, <1>8, <1>9, <1>10
<1>12. i \div height = n /\ i % height = s
  <2>1. (height * n + s) \div height = n /\ (height * n + s) % height = s BY <1>1, <1>6, DivModUnique
  <2> QED BY <1>7, <1>10, <2>1
<1>13. PICK b \in Nat : b = NG * q + i
  <2>1. NG * q \in Nat BY <1>1, <1>3, TimesMono
  <2> QED BY <1>1, <2>1, <1>11
<1>14. b \div NG = q /\ b % NG = i
  <2>1. (NG * q + i) \div NG = q /\ (NG * q + i) % NG = i BY <1>1, <1>3, <1>11, DivModUnique
  <2> QED BY <1>13, <2>1
<1>15. b < h * NumBlocksN
  <2>1. NG * q = N * first
    <3>1. (N * G) * q = N * (G * q) BY <1>1, <1>3
    <3> QED BY <1>1, <1>4, <3>1
  <2>2. N * (first + height) <= N * h /\ N * (first + height) \in Nat BY <1>1, <1>4, <1>6, TimesMono
  <2>3. N * (first + height) = N * first + N * height BY <1>1, <1>4, <1>6
  <2>4. N * first \in Nat BY <1>1, <1>4, TimesMono
  <2>5. h * NumBlocksN = N * h BY <1>1
  <2>6. PICK y \in Nat, z \in Nat : y = N * first /\ z = N * h BY <1>1, <2>4, TimesMono
  <2>7. b = y + i /\ y + full <= z BY <1>8, <1>13, <2>1, <2>2, <2>3, <2>6
  <2> QED BY <1>11, <2>5, <2>6, <2>7
<1>16. swizzle_block(b, h) = [m |-> first + s, n |-> n]
  BY <1>1, <1>4, <1>5, <1>12, <1>14 DEF swizzle_block
<1>17. swizzle_block(b, h).m = m /\ swizzle_block(b, h).n = n
  <2>1. PICK p : p = swizzle_block(b, h) OBVIOUS
  <2>2. p.m = first + s /\ p.n = n BY <1>16, <2>1
  <2> QED BY <1>6, <2>1, <2>2
<1> QED BY <1>15, <1>17 DEF Lands

\* A row of a region lies in one of the region's row blocks, and in the rows of its tile.
LEMMA BlockOfRow ==
  ASSUME NEW t \in Experts, NEW r \in Nat, RegionStart(t) <= r, r < RegionStart(t + 1),
         NEW m, m = (r - RegionStart(t)) \div BlockM
  PROVE  /\ m \in 0 .. BlocksIn(t) - 1
         /\ \A tile : Lies(tile, t, m) => r \in tile.row0 .. tile.row0 + tile.rows - 1
<1>1. t \in Nat BY Positive DEF Experts
<1>2. PICK s \in Nat, n \in Nat : s = RegionStart(t) /\ n = RegionSize(t) /\ RegionStart(t + 1) = s + n
  BY <1>1, RegionStartIs, RegionSizeIs
<1>3. BlockM \in Nat \ {0} BY TileSizes
<1>4. PICK off \in Nat : off = r - s /\ r = s + off /\ off < n BY <1>2
<1>5. m \in Nat /\ off % BlockM \in 0 .. BlockM - 1 /\ off = BlockM * m + (off % BlockM)
  BY <1>2, <1>3, <1>4, DivMod
<1>6. PICK x \in Nat : x = BlockM * m /\ x = m * BlockM
  <2>1. BlockM * m = m * BlockM /\ BlockM * m \in Nat BY <1>3, <1>5, TimesMono
  <2> QED BY <2>1
<1>7. x <= off /\ off < x + BlockM BY <1>3, <1>5, <1>6
<1>8. m < BlocksIn(t)
  <2>1. BlockM * m < n BY <1>4, <1>6, <1>7
  <2> QED BY <1>2, <1>3, <1>5, <2>1, CeilDivAbove DEF BlocksIn
<1>9. BlocksIn(t) \in Nat BY <1>2, <1>3, CeilDivBounds DEF BlocksIn
<1>10. ASSUME NEW tile, Lies(tile, t, m) PROVE r \in tile.row0 .. tile.row0 + tile.rows - 1
  <2>1. tile.row0 = s + x /\ tile.rows = Lesser(BlockM, (s + n) - tile.row0) BY <1>2, <1>6, <1>10 DEF Lies
  <2> QED BY <1>3, <1>4, <1>7, <2>1 DEF Lesser
<1> QED BY <1>5, <1>8, <1>9, <1>10

\* The template's tiles.
LEMMA TightTilesCover ==
  ASSUME NEW h, EndsRegions(h), NEW cum, Cumulates(cum), NEW t \in Experts, NEW r \in Nat,
         RegionStart(t) <= r, r < RegionStart(t + 1), NEW n \in 0 .. NumBlocksN - 1
  PROVE  \E b \in Nat : /\ b < cum[NumExperts] * NumBlocksN
                        /\ r \in TightTile(b, h, cum).row0 ..
                                 TightTile(b, h, cum).row0 + TightTile(b, h, cum).rows - 1
                        /\ TightTile(b, h, cum).n = n
<1>n. NumExperts \in Nat \ {0} /\ Experts = 0 .. NumExperts - 1 BY Positive DEF Experts
<1>N. PICK N \in Nat \ {0} : N = NumBlocksN BY TileSizes
<1>c. \A e \in 0 .. NumExperts : cum[e] \in Nat BY <1>n DEF Cumulates
<1>1. PICK m : m = (r - RegionStart(t)) \div BlockM OBVIOUS
<1>2. /\ m \in 0 .. BlocksIn(t) - 1
      /\ \A tile : Lies(tile, t, m) => r \in tile.row0 .. tile.row0 + tile.rows - 1
  BY <1>1, BlockOfRow
<1>3. PICK lo \in Nat, hi \in Nat, k \in Nat :
        lo = cum[t] /\ hi = cum[t + 1] /\ k = BlocksIn(t) /\ hi = lo + k
  <2>1. t \in 0 .. NumExperts /\ t + 1 \in 0 .. NumExperts BY <1>n
  <2>2. BlocksIn(t) \in Nat BY PrevEndIs
  <2> QED BY <1>c, <2>1, <2>2 DEF Cumulates
<1>4. PICK w \in Nat : w < k * N /\ swizzle_block(w, k).m = m /\ swizzle_block(w, k).n = n
  <2>1. m \in Nat /\ m < k BY <1>2, <1>3
  <2>2. PICK w : Lands(w, k, m, n) BY <2>1, SwizzleOnto
  <2> QED BY <1>N, <2>2 DEF Lands
<1>5. PICK x \in Nat, y \in Nat : x = lo * N /\ y = hi * N /\ y = x + k * N /\ k * N \in Nat
  <2>1. lo * N = N * lo /\ hi * N = N * hi /\ k * N = N * k BY <1>3, <1>N
  <2>2. N * lo \in Nat /\ N * hi \in Nat /\ N * k \in Nat BY <1>3, <1>N, TimesMono
  <2>3. N * hi = N * lo + N * k BY <1>3, <1>N
  <2> QED BY <2>1, <2>2, <2>3
<1>6. PICK b \in Nat : b = x + w /\ x <= b /\ b < y BY <1>4, <1>5
\* The number of a tile compares with the row blocks of the groups.
<1>7. ASSUME NEW e \in 0 .. NumExperts
      PROVE  /\ cum[e] <= cum[t] => cum[e] * N <= b
             /\ cum[t + 1] <= cum[e] => b < cum[e] * N
  <2>1. PICK z \in Nat : z = cum[e] BY <1>c
  <2>2. z * N = N * z /\ N * z \in Nat /\ N * lo = lo * N /\ N * hi = hi * N BY <1>3, <1>N, <2>1, TimesMono
  <2>3. z <= lo => N * z <= N * lo BY <1>3, <1>N, <2>1, TimesMono
  <2>4. hi <= z => N * hi <= N * z BY <1>3, <1>N, <2>1, TimesMono
  <2>5. PICK v \in Nat : v = z * N /\ v = N * z BY <2>2
  <2>6. z <= lo => v <= x BY <1>5, <2>2, <2>3, <2>5
  <2>7. hi <= z => y <= v BY <1>5, <2>2, <2>4, <2>5
  <2> QED BY <1>3, <1>6, <2>1, <2>5, <2>6, <2>7
<1>8. b < cum[NumExperts] * NumBlocksN
  <2>1. t + 1 \in 0 .. NumExperts /\ NumExperts \in 0 .. NumExperts /\ t + 1 <= NumExperts BY <1>n
  <2>2. cum[t + 1] <= cum[NumExperts] BY <2>1, CumulatesUp
  <2> QED BY <1>7, <1>N, <2>1, <2>2
<1>9. \A e \in Experts : cum[e + 1] * NumBlocksN <= b <=> e < t
  <2> TAKE e \in Experts
  <2>1. e + 1 \in 0 .. NumExperts /\ t \in 0 .. NumExperts /\ t + 1 \in 0 .. NumExperts BY <1>n
  <2>2. CASE e < t
    <3>1. e + 1 <= t BY <1>n, <2>2
    <3>2. cum[e + 1] <= cum[t] BY <2>1, <3>1, CumulatesUp
    <3> QED BY <1>7, <1>N, <2>1, <2>2, <3>2
  <2>3. CASE ~(e < t)
    <3>1. t + 1 <= e + 1 BY <1>n, <2>3
    <3>2. cum[t + 1] <= cum[e + 1] BY <2>1, <3>1, CumulatesUp
    <3>3. b < cum[e + 1] * N BY <1>7, <2>1, <3>2
    <3>4. PICK v \in Nat : v = cum[e + 1] * N
      <4>1. PICK z \in Nat : z = cum[e + 1] BY <1>c, <2>1
      <4>2. N * z \in Nat /\ N * z = z * N BY <1>N, TimesMono
      <4> QED BY <4>1, <4>2
    <3> QED BY <1>N, <2>3, <3>3, <3>4
  <2> QED BY <2>2, <2>3
<1>10. TileGroup(cum, b) = t BY <1>9, TileGroupIs
<1>11. PICK blk : blk = swizzle_block(w, k) /\ blk.m = m /\ blk.n = n BY <1>4
<1>12. prev_end(h, t) = RegionStart(t) /\ h[t] = RegionStart(t + 1) BY PrevEndIs
<1>13. b - cum[t] * NumBlocksN = w /\ cum[t + 1] - cum[t] = k BY <1>3, <1>5, <1>6, <1>N
<1>14. TightTile(b, h, cum) =
         [group |-> t, row0 |-> prev_end(h, t) + blk.m * BlockM, n |-> blk.n,
          rows |-> Lesser(BlockM, h[t] - (prev_end(h, t) + blk.m * BlockM))]
  <2>1. TightTile(b, h, cum) =
          LET g == TileGroup(cum, b)
              bb == swizzle_block(b - cum[g] * NumBlocksN, cum[g + 1] - cum[g])
              row0 == prev_end(h, g) + bb.m * BlockM
          IN [group |-> g, row0 |-> row0, n |-> bb.n, rows |-> Lesser(BlockM, h[g] - row0)]
    BY DEF TightTile, TileGroup
  <2> QED BY <1>10, <1>11, <1>13, <2>1
<1>15. PICK tile : tile = TightTile(b, h, cum) OBVIOUS
<1>16. /\ tile.group = t /\ tile.row0 = RegionStart(t) + m * BlockM /\ tile.n = n
       /\ tile.rows = Lesser(BlockM, RegionStart(t + 1) - tile.row0)
  BY <1>11, <1>12, <1>14, <1>15
<1>17. Lies(tile, t, m) BY <1>2, <1>16 DEF Lies
<1>18. r \in tile.row0 .. tile.row0 + tile.rows - 1 BY <1>2, <1>17
<1> WITNESS b \in Nat
<1> QED BY <1>8, <1>15, <1>16, <1>18

\* The persistent kernel's tiles.
LEMMA CounterTilesCover ==
  ASSUME NEW h, EndsRegions(h), NEW cum, Cumulates(cum), NEW t \in Experts, NEW r \in Nat,
         RegionStart(t) <= r, r < RegionStart(t + 1), NEW n \in 0 .. NumBlocksN - 1
  PROVE  \E b \in Nat : /\ b < cum[NumExperts] * NumBlocksN
                        /\ r \in CounterTile(b, CounterExpert(b, cum), h, cum).row0 ..
                                 CounterTile(b, CounterExpert(b, cum), h, cum).row0
                                   + CounterTile(b, CounterExpert(b, cum), h, cum).rows - 1
                        /\ CounterTile(b, CounterExpert(b, cum), h, cum).n = n
<1>n. NumExperts \in Nat \ {0} /\ Experts = 0 .. NumExperts - 1 BY Positive DEF Experts
<1>c. \A e \in 0 .. NumExperts : cum[e] \in Nat BY <1>n DEF Cumulates
<1>1. PICK m : m = (r - RegionStart(t)) \div BlockM OBVIOUS
<1>2. /\ m \in 0 .. BlocksIn(t) - 1
      /\ \A tile : Lies(tile, t, m) => r \in tile.row0 .. tile.row0 + tile.rows - 1
  BY <1>1, BlockOfRow
<1>3. PICK lo \in Nat, hi \in Nat, k \in Nat, last \in Nat :
        /\ lo = cum[t] /\ hi = cum[t + 1] /\ k = BlocksIn(t) /\ hi = lo + k
        /\ last = cum[NumExperts] /\ hi <= last
  <2>1. t \in 0 .. NumExperts /\ t + 1 \in 0 .. NumExperts /\ NumExperts \in 0 .. NumExperts /\ t + 1 <= NumExperts
    BY <1>n
  <2>2. BlocksIn(t) \in Nat BY PrevEndIs
  <2>3. cum[t + 1] <= cum[NumExperts] BY <2>1, CumulatesUp
  <2> QED BY <1>c, <2>1, <2>2, <2>3 DEF Cumulates
<1>4. PICK M \in Nat : M = lo + m /\ lo <= M /\ M < hi /\ M \in 0 .. last - 1 BY <1>2, <1>3
<1>5. PICK b \in Nat : b < last * NumBlocksN /\ swizzle_block(b, last).m = M /\ swizzle_block(b, last).n = n
  <2>1. M < last BY <1>4
  <2>2. PICK b : Lands(b, last, M, n) BY <2>1, SwizzleOnto
  <2> QED BY <2>2 DEF Lands
<1>6. CounterBlock(b, cum).m = M /\ CounterBlock(b, cum).n = n BY <1>3, <1>5 DEF CounterBlock
<1>7. \A e \in Experts : cum[e + 1] <= M <=> e < t
  <2> TAKE e \in Experts
  <2>1. e + 1 \in 0 .. NumExperts /\ t \in 0 .. NumExperts /\ t + 1 \in 0 .. NumExperts BY <1>n
  <2>2. CASE e < t
    <3>1. e + 1 <= t BY <1>n, <2>2
    <3>2. cum[e + 1] <= cum[t] BY <2>1, <3>1, CumulatesUp
    <3> QED BY <1>3, <1>4, <1>c, <2>1, <2>2, <3>2
  <2>3. CASE ~(e < t)
    <3>1. t + 1 <= e + 1 BY <1>n, <2>3
    <3>2. cum[t + 1] <= cum[e + 1] BY <2>1, <3>1, CumulatesUp
    <3> QED BY <1>3, <1>4, <1>c, <2>1, <2>3, <3>2
  <2> QED BY <2>2, <2>3
<1>8. CounterExpert(b, cum) = t
  <2>1. CounterExpert(b, cum) = BlockGroup(cum, M) BY <1>6 DEF CounterExpert, BlockGroup
  <2> QED BY <1>7, <2>1, BlockGroupIs
<1>9. PICK tile : tile = CounterTile(b, t, h, cum) OBVIOUS
<1>10. Lies(tile, t, m) /\ tile.n = n
  <2>1. b < cum[NumExperts] * NumBlocksN BY <1>3, <1>5
  <2>2. M - cum[t] = m BY <1>2, <1>3, <1>4
  <2> QED BY <1>6, <1>8, <1>9, <2>1, <2>2, CounterTileIs
<1>11. r \in tile.row0 .. tile.row0 + tile.rows - 1 BY <1>2, <1>10
<1>12. tile = CounterTile(b, CounterExpert(b, cum), h, cum) BY <1>8, <1>9
<1> WITNESS b \in Nat
<1> QED BY <1>3, <1>5, <1>10, <1>11, <1>12

Holds(tile, r, n) == r \in tile.row0 .. tile.row0 + tile.rows - 1 /\ tile.n = n

\* The tiles of whole row blocks.
LEMMA PerRowTilesCover ==
  ASSUME NEW layout, NEW cap \in Nat, cap % BlockM = 0, NEW r \in 0 .. cap - 1,
         NEW n \in 0 .. NumBlocksN - 1
  PROVE  \E b \in Nat : b < WholeBlocks(cap) * NumBlocksN /\ Holds(PerRowTile(b, layout, cap), r, n)
<1>1. BlockM \in Nat \ {0} BY TileSizes
<1>2. PICK q \in Nat : q = WholeBlocks(cap) /\ cap = BlockM * q
  <2>1. cap \div BlockM \in Nat /\ cap = BlockM * (cap \div BlockM) + (cap % BlockM) BY <1>1, DivMod
  <2>2. BlockM * (cap \div BlockM) \in Nat BY <1>1, <2>1, TimesMono
  <2> QED BY <2>1, <2>2 DEF WholeBlocks
<1>3. PICK m, s : m = r \div BlockM /\ s = r % BlockM OBVIOUS
<1>4. m \in Nat /\ s \in 0 .. BlockM - 1 /\ r = BlockM * m + s
  <2>1. r \in Nat OBVIOUS
  <2> QED BY <1>1, <1>3, <2>1, DivMod
<1>5. PICK x \in Nat : x = BlockM * m /\ x = m * BlockM
  <2>1. BlockM * m = m * BlockM /\ BlockM * m \in Nat BY <1>1, <1>4, TimesMono
  <2> QED BY <2>1
<1>6. m < q
  <2> SUFFICES ASSUME q <= m PROVE FALSE
    <3>1. q \in Nat /\ m \in Nat BY <1>2, <1>4
    <3> QED BY <3>1
  <2>1. BlockM * q <= BlockM * m BY <1>1, <1>2, <1>4, TimesMono
  <2> QED BY <1>1, <1>2, <1>4, <1>5, <2>1
<1>7. PICK b \in Nat : b < q * NumBlocksN /\ swizzle_block(b, q).m = m /\ swizzle_block(b, q).n = n
  <2>1. PICK b : Lands(b, q, m, n) BY <1>4, <1>6, SwizzleOnto
  <2> QED BY <2>1 DEF Lands
<1>8. PICK tile, blk : tile = PerRowTile(b, layout, cap) /\ blk = swizzle_block(b, q) OBVIOUS
<1>9. tile.row0 = blk.m * BlockM /\ tile.rows = BlockM /\ tile.n = blk.n
  <2>1. cap \div BlockM = q BY <1>2 DEF WholeBlocks
  <2> QED BY <1>8, <2>1 DEF PerRowTile
<1>10. r \in tile.row0 .. tile.row0 + tile.rows - 1 /\ tile.n = n
  BY <1>1, <1>4, <1>5, <1>7, <1>8, <1>9
<1>11. Holds(tile, r, n) BY <1>10 DEF Holds
<1> WITNESS b \in Nat
<1> QED BY <1>2, <1>7, <1>8, <1>11

\* Whole tiles in a region, and whole regions in the rows.
LEMMA WholeTiles ==
  ASSUME NEW cap \in Nat, cap % Alignment = 0, Alignment % BlockM = 0
  PROVE  cap % BlockM = 0
<1>1. BlockM \in Nat \ {0} /\ Alignment \in Nat \ {0} BY TileSizes, Positive
<1>2. PICK d \in Nat : Alignment = BlockM * d
  <2>1. Alignment \div BlockM \in Nat /\ Alignment = BlockM * (Alignment \div BlockM) + (Alignment % BlockM)
    BY <1>1, DivMod
  <2>2. BlockM * (Alignment \div BlockM) \in Nat BY <1>1, <2>1, TimesMono
  <2> QED BY <2>1, <2>2
<1>3. PICK k \in Nat : cap = Alignment * k
  <2>1. cap \div Alignment \in Nat /\ cap = Alignment * (cap \div Alignment) + (cap % Alignment)
    BY <1>1, DivMod
  <2>2. Alignment * (cap \div Alignment) \in Nat BY <1>1, <2>1, TimesMono
  <2> QED BY <2>1, <2>2
<1>4. PICK q \in Nat : q = d * k BY <1>2, <1>3, TimesMono
<1>5. cap = BlockM * q
  <2>1. (BlockM * d) * k = BlockM * (d * k) BY <1>1, <1>2, <1>3
  <2> QED BY <1>2, <1>3, <1>4, <2>1
<1>6. cap = BlockM * q + 0
  <2>1. BlockM * q \in Nat BY <1>1, <1>4, TimesMono
  <2> QED BY <1>5, <2>1
<1>7. (BlockM * q + 0) % BlockM = 0
  <2>1. 0 \in 0 .. BlockM - 1 BY <1>1
  <2> QED BY <1>1, <1>4, <2>1, DivModUnique
<1> QED BY <1>6, <1>7

\* A row that holds a route lies in a tile of every column block.
LEMMA CoversAll ==
  ASSUME TilesFit, SortInv, PlaceInv, MetaInv, LaunchInv, InGemm, NEW idx \in Routes,
         NEW cell \in Cells, cell[1] = mem.inverse[idx]
  PROVE  \E b \in Tiles : Covers(b, cell)
<1>1. PICK r, n : r = cell[1] /\ n = cell[2] OBVIOUS
<1>2. r \in 0 .. capacity - 1 /\ r \in Nat /\ n \in 0 .. NumBlocksN - 1 /\ capacity \in Nat /\ num_blocks \in Nat
  BY <1>1, LaunchFacts DEF Cells
<1>3. PICK t \in Experts : t = flat[idx] /\ RegionStart(t) <= r /\ r < RegionStart(t + 1)
  BY <1>1, LaunchFacts
<1>4. SUFFICES \E b \in Nat : /\ b < num_blocks
                             /\ r \in TileOf(b).row0 .. TileOf(b).row0 + TileOf(b).rows - 1
                             /\ TileOf(b).n = n
  <2>1. PICK b \in Nat : /\ b < num_blocks
                         /\ r \in TileOf(b).row0 .. TileOf(b).row0 + TileOf(b).rows - 1
                         /\ TileOf(b).n = n
    BY <1>4
  <2>2. b \in Tiles BY <1>2, <2>1 DEF Tiles
  <2>3. Covers(b, cell) BY <1>1, <2>1 DEF Covers
  <2> QED BY <2>2, <2>3
<1>5. CASE ~tight
  <2>1. /\ variant = "aligned" /\ num_blocks = WholeBlocks(capacity) * NumBlocksN
    BY <1>5, LaunchFacts
  <2>2. Alignment % BlockM = 0 BY <2>1 DEF LaunchInv, TilesFit
  <2>3. capacity % Alignment = 0 BY <1>5 DEF LaunchInv, Multiplies
  <2>4. capacity % BlockM = 0 BY <1>2, <2>2, <2>3, WholeTiles
  <2>5. PICK layout, cap : layout = mem.metadata /\ cap = capacity OBVIOUS
  <2>6. cap \in Nat /\ cap % BlockM = 0 /\ r \in 0 .. cap - 1 BY <1>2, <2>4, <2>5
  <2>7. PICK b \in Nat : b < WholeBlocks(cap) * NumBlocksN /\ Holds(PerRowTile(b, layout, cap), r, n)
    BY <1>2, <2>6, PerRowTilesCover
  <2>8. TileOf(b) = PerRowTile(b, layout, cap) BY <1>5, <2>5 DEF TileOf
  <2> WITNESS b \in Nat
  <2> QED BY <2>1, <2>5, <2>7, <2>8 DEF Holds
<1>6. CASE tight /\ schedule = "waves"
  <2>1. EndsRegions(ends) /\ Cumulates(s_cum) /\ num_blocks = s_cum[NumExperts] * NumBlocksN BY <1>6, LaunchFacts
  <2>2. \A b : TileOf(b) = TightTile(b, ends, s_cum) BY <1>6 DEF TileOf
  <2>3. PICK b \in Nat :
          /\ b < s_cum[NumExperts] * NumBlocksN
          /\ r \in TightTile(b, ends, s_cum).row0 ..
                   TightTile(b, ends, s_cum).row0 + TightTile(b, ends, s_cum).rows - 1
          /\ TightTile(b, ends, s_cum).n = n
    BY <1>2, <1>3, <2>1, TightTilesCover
  <2> WITNESS b \in Nat
  <2> QED BY <2>1, <2>2, <2>3
<1>7. CASE tight /\ schedule # "waves"
  <2>1. EndsRegions(ends) /\ Cumulates(s_cum) /\ num_blocks = s_cum[NumExperts] * NumBlocksN BY <1>7, LaunchFacts
  <2>2. \A b : TileOf(b) = CounterTile(b, CounterExpert(b, s_cum), ends, s_cum) BY <1>7 DEF TileOf
  <2>3. PICK b \in Nat :
          /\ b < s_cum[NumExperts] * NumBlocksN
          /\ r \in CounterTile(b, CounterExpert(b, s_cum), ends, s_cum).row0 ..
                   CounterTile(b, CounterExpert(b, s_cum), ends, s_cum).row0
                     + CounterTile(b, CounterExpert(b, s_cum), ends, s_cum).rows - 1
          /\ CounterTile(b, CounterExpert(b, s_cum), ends, s_cum).n = n
    BY <1>2, <1>3, <2>1, CounterTilesCover
  <2> WITNESS b \in Nat
  <2> QED BY <2>1, <2>2, <2>3
<1> QED BY <1>5, <1>6, <1>7

-----------------------------------------------------------------------------
(* The rounds of a launch are enough. *)

LEMMA QuotientAbove ==
  ASSUME NEW n \in Nat, NEW m \in Nat \ {0}, NEW i \in Nat, m * i <= n
  PROVE  i <= n \div m
<1>1. PICK q, s : q = n \div m /\ s = n % m OBVIOUS
<1>2. q \in Nat /\ s \in 0 .. m - 1 /\ n = m * q + s BY <1>1, DivMod
<1> SUFFICES ASSUME q + 1 <= i PROVE FALSE BY <1>1, <1>2
<1>3. m * (q + 1) <= m * i /\ m * (q + 1) = m * q + m BY <1>2, TimesMono
<1>4. m * q \in Nat /\ m * i \in Nat BY <1>2, TimesMono
<1>5. PICK x \in Nat, y \in Nat : x = m * q /\ y = m * i BY <1>4
<1> QED BY <1>2, <1>3, <1>5

\* The row blocks of the groups: one more than the full ones for each at most.
LEMMA BlocksBounded ==
  ASSUME NEW h, EndsRegions(h), NEW cum, Cumulates(cum)
  PROVE  cum[NumExperts] \in Nat /\ cum[NumExperts] <= (RegionStart(NumExperts) \div BlockM) + NumExperts
<1> DEFINE S == {e \in Nat : e <= NumExperts => cum[e] <= (RegionStart(e) \div BlockM) + e}
<1>n. NumExperts \in Nat \ {0} /\ Experts = 0 .. NumExperts - 1 BY Positive DEF Experts
<1>c. \A e \in 0 .. NumExperts : cum[e] \in Nat BY <1>n DEF Cumulates
<1>B. BlockM \in Nat \ {0} BY TileSizes
<1>1. 0 \in S
  <2>1. RegionStart(0) = 0 /\ cum[0] = 0 BY <1>n, RegionStartIs DEF Cumulates
  <2>2. 0 \div BlockM \in Nat BY <1>B, DivMod
  <2> QED BY <2>1, <2>2
<1>2. ASSUME NEW e \in Nat, e \in S PROVE e + 1 \in S
  <2> SUFFICES ASSUME e + 1 <= NumExperts
               PROVE  cum[e + 1] <= (RegionStart(e + 1) \div BlockM) + (e + 1)
    OBVIOUS
  <2>1. e \in Experts /\ e \in 0 .. NumExperts /\ e + 1 \in 0 .. NumExperts BY <1>n
  <2>2. PICK s \in Nat, x \in Nat : s = RegionStart(e) /\ x = RegionSize(e) /\ RegionStart(e + 1) = s + x
    BY RegionStartIs, RegionSizeIs
  <2>3. PICK p, k : p = s \div BlockM /\ k = CeilDiv(x, BlockM) OBVIOUS
  <2>4. p \in Nat /\ BlockM * p <= s /\ BlockM * p \in Nat
    <3>1. p \in Nat /\ s % BlockM \in 0 .. BlockM - 1 /\ s = BlockM * p + (s % BlockM) BY <1>B, <2>2, <2>3, DivMod
    <3>2. BlockM * p \in Nat BY <1>B, <3>1, TimesMono
    <3> QED BY <1>B, <3>1, <3>2
  <2>5. k \in Nat /\ k * BlockM <= x + BlockM - 1 /\ k * BlockM \in Nat BY <1>B, <2>2, <2>3, CeilDivBounds
  <2>6. cum[e + 1] = cum[e] + k BY <2>1, <2>2, <2>3 DEF Cumulates, BlocksIn
  <2>7. cum[e] <= p + e BY <1>2, <1>n, <2>1, <2>2, <2>3
  <2>8. p + k <= ((s + x) \div BlockM) + 1
    <3>1. CASE p + k = 0
      <4>1. (s + x) \div BlockM \in Nat BY <1>B, <2>2, DivMod
      <4> QED BY <3>1, <4>1
    <3>2. CASE p + k # 0
      <4>1. PICK i \in Nat : p + k = i + 1
        <5>1. p + k - 1 \in Nat /\ p + k = (p + k - 1) + 1 BY <2>4, <2>5, <3>2
        <5> QED BY <5>1
      <4>2. BlockM * (i + 1) = BlockM * p + k * BlockM
        <5>1. BlockM * (p + k) = BlockM * p + k * BlockM BY <1>B, <2>4, <2>5
        <5> QED BY <4>1, <5>1
      <4>3. BlockM * (i + 1) = BlockM * i + BlockM BY <1>B, <4>1
      <4>4. PICK u \in Nat, v \in Nat, w \in Nat : u = BlockM * p /\ v = k * BlockM /\ w = BlockM * i
        BY <1>B, <2>4, <2>5, <4>1, TimesMono
      <4>5. w <= s + x BY <1>B, <2>2, <2>4, <2>5, <4>2, <4>3, <4>4
      <4>6. i <= (s + x) \div BlockM
        <5>1. s + x \in Nat BY <2>2
        <5> QED BY <1>B, <4>4, <4>5, <5>1, QuotientAbove
      <4>7. (s + x) \div BlockM \in Nat BY <1>B, <2>2, DivMod
      <4> QED BY <4>1, <4>6, <4>7
    <3> QED BY <3>1, <3>2
  <2>9. PICK z \in Nat : z = (s + x) \div BlockM BY <1>B, <2>2, DivMod
  <2>10. cum[e] \in Nat /\ cum[e + 1] \in Nat BY <1>c, <2>1
  <2> QED BY <2>2, <2>4, <2>5, <2>6, <2>7, <2>8, <2>9, <2>10
<1>3. Nat \subseteq S
  <2> HIDE DEF S
  <2> QED BY <1>1, <1>2, SetInduction
<1>4. NumExperts \in S BY <1>3, <1>n
<1> QED BY <1>c, <1>n, <1>4

\* The claims of all blocks together number no less than the tiles.
LEMMA RoundsSuffice ==
  ASSUME SortInv, PlaceInv, MetaInv, LaunchInv, InGemm, tight
  PROVE  max_iters \in Nat /\ num_blocks <= NumSms * max_iters
<1>1. CaseInv BY DEF SortInv, TypeInv
<1>2. EndsRegions(ends) /\ Cumulates(s_cum) /\ num_blocks = s_cum[NumExperts] * NumBlocksN BY LaunchFacts
<1>3. PICK N \in Nat \ {0}, P \in Nat \ {0} : N = NumBlocksN /\ P = NumSms BY TileSizes
<1>4. PICK k \in Nat, most \in Nat :
        k = s_cum[NumExperts] /\ most = (numel \div BlockM) + NumExperts /\ k <= most
  <2>1. RegionStart(NumExperts) = numel BY <1>1, RegionsFit
  <2>2. numel \div BlockM \in Nat BY NumelPositive, TileSizes, DivMod
  <2> QED BY <1>2, <2>1, <2>2, BlocksBounded, Positive
<1>5. PICK tiles \in Nat : tiles = most * N /\ num_blocks <= tiles
  <2>1. N * k <= N * most /\ N * most \in Nat /\ N * k = k * N /\ N * most = most * N
    BY <1>3, <1>4, TimesMono
  <2> QED BY <1>2, <1>3, <1>4, <2>1
<1>6. PICK q \in Nat : q = CeilDiv(tiles, P) /\ tiles <= q * P BY <1>3, <1>5, CeilDivBounds
<1>7. max_iters = q + 2 BY <1>3, <1>4, <1>5, <1>6 DEF max_iters
<1>8. P * (q + 2) = q * P + P * 2 /\ q * P \in Nat
  <2>1. P * q = q * P /\ P * q \in Nat BY <1>3, <1>6, TimesMono
  <2>2. P * (q + 2) = P * q + P * 2 BY <1>3, <1>6
  <2> QED BY <2>1, <2>2
<1>9. num_blocks \in Nat BY LaunchFacts
<1>10. PICK x \in Nat : x = q * P BY <1>8
<1> QED BY <1>3, <1>5, <1>6, <1>7, <1>8, <1>9, <1>10

-----------------------------------------------------------------------------
(* What has been written, and how often the blocks came round. *)

\* A tile that is gone was stored.
WrittenInv ==
  InGemm => \A cell \in Cells, b \in Tiles : Covers(b, cell) /\ Gone(b, cell[3]) => c[cell] # <<>>

\* The rounds in which a block has claimed a tile number; every claim counts.
Claims(s) == IF s.pc[0] \in {"claim", "exit"} THEN s.iter[0] ELSE s.iter[0] + 1
Turns == {z \in Sms \X Nat : z[2] < Claims(cta[z[1]])}
RoundsInv ==
  InGemm /\ schedule = "counter" =>
    /\ IsFiniteSet(Turns) /\ tile_counter = Cardinality(Turns)
    /\ \A p \in Sms : /\ cta[p].iter[0] \in Nat
                      /\ cta[p].pc[0] = "exit" => cta[p].iter[0] = max_iters

\* A cell is empty or holds one product, and Append to it leaves it filled.
LEMMA FilledStays ==
  ASSUME CellInv, InGemm, NEW cell \in Cells, NEW x
  PROVE  Append(c[cell], x) # <<>>
<1>1. CASE c[cell] = <<>>
  <2>1. Append(c[cell], x) = <<x>> BY <1>1
  <2> QED BY <2>1
<1>2. CASE c[cell] # <<>>
  <2>1. PICK b \in Tiles : c[cell] = <<<<TileOf(b).group>> \o a[cell[1]]>> BY <1>2 DEF CellInv
  <2>2. PICK v : v = <<TileOf(b).group>> \o a[cell[1]] OBVIOUS
  <2>3. PICK f : f = c[cell] /\ f = <<v>> BY <2>1, <2>2
  <2>4. Append(f, x) # <<>>
    <3>1. PICK S : v \in S /\ x \in S
      <4>1. v \in {v, x} /\ x \in {v, x} OBVIOUS
      <4> QED BY <4>1
    <3>2. f \in Seq(S) BY <2>3, <3>1
    <3> QED BY <3>1, <3>2, AppendProperties
  <2> QED BY <2>3, <2>4
<1> QED BY <1>1, <1>2

LEMMA StoreFills ==
  ASSUME CellInv, WrittenInv, InGemm, UNCHANGED <<vars, stage, schedule, a, s_cum>>,
         NEW b \in Tiles, NEW x, StoreTile(TileOf(b), x),
         \A n \in Tiles, y \in Fragments : Gone(n, y)' => Gone(n, y) \/ (n = b /\ y = x)
  PROVE  WrittenInv'
<1>1. /\ Cells' = Cells /\ Tiles' = Tiles
      /\ \A n, cell : Covers(n, cell)' = Covers(n, cell)
  BY SameTiles
<1>2. ASSUME NEW cell \in Cells, NEW n \in Tiles, Covers(n, cell), Gone(n, cell[3])'
      PROVE  c'[cell] # <<>>
  <2>1. cell[3] \in Fragments BY DEF Cells
  <2>2. CASE Covers(b, cell) /\ cell[3] = x
    <3>1. c'[cell] = Append(c[cell], <<TileOf(b).group>> \o a[cell[1]]) BY <2>2 DEF StoreTile, Covers
    <3> QED BY <3>1, FilledStays
  <2>3. CASE ~(Covers(b, cell) /\ cell[3] = x)
    <3>1. c'[cell] = c[cell] BY <2>3 DEF StoreTile, Covers
    <3>2. Gone(n, cell[3]) BY <1>2, <2>1, <2>3
    <3> QED BY <1>2, <3>1, <3>2 DEF WrittenInv
  <2> QED BY <2>2, <2>3
<1>3. ASSUME NEW cell \in Cells', NEW n \in Tiles', Covers(n, cell)', Gone(n, cell[3])'
      PROVE  c'[cell] # <<>>
  BY <1>1, <1>2, <1>3
<1> QED BY <1>3 DEF WrittenInv

LEMMA QuietFills ==
  ASSUME WrittenInv, UNCHANGED <<vars, stage, schedule, a, s_cum, c>>,
         InGemm => \A n \in Tiles, y \in Fragments : Gone(n, y)' => Gone(n, y)
  PROVE  WrittenInv'
<1>1. /\ Cells' = Cells /\ Tiles' = Tiles
      /\ \A n, cell : Covers(n, cell)' = Covers(n, cell)
  BY SameTiles
<1>2. InGemm' = InGemm /\ c' = c BY DEF InGemm
<1>3. ASSUME InGemm, NEW cell \in Cells', NEW n \in Tiles', Covers(n, cell)', Gone(n, cell[3])'
      PROVE  c'[cell] # <<>>
  <2>1. cell \in Cells /\ n \in Tiles /\ Covers(n, cell) BY <1>1, <1>3
  <2>2. cell[3] \in Fragments BY <2>1 DEF Cells
  <2>3. Gone(n, cell[3]) BY <1>3, <2>1, <2>2
  <2> QED BY <1>2, <1>3, <2>1, <2>3 DEF WrittenInv
<1> QED BY <1>2, <1>3 DEF WrittenInv

\* A launch: nothing is gone, nothing is claimed.
LEMMA LaunchFills ==
  ASSUME Launch, schedule' = schedule, num_blocks' \in Nat
  PROVE  WrittenInv' /\ RoundsInv'
<1>1. /\ wave' = [pid \in Sms |-> 0] /\ cta' = [pid \in Sms |-> NewCta] /\ tile_counter' = 0
  BY DEF Launch
<1>2. NumSms \in Nat \ {0} /\ Sms = 0 .. NumSms - 1 BY TileSizes DEF Sms
<1>3. ASSUME NEW b \in Tiles', NEW x PROVE ~Gone(b, x)'
  <2>1. b \in Nat /\ b >= 0 BY <1>3 DEF Tiles
  <2>2. \A pid \in Sms : wave'[pid] = 0 BY <1>1
  <2>3. CASE schedule = "waves"
    <3>1. \A pid \in Sms : 0 .. wave'[pid] - 1 = {} BY <2>2
    <3> QED BY <2>3, <3>1 DEF Gone, Sms
  <2>4. CASE schedule # "waves" BY <1>1, <2>1, <2>4 DEF Gone
  <2> QED BY <2>3, <2>4
<1>4. WrittenInv' BY <1>3 DEF WrittenInv
<1>5. NewCta.iter[0] = 0 /\ NewCta.pc[0] = "claim" BY DEF NewCta, Lanes
<1>6. \A p \in Sms : cta'[p] = NewCta BY <1>1
<1>7. Claims(NewCta) = 0 BY <1>5 DEF Claims
<1>8. Turns' = {}
  <2>1. ASSUME NEW z \in Sms \X Nat, z[2] < Claims(cta'[z[1]]) PROVE FALSE
    <3>1. z[1] \in Sms /\ z[2] \in Nat BY <2>1
    <3>2. Claims(cta'[z[1]]) = 0 BY <1>6, <1>7, <3>1
    <3> QED BY <2>1, <3>1, <3>2
  <2>2. Turns' = {z \in Sms \X Nat : z[2] < Claims(cta'[z[1]])} BY DEF Turns, Claims, Sms
  <2> QED BY <2>1, <2>2
<1>9. IsFiniteSet(Turns') /\ Cardinality(Turns') = 0 BY <1>8, FS_EmptySet
<1>10. RoundsInv'
  <2>1. \A p \in Sms : cta'[p].iter[0] = 0 /\ cta'[p].pc[0] = "claim" BY <1>5, <1>6
  <2>2. \A p \in Sms : cta'[p].iter[0] \in Nat /\ cta'[p].pc[0] # "exit" BY <2>1
  <2> QED BY <1>1, <1>9, <2>2 DEF RoundsInv, Sms
<1> QED BY <1>4, <1>10

\* What changes nothing of a launch.
LEMMA DeliveryStays ==
  ASSUME WrittenInv, RoundsInv, UNCHANGED <<vars, stage, schedule, a, c, gemmVars>>
  PROVE  WrittenInv' /\ RoundsInv'
<1>1. UNCHANGED <<vars, stage, schedule, a, s_cum, c, wave, cta, tile_counter>> BY DEF gemmVars
<1>2. InGemm' = InGemm BY <1>1 DEF InGemm
<1>3. ASSUME NEW n \in Tiles, NEW y \in Fragments, Gone(n, y)' PROVE Gone(n, y)
  <2>1. schedule' = schedule /\ wave' = wave /\ tile_counter' = tile_counter /\ cta' = cta BY <1>1
  <2> QED BY <1>3, <2>1 DEF Gone, Ahead, Sms
<1>4. WrittenInv' BY <1>1, <1>3, QuietFills
<1>5. Turns' = Turns
  <2>1. cta' = cta BY <1>1
  <2> QED BY <2>1 DEF Turns, Claims, Sms
<1>6. RoundsInv' BY <1>1, <1>2, <1>5 DEF RoundsInv, Sms
<1> QED BY <1>4, <1>6

\* The template's blocks.
LEMMA WaveFills ==
  ASSUME SortInv, PlaceInv, MetaInv, TilesInv, WrittenInv, NEW pid \in Sms, Wave(pid)
  PROVE  WrittenInv' /\ RoundsInv'
<1>1. /\ InGemm /\ schedule = "waves" /\ schedule' = "waves"
      /\ wave' = [wave EXCEPT ![pid] = @ + 1]
      /\ UNCHANGED <<vars, stage, schedule, a, s_cum, cta, tile_counter>>
  BY DEF Wave
<1>2. LaunchInv /\ CellInv /\ wave \in [Sms -> Nat] BY <1>1 DEF TilesInv, WaveInv
<1>3. RoundsInv' BY <1>1 DEF RoundsInv
<1>4. NumSms \in Nat \ {0} /\ Sms = 0 .. NumSms - 1 BY TileSizes DEF Sms
<1>5. \A p \in Sms : wave[p] \in Nat /\ wave'[p] = IF p = pid THEN wave[p] + 1 ELSE wave[p]
  BY <1>1, <1>2
<1>6. PICK block_idx : block_idx = wave[pid] * NumSms + pid OBVIOUS
<1>7. block_idx \in Nat
  <2>1. NumSms * wave[pid] \in Nat /\ NumSms * wave[pid] = wave[pid] * NumSms BY <1>4, <1>5, TimesMono
  <2> QED BY <1>4, <1>6, <2>1
<1>8. num_blocks \in Nat BY <1>1, <1>2, LaunchFacts
<1>9. ASSUME NEW n \in Tiles, NEW y \in Fragments, Gone(n, y)', n # block_idx PROVE Gone(n, y)
  <2>1. PICK p \in Sms : \E w \in 0 .. wave'[p] - 1 : n = w * NumSms + p BY <1>1, <1>9 DEF Gone, Sms
  <2>2. PICK w \in 0 .. wave'[p] - 1 : n = w * NumSms + p BY <2>1
  <2>3. w \in 0 .. wave[p] - 1
    <3>1. CASE p = pid /\ w = wave[pid] BY <1>6, <1>9, <2>2, <3>1
    <3>2. CASE ~(p = pid /\ w = wave[pid]) BY <1>5, <2>2, <3>2
    <3> QED BY <3>1, <3>2
  <2> QED BY <1>1, <2>2, <2>3 DEF Gone
<1>10. Fragments = {0} BY <1>1 DEF Fragments
<1>11. CASE block_idx < num_blocks
  <2>1. block_idx \in Tiles BY <1>7, <1>8, <1>11 DEF Tiles
  <2>2. StoreTile(TileOf(block_idx), 0) BY <1>1, <1>6, <1>11 DEF Wave, TileOf
  <2>3. \A n \in Tiles, y \in Fragments : Gone(n, y)' => Gone(n, y) \/ (n = block_idx /\ y = 0)
    BY <1>9, <1>10
  <2> QED BY <1>1, <1>2, <1>3, <2>1, <2>2, <2>3, StoreFills
<1>12. CASE ~(block_idx < num_blocks)
  <2>1. UNCHANGED c BY <1>6, <1>12 DEF Wave
  <2>2. \A n \in Tiles : n # block_idx BY <1>7, <1>8, <1>12 DEF Tiles
  <2>3. \A n \in Tiles, y \in Fragments : Gone(n, y)' => Gone(n, y) BY <1>9, <2>2
  <2> QED BY <1>1, <1>3, <2>1, <2>3, QuietFills
<1> QED BY <1>11, <1>12

-----------------------------------------------------------------------------
(* The steps of a block of the persistent kernel, with the rounds. *)

Moved(pid, s) ==
  /\ InGemm /\ schedule = "counter"
  /\ UNCHANGED <<vars, stage, schedule, a, s_cum, wave>>
  /\ s \in Ctas /\ cta' = [cta EXCEPT ![pid] = s]

LEMMA NextRoundIs ==
  ASSUME NEW s0 \in Ctas, NEW x \in Lanes, NEW s, s = NextIteration(x, s0)
  PROVE  /\ s.iter[x] = s0.iter[x] + 1 /\ \A y \in Lanes : y # x => s.iter[y] = s0.iter[y]
         /\ s.pc[x] = "exit" => s.iter[x] = max_iters
<1>1. s0.pc \in [Lanes -> Steps] /\ s0.iter \in [Lanes -> Int] BY DEF Ctas
<1>2. PICK pc : pc = IF s0.iter[x] + 1 = max_iters THEN "exit" ELSE IF x = 0 THEN "claim" ELSE "top_sync"
  OBVIOUS
<1>3. s = [s0 EXCEPT !.iter[x] = @ + 1, !.pc[x] = pc] BY <1>2 DEF NextIteration
<1>4. s = [s_tile |-> s0.s_tile, s_expert |-> s0.s_expert, flat_id |-> s0.flat_id,
           iter |-> [s0.iter EXCEPT ![x] = @ + 1], pc |-> [s0.pc EXCEPT ![x] = pc]]
  BY <1>3 DEF Ctas
<1>5. s.pc[x] = pc /\ s.iter[x] = s0.iter[x] + 1 /\ \A y \in Lanes : y # x => s.iter[y] = s0.iter[y]
  BY <1>1, <1>4
<1> QED BY <1>2, <1>5

LEMMA TakeTileIs ==
  ASSUME SortInv, PlaceInv, MetaInv, TilesInv, NEW pid \in Sms, TakeTile(pid), NEW s0, s0 = cta[pid]
  PROVE  \E s : /\ Moved(pid, s) /\ s.s_tile = tile_counter /\ s.flat_id = s0.flat_id /\ s.iter = s0.iter
                /\ s.pc[0] = "top_sync" /\ s.pc[1] = s0.pc[1]
<1>1. /\ InGemm /\ schedule = "counter"
      /\ UNCHANGED <<vars, stage, schedule, a, s_cum, wave>>
      /\ cta' = [cta EXCEPT ![pid].s_tile = tile_counter, ![pid].pc[0] = "top_sync"]
  BY DEF TakeTile, CtaStep
<1>2. tile_counter \in Nat /\ Lanes = {0, 1} /\ cta \in [Sms -> Ctas] BY <1>1, BlockFacts
<1>3. s0 \in Ctas BY <1>2
<1>4. PICK s : s = [s0 EXCEPT !.s_tile = tile_counter, !.pc[0] = "top_sync"] OBVIOUS
<1>5. /\ s \in Ctas /\ s.s_tile = tile_counter /\ s.flat_id = s0.flat_id /\ s.iter = s0.iter
      /\ s.pc[0] = "top_sync" /\ s.pc[1] = s0.pc[1]
  <2>1. s0.pc \in [Lanes -> Steps] BY <1>3 DEF Ctas
  <2>2. s = [s_tile |-> tile_counter, s_expert |-> s0.s_expert, iter |-> s0.iter,
             flat_id |-> s0.flat_id, pc |-> [s0.pc EXCEPT ![0] = "top_sync"]]
    BY <1>3, <1>4 DEF Ctas
  <2>3. [s0.pc EXCEPT ![0] = "top_sync"] \in [Lanes -> Steps] BY <2>1 DEF Steps
  <2>4. s.pc[0] = "top_sync" /\ s.pc[1] = s0.pc[1] BY <1>2, <2>1, <2>2
  <2>5. s \in Ctas BY <1>2, <1>3, <2>2, <2>3 DEF Ctas
  <2> QED BY <2>2, <2>4, <2>5
<1>6. cta' = [cta EXCEPT ![pid] = s]
  <2>1. PICK d : d = [cta EXCEPT ![pid].s_tile = tile_counter] OBVIOUS
  <2>2. d = [cta EXCEPT ![pid] = [s0 EXCEPT !.s_tile = tile_counter]] BY <2>1
  <2>3. cta' = [d EXCEPT ![pid].pc[0] = "top_sync"] BY <1>1, <2>1
  <2>4. DOMAIN d = Sms /\ d[pid] = [s0 EXCEPT !.s_tile = tile_counter]
        /\ \A p \in Sms : p # pid => d[p] = cta[p]
    BY <1>2, <2>2
  <2>5. cta' = [d EXCEPT ![pid] = s] BY <1>4, <2>3, <2>4
  <2>6. DOMAIN cta' = Sms /\ cta'[pid] = s /\ \A p \in Sms : p # pid => cta'[p] = cta[p]
    BY <2>4, <2>5
  <2> QED BY <1>2, <2>2, <2>5, <2>6
<1>7. Moved(pid, s) BY <1>1, <1>5, <1>6 DEF Moved
<1> QED BY <1>5, <1>7

LEMMA BarrierIs ==
  ASSUME SortInv, PlaceInv, MetaInv, TilesInv, NEW pid \in Sms, Barrier(pid), NEW s0, s0 = cta[pid]
  PROVE  \E s : /\ Moved(pid, s) /\ s.s_tile = s0.s_tile /\ s.flat_id = s0.flat_id /\ s.iter = s0.iter
                /\ \/ /\ s0.pc[0] = "top_sync" /\ s0.pc[1] = "top_sync"
                      /\ s.pc[0] = "read" /\ s.pc[1] = "read"
                   \/ /\ s0.pc[0] = "expert_sync" /\ s0.pc[1] = "expert_sync"
                      /\ s.pc[0] = "compute" /\ s.pc[1] = "compute"
<1>1. /\ InGemm /\ schedule = "counter"
      /\ UNCHANGED <<vars, stage, schedule, a, s_cum, wave>>
      /\ \A x \in Lanes : cta[pid].pc[x] \in {"top_sync", "expert_sync"}
      /\ cta' = [cta EXCEPT ![pid].pc =
                   [x \in Lanes |-> IF @[x] = "top_sync" THEN "read" ELSE "compute"]]
  BY DEF Barrier, CtaStep
<1>2. Lanes = {0, 1} /\ cta \in [Sms -> Ctas] /\ Meets(cta[pid]) BY <1>1, BlockFacts
<1>3. s0 \in Ctas BY <1>2
<1>4. PICK f : f = [x \in Lanes |-> IF cta[pid].pc[x] = "top_sync" THEN "read" ELSE "compute"] OBVIOUS
<1>5. PICK s : s = [s0 EXCEPT !.pc = f] OBVIOUS
<1>6. /\ s \in Ctas /\ s.s_tile = s0.s_tile /\ s.flat_id = s0.flat_id /\ s.iter = s0.iter
      /\ \A x \in Lanes : s.pc[x] = IF s0.pc[x] = "top_sync" THEN "read" ELSE "compute"
  <2>1. s = [s_tile |-> s0.s_tile, s_expert |-> s0.s_expert, iter |-> s0.iter,
             flat_id |-> s0.flat_id, pc |-> f]
    BY <1>3, <1>5 DEF Ctas
  <2>2. f \in [Lanes -> Steps] BY <1>4 DEF Steps
  <2>3. \A x \in Lanes : s.pc[x] = IF s0.pc[x] = "top_sync" THEN "read" ELSE "compute" BY <1>4, <2>1
  <2>4. s \in Ctas BY <1>3, <2>1, <2>2 DEF Ctas
  <2> QED BY <2>1, <2>3, <2>4
<1>7. cta' = [cta EXCEPT ![pid] = s]
  <2>1. cta' = [cta EXCEPT ![pid].pc = f] BY <1>1, <1>4
  <2> QED BY <1>2, <1>5, <2>1
<1>8. \/ s0.pc[0] = "top_sync" /\ s0.pc[1] = "top_sync" /\ s.pc[0] = "read" /\ s.pc[1] = "read"
      \/ s0.pc[0] = "expert_sync" /\ s0.pc[1] = "expert_sync" /\ s.pc[0] = "compute" /\ s.pc[1] = "compute"
  BY <1>1, <1>2, <1>6 DEF Meets
<1>9. Moved(pid, s) BY <1>1, <1>6, <1>7 DEF Moved
<1> QED BY <1>6, <1>8, <1>9

LEMMA ReadTileIs ==
  ASSUME SortInv, PlaceInv, MetaInv, TilesInv, NEW pid \in Sms, NEW x \in Lanes, ReadTile(pid, x),
         NEW s0, s0 = cta[pid]
  PROVE  \E s : /\ Moved(pid, s) /\ s.s_tile = s0.s_tile
                /\ \/ /\ s0.s_tile < num_blocks
                      /\ s.flat_id[x] = s0.s_tile /\ s.pc[x] = "expert_sync" /\ s.iter = s0.iter
                      /\ \A y \in Lanes : y # x => s.flat_id[y] = s0.flat_id[y] /\ s.pc[y] = s0.pc[y]
                   \/ ~(s0.s_tile < num_blocks) /\ s = NextIteration(x, s0)
<1>1. /\ InGemm /\ schedule = "counter" /\ cta[pid].pc[x] = "read"
      /\ UNCHANGED <<vars, stage, schedule, a, s_cum, wave>>
  BY DEF ReadTile, CtaStep
<1>2. num_blocks \in Nat /\ Lanes = {0, 1} /\ cta \in [Sms -> Ctas] /\ Meets(cta[pid]) BY <1>1, BlockFacts
<1>3. s0 \in Ctas /\ s0.pc \in [Lanes -> Steps] /\ s0.flat_id \in [Lanes -> Int] BY <1>2 DEF Ctas
<1>4. PICK id : id = s0.s_tile OBVIOUS
<1>5. id \in Nat BY <1>1, <1>2, <1>4 DEF Meets
<1>6. CASE id < num_blocks
  <2>1. PICK expert : expert = IF x = 0 THEN CounterExpert(id, s_cum) ELSE s0.s_expert OBVIOUS
  <2>2. expert \in Int
    <3>1. CASE x = 0
      <4>1. CounterExpert(id, s_cum) \in Int
        <5>1. LaunchInv BY DEF TilesInv
        <5>2. tight BY <1>1, <5>1 DEF LaunchInv
        <5>3. EndsRegions(ends) /\ Cumulates(s_cum) /\ num_blocks = s_cum[NumExperts] * NumBlocksN
          BY <1>1, <5>1, <5>2, LaunchFacts
        <5>4. CounterExpert(id, s_cum) \in Experts BY <1>5, <1>6, <5>3, CounterTileIs
        <5> QED BY <5>4, Positive DEF Experts
      <4> QED BY <2>1, <3>1, <4>1
    <3>2. CASE x # 0 BY <1>3, <2>1, <3>2 DEF Ctas
    <3> QED BY <3>1, <3>2
  <2>3. PICK s : s = [s0 EXCEPT !.flat_id[x] = id, !.pc[x] = "expert_sync", !.s_expert = expert] OBVIOUS
  <2>4. s = [s_tile |-> id, s_expert |-> expert, iter |-> s0.iter,
             flat_id |-> [s0.flat_id EXCEPT ![x] = id], pc |-> [s0.pc EXCEPT ![x] = "expert_sync"]]
    BY <1>3, <1>4, <2>3 DEF Ctas
  <2>5. /\ s.s_tile = id /\ s.iter = s0.iter
        /\ s.flat_id[x] = id /\ s.pc[x] = "expert_sync"
        /\ \A y \in Lanes : y # x => s.flat_id[y] = s0.flat_id[y] /\ s.pc[y] = s0.pc[y]
    BY <1>3, <2>4
  <2>6. s \in Ctas
    <3>1. [s0.pc EXCEPT ![x] = "expert_sync"] \in [Lanes -> Steps] BY <1>3 DEF Steps
    <3>2. [s0.flat_id EXCEPT ![x] = id] \in [Lanes -> Int] BY <1>3, <1>5
    <3> QED BY <1>3, <1>5, <2>2, <2>4, <3>1, <3>2 DEF Ctas
  <2>7. cta' = [cta EXCEPT ![pid] = s]
    <3>1. cta' = [cta EXCEPT ![pid] =
            [cta[pid] EXCEPT !.flat_id[x] = id, !.pc[x] = "expert_sync",
               !.s_expert = IF x = 0 THEN CounterExpert(id, s_cum) ELSE cta[pid].s_expert]]
      BY <1>2, <1>4, <1>6 DEF ReadTile
    <3> QED BY <2>1, <2>3, <3>1
  <2>8. Moved(pid, s) BY <1>1, <2>6, <2>7 DEF Moved
  <2> QED BY <1>4, <1>6, <2>5, <2>8
<1>7. CASE ~(id < num_blocks)
  <2>1. PICK s : s = NextIteration(x, s0) OBVIOUS
  <2>2. cta' = [cta EXCEPT ![pid] = s] BY <1>2, <1>4, <1>7, <2>1 DEF ReadTile
  <2>3. s \in Ctas /\ s.s_tile = id BY <1>3, <1>4, <2>1, NextIterationIs
  <2>4. Moved(pid, s) BY <1>1, <2>2, <2>3 DEF Moved
  <2> QED BY <1>4, <1>7, <2>1, <2>3, <2>4
<1> QED BY <1>6, <1>7

LEMMA ComputeIs ==
  ASSUME SortInv, PlaceInv, MetaInv, TilesInv, NEW pid \in Sms, NEW x \in Lanes, Compute(pid, x),
         NEW s0, s0 = cta[pid]
  PROVE  \E s : Moved(pid, s) /\ s = NextIteration(x, s0)
<1>1. /\ InGemm /\ schedule = "counter"
      /\ UNCHANGED <<vars, stage, schedule, a, s_cum, wave>>
      /\ cta' = [cta EXCEPT ![pid] = NextIteration(x, @)]
  BY DEF Compute, CtaStep
<1>2. cta \in [Sms -> Ctas] BY <1>1, BlockFacts
<1>3. PICK s : s = NextIteration(x, s0) OBVIOUS
<1>4. s \in Ctas BY <1>2, <1>3, NextIterationIs
<1>5. cta' = [cta EXCEPT ![pid] = s] BY <1>1, <1>2, <1>3
<1>6. Moved(pid, s) BY <1>1, <1>4, <1>5 DEF Moved
<1> QED BY <1>3, <1>6

-----------------------------------------------------------------------------
(* The rounds of the blocks. *)

LEMMA RoundsKept ==
  ASSUME RoundsInv, cta \in [Sms -> Ctas], NEW pid \in Sms, NEW s, Moved(pid, s),
         tile_counter' = tile_counter, Claims(s) = Claims(cta[pid]),
         s.iter[0] \in Nat, s.pc[0] = "exit" => s.iter[0] = max_iters
  PROVE  RoundsInv'
<1>1. /\ InGemm /\ schedule = "counter" /\ cta' = [cta EXCEPT ![pid] = s]
  BY DEF Moved
<1>2. cta'[pid] = s /\ \A p \in Sms : p # pid => cta'[p] = cta[p] BY <1>1
<1>3. \A p \in Sms : Claims(cta'[p]) = Claims(cta[p]) BY <1>2
<1>4. Turns' = Turns
  <2>1. Turns' = {z \in Sms \X Nat : z[2] < Claims(cta'[z[1]])} BY DEF Turns, Claims, Sms
  <2>2. ASSUME NEW z \in Sms \X Nat PROVE z[2] < Claims(cta'[z[1]]) <=> z[2] < Claims(cta[z[1]])
    <3>1. z[1] \in Sms OBVIOUS
    <3> QED BY <1>3, <3>1
  <2> QED BY <2>1, <2>2 DEF Turns
<1>5. \A p \in Sms : /\ cta'[p].iter[0] \in Nat
                     /\ cta'[p].pc[0] = "exit" => cta'[p].iter[0] = max_iters
  BY <1>1, <1>2 DEF RoundsInv
<1> QED BY <1>1, <1>4, <1>5 DEF RoundsInv, Sms

LEMMA RoundTaken ==
  ASSUME RoundsInv, cta \in [Sms -> Ctas], NEW pid \in Sms, NEW s, Moved(pid, s),
         tile_counter' = tile_counter + 1,
         cta[pid].pc[0] = "claim", s.pc[0] = "top_sync", s.iter[0] = cta[pid].iter[0]
  PROVE  RoundsInv'
<1>1. /\ InGemm /\ schedule = "counter" /\ cta' = [cta EXCEPT ![pid] = s]
  BY DEF Moved
<1>2. cta'[pid] = s /\ \A p \in Sms : p # pid => cta'[p] = cta[p] BY <1>1
<1>3. PICK i \in Nat : i = cta[pid].iter[0] BY <1>1 DEF RoundsInv
<1>4. Claims(cta[pid]) = i /\ Claims(cta'[pid]) = i + 1 BY <1>2, <1>3 DEF Claims
<1>5. \A p \in Sms : p # pid => Claims(cta'[p]) = Claims(cta[p]) BY <1>2
<1>6. PICK new : new = <<pid, i>> OBVIOUS
<1>7. new \in Sms \X Nat /\ new[1] = pid /\ new[2] = i BY <1>6
<1>8. Turns' = Turns \cup {new}
  <2>1. Turns' = {z \in Sms \X Nat : z[2] < Claims(cta'[z[1]])} BY DEF Turns, Claims, Sms
  <2>2. ASSUME NEW z \in Sms \X Nat
        PROVE  z[2] < Claims(cta'[z[1]]) <=> z[2] < Claims(cta[z[1]]) \/ z = new
    <3>1. z[1] \in Sms /\ z[2] \in Nat /\ z = <<z[1], z[2]>> OBVIOUS
    <3>2. CASE z[1] = pid
      <4>1. z = new <=> z[2] = i BY <1>6, <3>1, <3>2
      <4> QED BY <1>4, <3>1, <3>2, <4>1
    <3>3. CASE z[1] # pid BY <1>5, <1>7, <3>1, <3>3
    <3> QED BY <3>2, <3>3
  <2> QED BY <1>7, <2>1, <2>2 DEF Turns
<1>9. new \notin Turns
  <2> SUFFICES ASSUME new \in Turns PROVE FALSE OBVIOUS
  <2>1. new[2] < Claims(cta[new[1]]) BY DEF Turns
  <2>2. i < i BY <1>4, <1>7, <2>1
  <2> QED BY <2>2
<1>10. IsFiniteSet(Turns) /\ tile_counter = Cardinality(Turns) BY <1>1 DEF RoundsInv
<1>11. IsFiniteSet(Turns') /\ Cardinality(Turns') = tile_counter + 1 BY <1>8, <1>9, <1>10, FS_AddElement
<1>12. \A p \in Sms : /\ cta'[p].iter[0] \in Nat
                      /\ cta'[p].pc[0] = "exit" => cta'[p].iter[0] = max_iters
  BY <1>1, <1>2, <1>3 DEF RoundsInv
<1> QED BY <1>1, <1>11, <1>12 DEF RoundsInv, Sms

LEMMA RoundsStep ==
  ASSUME SortInv, PlaceInv, MetaInv, TilesInv, RoundsInv, NEW pid \in Sms,
         TakeTile(pid) \/ Barrier(pid) \/ \E x \in Lanes : ReadTile(pid, x) \/ Compute(pid, x)
  PROVE  RoundsInv'
<1>1. InGemm /\ schedule = "counter" BY DEF TakeTile, Barrier, ReadTile, Compute, CtaStep
<1>2. Lanes = {0, 1} /\ cta \in [Sms -> Ctas] BY <1>1, BlockFacts
<1>3. PICK s0 : s0 = cta[pid] OBVIOUS
<1>4. s0 \in Ctas /\ s0.iter[0] \in Nat /\ (s0.pc[0] = "exit" => s0.iter[0] = max_iters)
  BY <1>1, <1>2, <1>3 DEF RoundsInv
<1>5. CASE TakeTile(pid)
  <2>1. PICK s : /\ Moved(pid, s) /\ s.iter = s0.iter /\ s.pc[0] = "top_sync" BY <1>3, <1>5, TakeTileIs
  <2>2. s0.pc[0] = "claim" /\ tile_counter' = tile_counter + 1 BY <1>3, <1>5 DEF TakeTile, CtaStep
  <2> QED BY <1>2, <1>3, <2>1, <2>2, RoundTaken
<1>6. CASE Barrier(pid)
  <2>1. PICK s : /\ Moved(pid, s) /\ s.iter = s0.iter
                 /\ s0.pc[0] \in {"top_sync", "expert_sync"} /\ s.pc[0] \in {"read", "compute"}
    BY <1>3, <1>6, BarrierIs
  <2>2. Claims(s) = Claims(s0) BY <2>1 DEF Claims
  <2>3. tile_counter' = tile_counter BY <1>6 DEF Barrier
  <2>4. s.iter[0] \in Nat /\ s.pc[0] # "exit" BY <1>4, <2>1
  <2> QED BY <1>2, <1>3, <2>1, <2>2, <2>3, <2>4, RoundsKept
<1>7. ASSUME NEW x \in Lanes, NEW s, Moved(pid, s), s = NextIteration(x, s0), tile_counter' = tile_counter,
             s0.pc[x] \notin {"claim", "exit"}
      PROVE  RoundsInv'
  <2>1. /\ s.pc[x] \in {"exit", IF x = 0 THEN "claim" ELSE "top_sync"}
        /\ \A y \in Lanes : y # x => s.pc[y] = s0.pc[y]
    BY <1>4, <1>7, NextIterationIs
  <2>2. /\ s.iter[x] = s0.iter[x] + 1 /\ \A y \in Lanes : y # x => s.iter[y] = s0.iter[y]
        /\ s.pc[x] = "exit" => s.iter[x] = max_iters
    BY <1>4, <1>7, NextRoundIs
  <2>3. CASE x = 0
    <3>1. Claims(s) = Claims(s0) BY <1>7, <2>1, <2>2, <2>3 DEF Claims
    <3>2. s.iter[0] \in Nat /\ (s.pc[0] = "exit" => s.iter[0] = max_iters) BY <1>4, <2>2, <2>3
    <3> QED BY <1>2, <1>3, <1>7, <3>1, <3>2, RoundsKept
  <2>4. CASE x = 1
    <3>1. s.pc[0] = s0.pc[0] /\ s.iter[0] = s0.iter[0] BY <1>2, <2>1, <2>2, <2>4
    <3>2. Claims(s) = Claims(s0) BY <3>1 DEF Claims
    <3>3. s.iter[0] \in Nat /\ (s.pc[0] = "exit" => s.iter[0] = max_iters) BY <1>4, <3>1
    <3> QED BY <1>2, <1>3, <1>7, <3>2, <3>3, RoundsKept
  <2> QED BY <1>2, <2>3, <2>4
<1>8. ASSUME NEW x \in Lanes, ReadTile(pid, x) PROVE RoundsInv'
  <2>1. s0.pc[x] = "read" /\ tile_counter' = tile_counter BY <1>3, <1>8 DEF ReadTile, CtaStep
  <2>2. PICK s : /\ Moved(pid, s)
                 /\ \/ /\ s.pc[x] = "expert_sync" /\ s.iter = s0.iter
                       /\ \A y \in Lanes : y # x => s.pc[y] = s0.pc[y]
                    \/ s = NextIteration(x, s0)
    BY <1>3, <1>8, ReadTileIs
  <2>3. CASE s = NextIteration(x, s0) BY <1>7, <2>1, <2>2, <2>3
  <2>4. CASE /\ s.pc[x] = "expert_sync" /\ s.iter = s0.iter
             /\ \A y \in Lanes : y # x => s.pc[y] = s0.pc[y]
    <3>1. Claims(s) = Claims(s0) /\ (s.pc[0] = "exit" => s0.pc[0] = "exit") BY <1>2, <2>1, <2>4 DEF Claims
    <3>2. s.iter[0] \in Nat /\ (s.pc[0] = "exit" => s.iter[0] = max_iters) BY <1>4, <2>4, <3>1
    <3> QED BY <1>2, <1>3, <2>1, <2>2, <3>1, <3>2, RoundsKept
  <2> QED BY <2>2, <2>3, <2>4
<1>9. ASSUME NEW x \in Lanes, Compute(pid, x) PROVE RoundsInv'
  <2>1. s0.pc[x] = "compute" /\ tile_counter' = tile_counter BY <1>3, <1>9 DEF Compute, CtaStep
  <2>2. PICK s : Moved(pid, s) /\ s = NextIteration(x, s0) BY <1>3, <1>9, ComputeIs
  <2> QED BY <1>7, <2>1, <2>2
<1> QED BY <1>5, <1>6, <1>8, <1>9

-----------------------------------------------------------------------------
(* What the blocks of the persistent kernel have left behind them. *)

\* A step after which nothing lies behind the blocks that did not before.
LEMMA GoneBefore ==
  ASSUME SortInv, PlaceInv, MetaInv, TilesInv, NEW pid \in Sms, NEW s, Moved(pid, s),
         NEW n \in Tiles, NEW y \in Lanes,
         Ahead(cta[pid], y, n) => Ahead(s, y, n),
         tile_counter' = tile_counter \/ (tile_counter' = tile_counter + 1 /\ Ahead(s, y, tile_counter)),
         Gone(n, y)'
  PROVE  Gone(n, y)
<1>1. /\ InGemm /\ schedule = "counter" /\ schedule' = "counter" /\ cta' = [cta EXCEPT ![pid] = s]
  BY DEF Moved
<1>2. tile_counter \in Nat /\ num_blocks \in Nat /\ cta \in [Sms -> Ctas] BY <1>1, BlockFacts
<1>3. n \in Nat BY <1>2 DEF Tiles
<1>4. n < tile_counter' /\ \A p \in Sms : ~Ahead(cta'[p], y, n) BY <1>1 DEF Gone, Ahead, Sms
<1>5. cta'[pid] = s /\ \A p \in Sms : p # pid => cta'[p] = cta[p] BY <1>1, <1>2
<1>6. \A p \in Sms : ~Ahead(cta[p], y, n) BY <1>4, <1>5
<1>7. n < tile_counter
  <2>1. ~Ahead(s, y, n) BY <1>4, <1>5
  <2> QED BY <1>2, <1>3, <1>4, <2>1
<1> QED BY <1>1, <1>6, <1>7 DEF Gone

LEMMA CounterFills ==
  ASSUME SortInv, PlaceInv, MetaInv, TilesInv, WrittenInv, NEW pid \in Sms,
         TakeTile(pid) \/ Barrier(pid) \/ \E x \in Lanes : ReadTile(pid, x) \/ Compute(pid, x)
  PROVE  WrittenInv'
<1>1. InGemm /\ schedule = "counter" /\ UNCHANGED <<vars, stage, schedule, a, s_cum>>
  BY DEF TakeTile, Barrier, ReadTile, Compute, CtaStep
<1>2. /\ Lanes = {0, 1} /\ num_blocks \in Nat /\ tile_counter \in Nat
      /\ cta \in [Sms -> Ctas] /\ Meets(cta[pid])
  BY <1>1, BlockFacts
<1>3. PICK s0 : s0 = cta[pid] OBVIOUS
<1>4. s0 \in Ctas /\ Meets(s0) BY <1>2, <1>3
<1>5. Fragments = Lanes BY <1>1 DEF Fragments
<1>6. \A n \in Tiles : n \in Nat /\ n < num_blocks BY <1>2 DEF Tiles
<1>7. ASSUME NEW s, Moved(pid, s), UNCHANGED c,
             \A n \in Tiles, y \in Lanes : Ahead(s0, y, n) => Ahead(s, y, n),
             \/ tile_counter' = tile_counter
             \/ tile_counter' = tile_counter + 1 /\ \A y \in Lanes : Ahead(s, y, tile_counter)
      PROVE  WrittenInv'
  <2>1. ASSUME NEW n \in Tiles, NEW y \in Fragments, Gone(n, y)' PROVE Gone(n, y)
    <3>1. y \in Lanes BY <1>5, <2>1
    <3>2. Ahead(cta[pid], y, n) => Ahead(s, y, n) BY <1>3, <1>7, <3>1
    <3>3. tile_counter' = tile_counter \/ (tile_counter' = tile_counter + 1 /\ Ahead(s, y, tile_counter))
      BY <1>7, <3>1
    <3> QED BY <1>7, <2>1, <3>1, <3>2, <3>3, GoneBefore
  <2> QED BY <1>1, <1>7, <2>1, QuietFills
<1>8. CASE TakeTile(pid)
  <2>1. PICK s : /\ Moved(pid, s) /\ s.s_tile = tile_counter /\ s.flat_id = s0.flat_id
                 /\ s.pc[0] = "top_sync" /\ s.pc[1] = s0.pc[1]
    BY <1>3, <1>8, TakeTileIs
  <2>2. s0.pc[0] = "claim" /\ tile_counter' = tile_counter + 1 /\ UNCHANGED c
    BY <1>3, <1>8 DEF TakeTile, CtaStep
  <2>3. \A y \in Lanes : Ahead(s, y, tile_counter) BY <2>1 DEF Ahead
  <2>4. ASSUME NEW n \in Tiles, NEW y \in Lanes, Ahead(s0, y, n) PROVE Ahead(s, y, n)
    <3>1. s0.pc[1] = "read" => s0.s_tile >= num_blocks BY <1>4, <2>2 DEF Meets
    <3>2. ~(s0.s_tile = n /\ (s0.pc[0] = "top_sync" \/ s0.pc[y] = "read"))
      BY <1>2, <1>6, <2>2, <3>1
    <3>3. s0.pc[y] \in {"expert_sync", "compute"} /\ s0.flat_id[y] = n BY <2>4, <3>2 DEF Ahead
    <3>4. y = 1 BY <1>2, <2>2, <3>3
    <3> QED BY <2>1, <3>3, <3>4 DEF Ahead
  <2> QED BY <1>7, <2>1, <2>2, <2>3, <2>4
<1>9. CASE Barrier(pid)
  <2>1. PICK s : /\ Moved(pid, s) /\ s.s_tile = s0.s_tile /\ s.flat_id = s0.flat_id
                 /\ \/ /\ s0.pc[0] = "top_sync" /\ s0.pc[1] = "top_sync"
                       /\ s.pc[0] = "read" /\ s.pc[1] = "read"
                    \/ /\ s0.pc[0] = "expert_sync" /\ s0.pc[1] = "expert_sync"
                       /\ s.pc[0] = "compute" /\ s.pc[1] = "compute"
    BY <1>3, <1>9, BarrierIs
  <2>2. tile_counter' = tile_counter /\ UNCHANGED c BY <1>9 DEF Barrier
  <2>3. ASSUME NEW n \in Tiles, NEW y \in Lanes, Ahead(s0, y, n) PROVE Ahead(s, y, n)
    BY <1>2, <2>1, <2>3 DEF Ahead
  <2> QED BY <1>7, <2>1, <2>2, <2>3
<1>10. ASSUME NEW x \in Lanes, ReadTile(pid, x) PROVE WrittenInv'
  <2>1. s0.pc[x] = "read" /\ tile_counter' = tile_counter /\ UNCHANGED c BY <1>3, <1>10 DEF ReadTile, CtaStep
  <2>2. PICK s : /\ Moved(pid, s) /\ s.s_tile = s0.s_tile
                 /\ \/ /\ s0.s_tile < num_blocks
                       /\ s.flat_id[x] = s0.s_tile /\ s.pc[x] = "expert_sync"
                       /\ \A y \in Lanes : y # x => s.flat_id[y] = s0.flat_id[y] /\ s.pc[y] = s0.pc[y]
                    \/ ~(s0.s_tile < num_blocks) /\ s = NextIteration(x, s0)
    BY <1>3, <1>10, ReadTileIs
  <2>3. s0.s_tile \in Nat BY <1>2, <1>4, <2>1 DEF Meets
  <2>4. ASSUME NEW n \in Tiles, NEW y \in Lanes, Ahead(s0, y, n) PROVE Ahead(s, y, n)
    <3>1. CASE /\ s0.s_tile < num_blocks /\ s.flat_id[x] = s0.s_tile /\ s.pc[x] = "expert_sync"
               /\ \A z \in Lanes : z # x => s.flat_id[z] = s0.flat_id[z] /\ s.pc[z] = s0.pc[z]
      <4>1. CASE y = x
        <5>1. s0.s_tile = n BY <2>1, <2>4, <4>1 DEF Ahead
        <5> QED BY <3>1, <4>1, <5>1 DEF Ahead
      <4>2. CASE y # x
        <5>1. s.flat_id[y] = s0.flat_id[y] /\ s.pc[y] = s0.pc[y] BY <3>1, <4>2
        <5>2. s0.pc[0] # "top_sync"
          <6>1. s0.pc[1] = "read" /\ s0.pc[0] = "top_sync" => s0.s_tile >= num_blocks BY <1>4 DEF Meets
          <6> QED BY <1>2, <2>1, <2>3, <3>1, <6>1
        <5> QED BY <2>2, <2>4, <5>1, <5>2 DEF Ahead
      <4> QED BY <4>1, <4>2
    <3>2. CASE ~(s0.s_tile < num_blocks) /\ s = NextIteration(x, s0)
      <4>1. s0.s_tile >= num_blocks /\ s0.s_tile # n BY <1>2, <1>6, <2>3, <3>2
      <4>2. s0.pc[y] \in {"expert_sync", "compute"} /\ s0.flat_id[y] = n BY <2>4, <4>1 DEF Ahead
      <4>3. y # x BY <2>1, <4>2
      <4>4. s.flat_id = s0.flat_id /\ s.pc[y] = s0.pc[y] BY <1>4, <3>2, <4>3, NextIterationIs
      <4> QED BY <4>2, <4>4 DEF Ahead
    <3> QED BY <2>2, <3>1, <3>2
  <2> QED BY <1>7, <2>1, <2>2, <2>4
<1>11. ASSUME NEW x \in Lanes, Compute(pid, x) PROVE WrittenInv'
  <2>1. /\ s0.pc[x] = "compute" /\ tile_counter' = tile_counter
        /\ StoreTile(CounterTile(s0.flat_id[x], s0.s_expert, ends, s_cum), x)
    BY <1>3, <1>11 DEF Compute, CtaStep
  <2>2. PICK s : Moved(pid, s) /\ s = NextIteration(x, s0) BY <1>3, <1>11, ComputeIs
  <2>3. PICK b : b = s0.flat_id[x] OBVIOUS
  <2>4. b \in Tiles /\ s0.s_expert = CounterExpert(b, s_cum)
    <3>1. CASE x = 0 BY <1>4, <2>1, <2>3, <3>1 DEF Meets
    <3>2. CASE x = 1 BY <1>4, <2>1, <2>3, <3>2 DEF Meets
    <3> QED BY <1>2, <3>1, <3>2
  <2>5. StoreTile(TileOf(b), x)
    <3>1. LaunchInv BY DEF TilesInv
    <3>2. tight BY <1>1, <3>1 DEF LaunchInv
    <3>3. TileOf(b) = CounterTile(b, CounterExpert(b, s_cum), ends, s_cum) BY <1>1, <3>2 DEF TileOf
    <3> QED BY <2>1, <2>3, <2>4, <3>3
  <2>6. /\ s.s_tile = s0.s_tile /\ s.flat_id = s0.flat_id
        /\ \A z \in Lanes : z # x => s.pc[z] = s0.pc[z]
    BY <1>4, <2>2, NextIterationIs
  <2>7. ASSUME NEW n \in Tiles, NEW y \in Lanes, Ahead(s0, y, n), ~(n = b /\ y = x) PROVE Ahead(s, y, n)
    <3>1. CASE y = x
      <4>1. s0.pc[0] = "top_sync" /\ s0.s_tile = n BY <2>1, <2>3, <2>7, <3>1 DEF Ahead
      <4>2. x # 0 BY <2>1, <4>1
      <4>3. s.pc[0] = "top_sync" BY <1>2, <2>6, <4>1, <4>2
      <4> QED BY <2>6, <4>1, <4>3 DEF Ahead
    <3>2. CASE y # x
      <4>1. s.pc[y] = s0.pc[y] BY <2>6, <3>2
      <4>2. s0.pc[0] = "top_sync" => x # 0 BY <2>1
      <4>3. s0.pc[0] = "top_sync" => s.pc[0] = "top_sync" BY <1>2, <2>6, <4>2
      <4> QED BY <2>6, <2>7, <4>1, <4>3 DEF Ahead
    <3> QED BY <3>1, <3>2
  <2>8. ASSUME NEW n \in Tiles, NEW y \in Fragments, Gone(n, y)', ~(n = b /\ y = x) PROVE Gone(n, y)
    <3>1. y \in Lanes BY <1>5, <2>8
    <3>2. Ahead(cta[pid], y, n) => Ahead(s, y, n) BY <1>3, <2>7, <2>8, <3>1
    <3> QED BY <2>1, <2>2, <2>8, <3>1, <3>2, GoneBefore
  <2>9. \A n \in Tiles, y \in Fragments : Gone(n, y)' => Gone(n, y) \/ (n = b /\ y = x) BY <2>8
  <2>10. CellInv BY DEF TilesInv
  <2> QED BY <1>1, <2>4, <2>5, <2>9, <2>10, StoreFills
<1> QED BY <1>8, <1>9, <1>10, <1>11

-----------------------------------------------------------------------------
(* The end of a launch. *)

\* When the blocks have stopped, no tile is left.
LEMMA AllGone ==
  ASSUME SortInv, PlaceInv, MetaInv, TilesInv, RoundsInv, GemmDone,
         NEW b \in Tiles, NEW y \in Fragments
  PROVE  Gone(b, y)
<1>1. LaunchInv /\ InGemm BY DEF TilesInv, GemmDone
<1>2. num_blocks \in Nat BY <1>1, LaunchFacts
<1>3. b \in Nat /\ b < num_blocks BY <1>2 DEF Tiles
<1>4. NumSms \in Nat \ {0} /\ Sms = 0 .. NumSms - 1 BY TileSizes DEF Sms
<1>5. CASE schedule = "waves"
  <2>1. PICK w, pid : w = b \div NumSms /\ pid = b % NumSms OBVIOUS
  <2>2. w \in Nat /\ pid \in Sms /\ b = NumSms * w + pid BY <1>3, <1>4, <2>1, DivMod
  <2>3. PICK x \in Nat : x = NumSms * w /\ x = w * NumSms
    <3>1. NumSms * w = w * NumSms /\ NumSms * w \in Nat BY <1>4, <2>2, TimesMono
    <3> QED BY <3>1
  <2>4. w < num_waves
    <3>1. NumSms * w < num_blocks BY <1>2, <1>3, <1>4, <2>2, <2>3
    <3> QED BY <1>2, <1>4, <2>2, <3>1, CeilDivAbove DEF num_waves
  <2>5. wave[pid] = num_waves BY <1>5, <2>2 DEF GemmDone
  <2>6. num_waves \in Nat BY <1>2, <1>4, CeilDivBounds DEF num_waves
  <2>7. w \in 0 .. wave[pid] - 1 BY <2>2, <2>4, <2>5, <2>6
  <2>8. b = w * NumSms + pid BY <2>2, <2>3
  <2> QED BY <1>5, <2>2, <2>7, <2>8 DEF Gone
<1>6. CASE schedule # "waves"
  <2>1. schedule = "counter" /\ tight BY <1>1, <1>6 DEF LaunchInv
  <2>2. Lanes = {0, 1} /\ Fragments = Lanes BY <2>1 DEF Lanes, Fragments
  <2>3. \A p \in Sms, x \in Lanes : cta[p].pc[x] = "exit" BY <1>6 DEF GemmDone
  <2>4. \A p \in Sms : ~Ahead(cta[p], y, b) BY <2>2, <2>3 DEF Ahead
  <2>5. max_iters \in Nat /\ num_blocks <= NumSms * max_iters BY <1>1, <2>1, RoundsSuffice
  <2>6. \A p \in Sms : Claims(cta[p]) = max_iters
    <3>1. \A p \in Sms : cta[p].pc[0] = "exit" BY <2>2, <2>3
    <3> QED BY <1>1, <2>1, <3>1 DEF Claims, RoundsInv
  <2>7. Turns = Sms \X (0 .. max_iters - 1)
    <3>1. ASSUME NEW z \in Sms \X Nat
          PROVE  z[2] < Claims(cta[z[1]]) <=> z[2] \in 0 .. max_iters - 1
      <4>1. z[1] \in Sms /\ z[2] \in Nat OBVIOUS
      <4> QED BY <2>5, <2>6, <4>1
    <3>2. Turns \subseteq Sms \X (0 .. max_iters - 1) BY <3>1 DEF Turns
    <3>3. ASSUME NEW z \in Sms \X (0 .. max_iters - 1) PROVE z \in Turns
      <4>1. 0 .. max_iters - 1 \subseteq Nat BY <2>5
      <4>2. z \in Sms \X Nat /\ z[2] \in 0 .. max_iters - 1 BY <4>1
      <4> QED BY <3>1, <4>2 DEF Turns
    <3> QED BY <3>2, <3>3
  <2>8. IsFiniteSet(Sms) /\ Cardinality(Sms) = NumSms
    <3>1. 0 \in Int /\ NumSms - 1 \in Int BY <1>4
    <3>2. IsFiniteSet(0 .. NumSms - 1)
          /\ Cardinality(0 .. NumSms - 1) = IF 0 > NumSms - 1 THEN 0 ELSE (NumSms - 1) - 0 + 1
      BY <3>1, FS_Interval
    <3> QED BY <1>4, <3>2
  <2>9. IsFiniteSet(0 .. max_iters - 1) /\ Cardinality(0 .. max_iters - 1) = max_iters
    <3>1. PICK k \in Nat : k = max_iters BY <2>5
    <3>2. 0 \in Int /\ k - 1 \in Int BY <3>1
    <3>3. IsFiniteSet(0 .. k - 1) /\ Cardinality(0 .. k - 1) = IF 0 > k - 1 THEN 0 ELSE (k - 1) - 0 + 1
      BY <3>2, FS_Interval
    <3>4. (IF 0 > k - 1 THEN 0 ELSE (k - 1) - 0 + 1) = k BY <3>1
    <3> QED BY <3>1, <3>3, <3>4
  <2>10. Cardinality(Turns) = NumSms * max_iters BY <2>7, <2>8, <2>9, FS_Product
  <2>11. tile_counter = NumSms * max_iters BY <1>1, <2>1, <2>10 DEF RoundsInv
  <2>12. PICK total \in Nat : total = NumSms * max_iters BY <1>4, <2>5, TimesMono
  <2>13. b < tile_counter BY <1>2, <1>3, <2>5, <2>11, <2>12
  <2> QED BY <1>6, <2>4, <2>13 DEF Gone
<1> QED BY <1>5, <1>6

\* The row of a route holds its operand, multiplied with the weights of its expert.
LEMMA RouteMultiplied ==
  ASSUME TilesFit, SortInv, PlaceInv, MetaInv, TilesInv, WrittenInv, RoundsInv, GemmDone, NEW idx \in Routes
  PROVE  ProductRow(mem.inverse[idx]) = <<flat[idx]>> \o a[mem.inverse[idx]]
<1>1. LaunchInv /\ InGemm /\ CellInv BY DEF TilesInv, GemmDone
<1>2. PICK r : r = mem.inverse[idx] OBVIOUS
<1>3. r \in Rows
  <2>1. PICK place : Filled(place) BY <1>1, SortedPlaces DEF LaunchInv
  <2>2. Multiplies BY <1>1 DEF LaunchInv
  <2>3. variant \notin {"align", "small"} BY <2>2 DEF Multiplies, tight
  <2>4. mem.inverse[idx] = place[idx] BY <2>1, <2>3 DEF Filled
  <2> QED BY <1>2, <2>1, <2>4 DEF Filled
<1>4. PICK v : v = <<flat[idx]>> \o a[r] OBVIOUS
<1>5. ASSUME NEW cell \in Cells, cell[1] = r PROVE c[cell] = <<v>>
  <2>1. PICK b \in Tiles : Covers(b, cell) BY <1>1, <1>2, <1>5, CoversAll
  <2>2. cell[3] \in Fragments BY DEF Cells
  <2>3. Gone(b, cell[3]) BY <2>2, AllGone
  <2>4. c[cell] # <<>> BY <1>1, <2>1, <2>3 DEF WrittenInv
  <2>5. PICK n \in Tiles : Covers(n, cell) /\ c[cell] = <<<<TileOf(n).group>> \o a[r]>>
    BY <1>1, <1>5, <2>4 DEF CellInv
  <2>6. TileOf(n).group = flat[idx]
    <3>1. num_blocks \in Nat BY <1>1, LaunchFacts
    <3>2. n \in Nat /\ n < num_blocks BY <3>1 DEF Tiles
    <3> QED BY <1>1, <1>2, <1>5, <2>5, <3>2, CoversOwn
  <2> QED BY <1>4, <2>5, <2>6
<1>6. \E cell \in Cells : cell[1] = r
  <2>1. 0 \in 0 .. NumBlocksN - 1 BY TileSizes
  <2>2. 0 \in Fragments BY DEF Fragments, Lanes
  <2>3. PICK cell : cell = <<r, 0, 0>> OBVIOUS
  <2>4. cell \in Cells /\ cell[1] = r BY <1>3, <2>1, <2>2, <2>3 DEF Cells
  <2> QED BY <2>4
<1> DEFINE writes == {c[cell] : cell \in {x \in Cells : x[1] = r}}
<1>7. writes = {<<v>>}
  <2>1. \A w \in writes : w = <<v>> BY <1>5
  <2>2. <<v>> \in writes BY <1>5, <1>6
  <2> QED BY <2>1, <2>2
<1>8. ProductRow(r) = IF \E w \in writes : writes = {w} /\ Len(w) = 1
                      THEN Head(CHOOSE w \in writes : TRUE) ELSE <<>>
  BY DEF ProductRow
<1> HIDE DEF writes
<1>9. PICK one : one = <<v>> OBVIOUS
<1>10. writes = {one} /\ Len(one) = 1 /\ Head(one) = v BY <1>7, <1>9
<1>11. (CHOOSE w \in writes : TRUE) = one BY <1>10
<1>12. ProductRow(r) = Head(one) BY <1>8, <1>10, <1>11
<1> QED BY <1>2, <1>4, <1>10, <1>12

-----------------------------------------------------------------------------
(* From the tokens and back. *)

\* A row that holds a route carries the token of the route, and after the first
\* product the expert it was multiplied with.
CarriesInv ==
  InGemm => \A idx \in Routes :
    a[mem.inverse[idx]] = IF stage = "gate_up" THEN <<idx \div TopK>> ELSE <<flat[idx], idx \div TopK>>

OutputInv ==
  /\ DOMAIN output = 0 .. NumTokens - 1
  /\ \A tok \in 0 .. NumTokens - 1 : output[tok] # <<>> =>
       \A k \in 1 .. TopK :
         output[tok][k] = <<flat[tok * TopK + k - 1], flat[tok * TopK + k - 1], tok>>

DeliveryInv == WrittenInv /\ RoundsInv /\ CarriesInv /\ OutputInv

\* The routes of a token.
LEMMA RouteOf ==
  ASSUME NEW tok \in 0 .. NumTokens - 1, NEW k \in 1 .. TopK
  PROVE  tok * TopK + k - 1 \in Routes /\ (tok * TopK + k - 1) \div TopK = tok
<1>1. PICK m \in Nat \ {0}, n \in Nat \ {0} : m = TopK /\ n = NumTokens BY Positive
<1>2. tok \in Nat /\ tok + 1 <= n /\ k - 1 \in 0 .. m - 1 BY <1>1
<1>3. PICK x \in Nat : x = m * tok /\ x = tok * m
  <2>1. m * tok = tok * m /\ m * tok \in Nat BY <1>1, <1>2, TimesMono
  <2> QED BY <2>1
<1>4. m * (tok + 1) <= m * n /\ m * n \in Nat /\ m * (tok + 1) = m * tok + m BY <1>1, <1>2, TimesMono
<1>5. numel = m * n BY <1>1 DEF numel
<1>6. PICK y \in Nat : y = numel BY <1>4, <1>5
<1>7. x + (k - 1) < y BY <1>1, <1>2, <1>3, <1>4, <1>5, <1>6
<1>8. (m * tok + (k - 1)) \div m = tok BY <1>1, <1>2, DivModUnique
<1>9. tok * TopK + k - 1 = x + (k - 1) BY <1>1, <1>2, <1>3
<1> QED BY <1>1, <1>2, <1>3, <1>6, <1>7, <1>8, <1>9 DEF Routes

LEMMA TokenOfRoute ==
  ASSUME NEW idx \in Routes
  PROVE  idx \div TopK \in Nat /\ idx \div TopK < NumTokens
<1>1. PICK m \in Nat \ {0}, n \in Nat \ {0} : m = TopK /\ n = NumTokens BY Positive
<1>2. idx \in Nat /\ idx < numel /\ numel = n * m BY <1>1, NumelPositive DEF Routes, numel
<1>3. PICK q : q = idx \div m OBVIOUS
<1>4. q \in Nat /\ idx % m \in 0 .. m - 1 /\ idx = m * q + (idx % m) BY <1>1, <1>2, <1>3, DivMod
<1>5. SUFFICES ASSUME n <= q PROVE FALSE BY <1>1, <1>3, <1>4
<1>6. m * n <= m * q /\ m * q \in Nat BY <1>1, <1>4, <1>5, TimesMono
<1>7. m * n = n * m BY <1>1
<1>8. PICK x \in Nat, y \in Nat : x = m * q /\ y = numel BY <1>2, <1>6, NumelPositive
<1> QED BY <1>1, <1>2, <1>4, <1>6, <1>7, <1>8

LEMMA JoinTwo ==
  ASSUME NEW e \in Int, NEW t \in Int
  PROVE  <<e>> \o <<t>> = <<e, t>>
<1>1. <<e>> \in Seq(Int) /\ <<t>> \in Seq(Int) OBVIOUS
<1>2. PICK s, p : s = <<e>> \o <<t>> /\ p = <<e, t>> OBVIOUS
<1>3. s \in Seq(Int) /\ Len(s) = 2 /\ s[1] = e /\ s[2] = t BY <1>1, <1>2
<1>4. p \in Seq(Int) /\ Len(p) = 2 /\ p[1] = e /\ p[2] = t BY <1>2
<1>5. \A i \in 1 .. Len(s) : s[i] = p[i]
  <2> TAKE i \in 1 .. Len(s)
  <2>1. i = 1 \/ i = 2 BY <1>3
  <2> QED BY <1>3, <1>4, <2>1
<1>6. s = p BY <1>3, <1>4, <1>5, SeqEqual
<1> QED BY <1>2, <1>6

LEMMA JoinThree ==
  ASSUME NEW e \in Int, NEW d \in Int, NEW t \in Int
  PROVE  <<e>> \o <<d, t>> = <<e, d, t>>
<1>1. <<e>> \in Seq(Int) /\ <<d, t>> \in Seq(Int) OBVIOUS
<1>2. PICK s, p : s = <<e>> \o <<d, t>> /\ p = <<e, d, t>> OBVIOUS
<1>3. s \in Seq(Int) /\ Len(s) = 3 /\ s[1] = e /\ s[2] = d /\ s[3] = t BY <1>1, <1>2
<1>4. p \in Seq(Int) /\ Len(p) = 3 /\ p[1] = e /\ p[2] = d /\ p[3] = t BY <1>2
<1>5. \A i \in 1 .. Len(s) : s[i] = p[i]
  <2> TAKE i \in 1 .. Len(s)
  <2>1. i = 1 \/ i = 2 \/ i = 3 BY <1>3
  <2> QED BY <1>3, <1>4, <2>1
<1>6. s = p BY <1>3, <1>4, <1>5, SeqEqual
<1> QED BY <1>2, <1>6

LEMMA PermuteFlat ==
  ASSUME PermuteNext
  PROVE  flat' = flat
BY DEF PermuteNext, ThreadStep, Segment, Zero, Count, FillCount, Column, Totals, Prefix, Cursor,
       Vals, WarpExcl, Cumsum, Finalize, Claim, Store, WarpScan

\* The gather gives a row the token of its route.
LEMMA GatherCarries ==
  ASSUME SortInv, PlaceInv, MetaInv, Gather
  PROVE  CarriesInv'
<1>1. /\ stage = "permute" /\ Sorted /\ Multiplies /\ stage' = "gate_up" /\ mem' = mem /\ flat' = flat
      /\ a' = [r \in Rows |-> IF mem.rows[r] < NumTokens THEN <<mem.rows[r]>> ELSE <<>>]
  BY DEF Gather, vars
<1>2. variant \notin {"align", "small"} BY <1>1 DEF Multiplies, tight
<1>3. PICK place : Filled(place) BY <1>1, SortedPlaces
<1>4. ASSUME NEW idx \in Routes PROVE a'[mem.inverse[idx]] = <<idx \div TopK>>
  <2>1. PICK r \in Rows : r = mem.inverse[idx] /\ mem.rows[r] = idx \div TopK BY <1>2, <1>3 DEF Filled
  <2>2. mem.rows[r] < NumTokens BY <2>1, TokenOfRoute
  <2> QED BY <1>1, <2>1, <2>2
<1> QED BY <1>1, <1>4 DEF CarriesInv

\* The second product is of the first, on the rows of the first.
LEMMA DownCarries ==
  ASSUME TilesFit, SortInv, PlaceInv, MetaInv, TilesInv, WrittenInv, RoundsInv, CarriesInv, Down
  PROVE  CarriesInv'
<1>1. /\ stage = "gate_up" /\ GemmDone /\ stage' = "down" /\ mem' = mem /\ flat' = flat
      /\ a' = [r \in Rows |-> ProductRow(r)]
  BY DEF Down, vars
<1>2. InGemm /\ LaunchInv /\ CaseInv BY <1>1 DEF InGemm, TilesInv, SortInv, TypeInv
<1>3. variant \notin {"align", "small"} /\ Sorted BY <1>2 DEF LaunchInv, Multiplies, tight
<1>4. PICK place : Filled(place) BY <1>3, SortedPlaces
<1>5. ASSUME NEW idx \in Routes PROVE a'[mem.inverse[idx]] = <<flat[idx], idx \div TopK>>
  <2>1. PICK r \in Rows : r = mem.inverse[idx] BY <1>3, <1>4 DEF Filled
  <2>2. ProductRow(r) = <<flat[idx]>> \o a[r] BY <1>1, <2>1, RouteMultiplied
  <2>3. a[r] = <<idx \div TopK>> BY <1>1, <1>2, <2>1 DEF CarriesInv
  <2>4. PICK e \in Int, t \in Int : e = flat[idx] /\ t = idx \div TopK
    <3>1. flat[idx] \in Experts BY <1>2 DEF CaseInv
    <3>2. flat[idx] \in Int BY <3>1, Positive DEF Experts
    <3>3. idx \div TopK \in Int BY TokenOfRoute
    <3> QED BY <3>2, <3>3
  <2>5. ProductRow(r) = <<e>> \o <<t>> BY <2>2, <2>3, <2>4
  <2>6. ProductRow(r) = <<e, t>> BY <2>5, JoinTwo
  <2> QED BY <1>1, <2>1, <2>4, <2>6
<1> QED BY <1>1, <1>5 DEF CarriesInv

\* A token takes the two products of each of its routes.
LEMMA UnpermuteBrings ==
  ASSUME TilesFit, SortInv, PlaceInv, MetaInv, TilesInv, WrittenInv, RoundsInv, CarriesInv, OutputInv,
         NEW tok \in 0 .. NumTokens - 1, Unpermute(tok)
  PROVE  OutputInv'
<1>1. /\ stage = "down" /\ GemmDone /\ flat' = flat
      /\ output' = [output EXCEPT ![tok] =
                      [k \in 1 .. TopK |-> ProductRow(mem.inverse[tok * TopK + k - 1])]]
  BY DEF Unpermute, vars
<1>2. InGemm /\ CaseInv BY <1>1 DEF InGemm, SortInv, TypeInv
<1>3. DOMAIN output = 0 .. NumTokens - 1 BY DEF OutputInv
<1>4. ASSUME NEW k \in 1 .. TopK
      PROVE  output'[tok][k] = <<flat[tok * TopK + k - 1], flat[tok * TopK + k - 1], tok>>
  <2>1. PICK idx \in Routes : idx = tok * TopK + k - 1 /\ idx \div TopK = tok BY RouteOf
  <2>2. PICK r : r = mem.inverse[idx] OBVIOUS
  <2>3. ProductRow(r) = <<flat[idx]>> \o a[r] BY <1>1, <2>2, RouteMultiplied
  <2>4. a[r] = <<flat[idx], idx \div TopK>> BY <1>1, <1>2, <2>2 DEF CarriesInv
  <2>5. PICK e \in Int, t \in Int : e = flat[idx] /\ t = tok
    <3>1. flat[idx] \in Experts BY <1>2 DEF CaseInv
    <3>2. flat[idx] \in Int BY <3>1, Positive DEF Experts
    <3> QED BY <3>2
  <2>6. ProductRow(r) = <<e>> \o <<e, t>> BY <2>1, <2>3, <2>4, <2>5
  <2>7. ProductRow(r) = <<e, e, t>> BY <2>6, JoinThree
  <2>8. output'[tok][k] = ProductRow(mem.inverse[tok * TopK + k - 1]) BY <1>1, <1>3
  <2> QED BY <2>1, <2>2, <2>5, <2>7, <2>8
<1>5. ASSUME NEW u \in 0 .. NumTokens - 1, output'[u] # <<>>, NEW k \in 1 .. TopK
      PROVE  output'[u][k] = <<flat[u * TopK + k - 1], flat[u * TopK + k - 1], u>>
  <2>1. CASE u = tok BY <1>4, <2>1
  <2>2. CASE u # tok
    <3>1. output'[u] = output[u] BY <1>1, <1>3, <2>2
    <3> QED BY <1>5, <3>1 DEF OutputInv
  <2> QED BY <2>1, <2>2
<1>6. DOMAIN output' = 0 .. NumTokens - 1 BY <1>1, <1>3
<1> QED BY <1>1, <1>5, <1>6 DEF OutputInv

LEMMA OutputStays ==
  ASSUME OutputInv, UNCHANGED <<flat, output>>
  PROVE  OutputInv'
BY DEF OutputInv

LEMMA CarriesStays ==
  ASSUME CarriesInv, UNCHANGED <<vars, stage, a>>
  PROVE  CarriesInv'
<1>1. mem' = mem /\ flat' = flat /\ stage' = stage /\ a' = a BY DEF vars
<1> QED BY <1>1 DEF CarriesInv, InGemm

-----------------------------------------------------------------------------
(* The steps, and the theorem. *)

LEMMA DeliveryStart ==
  ASSUME PipelineInit
  PROVE  DeliveryInv
<1>1. stage = "permute" /\ output = [tok \in 0 .. NumTokens - 1 |-> <<>>] BY DEF PipelineInit
<1>2. ~InGemm BY <1>1 DEF InGemm
<1>3. OutputInv BY <1>1 DEF OutputInv
<1> QED BY <1>2, <1>3 DEF DeliveryInv, WrittenInv, RoundsInv, CarriesInv

LEMMA BlocksCounted == SortInv /\ PlaceInv /\ MetaInv /\ LaunchInv /\ InGemm => num_blocks \in Nat
BY LaunchFacts

LEMMA DeliverySteps ==
  ASSUME TilesFit, SortInv, PlaceInv, MetaInv, TilesInv, DeliveryInv, [Next]_allVars,
         SortInv', PlaceInv', MetaInv', TilesInv'
  PROVE  DeliveryInv'
<1>0. WrittenInv /\ RoundsInv /\ CarriesInv /\ OutputInv BY DEF DeliveryInv
<1>1. CASE Permute
  <2>1. stage' = "permute" /\ flat' = flat /\ output' = output BY <1>1, PermuteFlat DEF Permute
  <2>2. ~InGemm' BY <2>1 DEF InGemm
  <2>3. OutputInv' BY <1>0, <2>1, OutputStays
  <2> QED BY <2>2, <2>3 DEF DeliveryInv, WrittenInv, RoundsInv, CarriesInv
<1>2. ASSUME Launch, UNCHANGED <<vars, schedule, output>>, stage' \in {"gate_up", "down"}
      PROVE  WrittenInv' /\ RoundsInv' /\ OutputInv'
  <2>1. InGemm' BY <1>2 DEF InGemm
  <2>2. num_blocks' \in Nat
    <3>1. SortInv' /\ PlaceInv' /\ MetaInv' /\ LaunchInv' /\ InGemm' BY <2>1 DEF TilesInv
    <3>2. (SortInv /\ PlaceInv /\ MetaInv /\ LaunchInv /\ InGemm => num_blocks \in Nat)' BY BlocksCounted, PTL
    <3> QED BY <3>1, <3>2
  <2>3. flat' = flat BY <1>2 DEF vars
  <2>4. schedule' = schedule BY <1>2
  <2> QED BY <1>0, <1>2, <2>2, <2>3, <2>4, LaunchFills, OutputStays
<1>3. CASE Gather
  <2>1. Launch /\ UNCHANGED <<vars, schedule, output>> /\ stage' \in {"gate_up", "down"} BY <1>3 DEF Gather
  <2> QED BY <1>2, <1>3, <2>1, GatherCarries DEF DeliveryInv
<1>4. CASE Down
  <2>1. Launch /\ UNCHANGED <<vars, schedule, output>> /\ stage' \in {"gate_up", "down"} BY <1>4 DEF Down
  <2> QED BY <1>0, <1>2, <1>4, <2>1, DownCarries DEF DeliveryInv
<1>5. ASSUME NEW pid \in Sms, CtaNext(pid) PROVE DeliveryInv'
  <2>1. UNCHANGED <<vars, stage, a, output>>
    BY <1>5 DEF CtaNext, Wave, TakeTile, Barrier, ReadTile, Compute, CtaStep
  <2>2. flat' = flat /\ output' = output BY <2>1 DEF vars
  <2>3. CarriesInv' /\ OutputInv' BY <1>0, <2>1, <2>2, CarriesStays, OutputStays
  <2>4. CASE Wave(pid) BY <1>0, <2>3, <2>4, WaveFills DEF DeliveryInv
  <2>5. CASE TakeTile(pid) \/ Barrier(pid) \/ \E x \in Lanes : ReadTile(pid, x) \/ Compute(pid, x)
    <3>1. WrittenInv' BY <1>0, <2>5, CounterFills
    <3>2. RoundsInv' BY <1>0, <2>5, RoundsStep
    <3> QED BY <2>3, <3>1, <3>2 DEF DeliveryInv
  <2> QED BY <1>5, <2>4, <2>5 DEF CtaNext
<1>6. ASSUME NEW tok \in 0 .. NumTokens - 1, Unpermute(tok) PROVE DeliveryInv'
  <2>1. UNCHANGED <<vars, stage, schedule, a, c, gemmVars>> BY <1>6 DEF Unpermute
  <2>2. WrittenInv' /\ RoundsInv' /\ CarriesInv' BY <1>0, <2>1, DeliveryStays, CarriesStays
  <2>3. OutputInv' BY <1>0, <1>6, UnpermuteBrings
  <2> QED BY <2>2, <2>3 DEF DeliveryInv
<1>7. CASE Finished \/ UNCHANGED allVars
  <2>1. UNCHANGED <<vars, stage, schedule, a, c, gemmVars, output>> BY <1>7 DEF Finished, allVars
  <2>2. flat' = flat /\ output' = output BY <2>1 DEF vars
  <2>3. WrittenInv' /\ RoundsInv' /\ CarriesInv' BY <1>0, <2>1, DeliveryStays, CarriesStays
  <2>4. OutputInv' BY <1>0, <2>2, OutputStays
  <2> QED BY <2>3, <2>4 DEF DeliveryInv
<1> QED BY <1>1, <1>3, <1>4, <1>5, <1>6, <1>7 DEF Next

LEMMA OutputDelivered ==
  ASSUME OutputInv
  PROVE  Delivered
BY DEF OutputInv, Delivered, AllBack

(***************************************************************************)
(* What comes back to a token for each of its routes is that token,        *)
(* multiplied with the two weights of the expert the route names           *)
(* (Delivered): for any numbers of tokens, routes, experts, thread blocks, *)
(* column blocks and rows in a tile that fit, either schedule and layout a *)
(* GEMM is run on, if padded regions are whole tiles.                      *)
(***************************************************************************)
THEOREM RoutesDelivered == ASSUME Fits, TilesFit PROVE Spec => []Delivered
<1> DEFINE Inv == SortInv /\ PlaceInv /\ MetaInv /\ TilesInv /\ DeliveryInv
<1>1. PipelineInit => Inv BY SortStart, MetaStart, TilesStart, DeliveryStart DEF PipelineInit
<1>2. Inv /\ [Next]_allVars => Inv'
  <2> SUFFICES ASSUME SortInv, PlaceInv, MetaInv, TilesInv, DeliveryInv, [Next]_allVars
               PROVE  SortInv' /\ PlaceInv' /\ MetaInv' /\ TilesInv' /\ DeliveryInv'
    OBVIOUS
  <2>1. [Next]_allVars => Permute \/ UNCHANGED vars
    BY DEF Next, Gather, Down, Finished, CtaNext, Unpermute, Wave, TakeTile, Barrier, ReadTile, Compute, CtaStep, allVars
  <2>2. SortInv' /\ PlaceInv' /\ MetaInv'
    <3>1. CASE Permute BY <3>1, SortSteps, MetaSteps DEF Permute
    <3>2. CASE UNCHANGED vars BY <3>2, SortStays, MetaStays
    <3> QED BY <2>1, <3>1, <3>2
  <2>3. TilesInv' BY TilesSteps
  <2>4. DeliveryInv' BY <2>2, <2>3, DeliverySteps
  <2> QED BY <2>2, <2>3, <2>4
<1>3. Inv => Delivered BY OutputDelivered DEF DeliveryInv
<1> QED BY <1>1, <1>2, <1>3, PTL DEF Spec
=============================================================================
