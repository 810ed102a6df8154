----------------------------- MODULE GroupedTiles -----------------------------
(***************************************************************************)
(* How a grouped GEMM cuts its output into tiles (kernels/grouped_gemm/    *)
(* template.py and grouped_gemm_persistent_maca.py).  The rows of a group  *)
(* are contiguous; a tile is up to block_m rows of one group by one of     *)
(* NumBlocksN column blocks, and every thread block finds its tile from a  *)
(* tile number alone: by a binary search over the tiles before each group, *)
(* or, when every region is padded to whole tiles, by the owner of the     *)
(* tile's first row.                                                       *)
(***************************************************************************)
EXTENDS PowersOfTwo

CONSTANTS NumGroups, BlockM, NumBlocksN,
          BlocksPerGroup   \* row blocks that share a column block in a row

Lesser(a, b) == IF a < b THEN a ELSE b
Greater(a, b) == IF a < b THEN b ELSE a

prev_end(ends, g) == IF g = 0 THEN 0 ELSE ends[g - 1]

\* s_cum: the row blocks of the groups before each group, and of all.
tile_cumsum(ends) ==
  LET cum[g \in 0 .. NumGroups] ==
        IF g = 0 THEN 0
        ELSE LET rows == Greater(ends[g - 1] - prev_end(ends, g - 1), 0)
             IN cum[g - 1] + (rows + BlockM - 1) \div BlockM
  IN cum

\* The rounds of the search: enough to halve NumGroups candidates down to one.
search_steps == CHOOSE n \in 1 .. NumGroups :
                  Pow2[n] >= NumGroups /\ (n = 1 \/ Pow2[n - 1] < NumGroups)

\* The first group whose tiles do not all come before the tile: Before(g) says that
\* the tiles up to the end of group g do.
Search(Before(_)) ==
  LET bounds[n \in 0 .. search_steps] ==
        IF n = 0 THEN <<0, NumGroups - 1>>
        ELSE LET lo == bounds[n - 1][1]
                 hi == bounds[n - 1][2]
                 mid == (lo + hi) \div 2
             IN IF Before(mid) THEN <<mid + 1, hi>> ELSE <<lo, mid>>
  IN bounds[search_steps][1]

\* Bug: the last group of row blocks is as high as the others to the column blocks.
swizzle_blockFullHeight(block_idx, num_m_blocks) ==
  LET first == (block_idx \div (NumBlocksN * BlocksPerGroup)) * BlocksPerGroup
      in_group == block_idx % (NumBlocksN * BlocksPerGroup)
      height == Lesser(BlocksPerGroup, num_m_blocks - first)
  IN [m |-> first + (in_group % height), n |-> in_group \div BlocksPerGroup]

\* The row block and the column block of a tile: BlocksPerGroup row blocks at a time,
\* column by column; the last such group of row blocks may be lower.
swizzle_block(block_idx, num_m_blocks) ==
  LET first == (block_idx \div (NumBlocksN * BlocksPerGroup)) * BlocksPerGroup
      in_group == block_idx % (NumBlocksN * BlocksPerGroup)
      height == Lesser(BlocksPerGroup, num_m_blocks - first)
  IN [m |-> first + (in_group % height), n |-> in_group \div height]

\* Bug: a group's last tile is taken to be full.
TightTileFull(block_idx, ends, cum) ==
  LET g == Search(LAMBDA mid : cum[mid + 1] * NumBlocksN <= block_idx)
      blk == swizzle_block(block_idx - cum[g] * NumBlocksN, cum[g + 1] - cum[g])
  IN [group |-> g, row0 |-> prev_end(ends, g) + blk.m * BlockM, n |-> blk.n, rows |-> BlockM]

\* A tile of tight groups (template.py): the swizzle runs inside the group.
TightTile(block_idx, ends, cum) ==
  LET g == Search(LAMBDA mid : cum[mid + 1] * NumBlocksN <= block_idx)
      blk == swizzle_block(block_idx - cum[g] * NumBlocksN, cum[g + 1] - cum[g])
      row0 == prev_end(ends, g) + blk.m * BlockM
  IN [group |-> g, row0 |-> row0, n |-> blk.n, rows |-> Lesser(BlockM, ends[g] - row0)]

\* A tile of the persistent kernel: the swizzle runs over the row blocks of the call,
\* the search over row blocks; its rows follow from the expert the block agreed on.
CounterBlock(flat_id, cum) == swizzle_block(flat_id, cum[NumGroups])

CounterExpert(flat_id, cum) ==
  LET m_tile == CounterBlock(flat_id, cum).m
  IN Search(LAMBDA mid : cum[mid + 1] <= m_tile)

CounterTile(flat_id, g, ends, cum) ==
  LET blk == CounterBlock(flat_id, cum)
      row_in_expert == (blk.m - cum[g]) * BlockM
      size == ends[g] - prev_end(ends, g)
  IN [group |-> g, row0 |-> prev_end(ends, g) + row_in_expert, n |-> blk.n,
      rows |-> Lesser(BlockM, size - row_in_expert)]

\* A tile of padded regions: all rows, of the group that owns the first one; the rows
\* after the last region belong to no group and are given to the last.
PerRowTile(block_idx, grouped_layout, m) ==
  LET blk == swizzle_block(block_idx, m \div BlockM)
      row0 == blk.m * BlockM
  IN [group |-> Lesser(Greater(grouped_layout[row0], 0), NumGroups - 1),
      row0 |-> row0, n |-> blk.n, rows |-> BlockM]
=============================================================================
