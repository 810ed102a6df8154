---------------------------- MODULE MCWsAttention ----------------------------
EXTENDS WsAttention

\* Both pairs of four row blocks: causal tiles of one, four, two and three key blocks.
PairList == <<0, 1>>
=============================================================================
