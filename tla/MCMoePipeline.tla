---------------------------- MODULE MCMoePipeline ----------------------------
EXTENDS MoePipeline

\* Three tokens with two routes each, which may name one expert twice, over four
\* experts: the first token has the lowest of them, and the third repeats its routes.
\* Five workers share the six routes of the small sort, and one has no expert.
Tables == {f \in [Routes -> Experts] :
             /\ f[0] <= f[1] /\ f[2] <= f[3] /\ f[0] <= f[2]
             /\ f[4] = f[0] /\ f[5] = f[1]}

AllCases == Variants \X Tables

\* One call is also multiplied by the persistent kernel: a full and a partial tile of
\* one expert, a full tile, a tile of one row, and an expert without routes.
Counted == {<<"tight", [idx \in Routes |-> <<0, 2, 0, 3, 0, 2>>[idx + 1]]>>}
=============================================================================
