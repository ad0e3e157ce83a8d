--------------------------- MODULE MCChainIndexer ---------------------------
(* Constants of ChainIndexer for TLC.                                       *)
EXTENDS ChainIndexer, TLC

\* "1m" covers one block time, "5m" two, so that candles of both kinds start
\* new rows and merge into old ones within the blocks of a run.
MCWidth == [i \in Intervals |-> IF i = "1m" THEN 1 ELSE 2]

\* Two tokens are interchangeable.
TokenSymmetry == Permutations(Tokens)

=============================================================================
