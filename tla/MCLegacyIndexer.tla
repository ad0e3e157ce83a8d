--------------------------- MODULE MCLegacyIndexer ---------------------------
(* Constants of LegacyIndexer for TLC.                                      *)
EXTENDS LegacyIndexer

\* "1m" covers one block time, "5m" two.
MCWidth == [i \in Intervals |-> IF i = "1m" THEN 1 ELSE 2]

=============================================================================
