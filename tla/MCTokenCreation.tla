--------------------------- MODULE MCTokenCreation ---------------------------
(* Constants of TokenCreation for TLC come from the configuration.           *)
EXTENDS TokenCreation

=============================================================================
