------------------------ MODULE MCLegacyTokenCreation ------------------------
(* Constants of LegacyTokenCreation for TLC.                                *)
EXTENDS LegacyTokenCreation, TLC

\* Creators are interchangeable, and so are slots and names.
Symmetric == Permutations(Creators) \union Permutations(Calls) \union Permutations(Names)

=============================================================================
