----------------------------- MODULE MCSiweAuth -----------------------------
(* Constants of SiweAuth for TLC.                                           *)
EXTENDS SiweAuth, TLC

\* Addresses are interchangeable, and so are slots.
Symmetric == Permutations(Addresses) \union Permutations(Calls)

=============================================================================
