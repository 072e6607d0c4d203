----------------------------- MODULE MCAccounts -----------------------------
(* Instances of AnchorAccounts for TLC. *)
EXTENDS AnchorAccounts, TLC

CONSTANTS w1, w2, d1, d2

Symmetry == Permutations(Wallets) \cup Permutations(Data)
=============================================================================
