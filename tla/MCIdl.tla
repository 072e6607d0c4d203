------------------------------- MODULE MCIdl -------------------------------
(* Instances of AnchorIdl for TLC. *)
EXTENDS AnchorIdl

\* Two terminals of the maintainer, or of two maintainers.
MCSameWallet == [s \in Sessions |-> "alice"]

\* A version of one chunk, and one that just fits in the account made for it, or does not.
MCSizes == [v \in Versions |-> IF v = "v1" THEN 1 ELSE 2]
=============================================================================
