--------------------------- MODULE MCConstraints ---------------------------
(* One field, of a type of its own or a struct of accounts, with up to six   *)
(* keywords of all there are, given in any order.                            *)
EXTENDS AnchorConstraints

MCAllTokens == ConstraintToken
MCTypes == {"Account", "AccountInfo", "composite"}

\* The rest of the struct: complete, or with one thing missing or of another kind.
MCComplete == [programs |-> Programs, payer |-> "mutable", mint |-> "account"]
MCRests ==
  {MCComplete, [MCComplete EXCEPT !.mint = "address"]}
    \cup {[MCComplete EXCEPT !.programs = @ \ {p}] : p \in Programs}
    \cup {[MCComplete EXCEPT !.payer = p] : p \in {"missing", "readonly", "composite"}}
=============================================================================
