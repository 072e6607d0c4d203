----------------------------- MODULE MCLending -----------------------------
(* One reserve that two users lend to, borrow from and liquidate in, each    *)
(* with an obligation: the amounts are small enough for debts that count as  *)
(* dust.                                                                     *)
EXTENDS LendingProgram, TLC

CONSTANTS alice, bob, o1, o2

(* Borrows cost nothing, so that a debt may be as small as one token; and    *)
(* the same reserve when it is no longer accepted as collateral and debts    *)
(* are made expensive, so that even small ones earn the protocol a token.    *)
Free == [optimalUtilization |-> 80, minRate |-> 5, optimalRate |-> 20, maxRate |-> 100,
         ltv |-> 50, threshold |-> 60, bonus |-> 5, borrowFee |-> 0, flashFee |-> 1,
         hostFee |-> 20, takeRate |-> 50, depositLimit |-> 1000, borrowLimit |-> 1000]
Retired == [Free EXCEPT !.ltv = 0, !.threshold = 10, !.minRate = 200, !.optimalRate = 200,
                        !.maxRate = 200]

FreeOrRetired == {Free, Retired}
AllFree == [r \in Reserves |-> Free]

OneEach == (o1 :> alice) @@ (o2 :> bob)
Purse == [u \in Users |-> [r \in Reserves |-> IF u = alice THEN 4 ELSE 2]]

(* A price, the other oracle's when there is none, and no price at all. *)
At(p) == [pyth |-> p, switchboard |-> NoPrice]
AllAtOne == [r \in Reserves |-> At(100)]
Fallback == {At(100), [pyth |-> NoPrice, switchboard |-> 200], At(NoPrice)}
============================================================================
