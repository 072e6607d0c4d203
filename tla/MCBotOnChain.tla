---------------------------- MODULE MCBotOnChain ----------------------------
(* The bots beside the program, for TLC. *)
EXTENDS BotOnChain, TLC

CONSTANTS sol, usdc, alice, bob, o1

(* A reserve with room between the limit of borrowing and that of health;    *)
(* one without, where a debt can equal the limit; and one that no longer     *)
(* counts as collateral and costs a fee to borrow from.                      *)
Loose == [optimalUtilization |-> 80, minRate |-> 5, optimalRate |-> 20, maxRate |-> 100,
          ltv |-> 50, threshold |-> 60, bonus |-> 5, borrowFee |-> 0, flashFee |-> 1,
          hostFee |-> 0, takeRate |-> 50, depositLimit |-> 1000, borrowLimit |-> 1000]
Tight == [Loose EXCEPT !.threshold = 50]
Void == [Loose EXCEPT !.ltv = 0, !.threshold = 0, !.borrowFee = 1, !.hostFee = 20]

Terms3 == {Loose, Tight, Void}
AllLoose == [r \in Reserves |-> Loose]
AliceOwns == [o \in Obligations |-> alice]
Funds == [u \in Users |-> [r \in Reserves |-> IF (u = alice) = (r = sol) THEN 200 ELSE 0]]
At(p) == [pyth |-> p, switchboard |-> NoPrice]
SolAtTwo == [r \in Reserves |-> IF r = sol THEN At(200) ELSE At(100)]
TwoPrices == {At(100), At(200)}
=============================================================================
