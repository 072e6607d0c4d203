---------------------------- MODULE MCLiquidator ----------------------------
(* Instances of the bot for TLC. *)
EXTENDS LiquidatorInv, TLC

CONSTANTS m1, m2, o1, o2, sol, usdc, cusdc, t1, t2

(* One market with two obligations that are repaid from the same wallet      *)
(* account and seized into the same accounts.                                *)
OneMarket == <<m1>>
InOneMarket == [o \in Obligations |-> m1]

(* Two markets with one obligation each; what the first repays is what the   *)
(* second yields.                                                            *)
TwoMarkets == <<m1, m2>>
OneEach == (o1 :> m1) @@ (o2 :> m2)

AllRepaySol == [o \in Obligations |-> sol]
AllSeizeCusdc == [o \in Obligations |-> cusdc]
AllSeizeUsdc == [o \in Obligations |-> usdc]

CrossRepay == (o1 :> sol) @@ (o2 :> usdc)
CrossYield == (o1 :> usdc) @@ (o2 :> sol)

Holdings == [a \in Accounts |-> IF a = sol THEN 1 ELSE 0]

TxSymmetry == Permutations(TxSlots)
=============================================================================
