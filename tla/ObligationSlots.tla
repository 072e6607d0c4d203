--------------------------- MODULE ObligationSlots ---------------------------
(***************************************************************************)
(* What the entries of an obligation promise, without their contents: how   *)
(* many deposits and borrows there may be, and that they fit the area that  *)
(* an obligation account has for them.  The instructions of LendingProgram  *)
(* implement it (LendingProofs), and so does AccountLayout, on the bytes.   *)
(***************************************************************************)
EXTENDS Naturals

CONSTANT MAX_OBLIGATION_RESERVES

VARIABLES deposits, borrows

slots == <<deposits, borrows>>

OBLIGATION_COLLATERAL_LEN == 88
OBLIGATION_LIQUIDITY_LEN == 112

\* One deposit, and borrows for the rest.
FlatLen ==
  OBLIGATION_COLLATERAL_LEN + OBLIGATION_LIQUIDITY_LEN * (MAX_OBLIGATION_RESERVES - 1)

HasRoom == deposits + borrows < MAX_OBLIGATION_RESERVES

\* find_or_add_collateral_to_deposits
AddDeposit == HasRoom /\ deposits' = deposits + 1 /\ borrows' = borrows

\* A deposit withdrawn or seized in full.
RemoveDeposit == deposits > 0 /\ deposits' = deposits - 1 /\ borrows' = borrows

\* find_or_add_liquidity_to_borrows; a borrow is refused without deposits.
AddBorrow ==
  deposits > 0 /\ HasRoom /\ borrows' = borrows + 1 /\ deposits' = deposits

\* A debt repaid or liquidated in full.
RemoveBorrow == borrows > 0 /\ borrows' = borrows - 1 /\ deposits' = deposits

\* A liquidation that settles the whole debt and seizes the whole deposit.
RemoveBoth ==
  /\ deposits > 0 /\ deposits' = deposits - 1
  /\ borrows > 0 /\ borrows' = borrows - 1

Init == deposits = 0 /\ borrows = 0

Next == AddDeposit \/ RemoveDeposit \/ AddBorrow \/ RemoveBorrow \/ RemoveBoth

Spec == Init /\ [][Next]_slots

\* The entries of an obligation always fit the area behind its header, although that
\* area is smaller than MAX_OBLIGATION_RESERVES borrows: the pack of an obligation
\* never panics (obligation.rs pack_into_slice).
EntriesFit ==
  OBLIGATION_COLLATERAL_LEN * deposits + OBLIGATION_LIQUIDITY_LEN * borrows <= FlatLen

\* The inductive invariant: the limit on entries alone does not make them fit; that
\* a borrow needs a deposit does, as long as it is remembered when the deposit goes.
SlotsInv ==
  /\ deposits \in Nat /\ borrows \in Nat
  /\ deposits + borrows <= MAX_OBLIGATION_RESERVES
  /\ borrows < MAX_OBLIGATION_RESERVES

=============================================================================
