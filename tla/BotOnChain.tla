----------------------------- MODULE BotOnChain -----------------------------
(***************************************************************************)
(* The bots and the program looking at the same accounts.  The Rust bot     *)
(* (binding.rs, helpers.rs) and the TypeScript bot (refreshObligation.ts,    *)
(* liquidate.ts) value an obligation off chain to find out whether it can   *)
(* be liquidated; the program values it again, with interest and prices     *)
(* brought up to date by the refreshes in the same transaction, and decides *)
(* by rules of its own.  This module runs the lending program and compares  *)
(* the three verdicts in every state.                                       *)
(***************************************************************************)
EXTENDS LendingProgram

VARIABLE inForce   \* reserve -> the configurations it has had in this slot

chainVars == <<vars, inForce>>

ConfigOf(x) == IF x = NoReserve THEN {} ELSE {x.config}

ChainInit == Init /\ inForce = [r \in Reserves |-> {}]

ChainNext ==
    /\ Next
    /\ inForce' = [r \in Reserves |->
                     ConfigOf(reserve'[r]) \cup (IF slot' = slot THEN inForce[r] ELSE {})]

ChainSpec == ChainInit /\ [][ChainNext]_chainVars
-----------------------------------------------------------------------------
(* The Rust bot. *)

(* Accounts refresh_obligation computes on without an error. *)
Valuable(ob) == \A r \in Held(ob.deposits) : HasSupply(reserve[r]) /\ ExchangeRate(reserve[r]) > 0

(* The values of the entries, from the accounts as they are stored: the      *)
(* price is the one of the last refresh, the oracle's is not used.           *)
BotDepositValue(ob, r) == DepositValue(reserve[r], ob.deposits[r])

BotBorrowValue(ob, r) ==
    TryMul(AccrueBorrow(ob.borrows[r], reserve[r].cumulative).amount, reserve[r].price)

BotBorrowedValue(ob) == SumFunction([r \in Held(ob.borrows) |-> BotBorrowValue(ob, r)])

\* Variant: the loan-to-value ratio for the liquidation threshold.
BotAllowedValue(ob) ==
    SumFunction([r \in Held(ob.deposits) |->
                   TryMul(BotDepositValue(ob, r), FromPercent(reserve[r].config.ltv))])

BotUnhealthyValue(ob) ==
    SumFunction([r \in Held(ob.deposits) |->
                   TryMul(BotDepositValue(ob, r), FromPercent(reserve[r].config.threshold))])

(* The early return of process_markets: nothing owed, no limit, or healthy. *)
Underwater(borrowed, unhealthy) ==
    borrowed # 0 /\ unhealthy # 0 /\ ~(borrowed <= unhealthy)

(* Some entry of each kind is needed, and the one of the highest value is    *)
(* taken: which of several equal ones depends on their order.                *)
BotFlags(o) ==
    /\ obligation[o] # NoObligation
    /\ Valuable(obligation[o])
    /\ Underwater(BotBorrowedValue(obligation[o]), BotUnhealthyValue(obligation[o]))
    /\ Held(obligation[o].deposits) # {} /\ Held(obligation[o].borrows) # {}

SelectedBorrow(ob) ==
    {r \in Held(ob.borrows) :
       \A s \in Held(ob.borrows) : BotBorrowValue(ob, s) <= BotBorrowValue(ob, r)}

SelectedDeposit(ob) ==
    {r \in Held(ob.deposits) :
       \A s \in Held(ob.deposits) : BotDepositValue(ob, s) <= BotDepositValue(ob, r)}
-----------------------------------------------------------------------------
(* The TypeScript bot: the oracle's price, and an exchange rate of its own   *)
(* that does not know the protocol's fees.  Its decimals are wider than the  *)
(* program's; that difference in rounding is left out.                       *)

TsExchangeRate(x) ==
    IF x.supply = 0 \/ FromInt(x.available) + x.borrowed = 0 THEN INITIAL_COLLATERAL_RATE
    ELSE TryDiv(FromInt(x.supply), FromInt(x.available) + x.borrowed)

TsPriced(ob) == \A r \in Held(ob.deposits) \cup Held(ob.borrows) : GetPrice(oracle[r]) # NoPrice

TsDepositValue(ob, r) ==
    TryMul(TryDiv(FromInt(ob.deposits[r].amount), TsExchangeRate(reserve[r])), GetPrice(oracle[r]))

TsUnhealthyValue(ob) ==
    SumFunction([r \in Held(ob.deposits) |->
                   TryMul(TsDepositValue(ob, r), FromPercent(reserve[r].config.threshold))])

\* Variant: the price the reserve account recorded.
TsRecordedPrices(ob) == BotBorrowedValue(ob)

TsBorrowedValue(ob) ==
    SumFunction([r \in Held(ob.borrows) |->
                   TryMul(AccrueBorrow(ob.borrows[r], reserve[r].cumulative).amount,
                          GetPrice(oracle[r]))])

TsFlags(o) ==
    LET ob == obligation[o] IN
    /\ ob # NoObligation
    /\ TsPriced(ob)
    /\ \A r \in Held(ob.deposits) : TsExchangeRate(reserve[r]) > 0
    /\ TsBorrowedValue(ob) > TsUnhealthyValue(ob)
    /\ Held(ob.deposits) # {} /\ Held(ob.borrows) # {}
-----------------------------------------------------------------------------
(* The program, at the end of the refreshes that go with a liquidation. *)

Touched(o) == Held(obligation[o].deposits) \cup Held(obligation[o].borrows)

Refreshed(o) ==
    [r \in Reserves |-> IF r \in Touched(o)
                        THEN Accrued([reserve[r] EXCEPT !.price = GetPrice(oracle[r])])
                        ELSE reserve[r]]

CanRefresh(o) ==
    /\ obligation[o] # NoObligation
    /\ \A r \in Touched(o) : /\ reserve[r] # NoReserve
                             /\ CanAccrue(reserve[r])
                             /\ GetPrice(oracle[r]) # NoPrice
    /\ \A r \in Held(obligation[o].deposits) :
         HasSupply(Refreshed(o)[r]) /\ ExchangeRate(Refreshed(o)[r]) > 0

(* The checks of _liquidate_obligation on the obligation. *)
Accepts(o, rr, wr) ==
    /\ CanRefresh(o)
    /\ LET ob == Valued(obligation[o], Refreshed(o))
       IN  /\ ob.depositedValue # 0 /\ ob.borrowedValue # 0
           /\ ob.borrowedValue >= ob.unhealthyBorrowValue
           /\ rr \in Held(ob.borrows) /\ ob.borrows[rr].value # 0
           /\ wr \in Held(ob.deposits) /\ ob.deposits[wr].value # 0

(* The accounts already show what the refreshes would make of them. *)
UpToDate(o) == CanRefresh(o) /\ Refreshed(o) = [r \in Reserves |->
                 IF r \in Touched(o) THEN UpdateSlot(reserve[r]) ELSE reserve[r]]
-----------------------------------------------------------------------------
(* On accounts that are up to date, an obligation the Rust bot flags is one  *)
(* the program lets it liquidate, whichever of equally large entries it      *)
(* picks: the bot's stricter reading of unhealthy costs no failed            *)
(* transaction (helpers.rs against _liquidate_obligation).                   *)
FlaggedIsAccepted ==
    \A o \in Obligations : BotFlags(o) /\ UpToDate(o) =>
        \A rr \in SelectedBorrow(obligation[o]), wr \in SelectedDeposit(obligation[o]) :
            Accepts(o, rr, wr)

(* And what the Rust bot leaves although the program would accept it is at   *)
(* the edge: the debt equals the limit, the limit is zero, or the obligation *)
(* is only over the global cap, which the bot does not know.                 *)
MissedOnlyAtTheEdge ==
    \A o \in Obligations :
        (UpToDate(o) /\ ~BotFlags(o) /\ \E rr, wr \in Reserves : Accepts(o, rr, wr)) =>
           LET borrowed == BotBorrowedValue(obligation[o])
               unhealthy == BotUnhealthyValue(obligation[o])
           IN  \/ borrowed = unhealthy
               \/ unhealthy = 0
               \/ unhealthy > GlobalUnhealthyBorrowValue

(* On accounts that are up to date the Rust bot and the program come to the  *)
(* same verdict, but for what the bot misses at the edge (process_markets in *)
(* helpers.rs against _liquidate_obligation).                                *)
VerdictsAgree == FlaggedIsAccepted /\ MissedOnlyAtTheEdge

(* A move of the oracle's price reaches the TypeScript bot at once: as long  *)
(* as interest is up to date and no protocol fees have accumulated, it flags *)
(* what the program accepts, except at the edges, however old the recorded   *)
(* prices are (getTokensOracleData and calculateRefreshedObligation).        *)
TsSeesOraclePrices ==
    \A o \in Obligations :
        (/\ \E rr, wr \in Reserves : Accepts(o, rr, wr)
         /\ \A r \in Touched(o) : reserve[r].slot = slot /\ reserve[r].fees = 0) =>
           \/ TsFlags(o)
           \/ TsBorrowedValue(obligation[o]) = TsUnhealthyValue(obligation[o])
           \/ TsUnhealthyValue(obligation[o]) > GlobalUnhealthyBorrowValue

(* While an obligation passes for fresh, each reserve it was valued with had *)
(* its price read in this very slot, and had the configuration used for it   *)
(* at some time in this slot: the refresh of interest alone, which skips the *)
(* oracle and clears the mark, never leaves a reserve unmarked, and a change *)
(* of configuration, which marks nothing stale, is at most a slot late       *)
(* (_refresh_reserve_interest, process_update_reserve_config, is_stale).     *)
FreshMeansThisSlotsTerms ==
    /\ FreshMeansPriced
    /\ \A o \in Obligations : FreshObligation(o) =>
         \A r \in Touched(o) : seen[o].terms[r][2] \in inForce[r]

=============================================================================
