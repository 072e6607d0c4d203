--------------------------- MODULE LendingProgram ---------------------------
(***************************************************************************)
(* The on-chain lending program (token-lending/program/src): the reserves  *)
(* and obligations of one market, their LastUpdate staleness, the token    *)
(* accounts the program controls, and every instruction users, liquidators *)
(* and the market's owner can send.                                        *)
(*                                                                         *)
(* An instruction is atomic: it takes all of its effect or, on any error,  *)
(* none.  A transaction is a sequence of instructions; taking them one by  *)
(* one, in any order and by anyone, covers every transaction.  Checks that *)
(* the accounts passed are the ones recorded (owners, supplies, mints, the *)
(* market authority) are in the choice of the arguments.                   *)
(***************************************************************************)
EXTENDS ReserveMath, FiniteSetsExt

CONSTANTS
    Reserves, Obligations, Users,
    OwnerOf,            \* the owner an obligation is opened for
    InitialConfig,      \* the configuration a reserve is created with
    Configs,            \* the configurations the market's owner may set
    InitialLiquidity,   \* user -> reserve -> the tokens it starts with
    InitialFeed,        \* what the oracles of each reserve report at first
    Feeds,              \* what the oracles of a reserve may report
    Amounts,            \* the amounts instructions ask for, besides MAX
    Extras,             \* what a flash loan's receiver returns too much
    MaxObligationReserves, \* MAX_OBLIGATION_RESERVES: 10 in the code
    CapStart, CapEnd,   \* the cap on unhealthy_borrow_value declines from one
    CapFrom, CapTo,     \* to the other between these slots
    CapMargin,          \* the cap on allowed_borrow_value is so far below it
    MaxSlot,            \* bounds the clock
    MaxOps,             \* bounds how many instructions move tokens
    MaxEvents,          \* bounds how often an oracle or a configuration changes
    NoReserve, NoObligation, NoEntry, NoPrice \* None

ASSUME PartiesAssumption ==
    /\ IsFiniteSet(Reserves) /\ IsFiniteSet(Obligations) /\ IsFiniteSet(Users)
    /\ OwnerOf \in [Obligations -> Users]
    /\ InitialLiquidity \in [Users -> [Reserves -> Nat]]

ASSUME BoundsAssumption ==
    /\ Amounts \subseteq Nat \ {0} /\ Extras \subseteq Nat
    /\ MaxObligationReserves \in Nat \ {0}
    /\ CapStart \in Nat /\ CapEnd \in Nat /\ CapMargin \in Nat
    /\ CapMargin <= CapEnd /\ CapEnd <= CapStart
    /\ CapFrom \in Nat /\ CapTo \in Nat /\ CapFrom < CapTo
    /\ MaxSlot \in Nat /\ MaxOps \in Nat /\ MaxEvents \in Nat

Percent == 0..100

(* What validate_reserve_config accepts. *)
Config == {c \in [optimalUtilization : Percent, minRate : 0..255, optimalRate : 0..255,
                  maxRate : 0..255, ltv : 0..99, threshold : Percent, bonus : Percent,
                  borrowFee : 0..(Wad - 1), flashFee : Nat, hostFee : Percent,
                  takeRate : Percent, depositLimit : Nat, borrowLimit : Nat] :
             c.ltv <= c.threshold /\ c.minRate <= c.optimalRate /\ c.optimalRate <= c.maxRate}

ASSUME ConfigAssumption ==
    Configs \subseteq Config /\ InitialConfig \in [Reserves -> Configs]

ASSUME FeedsAssumption ==
    /\ Feeds \subseteq [pyth : Nat \cup {NoPrice}, switchboard : Nat \cup {NoPrice}]
    /\ InitialFeed \in [Reserves -> Feeds]
    /\ NoPrice \notin Nat

(* The accounts, and the entries of an obligation. *)
Deposit == [amount : Nat, value : Nat]
Borrow == [cumulative : Nat \ {0}, amount : Nat, value : Nat]

ReserveState ==
    [slot : Nat, stale : BOOLEAN, available : Nat, borrowed : Nat, fees : Nat,
     cumulative : Nat \ {0}, price : Nat, supply : Nat, config : Configs]

ObligationState ==
    [slot : Nat, stale : BOOLEAN,
     deposits : [Reserves -> Deposit \cup {NoEntry}],
     borrows : [Reserves -> Borrow \cup {NoEntry}],
     depositedValue : Nat, borrowedValue : Nat,
     allowedBorrowValue : Nat, unhealthyBorrowValue : Nat]

(* None is no value of the type. *)
ASSUME NoneAssumption ==
    /\ NoReserve \notin ReserveState
    /\ NoObligation \notin ObligationState
    /\ NoEntry \notin Deposit \cup Borrow

VARIABLES
    slot,             \* the clock
    oracle,           \* reserve -> its two price feeds
    reserve,          \* reserve -> its account
    obligation,       \* obligation -> its account
    vault,            \* reserve -> tokens in its liquidity supply account
    collateralVault,  \* reserve -> tokens in its collateral supply account
    liquidity,        \* user -> reserve -> liquidity tokens held
    collateral,       \* user -> reserve -> collateral tokens held
    ops, events,      \* how many more of each there may be
    (* history *)
    priced,           \* reserve -> the slot its price was last read in
    seen              \* obligation -> what its last refresh was made of

tokenVars == <<vault, collateralVault, liquidity, collateral>>
history == <<priced, seen>>
vars == <<slot, oracle, reserve, obligation, tokenVars, ops, events, history>>

Init ==
    /\ slot = 0
    /\ oracle = InitialFeed
    /\ reserve = [r \in Reserves |-> NoReserve]
    /\ obligation = [o \in Obligations |-> NoObligation]
    /\ vault = [r \in Reserves |-> 0]
    /\ collateralVault = [r \in Reserves |-> 0]
    /\ liquidity = InitialLiquidity
    /\ collateral = [u \in Users |-> [r \in Reserves |-> 0]]
    /\ ops = MaxOps
    /\ events = MaxEvents
    /\ priced = [r \in Reserves |-> 0]
    /\ seen = [o \in Obligations |-> NoObligation]
-----------------------------------------------------------------------------
(* LastUpdate, of a reserve or an obligation. *)

\* Variant: off by one.
StaleASlotLate(account) == account.stale \/ slot - account.slot > 1

IsStale(account) == account.stale \/ slot - account.slot >= 1

MarkStale(account) == [account EXCEPT !.stale = TRUE]

UpdateSlot(account) == [account EXCEPT !.slot = slot, !.stale = FALSE]

(* _refresh_reserve_interest.  It makes the reserve pass for fresh without   *)
(* reading its price.  Interest needs a total supply that is not negative.   *)
CanAccrue(x) == slot > x.slot => HasSupply(x)

Accrued(x) == UpdateSlot(IF slot > x.slot THEN CompoundInterest(x, slot - x.slot) ELSE x)

(* get_price: the second feed when the first has no valid price or zero. *)
GetPrice(feed) == IF feed.pyth \in {NoPrice, 0} THEN feed.switchboard ELSE feed.pyth

(* An instruction that moves tokens, of which there are MaxOps. *)
Op == /\ ops > 0
      /\ ops' = ops - 1
      /\ UNCHANGED <<slot, oracle, events>>

(* Token instructions.  A transfer and a burn fail when the source has less. *)
PayIn(u, r, n) ==
    /\ n <= liquidity[u][r]
    /\ liquidity' = [liquidity EXCEPT ![u][r] = @ - n]
    /\ vault' = [vault EXCEPT ![r] = @ + n]

PayOut(u, r, n) ==
    /\ n <= vault[r]
    /\ vault' = [vault EXCEPT ![r] = @ - n]
    /\ liquidity' = [liquidity EXCEPT ![u][r] = @ + n]

MintTo(u, r, n) == collateral' = [collateral EXCEPT ![u][r] = @ + n]

Burn(u, r, n) ==
    /\ n <= collateral[u][r]
    /\ collateral' = [collateral EXCEPT ![u][r] = @ - n]

(* The collateral supply account of r pays n out. *)
ReleaseCollateral(r, n) ==
    /\ n <= collateralVault[r]
    /\ collateralVault' = [collateralVault EXCEPT ![r] = @ - n]

FreshReserve(r) == reserve[r] # NoReserve /\ ~IsStale(reserve[r])
FreshObligation(o) == obligation[o] # NoObligation /\ ~IsStale(obligation[o])

Held(entries) == {r \in Reserves : entries[r] # NoEntry}
Size(ob) == Cardinality(Held(ob.deposits)) + Cardinality(Held(ob.borrows))
-----------------------------------------------------------------------------
(* Reserves. *)

NewReserve(r) ==
    [slot |-> slot, stale |-> TRUE, available |-> 0, borrowed |-> 0,
     cumulative |-> Wad, fees |-> 0, price |-> GetPrice(oracle[r]),
     supply |-> 0, config |-> InitialConfig[r]]

(* Liquidity of u against the collateral minted for it. *)
DepositTokens(u, r, n, minted) == PayIn(u, r, n) /\ MintTo(u, r, minted)

(* The market's owner creates a reserve, with liquidity from u. *)
InitReserve(u, r) ==
    /\ reserve[r] = NoReserve
    /\ GetPrice(oracle[r]) # NoPrice
    /\ \E n \in Amounts :
         LET x == DepositLiquidity(NewReserve(r), n)
         IN /\ reserve' = [reserve EXCEPT ![r] = x]
            /\ DepositTokens(u, r, n, x.supply)
    /\ priced' = [priced EXCEPT ![r] = slot]
    /\ UNCHANGED <<slot, oracle, obligation, collateralVault, ops, events, seen>>

RefreshReserve(r) ==
    /\ reserve[r] # NoReserve
    /\ CanAccrue(reserve[r])
    /\ GetPrice(oracle[r]) # NoPrice
    /\ reserve' = [reserve EXCEPT ![r] =
                     Accrued([reserve[r] EXCEPT !.price = GetPrice(oracle[r])])]
    /\ priced' = [priced EXCEPT ![r] = slot]
    /\ UNCHANGED <<slot, oracle, obligation, tokenVars, ops, events, seen>>

(* The deposit keeps to the limit, once interest is accrued. *)
CanDeposit(r, n) ==
    /\ reserve[r] # NoReserve
    /\ HasSupply(reserve[r])
    /\ LET x == Accrued(reserve[r])
       IN Floor(FromInt(n) + TotalSupply(x)) <= x.config.depositLimit

Deposited(r, n) == MarkStale(DepositLiquidity(Accrued(reserve[r]), n))

Minted(r, n) == LiquidityToCollateral(Accrued(reserve[r]), n)

DepositReserveLiquidity(u, r, n) ==
    /\ Op
    /\ CanDeposit(r, n)
    /\ reserve' = [reserve EXCEPT ![r] = Deposited(r, n)]
    /\ DepositTokens(u, r, n, Minted(r, n))
    /\ UNCHANGED <<obligation, collateralVault, history>>

RedeemReserveCollateral(u, r, n) ==
    /\ Op
    /\ reserve[r] # NoReserve
    /\ HasSupply(reserve[r])
    /\ \E res \in RedeemCollateral(Accrued(reserve[r]), n) :
         /\ reserve' = [reserve EXCEPT ![r] = MarkStale(res.reserve)]
         /\ PayOut(u, r, res.liquidity)
    /\ Burn(u, r, n)
    /\ UNCHANGED <<obligation, collateralVault, history>>

(* Variant: the balance is required to be back where it was, fee excluded. *)
LoanOnly(fee, extra) == extra

(* What the receiver of a flash loan returns besides the loan. *)
OnTopOfLoan(fee, extra) == fee + extra

(* The supply account, with the loan back in it, pays the fee: a part to the *)
(* host and the rest to the receiver of the reserve's fees.                  *)
PayFlashFees(r, balance, f) ==
    /\ f.host <= f.fee
    /\ f.fee <= balance
    /\ vault' = [vault EXCEPT ![r] = balance - f.fee]

(* The receiver gets the loan, pays it back with the fee and perhaps extra,  *)
(* and cannot call the program meanwhile.  Neither price nor staleness are   *)
(* looked at.                                                                *)
FlashLoan(u, r, n) ==
    /\ Op
    /\ reserve[r] # NoReserve
    /\ LET x == reserve[r]
           loan == IF n = MAX THEN x.available ELSE n
           c == x.config
       IN /\ loan <= x.available
          /\ loan <= vault[r]
          /\ \E f \in CalculateFees(FromInt(loan), c.flashFee, c.hostFee, FALSE),
               extra \in Extras :
               /\ OnTopOfLoan(f.fee, extra) <= liquidity[u][r]
               /\ liquidity' = [liquidity EXCEPT ![u][r] = @ - OnTopOfLoan(f.fee, extra)]
               /\ PayFlashFees(r, vault[r] - loan + (loan + OnTopOfLoan(f.fee, extra)), f)
          /\ reserve' = [reserve EXCEPT ![r] =
                            RepayReserve(BorrowReserve(@, FromInt(loan)), loan, FromInt(loan))]
    /\ UNCHANGED <<obligation, collateralVault, collateral, history>>

(* The protocol's accumulated share of the interest is paid out. *)
RedeemFees(r) ==
    /\ Op
    /\ FreshReserve(r)
    /\ LET x == reserve[r]
           paid == CalculateRedeemFees(x)
       IN /\ paid > 0
          /\ paid <= vault[r]
          /\ reserve' = [reserve EXCEPT ![r] = MarkStale(
                           [x EXCEPT !.available = @ - paid, !.fees = @ - FromInt(paid)])]
          /\ vault' = [vault EXCEPT ![r] = @ - paid]
    /\ UNCHANGED <<obligation, collateralVault, liquidity, collateral, history>>

(* The market's owner replaces the configuration; nothing is marked stale. *)
UpdateReserveConfig(r) ==
    /\ events > 0
    /\ events' = events - 1
    /\ reserve[r] # NoReserve
    /\ \E c \in Configs \ {reserve[r].config} :
         reserve' = [reserve EXCEPT ![r].config = c]
    /\ UNCHANGED <<slot, oracle, obligation, tokenVars, ops, history>>
-----------------------------------------------------------------------------
(* Obligations. *)

NewObligation ==
    [slot |-> slot, stale |-> TRUE,
     deposits |-> [r \in Reserves |-> NoEntry],
     borrows |-> [r \in Reserves |-> NoEntry],
     depositedValue |-> 0, borrowedValue |-> 0,
     allowedBorrowValue |-> 0, unhealthyBorrowValue |-> 0]

InitObligation(o) ==
    /\ obligation[o] = NoObligation
    /\ obligation' = [obligation EXCEPT ![o] = NewObligation]
    /\ UNCHANGED <<slot, oracle, reserve, tokenVars, ops, events, history>>

(* The cap on what one obligation may owe, declining with time. *)
GlobalUnhealthyBorrowValue ==
    LET now == MinOf(MaxOf(CapFrom, slot), CapTo)
    IN CapEnd + ((CapStart - CapEnd) * (CapTo - now)) \div (CapTo - CapFrom)

DepositValue(x, d) == TryMul(CollateralValue(x, d.amount), x.price)

(* An obligation whose entries are valued with the reserves rs. *)
Valued(ob, rs) ==
    LET deposits == [r \in Reserves |->
            IF ob.deposits[r] = NoEntry THEN NoEntry
            ELSE [ob.deposits[r] EXCEPT !.value = DepositValue(rs[r], ob.deposits[r])]]
        accrued(r) == AccrueBorrow(ob.borrows[r], rs[r].cumulative)
        borrows == [r \in Reserves |->
            IF ob.borrows[r] = NoEntry THEN NoEntry
            ELSE [accrued(r) EXCEPT !.value = TryMul(accrued(r).amount, rs[r].price)]]
        ValueAt(r, percent) == TryMul(deposits[r].value, FromPercent(percent))
    IN [ob EXCEPT
          !.deposits = deposits,
          !.borrows = borrows,
          !.depositedValue = SumFunction([r \in Held(deposits) |-> deposits[r].value]),
          !.borrowedValue = SumFunction([r \in Held(borrows) |-> borrows[r].value]),
          !.allowedBorrowValue =
              MinOf(SumFunction([r \in Held(deposits) |-> ValueAt(r, rs[r].config.ltv)]),
                    GlobalUnhealthyBorrowValue - CapMargin),
          !.unhealthyBorrowValue =
              MinOf(SumFunction([r \in Held(deposits) |-> ValueAt(r, rs[r].config.threshold)]),
                    GlobalUnhealthyBorrowValue)]

(* The price and configuration each reserve is valued with. *)
Terms == [r \in Reserves |-> IF reserve[r] = NoReserve THEN NoReserve
                             ELSE <<reserve[r].price, reserve[r].config>>]

(* Every reserve of the obligation has been refreshed in this slot. *)
RefreshObligation(o) ==
    /\ obligation[o] # NoObligation
    /\ LET ob == obligation[o]
           valued == Valued(ob, reserve)
       IN /\ \A r \in Held(ob.deposits) :
               FreshReserve(r) /\ HasSupply(reserve[r]) /\ ExchangeRate(reserve[r]) > 0
          /\ \A r \in Held(ob.borrows) : FreshReserve(r)
          /\ obligation' = [obligation EXCEPT ![o] = UpdateSlot(valued)]
          /\ seen' = [seen EXCEPT ![o] = [deposits |-> valued.deposits,
                                          borrows |-> valued.borrows,
                                          terms |-> Terms]]
    /\ UNCHANGED <<slot, oracle, reserve, tokenVars, ops, events, priced>>

(* Find or add the entry of r, within the limit on entries, and add n. *)
CanAddDeposit(ob, r) == ob.deposits[r] # NoEntry \/ Size(ob) < MaxObligationReserves

AddDeposit(ob, r, n) ==
    [ob EXCEPT !.deposits[r] =
        IF ob.deposits[r] = NoEntry THEN [amount |-> n, value |-> 0]
        ELSE [ob.deposits[r] EXCEPT !.amount = @ + n]]

(* Remove n from the entry of r, and the entry with the last of it. *)
TakeDeposit(ob, r, n) ==
    [ob EXCEPT !.deposits[r] =
        IF ob.deposits[r].amount = n THEN NoEntry
        ELSE [ob.deposits[r] EXCEPT !.amount = @ - n]]

TakeBorrow(ob, r, settle) ==
    [ob EXCEPT !.borrows[r] =
        IF ob.borrows[r].amount = settle THEN NoEntry
        ELSE [ob.borrows[r] EXCEPT !.amount = @ - settle]]

(* The owner puts collateral tokens it holds into the obligation. *)
DepositObligationCollateral(o, r, n) ==
    LET u == OwnerOf[o] IN
    /\ Op
    /\ reserve[r] # NoReserve
    /\ CanAccrue(reserve[r])
    /\ reserve[r].config.ltv # 0
    /\ obligation[o] # NoObligation
    /\ CanAddDeposit(obligation[o], r)
    /\ reserve' = [reserve EXCEPT ![r] = MarkStale(Accrued(reserve[r]))]
    /\ obligation' = [obligation EXCEPT ![o] = MarkStale(AddDeposit(obligation[o], r, n))]
    /\ n <= collateral[u][r]
    /\ collateral' = [collateral EXCEPT ![u][r] = @ - n]
    /\ collateralVault' = [collateralVault EXCEPT ![r] = @ + n]
    /\ UNCHANGED <<vault, liquidity, history>>

(* The owner deposits liquidity and puts what is minted for it, possibly     *)
(* nothing, into the obligation.                                             *)
DepositLiquidityAndCollateral(o, r, n) ==
    LET u == OwnerOf[o] IN
    /\ Op
    /\ CanDeposit(r, n)
    /\ reserve[r].config.ltv # 0
    /\ obligation[o] # NoObligation
    /\ CanAddDeposit(obligation[o], r)
    /\ reserve' = [reserve EXCEPT ![r] = Deposited(r, n)]
    /\ obligation' = [obligation EXCEPT ![o] =
                        MarkStale(AddDeposit(obligation[o], r, Minted(r, n)))]
    /\ PayIn(u, r, n)
    /\ collateralVault' = [collateralVault EXCEPT ![r] = @ + Minted(r, n)]
    /\ UNCHANGED <<collateral, history>>

(* Variant: the whole excess of the collateral over the debt is free. *)
MaxUnencumbered(ob, ltv) == MaxOf(ob.depositedValue - ob.borrowedValue, 0)

MaxWithdrawValue(ob, ltv) ==
    IF ob.allowedBorrowValue <= ob.borrowedValue THEN 0
    ELSE IF ltv = 0 THEN ob.depositedValue
    ELSE TryDiv(ob.allowedBorrowValue - ob.borrowedValue, FromPercent(ltv))

(* How much a withdrawal of n takes: with nothing borrowed as much as there  *)
(* is; otherwise no more than leaves the rest of the collateral sufficient.  *)
WithdrawAmount(ob, r, ltv, n) ==
    LET d == ob.deposits[r]
        asked == IF n = MAX THEN d.amount ELSE MinOf(n, d.amount)
        most == MaxWithdrawValue(ob, ltv)
    IN IF Held(ob.borrows) = {} THEN {asked}
       ELSE IF ob.depositedValue = 0 \/ most = 0 THEN {}
       ELSE IF n = MAX
       THEN IF d.value = 0 THEN {}
            ELSE {MinOf(Floor(TryDiv(MinOf(most, d.value), d.value) * d.amount), d.amount)} \ {0}
       ELSE IF TryMul(d.value, FromInt(asked) \div d.amount) > most THEN {}
       ELSE {asked} \ {0}

CanWithdraw(o, r) ==
    /\ FreshReserve(r)
    /\ FreshObligation(o)
    /\ obligation[o].deposits[r] # NoEntry
    /\ obligation[o].deposits[r].amount # 0

WithdrawObligationCollateral(o, r, n) ==
    /\ Op
    /\ CanWithdraw(o, r)
    /\ \E taken \in WithdrawAmount(obligation[o], r, reserve[r].config.ltv, n) :
         /\ obligation' = [obligation EXCEPT ![o] = MarkStale(TakeDeposit(obligation[o], r, taken))]
         /\ ReleaseCollateral(r, taken)
         /\ collateral' = [collateral EXCEPT ![OwnerOf[o]][r] = @ + taken]
    /\ UNCHANGED <<reserve, vault, liquidity, history>>

(* The same and redeem what is taken; an amount of zero is not refused. *)
WithdrawAndRedeem(o, r, n) ==
    /\ Op
    /\ CanWithdraw(o, r)
    /\ HasSupply(reserve[r])
    /\ \E taken \in WithdrawAmount(obligation[o], r, reserve[r].config.ltv, n) :
       \E res \in RedeemCollateral(reserve[r], taken) :
         /\ obligation' = [obligation EXCEPT ![o] = MarkStale(TakeDeposit(obligation[o], r, taken))]
         /\ reserve' = [reserve EXCEPT ![r] = MarkStale(res.reserve)]
         /\ ReleaseCollateral(r, taken)
         /\ PayOut(OwnerOf[o], r, res.liquidity)
    /\ UNCHANGED <<collateral, history>>

CanAddBorrow(ob, r) == ob.borrows[r] # NoEntry \/ Size(ob) < MaxObligationReserves

(* An existing entry keeps the rate it was last accrued with. *)
AddBorrow(ob, r, cumulative, borrow) ==
    [ob EXCEPT !.borrows[r] =
        IF ob.borrows[r] = NoEntry
        THEN [cumulative |-> cumulative, amount |-> borrow, value |-> 0]
        ELSE [ob.borrows[r] EXCEPT !.amount = @ + borrow]]

(* Variant: the obligation is not marked stale. *)
DrawnUnmarked(ob, r, cumulative, borrow) == AddBorrow(ob, r, cumulative, borrow)

Drawn(ob, r, cumulative, borrow) == MarkStale(AddBorrow(ob, r, cumulative, borrow))

(* What is left of the limit on the reserve's borrows. *)
Capacity(x) == MaxOf(FromInt(x.config.borrowLimit) - x.borrowed, 0)

(* The supply account pays the fee of a loan, a part to the host and the     *)
(* rest to the receiver of the reserve's fees, and what is left to u.        *)
PayLoan(u, r, res) ==
    /\ res.host <= res.fee
    /\ res.receive + res.fee <= vault[r]
    /\ vault' = [vault EXCEPT ![r] = @ - (res.receive + res.fee)]
    /\ liquidity' = [liquidity EXCEPT ![u][r] = @ + res.receive]

(* The owner borrows against the value its obligation was last refreshed to. *)
BorrowObligationLiquidity(o, r, n) ==
    LET x == reserve[r]
        ob == obligation[o]
    IN
    /\ Op
    /\ FreshReserve(r)
    /\ FreshObligation(o)
    /\ n # MAX => Floor(FromInt(n) + x.borrowed) <= x.config.borrowLimit
    /\ ob.depositedValue # 0
    /\ ob.allowedBorrowValue > ob.borrowedValue
    /\ CanAddBorrow(ob, r)
    /\ \E res \in CalculateBorrow(x, n, ob.allowedBorrowValue - ob.borrowedValue, Capacity(x)) :
         /\ res.receive # 0
         /\ Floor(res.borrow) <= x.available
         /\ reserve' = [reserve EXCEPT ![r] = MarkStale(BorrowReserve(x, res.borrow))]
         /\ obligation' = [obligation EXCEPT ![o] =
                             Drawn(ob, r, x.cumulative, res.borrow)]
         /\ PayLoan(OwnerOf[o], r, res)
    /\ UNCHANGED <<collateralVault, collateral, history>>

(* Anyone repays; only the borrow repaid is brought up to date. *)
RepayObligationLiquidity(u, o, r, n) ==
    /\ Op
    /\ reserve[r] # NoReserve
    /\ CanAccrue(reserve[r])
    /\ obligation[o] # NoObligation
    /\ obligation[o].borrows[r] # NoEntry
    /\ obligation[o].borrows[r].amount # 0
    /\ LET x == Accrued(reserve[r])
           b == AccrueBorrow(obligation[o].borrows[r], x.cumulative)
           res == CalculateRepay(n, b.amount)
       IN /\ res.repay # 0
          /\ reserve' = [reserve EXCEPT ![r] = MarkStale(RepayReserve(x, res.repay, res.settle))]
          /\ obligation' = [obligation EXCEPT ![o] = MarkStale(
                              TakeBorrow([obligation[o] EXCEPT !.borrows[r] = b], r, res.settle))]
          /\ PayIn(u, r, res.repay)
    /\ UNCHANGED <<collateralVault, collateral, history>>

(* A liquidator may repay the borrow of rr and seize the deposit of wr. *)
CanLiquidate(o, rr, wr) ==
    LET ob == obligation[o] IN
    /\ FreshReserve(rr)
    /\ FreshReserve(wr)
    /\ FreshObligation(o)
    /\ ob.depositedValue # 0
    /\ ob.borrowedValue # 0
    /\ ob.borrowedValue >= ob.unhealthyBorrowValue
    /\ ob.borrows[rr] # NoEntry /\ ob.borrows[rr].value # 0
    /\ ob.deposits[wr] # NoEntry /\ ob.deposits[wr].value # 0

Liquidation(o, rr, wr, n) ==
    CalculateLiquidation(reserve[wr].config.bonus, n, obligation[o].borrowedValue,
                         obligation[o].borrows[rr], obligation[o].deposits[wr])

(* _liquidate_obligation on the books: the reserve repaid is marked stale,   *)
(* the one seized from is not touched.                                       *)
Liquidated(o, rr, res) ==
    [reserve EXCEPT ![rr] = MarkStale(RepayReserve(reserve[rr], res.repay, res.settle))]

LiquidateBooks(u, o, rr, wr, res) ==
    /\ res.repay # 0
    /\ res.withdraw # 0
    /\ res.repay <= liquidity[u][rr]
    /\ obligation' = [obligation EXCEPT ![o] = MarkStale(
                        TakeDeposit(TakeBorrow(obligation[o], rr, res.settle), wr, res.withdraw))]
    /\ ReleaseCollateral(wr, res.withdraw)

LiquidateObligation(u, o, rr, wr, n) ==
    LET res == Liquidation(o, rr, wr, n) IN
    /\ Op
    /\ CanLiquidate(o, rr, wr)
    /\ LiquidateBooks(u, o, rr, wr, res)
    /\ reserve' = Liquidated(o, rr, res)
    /\ PayIn(u, rr, res.repay)
    /\ collateral' = [collateral EXCEPT ![u][wr] = @ + res.withdraw]
    /\ UNCHANGED history

(* What the bot sends: the collateral seized is redeemed at once, and a fee  *)
(* paid from the proceeds.  The reserve seized from may be the one repaid.   *)
LiquidateAndRedeem(u, o, rr, wr, n) ==
    LET res == Liquidation(o, rr, wr, n)
        repaid == Liquidated(o, rr, res)
        paid == [vault EXCEPT ![rr] = @ + res.repay]
        spent == [liquidity[u] EXCEPT ![rr] = @ - res.repay]
    IN
    /\ Op
    /\ CanLiquidate(o, rr, wr)
    /\ LiquidateBooks(u, o, rr, wr, res)
    /\ HasSupply(repaid[wr])
    /\ \E out \in RedeemCollateral(Accrued(repaid[wr]), res.withdraw) :
         LET fee == ProtocolLiquidationFee(reserve[wr].config.bonus, out.liquidity) IN
         /\ out.liquidity <= paid[wr]
         /\ fee <= spent[wr] + out.liquidity
         /\ reserve' = [repaid EXCEPT ![wr] = MarkStale(out.reserve)]
         /\ vault' = [paid EXCEPT ![wr] = @ - out.liquidity]
         /\ liquidity' = [liquidity EXCEPT ![u] =
                            [spent EXCEPT ![wr] = @ + out.liquidity - fee]]
    /\ UNCHANGED <<collateral, history>>
-----------------------------------------------------------------------------
(* Time passes; an oracle reports another price, or none that is valid.      *)
(* That a price is back is not counted in events.                            *)

AdvanceSlot ==
    /\ slot < MaxSlot
    /\ slot' = slot + 1
    /\ UNCHANGED <<oracle, reserve, obligation, tokenVars, ops, events, history>>

MoveOracle(r) ==
    /\ \E feed \in Feeds \ {oracle[r]} :
         /\ \/ events > 0 /\ events' = events - 1
            \/ GetPrice(oracle[r]) = NoPrice /\ GetPrice(feed) # NoPrice /\ UNCHANGED events
         /\ oracle' = [oracle EXCEPT ![r] = feed]
    /\ UNCHANGED <<slot, reserve, obligation, tokenVars, ops, history>>

Asked == Amounts \cup {MAX}

ReserveStep(r) ==
    \/ RefreshReserve(r) \/ RedeemFees(r) \/ UpdateReserveConfig(r) \/ MoveOracle(r)
    \/ \E u \in Users :
         \/ InitReserve(u, r)
         \/ \E n \in Amounts : DepositReserveLiquidity(u, r, n) \/ RedeemReserveCollateral(u, r, n)
         \/ \E n \in Asked : FlashLoan(u, r, n)

ObligationStep(o) ==
    \/ InitObligation(o) \/ RefreshObligation(o)
    \/ \E r \in Reserves :
         \/ \E n \in Amounts : \/ DepositObligationCollateral(o, r, n)
                               \/ DepositLiquidityAndCollateral(o, r, n)
         \/ \E n \in Asked : \/ WithdrawObligationCollateral(o, r, n)
                             \/ BorrowObligationLiquidity(o, r, n)
         \/ \E n \in Asked \cup {0} : WithdrawAndRedeem(o, r, n)

AnyoneStep(u, o) ==
    \E r \in Reserves, n \in Asked :
       \/ RepayObligationLiquidity(u, o, r, n)
       \/ \E wr \in Reserves : \/ LiquidateObligation(u, o, r, wr, n)
                              \/ LiquidateAndRedeem(u, o, r, wr, n)

Next == \/ \E r \in Reserves : ReserveStep(r)
        \/ \E o \in Obligations : ObligationStep(o) \/ \E u \in Users : AnyoneStep(u, o)
        \/ AdvanceSlot

Spec == Init /\ [][Next]_vars
-----------------------------------------------------------------------------
(* Custody: the tokens in a reserve's liquidity supply account cover the     *)
(* liquidity its books call available, whatever was rounded and whichever    *)
(* fees were paid on the way; what a flash loan returns too much is on top.  *)
VaultBacksBooks ==
    \A r \in Reserves : reserve[r] # NoReserve => vault[r] >= reserve[r].available

AmountOf(entry) == IF entry = NoEntry THEN 0 ELSE entry.amount

(* What obligation o holds of the collateral of r. *)
DepositedIn(o, r) ==
    IF obligation[o] = NoObligation THEN 0 ELSE AmountOf(obligation[o].deposits[r])

(* Custody: the collateral supply account of a reserve holds exactly what    *)
(* its obligations have deposited, and the supply that the exchange rate is  *)
(* computed from is what has really been minted.                             *)
CollateralBacked ==
    \A r \in Reserves : reserve[r] # NoReserve =>
        /\ collateralVault[r] = SumFunction([o \in Obligations |-> DepositedIn(o, r)])
        /\ reserve[r].supply =
             collateralVault[r] + SumFunction([u \in Users |-> collateral[u][r]])

(* The token accounts of a reserve back its books, on either side (the       *)
(* transfers of processor.rs against the amounts of reserve.rs and           *)
(* obligation.rs).                                                           *)
Custody == VaultBacksBooks /\ CollateralBacked

(* A reserve that passes for fresh has had its price read in this slot, and  *)
(* an obligation that does is valued at prices of this slot: the refresh of  *)
(* the interest alone, which skips the oracle and clears the mark, never     *)
(* leaves a reserve unmarked.                                                *)
FreshMeansPriced ==
    /\ \A r \in Reserves : FreshReserve(r) => priced[r] = slot
    /\ \A o \in Obligations : FreshObligation(o) =>
         \A r \in Held(obligation[o].deposits) \cup Held(obligation[o].borrows) : priced[r] = slot

(* No valuation is used twice: while an obligation passes for fresh its      *)
(* entries are the ones it was valued with, so two borrows, or a borrow and  *)
(* a withdrawal, cannot both spend the same borrowing power.                 *)
FreshMeansUnchanged ==
    \A o \in Obligations : FreshObligation(o) =>
        /\ obligation[o].deposits = seen[o].deposits
        /\ obligation[o].borrows = seen[o].borrows

(* What o owes r, brought up to the rate of r. *)
OwedBy(o, r) ==
    IF obligation[o] = NoObligation THEN 0
    ELSE IF obligation[o].borrows[r] = NoEntry THEN 0
    ELSE AccrueBorrow(obligation[o].borrows[r], reserve[r].cumulative).amount

(* Books: what the obligations owe a reserve, brought up to its rate, is in  *)
(* what it has lent, but for one unit in the last place for each slot up to  *)
(* its last accrual, with interest.  The two are accrued separately, in      *)
(* roundings of their own, and settled together.                             *)
DebtsBooked ==
    \A r \in Reserves : reserve[r] # NoReserve =>
        SumFunction([o \in Obligations |-> OwedBy(o, r)])
          <= reserve[r].borrowed + TryMul(reserve[r].slot, reserve[r].cumulative)

(* The step borrows with o, or withdraws from it without settling debt.      *)
OwnerSpends(o) ==
    LET old == obligation[o]
        new == obligation'[o]
    IN /\ old # NoObligation
       /\ \/ \E r \in Held(new.borrows) :
               \/ old.borrows[r] = NoEntry
               \/ /\ new.borrows[r].cumulative = old.borrows[r].cumulative
                  /\ new.borrows[r].amount > old.borrows[r].amount
          \/ /\ new.borrows = old.borrows
             /\ \E r \in Reserves : AmountOf(new.deposits[r]) < AmountOf(old.deposits[r])

(* An owner cannot overdraw: after a borrow or a withdrawal the obligation,  *)
(* valued anew with the reserves as that step leaves them, owes no more than *)
(* its collateral allows, but for rounding (two parts in Wad of the          *)
(* collateral), unless a reserve's price or configuration was changed within *)
(* the slot after the obligation was valued.                                 *)
OwnerStaysCovered ==
    [][\A o \in Obligations :
         OwnerSpends(o) /\ seen[o] # NoObligation /\ seen[o].terms = Terms =>
           LET after == Valued(obligation'[o], reserve')
           IN after.borrowedValue <= after.allowedBorrowValue
                                     + 2 * Ceil(after.depositedValue) + 4]_vars

(* The step settles a debt of less than LIQUIDATION_CLOSE_AMOUNT in r.       *)
SettlesDust(r) ==
    \E o \in Obligations :
        /\ obligation[o] # NoObligation /\ obligation[o].borrows[r] # NoEntry
        /\ obligation[o].borrows[r].amount < FromInt(LIQUIDATION_CLOSE_AMOUNT)
        /\ obligation'[o].borrows[r] = NoEntry

(* What is written off of the debts to r. *)
WrittenOff(r) == IF SettlesDust(r) THEN FromInt(LIQUIDATION_CLOSE_AMOUNT) ELSE 0

(* What r may be when collateral is redeemed from it: the reserve with its   *)
(* interest, or what a liquidation of a debt to it makes of it first.        *)
Redeemable(r) ==
    {Accrued(reserve[r])} \cup
    {Accrued(Liquidated(o, r, Liquidation(o, r, r, n))[r]) :
        o \in {p \in Obligations : CanLiquidate(p, r, r)}, n \in Asked}

(* What a collateral token stands for in new is what it stands for in old,   *)
(* or more, but for an allowance on the total.                               *)
SharesKept(old, new, allowance) ==
    TotalSupply(old) * new.supply <= (TotalSupply(new) + allowance) * old.supply

(* Whoever holds collateral of r is not made poorer by the step, but for     *)
(* dust and for what the rounding of the exchange rate costs a redemption.   *)
LendersKeep(r) ==
    LET old == reserve[r]
        new == reserve'[r]
    IN (old # NoReserve /\ old.supply > 0) =>
         IF new.supply >= old.supply THEN SharesKept(old, new, WrittenOff(r))
         ELSE \E x \in Redeemable(r) :
                /\ SharesKept(old, x, WrittenOff(r))
                /\ TotalSupply(x) # 0 =>
                     SharesKept(x, new, TotalSupply(x) \div ExchangeRate(x) + 1)

(* Lenders lose only dust: no step lowers what a collateral token stands     *)
(* for, however interest, fees, minted collateral, loans and repayments are  *)
(* rounded, with two exceptions.  A liquidation may write off a debt of less *)
(* than LIQUIDATION_CLOSE_AMOUNT tokens for whatever is repaid of it         *)
(* (calculate_liquidation settles it in full).  A redemption pays what the   *)
(* collateral stands for but for the rounding of the exchange rate, one part *)
(* in that rate; when nothing is left for the lenders the rate starts anew.  *)
LendersLoseOnlyDust == [][\A r \in Reserves : LendersKeep(r)]_vars
=============================================================================
