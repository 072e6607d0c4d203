---------------------------- MODULE ReserveMath ----------------------------
(***************************************************************************)
(* The arithmetic of the lending program: Decimal and Rate (fixed-point    *)
(* numbers kept as an integer number of 1/Wad), and what a reserve         *)
(* computes with them (state/reserve.rs): interest, the exchange rate of   *)
(* collateral tokens, fees, borrows, repayments and liquidations.          *)
(*                                                                         *)
(* A function that can return Err gives the set of its results: empty for  *)
(* an error, which aborts the transaction, and a singleton otherwise.      *)
(* Rate and Decimal have the same representation; they differ in width,    *)
(* which the amounts in play stay well below.  Amounts are in the smallest *)
(* unit of a mint with no decimals, so that 10^mint_decimals is 1.         *)
(***************************************************************************)
EXTENDS Integers, FiniteSets

CONSTANTS Wad,          \* one, as a fixed-point number: 10^18 in the code
          SlotsPerYear, \* divides the yearly borrow rate
          MAX           \* u64::MAX, which asks for all there is

ASSUME WadAssumption == Wad \in Nat /\ Wad > 0 /\ Wad % 100 = 0
ASSUME SlotsPerYearAssumption == SlotsPerYear \in Nat /\ SlotsPerYear > 0
ASSUME MAXAssumption == MAX \notin Nat

LIQUIDATION_CLOSE_FACTOR == 1
LIQUIDATION_CLOSE_AMOUNT == 2
INITIAL_COLLATERAL_RATE == 1 * Wad

MinOf(a, b) == IF a <= b THEN a ELSE b
MaxOf(a, b) == IF a >= b THEN a ELSE b

FromPercent(p) == p * (Wad \div 100)
FromInt(n) == n * Wad

TryMul(a, b) == (a * b) \div Wad
TryDiv(a, b) == (a * Wad) \div b

Floor(a) == a \div Wad
Ceil(a) == (a + Wad - 1) \div Wad
Round(a) == (a + Wad \div 2) \div Wad

(* Rate::try_pow: square and multiply.  A round of its loop halves exp. *)
PowRound(p) ==
    LET exp == p.exp \div 2
        base == TryMul(p.base, p.base)
    IN [exp |-> exp, base |-> base,
        ret |-> IF exp % 2 # 0 THEN TryMul(p.ret, base) ELSE p.ret]

TryPow(base, exp) ==
    LET loop[k \in 0..exp] ==
            IF k = 0 THEN [exp |-> exp, base |-> base,
                           ret |-> IF exp % 2 # 0 THEN base ELSE Wad]
            ELSE IF loop[k - 1].exp = 0 THEN loop[k - 1]
            ELSE PowRound(loop[k - 1])
    IN loop[exp].ret
-----------------------------------------------------------------------------
(* Interest.  A reserve is a record; borrowed, cumulative, fees and price    *)
(* are Decimals, available and supply are numbers of tokens.                 *)

HasSupply(r) == FromInt(r.available) + r.borrowed >= r.fees

TotalSupply(r) == FromInt(r.available) + r.borrowed - r.fees

UtilizationRate(r) ==
    IF TotalSupply(r) = 0 THEN 0 ELSE TryDiv(r.borrowed, TotalSupply(r))

(* The rates above 246 percent are encoded in max_borrow_rate. *)
MaxBorrowRate(max) ==
    LET halves == [p \in 247..255 |->
                     CASE p = 251 -> 6 [] p = 252 -> 7 [] p = 253 -> 8
                       [] p = 254 -> 10 [] p = 255 -> 12 [] p = 250 -> 20
                       [] p = 249 -> 30 [] p = 248 -> 40 [] p = 247 -> 50]
    IN IF max \in DOMAIN halves THEN FromPercent(50) * halves[max]
                                ELSE FromPercent(max)

(* Division by an optimal utilization of zero is not reached: utilization is *)
(* never below it.                                                           *)
CurrentBorrowRate(r) ==
    LET c == r.config
        utilization == UtilizationRate(r)
        optimal == FromPercent(c.optimalUtilization)
    IN IF utilization < optimal \/ c.optimalUtilization = 100
       THEN TryMul(TryDiv(utilization, optimal),
                   FromPercent(c.optimalRate - c.minRate)) + FromPercent(c.minRate)
       ELSE IF c.optimalRate = c.maxRate THEN MaxBorrowRate(c.maxRate)
       ELSE TryMul(TryDiv(utilization - optimal, FromPercent(100 - c.optimalUtilization)),
                   FromPercent(c.maxRate - c.optimalRate)) + FromPercent(c.optimalRate)

CompoundInterest(r, elapsed) ==
    LET compounded == TryPow(Wad + CurrentBorrowRate(r) \div SlotsPerYear, elapsed)
        newDebt == TryMul(r.borrowed, compounded) - r.borrowed
    IN [r EXCEPT !.cumulative = TryMul(@, compounded),
                 !.fees = @ + TryMul(newDebt, FromPercent(r.config.takeRate)),
                 !.borrowed = @ + newDebt]

(* An obligation's borrow catches up with the rate of its reserve. *)
AccrueBorrow(b, cumulative) ==
    IF cumulative <= b.cumulative THEN b
    ELSE [b EXCEPT !.amount = TryMul(@, TryDiv(cumulative, b.cumulative)),
                   !.cumulative = cumulative]
-----------------------------------------------------------------------------
(* The exchange rate between collateral tokens and liquidity. *)

ExchangeRate(r) ==
    IF r.supply = 0 \/ TotalSupply(r) = 0
    THEN INITIAL_COLLATERAL_RATE
    ELSE TryDiv(FromInt(r.supply), TotalSupply(r))

LiquidityToCollateral(r, liquidity) == Floor(TryMul(FromInt(liquidity), ExchangeRate(r)))

CollateralValue(r, collateral) == TryDiv(FromInt(collateral), ExchangeRate(r))

CollateralToLiquidity(r, collateral) == Floor(CollateralValue(r, collateral))

DepositLiquidity(r, liquidity) ==
    [r EXCEPT !.available = @ + liquidity,
              !.supply = @ + LiquidityToCollateral(r, liquidity)]

(* The results of redeem_collateral: an error if the liquidity is lent out,  *)
(* if the supply is less than what is burned, or if the rate is zero.        *)
RedeemCollateral(r, collateral) ==
    IF ExchangeRate(r) = 0 THEN {}
    ELSE LET liquidity == CollateralToLiquidity(r, collateral) IN
         IF collateral > r.supply \/ liquidity > r.available THEN {}
         ELSE {[reserve |-> [r EXCEPT !.available = @ - liquidity,
                                      !.supply = @ - collateral],
                liquidity |-> liquidity]}
-----------------------------------------------------------------------------
(* Fees, borrows and repayments. *)

(* calculate_fees: at least one token for the owner, and one for the host if *)
(* it takes part; an error if the fee would eat the amount.                  *)
CalculateFees(amount, feeWad, hostFee, inclusive) ==
    IF feeWad = 0 \/ amount = 0 THEN {[fee |-> 0, host |-> 0]}
    ELSE LET minimum == IF hostFee > 0 THEN 2 ELSE 1
             rate == IF inclusive THEN TryDiv(feeWad, feeWad + Wad) ELSE feeWad
             fee == MaxOf(TryMul(amount, rate), FromInt(minimum))
             host == IF hostFee > 0
                     THEN MaxOf(Round(TryMul(fee, FromPercent(hostFee))), 1)
                     ELSE 0
         IN IF fee >= amount THEN {} ELSE {[fee |-> Round(fee), host |-> host]}

ReceiveLessFee(borrow, fee) == Floor(borrow) - fee

(* calculate_borrow: MAX borrows the most that value, capacity and liquidity *)
(* allow, fees included; an amount is received in full, fees on top.         *)
CalculateBorrow(r, amount, maxValue, capacity) ==
    LET c == r.config IN
    IF amount = MAX
    THEN IF r.price = 0 THEN {}
         ELSE LET borrow == MinOf(MinOf(TryDiv(maxValue, r.price), capacity),
                                  FromInt(r.available))
              IN {[borrow |-> borrow, receive |-> ReceiveLessFee(borrow, f.fee),
                   fee |-> f.fee, host |-> f.host] :
                  f \in {g \in CalculateFees(borrow, c.borrowFee, c.hostFee, TRUE) :
                           g.fee <= Floor(borrow)}}
    ELSE LET fees == CalculateFees(FromInt(amount), c.borrowFee, c.hostFee, FALSE)
         IN {[borrow |-> FromInt(amount + f.fee), receive |-> amount,
              fee |-> f.fee, host |-> f.host] :
             f \in {g \in fees : TryMul(FromInt(amount + g.fee), r.price) <= maxValue}}

Settleable(amount, borrowed) ==
    IF amount = MAX THEN borrowed ELSE MinOf(FromInt(amount), borrowed)

CalculateRepay(amount, borrowed) ==
    LET settle == Settleable(amount, borrowed)
    IN [settle |-> settle, repay |-> Ceil(settle)]

(* The books of a reserve when borrow is lent, of which only whole tokens    *)
(* leave it, and when repay tokens come in for settle of debt.               *)
BorrowReserve(r, borrow) ==
    [r EXCEPT !.available = @ - Floor(borrow), !.borrowed = @ + borrow]

(* Variant: the tokens repaid, rounded up, are taken off the debt. *)
SettleRoundedUp(r, repay, settle) ==
    [r EXCEPT !.available = @ + repay, !.borrowed = @ - MinOf(FromInt(repay), @)]

RepayReserve(r, repay, settle) ==
    [r EXCEPT !.available = @ + repay, !.borrowed = @ - MinOf(settle, @)]
-----------------------------------------------------------------------------
(* Liquidations. *)

MaxLiquidationAmount(borrowedValue, b) ==
    LET value == MinOf(TryMul(borrowedValue, FromPercent(LIQUIDATION_CLOSE_FACTOR)), b.value)
    IN TryMul(b.amount, TryDiv(value, b.value))

\* Variant: whole tokens are compared, the limit included.
DustToTheLimit(amount) == Floor(amount) <= LIQUIDATION_CLOSE_AMOUNT

IsDust(amount) == amount < FromInt(LIQUIDATION_CLOSE_AMOUNT)

(* calculate_liquidation, for a borrow and a deposit with a market value.    *)
(* A borrow below LIQUIDATION_CLOSE_AMOUNT is settled in full, however       *)
(* little is repaid of it.                                                   *)
CalculateLiquidation(bonus, amount, borrowedValue, b, d) ==
    LET bonusRate == FromPercent(bonus) + Wad
        maxAmount == Settleable(amount, b.amount)
        dust == IsDust(b.amount)
        offered == IF dust THEN maxAmount
                   ELSE MinOf(MaxLiquidationAmount(borrowedValue, b), maxAmount)
        value == IF dust THEN TryMul(b.value, bonusRate)
                 ELSE TryMul(TryMul(b.value, TryDiv(offered, b.amount)), bonusRate)
        paid == IF value > d.value THEN TryMul(offered, TryDiv(d.value, value))
                                   ELSE offered
    IN [settle |-> IF dust THEN b.amount ELSE paid,
        repay |-> Ceil(paid),
        withdraw |-> IF value >= d.value THEN d.amount
                     ELSE Floor(TryMul(FromInt(d.amount), TryDiv(value, d.value)))]

(* The protocol's cut, with the share of the bonus hard-coded to zero. *)
ProtocolLiquidationFee(bonus, liquidity) ==
    LET wads == FromInt(liquidity)
        share == wads - TryDiv(wads, FromPercent(bonus) + Wad)
    IN MaxOf(Ceil(TryMul(share, FromPercent(0))), 1)

CalculateRedeemFees(r) == MinOf(r.available, Floor(r.fees))
=============================================================================
