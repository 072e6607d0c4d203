----------------------------- MODULE FixedPoint -----------------------------
(***************************************************************************)
(* The fixed-point numbers of math/decimal.rs and math/rate.rs: a Decimal  *)
(* is a 192-bit word and a Rate a 128-bit word, both counting in units of  *)
(* 1/WAD.  The widths are parameters, related as the real ones are, so     *)
(* that TLC meets every overflow on small words.                           *)
(*                                                                         *)
(* A behaviour is one operation: op and its operands x and y, and out, the  *)
(* value or the error MathOverflow.                                        *)
(***************************************************************************)
EXTENDS Integers

CONSTANTS WAD,             \* the scale; HALF_WAD and PERCENT_SCALER follow
          U64_MAX, U128_MAX, U192_MAX,
          Wide,            \* inputs tried as scaled Decimals
          Narrow,          \* inputs tried as scaled Rates
          Ints,            \* inputs tried as u64
          Percents,        \* inputs tried as u8
          Exponents        \* inputs tried as the exponent of try_pow

HALF_WAD == WAD \div 2
PERCENT_SCALER == WAD \div 100

\* What holds of 10^18 and of 2^64, 2^128, 2^192.
ASSUME FixedAssumption ==
  /\ WAD \in Nat /\ U64_MAX \in Nat /\ U128_MAX \in Nat /\ U192_MAX \in Nat
  /\ WAD % 100 = 0 /\ WAD >= 100 /\ WAD <= U64_MAX
  /\ U64_MAX <= U128_MAX /\ U128_MAX <= U192_MAX
  /\ WAD * WAD <= U128_MAX /\ U128_MAX * WAD <= U192_MAX
  /\ (U64_MAX * WAD) * WAD <= U192_MAX

ASSUME InputAssumption ==
  /\ Wide \subseteq 0..U192_MAX
  /\ Narrow \subseteq 0..U128_MAX
  /\ Ints \subseteq 0..U64_MAX
  /\ Percents \subseteq Nat
  /\ \A p \in Percents : p * PERCENT_SCALER <= U64_MAX
  /\ Exponents \subseteq Nat

VARIABLES op, x, y, out

vars == <<op, x, y, out>>

MathOverflow == -1

(***************************************************************************)
(* The word operations (crate uint, external), for words up to max.        *)
(***************************************************************************)

Fits(n, max) == IF n \in 0..max THEN n ELSE MathOverflow

checked_add(a, b, max) == Fits(a + b, max)
checked_sub(a, b) == IF b <= a THEN a - b ELSE MathOverflow
checked_div(a, b) == IF a = MathOverflow \/ b = 0 THEN MathOverflow ELSE a \div b
\* Compared by division, so that TLC's own integers are not exceeded.
checked_mul(a, b, max) ==
  IF b # 0 /\ a > max \div b THEN MathOverflow ELSE a * b

(***************************************************************************)
(* Decimal.                                                                *)
(***************************************************************************)

FromInt(n) == WAD * n
FromRate(r) == r
FromPercent(p) == p * PERCENT_SCALER

to_scaled_val(d) == Fits(d, U128_MAX)

try_round_u64(d) ==
  LET sum == checked_add(HALF_WAD, d, U192_MAX) IN
  Fits(checked_div(sum, WAD), U64_MAX)

try_ceil_u64(d) ==
  LET sum == checked_add(WAD - 1, d, U192_MAX) IN
  Fits(checked_div(sum, WAD), U64_MAX)

try_floor_u64(d) == Fits(checked_div(d, WAD), U64_MAX)

DecAdd(a, b) == checked_add(a, b, U192_MAX)
DecSub(a, b) == checked_sub(a, b)
DecDivInt(a, n) == checked_div(a, n)
DecMulInt(a, n) == checked_mul(a, n, U192_MAX)

DecDiv(a, b) == checked_div(checked_mul(a, WAD, U192_MAX), b)
DecDivRate(a, r) == DecDiv(a, FromRate(r))

\* Variant: divides by the scale before multiplying.
MulAfterDiv(a, b) == checked_mul(a \div WAD, b, U192_MAX)

\* Variant: the product is kept in a Rate's word.
MulInU128(a, b) == checked_div(checked_mul(a, b, U128_MAX), WAD)

DecMul(a, b) == checked_div(checked_mul(a, b, U192_MAX), WAD)
DecMulRate(a, r) == DecMul(a, FromRate(r))

(***************************************************************************)
(* Rate.                                                                   *)
(***************************************************************************)

TryFromDecimal(d) == to_scaled_val(d)
RateAdd(a, b) == checked_add(a, b, U128_MAX)
RateSub(a, b) == checked_sub(a, b)
RateDivInt(a, n) == checked_div(a, n)
RateDiv(a, b) == checked_div(checked_mul(a, WAD, U128_MAX), b)
RateMulInt(a, n) == checked_mul(a, n, U128_MAX)

RateMul(a, b) ==
  IF MathOverflow \in {a, b} THEN MathOverflow
  ELSE checked_div(checked_mul(a, b, U128_MAX), WAD)

\* try_pow squares and multiplies.  The base is squared in the last round too, where
\* nothing is left to multiply it into; an error of any multiplication is the result's.
PowStart(base, e) ==
  [exp |-> e, base |-> base, ret |-> IF e % 2 # 0 THEN base ELSE WAD]

PowRound(p) ==
  LET exp == p.exp \div 2
      base == RateMul(p.base, p.base)
  IN  [exp |-> exp, base |-> base,
       ret |-> IF base = MathOverflow THEN MathOverflow
               ELSE IF exp % 2 # 0 THEN RateMul(p.ret, base) ELSE p.ret]

try_pow(base, e) ==
  LET loop[k \in 0..e] ==
        IF k = 0 THEN PowStart(base, e)
        ELSE IF loop[k - 1].exp = 0 THEN loop[k - 1] ELSE PowRound(loop[k - 1])
  IN  loop[e].ret

(***************************************************************************)
(* The operations.                                                         *)
(***************************************************************************)

Init == op = "none" /\ x = 0 /\ y = 0 /\ out = 0

Calculate(name, a, b, result) ==
  op = "none" /\ op' = name /\ x' = a /\ y' = b /\ out' = result

OnInt(n) == Calculate("from_int", n, 0, FromInt(n))
OnPercent(p) == Calculate("from_percent", p, 0, FromPercent(p))

OnDecimal(d) ==
  \/ Calculate("floor", d, 0, try_floor_u64(d))
  \/ Calculate("ceil", d, 0, try_ceil_u64(d))
  \/ Calculate("round", d, 0, try_round_u64(d))
  \/ Calculate("to_scaled_val", d, 0, TryFromDecimal(d))

OnDecimals(a, b) ==
  \/ Calculate("add", a, b, DecAdd(a, b))
  \/ Calculate("sub", a, b, DecSub(a, b))
  \/ Calculate("mul", a, b, DecMul(a, b))
  \/ Calculate("div", a, b, DecDiv(a, b))

OnDecimalAndInt(a, n) ==
  \/ Calculate("mul_int", a, n, DecMulInt(a, n))
  \/ Calculate("div_int", a, n, DecDivInt(a, n))

OnDecimalAndRate(a, r) ==
  \/ Calculate("mul_rate", a, r, DecMulRate(a, r))
  \/ Calculate("div_rate", a, r, DecDivRate(a, r))

OnRates(a, b) ==
  \/ Calculate("rate_add", a, b, RateAdd(a, b))
  \/ Calculate("rate_sub", a, b, RateSub(a, b))
  \/ Calculate("rate_mul", a, b, RateMul(a, b))
  \/ Calculate("rate_div", a, b, RateDiv(a, b))

OnRateAndInt(a, n) ==
  \/ Calculate("rate_mul_int", a, n, RateMulInt(a, n))
  \/ Calculate("rate_div_int", a, n, RateDivInt(a, n))

OnPower(a, e) == Calculate("pow", a, e, try_pow(a, e))

\* How the reserve takes a percentage of a token amount.
TakePercent(n, p) == DecMulRate(FromInt(n), FromPercent(p))
OnFee(n, p) == Calculate("fee", n, p, TakePercent(n, p))

Next ==
  \/ \E n \in Ints : OnInt(n) \/ (\E a \in Wide : OnDecimalAndInt(a, n))
                     \/ (\E r \in Narrow : OnRateAndInt(r, n))
                     \/ (\E p \in Percents : OnFee(n, p))
  \/ \E p \in Percents : OnPercent(p)
  \/ \E a \in Wide : OnDecimal(a) \/ (\E b \in Wide : OnDecimals(a, b))
                     \/ (\E r \in Narrow : OnDecimalAndRate(a, r))
  \/ \E a \in Narrow : (\E b \in Narrow : OnRates(a, b)) \/ (\E e \in Exponents : OnPower(a, e))

Spec == Init /\ [][Next]_vars

(***************************************************************************)
(* Properties.                                                             *)
(***************************************************************************)

\* Products and quotients lose less than one unit, always downwards
\* (decimal.rs:161, decimal.rs:194): the division by the scale comes last.
TruncatesOnce ==
  /\ op \in {"mul", "mul_rate", "rate_mul"} /\ out # MathOverflow =>
       out * WAD <= x * y /\ x * y < (out + 1) * WAD
  /\ op \in {"div", "div_rate", "rate_div"} /\ out # MathOverflow =>
       out * y <= x * WAD /\ x * WAD < (out + 1) * y

\* Rounding to whole tokens (decimal.rs:69-99): down, up and to the nearest,
\* halves up.
WholeTokens ==
  out # MathOverflow =>
    /\ op = "floor" => out * WAD <= x /\ x < (out + 1) * WAD
    /\ op = "ceil" => x <= out * WAD /\ out * WAD < x + WAD
    /\ op = "round" => x - HALF_WAD < out * WAD /\ out * WAD <= x + HALF_WAD

\* A percentage of any u64 amount of tokens can be taken: the 192 bits hold
\* the product, and the part is never more than the whole.
PercentOfAnyAmount ==
  op = "fee" /\ y <= 100 => out \in 0..FromInt(x)

\* The exact power.
PowerOf(n, e) ==
  LET p[i \in 0..e] == IF i = 0 THEN 1 ELSE n * p[i - 1]
  IN  p[e]

\* Compounding (rate.rs:71): a rate of at least one never shrinks what it is
\* applied to and never overstates the exact power; a rate up to one never
\* fails.
Compounds ==
  op = "pow" =>
    /\ x <= WAD => out # MathOverflow
    /\ out # MathOverflow /\ y > 0 =>
         /\ x >= WAD => out >= x
         /\ out * PowerOf(WAD, y - 1) <= PowerOf(x, y)

\* Every operation on Decimal and Rate rounds by less than a unit in the direction its
\* users rely on, the powers of compound interest included, or is an error
\* (decimal.rs, rate.rs).
RoundsAsNamed == TruncatesOnce /\ WholeTokens /\ Compounds

=============================================================================
