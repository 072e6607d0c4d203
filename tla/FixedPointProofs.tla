-------------------------- MODULE FixedPointProofs --------------------------
(***************************************************************************)
(* Every operation rounds as its name says, and a percentage of any u64    *)
(* amount can be taken, for every scale and every width related as         *)
(* FixedAssumption says.                                                   *)
(***************************************************************************)
EXTENDS FixedPoint, NaturalsInduction, WellFoundedInduction, TLAPS

\* Integer division from below and above.
LEMMA DivBounds ==
  ASSUME NEW n \in Nat, NEW d \in Nat, d > 0
  PROVE  n \div d \in Nat /\ d * (n \div d) <= n /\ n < d * (n \div d) + d
  BY SMT

\* The scale is a hundred percent points.
LEMMA HundredPercent == PERCENT_SCALER \in Nat /\ 100 * PERCENT_SCALER = WAD
  BY FixedAssumption, SMT DEF PERCENT_SCALER

LEMMA ProductMonotone ==
  ASSUME NEW a \in Nat, NEW b \in Nat, NEW c \in Nat, b <= c
  PROVE  a * b \in Nat /\ a * b <= a * c
  BY SMT

\* checked_mul gives the product when it fits.
LEMMA MulFits ==
  ASSUME NEW a \in Nat, NEW b \in Nat, NEW max \in Nat, a * b <= max
  PROVE  checked_mul(a, b, max) = a * b
  <1>1. CASE b = 0
    BY <1>1, SMT DEF checked_mul
  <1>2. CASE b # 0
    <2>1. max \div b \in Nat /\ max < b * (max \div b) + b
      BY <1>2, DivBounds
    <2>2. SUFFICES ASSUME a > max \div b PROVE FALSE
      BY DEF checked_mul
    <2>3. a >= (max \div b) + 1
      BY <2>1, <2>2, SMT
    <2>4. b * ((max \div b) + 1) <= b * a
      BY <2>1, <2>3, ProductMonotone, (max \div b) + 1 \in Nat
    <2>5. b * ((max \div b) + 1) = b * (max \div b) + b
      BY <2>1, SMT
    <2>6. b * a = a * b
      BY SMT
    <2> QED
      BY <2>1, <2>4, <2>5, <2>6, SMT
  <1> QED
    BY <1>1, <1>2

\* The part of the amount that is taken.
LEMMA PercentTaken ==
  ASSUME NEW n \in Nat, n <= U64_MAX, NEW p \in Nat, p <= 100
  PROVE  TakePercent(n, p) \in Nat /\ TakePercent(n, p) <= FromInt(n)
  <1> DEFINE a == WAD * n
             b == p * PERCENT_SCALER
  <1>0. WAD \in Nat /\ WAD > 0 /\ U64_MAX \in Nat /\ U192_MAX \in Nat
    BY FixedAssumption, SMT
  <1>1. a \in Nat /\ b \in Nat
    BY <1>0, HundredPercent, SMT
  <1>2. b <= WAD
    <2>1. PERCENT_SCALER * p <= PERCENT_SCALER * 100
      BY HundredPercent, ProductMonotone, 100 \in Nat
    <2> QED
      BY <2>1, HundredPercent, SMT
  <1>3. a * b <= a * WAD /\ a * WAD \in Nat
    BY <1>0, <1>1, <1>2, ProductMonotone
  <1>4. a * WAD <= U192_MAX
    <2>1. WAD * n <= WAD * U64_MAX
      BY <1>0, ProductMonotone
    <2>2. WAD * a <= WAD * (WAD * U64_MAX)
      <3>1. WAD * U64_MAX \in Nat
        BY <1>0, SMT
      <3> QED
        BY <1>0, <1>1, <2>1, <3>1, ProductMonotone
    <2>3. WAD * (WAD * U64_MAX) = (U64_MAX * WAD) * WAD /\ WAD * a = a * WAD
      BY <1>0, <1>1, SMT
    <2> QED
      BY <2>2, <2>3, FixedAssumption
  <1>5. a * b \in Nat /\ a * b <= U192_MAX
    BY <1>0, <1>1, <1>3, <1>4, SMT
  <1>6. checked_mul(a, b, U192_MAX) = a * b
    BY <1>0, <1>1, <1>5, MulFits
  <1>7. TakePercent(n, p) = (a * b) \div WAD
    <2>1. a * b # MathOverflow
      BY <1>5, SMT DEF MathOverflow
    <2> QED
      BY <1>0, <1>6, <2>1
      DEF TakePercent, DecMulRate, FromRate, FromInt, FromPercent, DecMul, checked_div
  <1>8. (a * b) \div WAD \in Nat /\ WAD * ((a * b) \div WAD) <= a * b
    BY <1>0, <1>5, DivBounds
  <1>9. (a * b) \div WAD <= a
    <2> DEFINE q == (a * b) \div WAD
    <2>1. SUFFICES ASSUME q >= a + 1 PROVE FALSE
      BY <1>1, <1>8, SMT
    <2>2. WAD * (a + 1) <= WAD * q
      BY <1>0, <1>1, <1>8, <2>1, ProductMonotone, a + 1 \in Nat
    <2>3. WAD * (a + 1) = a * WAD + WAD
      BY <1>0, <1>1, SMT
    <2> HIDE DEF q
    <2> QED
      BY <1>0, <1>3, <1>5, <1>8, <2>2, <2>3, SMT DEF q
  <1> QED
    BY <1>7, <1>8, <1>9 DEF FromInt

\* Taking a percentage of a u64 amount never fails and never gives more than
\* the amount (Decimal::from and try_mul of decimal.rs, as the fee and the
\* threshold calculations of reserve.rs and obligation.rs use them).
THEOREM PercentAlwaysTaken == Spec => []PercentOfAnyAmount
  <1>1. Init => PercentOfAnyAmount
    BY DEF Init, PercentOfAnyAmount
  <1>2. PercentOfAnyAmount /\ [Next]_vars => PercentOfAnyAmount'
    <2> SUFFICES ASSUME PercentOfAnyAmount, [Next]_vars, op' = "fee", y' <= 100
                 PROVE  out' \in 0..FromInt(x')
      BY DEF PercentOfAnyAmount, FromInt
    <2>1. CASE UNCHANGED vars
      BY <2>1 DEF vars, PercentOfAnyAmount, FromInt
    <2>2. CASE \E n \in Ints, p \in Percents : OnFee(n, p)
      <3>1. PICK n \in Ints, p \in Percents : OnFee(n, p)
        BY <2>2
      <3>2. x' = n /\ y' = p /\ out' = TakePercent(n, p)
        BY <3>1 DEF OnFee, Calculate
      <3>3. n \in Nat /\ n <= U64_MAX /\ p \in Nat /\ p <= 100
        BY <3>2, FixedAssumption, InputAssumption, SMT
      <3>4. TakePercent(n, p) \in Nat /\ TakePercent(n, p) <= FromInt(n)
        BY <3>3, PercentTaken
      <3>5. FromInt(n) \in Nat
        BY <3>3, FixedAssumption, SMT DEF FromInt
      <3>6. FromInt(x') = FromInt(n)
        BY <3>2
      <3> HIDE DEF TakePercent
      <3> QED
        BY <3>2, <3>4, <3>5, <3>6, SMT
    <2>3. CASE Next /\ ~(\E n \in Ints, p \in Percents : OnFee(n, p))
      BY <2>3 DEF Next, OnInt, OnDecimalAndInt, OnRateAndInt, OnPercent, OnDecimal, OnDecimals,
                  OnDecimalAndRate, OnRates, OnPower, Calculate
    <2> QED
      BY <2>1, <2>2, <2>3
  <1> QED
    BY <1>1, <1>2, PTL DEF Spec

-----------------------------------------------------------------------------
(* Products, quotients and whole tokens. *)

LEMMA MulExact ==
  ASSUME NEW a \in Nat, NEW b \in Nat, NEW max \in Nat, checked_mul(a, b, max) # MathOverflow
  PROVE  checked_mul(a, b, max) = a * b /\ a * b \in Nat
  BY DEF checked_mul

LEMMA Truncated ==
  ASSUME NEW a \in Nat, NEW b \in Nat, NEW max \in Nat,
         checked_div(checked_mul(a, b, max), WAD) # MathOverflow
  PROVE  LET q == checked_div(checked_mul(a, b, max), WAD)
         IN  q = (a * b) \div WAD /\ q \in Nat /\ q * WAD <= a * b /\ a * b < (q + 1) * WAD
  <1> DEFINE p == checked_mul(a, b, max)
             q == checked_div(p, WAD)
  <1>1. p # MathOverflow /\ WAD \in Nat /\ WAD > 0
    BY FixedAssumption DEF checked_div
  <1>2. p = a * b /\ p \in Nat
    BY <1>1, MulExact
  <1> HIDE DEF p
  <1>3. q = p \div WAD
    BY <1>1 DEF checked_div
  <1>4. q \in Nat /\ WAD * q <= p /\ p < WAD * q + WAD
    BY <1>1, <1>2, <1>3, DivBounds
  <1> HIDE DEF q
  <1>5. WAD * q = q * WAD /\ (q + 1) * WAD = q * WAD + WAD
    BY <1>1, <1>4
  <1>6. q * WAD <= p /\ p < (q + 1) * WAD
    BY <1>4, <1>5
  <1> QED
    BY <1>2, <1>3, <1>4, <1>6 DEF q, p

LEMMA Divided ==
  ASSUME NEW a \in Nat, NEW b \in Nat, NEW max \in Nat,
         checked_div(checked_mul(a, WAD, max), b) # MathOverflow
  PROVE  LET q == checked_div(checked_mul(a, WAD, max), b)
         IN  q \in Nat /\ q * b <= a * WAD /\ a * WAD < (q + 1) * b
  <1> DEFINE p == checked_mul(a, WAD, max)
             q == checked_div(p, b)
  <1>1. p # MathOverflow /\ WAD \in Nat /\ b > 0
    BY FixedAssumption DEF checked_div
  <1>2. p = a * WAD /\ p \in Nat
    BY <1>1, MulExact
  <1> HIDE DEF p
  <1>3. q = p \div b
    BY <1>1 DEF checked_div
  <1>4. q \in Nat /\ b * q <= p /\ p < b * q + b
    BY <1>1, <1>2, <1>3, DivBounds
  <1> HIDE DEF q
  <1>5. b * q = q * b /\ (q + 1) * b = q * b + b
    BY <1>1, <1>4
  <1>6. q * b <= p /\ p < (q + 1) * b
    BY <1>4, <1>5
  <1> QED
    BY <1>2, <1>4, <1>6 DEF q, p

(* What a rounding adds before it divides. *)
LEMMA Rounded ==
  ASSUME NEW d \in Nat, NEW extra \in Nat, NEW out0,
         out0 = Fits(checked_div(checked_add(extra, d, U192_MAX), WAD), U64_MAX),
         out0 # MathOverflow
  PROVE  out0 \in Nat /\ out0 * WAD <= d + extra /\ d + extra < out0 * WAD + WAD
  <1> DEFINE sum == checked_add(extra, d, U192_MAX)
             q == checked_div(sum, WAD)
  <1>1. WAD \in Nat /\ WAD > 0
    BY FixedAssumption
  <1>a. out0 = Fits(q, U64_MAX)
    OBVIOUS
  <1>2. q # MathOverflow /\ out0 = q
    <2> HIDE DEF q
    <2>1. q \in 0..U64_MAX /\ out0 = q
      BY <1>a, Zenon DEF Fits
    <2>2. ~(-1 \in 0..U64_MAX)
      BY FixedAssumption
    <2> QED
      BY <2>1, <2>2, Zenon DEF MathOverflow
  <1>3. sum # MathOverflow
    BY <1>2 DEF checked_div
  <1>4. sum = d + extra /\ sum \in Nat
    <2>1. sum = extra + d
      BY <1>3, Zenon DEF checked_add, Fits
    <2> HIDE DEF sum
    <2> QED
      BY <2>1
  <1> HIDE DEF sum
  <1>5. q = sum \div WAD
    BY <1>1, <1>2 DEF checked_div
  <1>6. q \in Nat /\ WAD * q <= sum /\ sum < WAD * q + WAD
    BY <1>1, <1>4, <1>5, DivBounds
  <1> HIDE DEF q
  <1>7. WAD * q = q * WAD
    BY <1>1, <1>6
  <1> QED
    BY <1>2, <1>4, <1>6, <1>7

LEMMA Floored ==
  ASSUME NEW d \in Nat, try_floor_u64(d) # MathOverflow
  PROVE  LET q == try_floor_u64(d)
         IN  q \in Nat /\ q * WAD <= d /\ d < (q + 1) * WAD
  <1> DEFINE q == d \div WAD
  <1>1. WAD \in Nat /\ WAD > 0 /\ d # MathOverflow
    BY FixedAssumption DEF MathOverflow
  <1>2. q \in Nat /\ WAD * q <= d /\ d < WAD * q + WAD
    BY <1>1, DivBounds
  <1>3. try_floor_u64(d) = Fits(q, U64_MAX)
    BY <1>1 DEF try_floor_u64, checked_div
  <1> HIDE DEF q
  <1>4. try_floor_u64(d) = q
    BY <1>3 DEF Fits
  <1>5. WAD * q = q * WAD /\ (q + 1) * WAD = q * WAD + WAD
    BY <1>1, <1>2
  <1> QED
    BY <1>2, <1>4, <1>5

LEMMA CeilAndRound ==
  ASSUME NEW d \in Nat
  PROVE  /\ try_ceil_u64(d) # MathOverflow =>
              d <= try_ceil_u64(d) * WAD /\ try_ceil_u64(d) * WAD < d + WAD
         /\ try_round_u64(d) # MathOverflow =>
              d - HALF_WAD < try_round_u64(d) * WAD /\ try_round_u64(d) * WAD <= d + HALF_WAD
  <1>1. WAD \in Nat /\ WAD > 0 /\ WAD - 1 \in Nat
    BY FixedAssumption
  <1>2. HALF_WAD \in Nat /\ WAD = 2 * HALF_WAD
    BY FixedAssumption DEF HALF_WAD
  <1>3. ASSUME try_ceil_u64(d) # MathOverflow
        PROVE  d <= try_ceil_u64(d) * WAD /\ try_ceil_u64(d) * WAD < d + WAD
    <2> DEFINE q == try_ceil_u64(d)
    <2>1. q = Fits(checked_div(checked_add(WAD - 1, d, U192_MAX), WAD), U64_MAX)
      BY DEF try_ceil_u64
    <2> HIDE DEF q
    <2>2. q # MathOverflow
      BY <1>3 DEF q
    <2>3. q \in Nat /\ q * WAD <= d + (WAD - 1) /\ d + (WAD - 1) < q * WAD + WAD
      BY <1>1, <2>1, <2>2, Rounded
    <2>4. q * WAD \in Nat
      BY <1>1, <2>3
    <2>5. d <= q * WAD /\ q * WAD < d + WAD
      BY <1>1, <2>3, <2>4
    <2> QED
      BY <2>5 DEF q
  <1>4. ASSUME try_round_u64(d) # MathOverflow
        PROVE  d - HALF_WAD < try_round_u64(d) * WAD /\ try_round_u64(d) * WAD <= d + HALF_WAD
    <2> DEFINE q == try_round_u64(d)
    <2>1. q = Fits(checked_div(checked_add(HALF_WAD, d, U192_MAX), WAD), U64_MAX)
      BY DEF try_round_u64
    <2> HIDE DEF q
    <2>2. q # MathOverflow
      BY <1>4 DEF q
    <2>3. q \in Nat /\ q * WAD <= d + HALF_WAD /\ d + HALF_WAD < q * WAD + WAD
      BY <1>2, <2>1, <2>2, Rounded
    <2>4. q * WAD \in Nat
      BY <1>1, <2>3
    <2>5. d - HALF_WAD < q * WAD
      BY <1>1, <1>2, <2>3, <2>4
    <2> QED
      BY <2>3, <2>5 DEF q
  <1> QED
    BY <1>3, <1>4
-----------------------------------------------------------------------------
(* Powers.  Induction is by the least element of a set of naturals. *)

LEMMA LeastNatural ==
  ASSUME NEW T \in SUBSET Nat, T # {}
  PROVE  \E n \in T : \A m \in T : n <= m
  <1> DEFINE R == {ss \in Nat \X Nat : ss[1] < ss[2]}
  <1>1. IsWellFoundedOn(R, Nat)
    BY NatLessThanWellFounded, Zenon DEF OpToRel
  <1>2. PICK n \in T : \A m \in T : ~(<<m, n>> \in R)
    BY <1>1, WFMin
  <1>3. ASSUME NEW m \in T, m < n PROVE FALSE
    <2>1. <<m, n>> \in Nat \X Nat
      OBVIOUS
    <2>2. <<m, n>> \in R
      BY <2>1, <1>3
    <2> QED
      BY <2>2, <1>2
  <1> QED
    BY <1>3

LEMMA SetInduction ==
  ASSUME NEW S, 0 \in S, \A n \in Nat : n \in S => n + 1 \in S
  PROVE  \A n \in Nat : n \in S
  <1> DEFINE T == Nat \ S
  <1> SUFFICES ASSUME T # {} PROVE FALSE
    OBVIOUS
  <1>1. PICK n \in T : \A m \in T : n <= m
    BY LeastNatural
  <1>2. n # 0 /\ n \in Nat
    BY <1>1
  <1>3. n - 1 \in Nat /\ n - 1 \notin T
    BY <1>1, <1>2
  <1> QED
    BY <1>1, <1>3

(* g is a run of a loop from start up to its n-th round. *)
Runs(g, start, step, n) ==
  \A k \in 0..n : g[k] = IF k = 0 THEN start ELSE step[g[k - 1]]

(* A loop can be run any number of rounds. *)
LEMMA LoopRuns ==
  ASSUME NEW V, NEW start \in V, NEW step \in [V -> V], NEW e \in Nat
  PROVE  \E g \in [0..e -> V] : Runs(g, start, step, e)
  <1> DEFINE Reached == {n \in Nat : \E g \in [0..n -> V] : Runs(g, start, step, n)}
  <1>1. 0 \in Reached
    <2> DEFINE g == [k \in 0..0 |-> start]
    <2>1. g \in [0..0 -> V] /\ Runs(g, start, step, 0)
      BY DEF Runs
    <2> QED
      BY <2>1
  <1>2. ASSUME NEW n \in Nat, n \in Reached PROVE n + 1 \in Reached
    <2>1. PICK g \in [0..n -> V] : Runs(g, start, step, n)
      BY <1>2
    <2> DEFINE h == [k \in 0..(n + 1) |-> IF k = n + 1 THEN step[g[n]] ELSE g[k]]
    <2>2. ASSUME NEW k \in 0..(n + 1) PROVE h[k] \in V
      <3>1. CASE k = n + 1
        BY <3>1, n \in 0..n
      <3>2. CASE k # n + 1
        BY <3>2, k \in 0..n
      <3> QED
        BY <3>1, <3>2
    <2>3. ASSUME NEW k \in 0..(n + 1)
          PROVE  h[k] = IF k = 0 THEN start ELSE step[h[k - 1]]
      <3>1. CASE k = n + 1
        BY <3>1, n \in 0..(n + 1), k - 1 = n
      <3>2. CASE k # n + 1
        <4>1. k \in 0..n /\ (k # 0 => k - 1 \in 0..(n + 1) /\ k - 1 # n + 1)
          BY <3>2
        <4>2. h[k] = g[k] /\ (k # 0 => h[k - 1] = g[k - 1])
          BY <4>1
        <4> HIDE DEF h
        <4> QED
          BY <4>1, <4>2, <2>1 DEF Runs
      <3> QED
        BY <3>1, <3>2
    <2>4. h \in [0..(n + 1) -> V]
      BY <2>2
    <2>5. Runs(h, start, step, n + 1)
      <3> HIDE DEF h
      <3> QED
        BY <2>3 DEF Runs
    <2> HIDE DEF h
    <2> QED
      BY <2>4, <2>5
  <1>3. e \in Reached
    <2> HIDE DEF Reached
    <2> QED
      BY <1>1, <1>2, SetInduction
  <1> QED
    BY <1>3

(* Two runs agree as far as both go. *)
LEMMA RunsAgree ==
  ASSUME NEW f, NEW g, NEW start, NEW step, NEW n \in Nat,
         Runs(f, start, step, n), Runs(g, start, step, n)
  PROVE  f[n] = g[n]
  <1> DEFINE Same == {k \in Nat : k <= n => f[k] = g[k]}
  <1>1. 0 \in Same
    BY 0 \in 0..n DEF Runs
  <1>2. ASSUME NEW k \in Nat, k \in Same PROVE k + 1 \in Same
    <2>1. SUFFICES ASSUME k + 1 <= n PROVE f[k + 1] = g[k + 1]
      OBVIOUS
    <2>2. k + 1 \in 0..n /\ k + 1 # 0 /\ (k + 1) - 1 = k /\ k <= n
      BY <2>1
    <2>3. f[k] = g[k]
      BY <2>2, <1>2
    <2>4. f[k + 1] = step[f[k]] /\ g[k + 1] = step[g[k]]
      BY <2>2 DEF Runs
    <2> QED
      BY <2>3, <2>4
  <1>3. n \in Same
    <2> HIDE DEF Same
    <2> QED
      BY <1>1, <1>2, SetInduction
  <1> QED
    BY <1>3

LEMMA PowerTable ==
  ASSUME NEW n \in Nat, NEW e \in Nat
  PROVE  \E g \in [0..e -> Nat] :
           Runs(g, 1, [v \in Nat |-> n * v], e) /\ PowerOf(n, e) = g[e]
  <1> DEFINE step == [v \in Nat |-> n * v]
             Table(g) == g = [i \in 0..e |-> IF i = 0 THEN 1 ELSE n * g[i - 1]]
             p == CHOOSE g : Table(g)
             Natural == {k \in Nat : k \in 0..e => p[k] \in Nat}
  <1>1. step \in [Nat -> Nat]
    OBVIOUS
  <1>2. PICK g \in [0..e -> Nat] : Runs(g, 1, step, e)
    <2> HIDE DEF step
    <2> QED
      BY <1>1, LoopRuns, 1 \in Nat
  <1>3. ASSUME NEW k \in 0..e PROVE g[k] = IF k = 0 THEN 1 ELSE n * g[k - 1]
    <2>1. k # 0 => g[k - 1] \in Nat
      BY k # 0 => k - 1 \in 0..e
    <2> QED
      BY <1>2, <2>1 DEF Runs
  <1>4. Table(g)
    BY <1>3
  <1>5. Table(p)
    <2> HIDE DEF Table
    <2> QED
      BY <1>4, Zenon
  <1>6. PowerOf(n, e) = p[e]
    BY Zenon DEF PowerOf
  <1> HIDE DEF p
  <1>7. \A k \in 0..e : p[k] = IF k = 0 THEN 1 ELSE n * p[k - 1]
    BY <1>5
  <1>8. 0 \in Natural
    BY <1>7
  <1>9. ASSUME NEW k \in Nat, k \in Natural PROVE k + 1 \in Natural
    <2>1. SUFFICES ASSUME k + 1 \in 0..e PROVE p[k + 1] \in Nat
      OBVIOUS
    <2>2. k \in 0..e /\ (k + 1) - 1 = k /\ k + 1 # 0
      BY <2>1
    <2>3. p[k] \in Nat
      BY <2>2, <1>9
    <2>4. p[k + 1] = n * p[k]
      BY <2>1, <2>2, <1>7
    <2> QED
      BY <2>3, <2>4
  <1>10. \A k \in Nat : k \in Natural
    <2> HIDE DEF Natural
    <2> QED
      BY <1>8, <1>9, SetInduction
  <1>11. \A k \in 0..e : p[k] \in Nat
    BY <1>10
  <1>12. p \in [0..e -> Nat]
    <2>1. p = [i \in 0..e |-> p[i]]
      BY <1>5
    <2> QED
      BY <2>1, <1>11
  <1>13. ASSUME NEW k \in 0..e PROVE p[k] = IF k = 0 THEN 1 ELSE step[p[k - 1]]
    <2>1. k # 0 => p[k - 1] \in Nat
      BY <1>11, k # 0 => k - 1 \in 0..e
    <2> QED
      BY <1>7, <2>1
  <1>14. Runs(p, 1, step, e)
    <2> HIDE DEF step
    <2> QED
      BY <1>13 DEF Runs
  <1> HIDE DEF step
  <1>15. \E f \in [0..e -> Nat] : Runs(f, 1, step, e) /\ PowerOf(n, e) = f[e]
    BY <1>6, <1>12, <1>14
  <1> QED
    BY <1>15 DEF step

LEMMA PowerSteps ==
  ASSUME NEW n \in Nat, NEW e \in Nat
  PROVE  /\ PowerOf(n, e) \in Nat /\ PowerOf(n, 0) = 1
         /\ PowerOf(n, e + 1) = n * PowerOf(n, e)
  <1> DEFINE step == [v \in Nat |-> n * v]
  <1>1. PICK f \in [0..e -> Nat] : Runs(f, 1, step, e) /\ PowerOf(n, e) = f[e]
    BY PowerTable
  <1>2. PICK g \in [0..(e + 1) -> Nat] : Runs(g, 1, step, e + 1) /\ PowerOf(n, e + 1) = g[e + 1]
    BY PowerTable, e + 1 \in Nat
  <1>3. PICK z \in [0..0 -> Nat] : Runs(z, 1, step, 0) /\ PowerOf(n, 0) = z[0]
    BY PowerTable, 0 \in Nat
  <1>4. PowerOf(n, 0) = 1
    BY <1>3, 0 \in 0..0 DEF Runs
  <1>5. PowerOf(n, e) \in Nat
    BY <1>1, e \in 0..e
  <1>6. g[e + 1] = n * g[e]
    <2>1. e + 1 \in 0..(e + 1) /\ e + 1 # 0 /\ (e + 1) - 1 = e /\ e \in 0..(e + 1)
      OBVIOUS
    <2>2. g[e + 1] = step[g[e]]
      <3> HIDE DEF step
      <3> QED
        BY <1>2, <2>1 DEF Runs
    <2> QED
      BY <2>1, <2>2
  <1> HIDE DEF step
  <1>7. Runs(g, 1, step, e)
    BY <1>2, 0..e \subseteq 0..(e + 1) DEF Runs
  <1>8. g[e] = f[e]
    BY <1>1, <1>7, RunsAgree
  <1> QED
    BY <1>1, <1>2, <1>4, <1>5, <1>6, <1>8

LEMMA Associates ==
  ASSUME NEW a \in Nat, NEW b \in Nat, NEW c \in Nat
  PROVE  a * b \in Nat /\ a * b = b * a /\ a * (b * c) = (a * b) * c
  BY SMT

LEMMA PowerAdds ==
  ASSUME NEW n \in Nat, NEW a \in Nat, NEW b \in Nat
  PROVE  PowerOf(n, a + b) = PowerOf(n, a) * PowerOf(n, b)
  <1> DEFINE Adding == {k \in Nat : PowerOf(n, a + k) = PowerOf(n, a) * PowerOf(n, k)}
             w == PowerOf(n, a)
  <1>0. w \in Nat
    BY PowerSteps
  <1>1. 0 \in Adding
    <2>1. PowerOf(n, 0) = 1 /\ a + 0 = a
      BY PowerSteps
    <2>2. w * 1 = w
      BY <1>0
    <2> QED
      BY <2>1, <2>2
  <1>2. ASSUME NEW k \in Nat, k \in Adding PROVE k + 1 \in Adding
    <2> DEFINE v == PowerOf(n, k)
    <2>1. PowerOf(n, a + k) = w * v /\ v \in Nat
      BY <1>2, PowerSteps
    <2>2. PowerOf(n, k + 1) = n * v
      BY PowerSteps
    <2>3. a + (k + 1) = (a + k) + 1 /\ a + k \in Nat
      OBVIOUS
    <2>4. PowerOf(n, a + (k + 1)) = n * (w * v)
      BY <2>1, <2>3, PowerSteps
    <2> HIDE DEF v, w
    <2>5. n * (w * v) = w * (n * v)
      BY <1>0, <2>1, Associates
    <2>6. PowerOf(n, a + (k + 1)) = w * PowerOf(n, k + 1)
      BY <2>2, <2>4, <2>5
    <2> QED
      BY <2>6 DEF w
  <1>3. b \in Adding
    <2> HIDE DEF Adding
    <2> QED
      BY <1>1, <1>2, SetInduction
  <1> QED
    BY <1>3
-----------------------------------------------------------------------------
(* try_pow. *)

(* r, a Rate, is at most the a-th power of the Rate c. *)
Understates(r, c, a) == r * PowerOf(WAD, a) <= WAD * PowerOf(c, a)

LEMMA CancelScale ==
  ASSUME NEW a \in Nat, NEW b \in Nat, WAD * a <= WAD * b
  PROVE  a <= b
  <1>1. WAD \in Nat /\ WAD > 0
    BY FixedAssumption
  <1>2. SUFFICES ASSUME a >= b + 1 PROVE FALSE
    OBVIOUS
  <1>3. WAD * (b + 1) <= WAD * a
    BY <1>1, <1>2, ProductMonotone, b + 1 \in Nat
  <1>4. WAD * (b + 1) = WAD * b + WAD /\ WAD * b \in Nat /\ WAD * a \in Nat
    BY <1>1
  <1> QED
    BY <1>1, <1>3, <1>4

LEMMA ProductsMonotone ==
  ASSUME NEW a \in Nat, NEW b \in Nat, NEW c \in Nat, NEW d \in Nat, a <= c, b <= d
  PROVE  a * b <= c * d
  <1>1. a * b <= a * d /\ a * b \in Nat /\ a * d \in Nat
    BY ProductMonotone
  <1>2. d * a <= d * c
    BY ProductMonotone
  <1>3. d * a = a * d /\ d * c = c * d /\ c * d \in Nat
    BY Associates
  <1> QED
    BY <1>1, <1>2, <1>3

(* Four factors, paired the other way. *)
LEMMA Interchange ==
  ASSUME NEW a \in Nat, NEW b \in Nat, NEW c \in Nat, NEW d \in Nat
  PROVE  (a * b) * (c * d) = (a * c) * (b * d)
  <1>1. b * (c * d) = c * (b * d)
    <2>1. b * (c * d) = (b * c) * d /\ c * (b * d) = (c * b) * d /\ b * c = c * b
      BY Associates
    <2> QED
      BY <2>1
  <1>2. c * d \in Nat /\ b * d \in Nat
    BY Associates
  <1>3. (a * b) * (c * d) = a * (b * (c * d))
    BY <1>2, Associates
  <1>4. (a * c) * (b * d) = a * (c * (b * d))
    BY <1>2, Associates
  <1> QED
    BY <1>1, <1>3, <1>4

(* A product of two such powers, truncated, understates the power of both. *)
LEMMA ProductUnderstates ==
  ASSUME NEW r \in Nat, NEW s \in Nat, NEW q \in Nat, NEW c \in Nat,
         NEW a \in Nat, NEW b \in Nat,
         Understates(r, c, a), Understates(s, c, b), q * WAD <= r * s
  PROVE  Understates(q, c, a + b)
  <1> DEFINE A == PowerOf(WAD, a)
             B == PowerOf(WAD, b)
             X == PowerOf(c, a)
             Y == PowerOf(c, b)
  <1>1. WAD \in Nat /\ WAD > 0
    BY FixedAssumption
  <1>2. A \in Nat /\ B \in Nat /\ X \in Nat /\ Y \in Nat
    BY <1>1, PowerSteps
  <1>3. PowerOf(WAD, a + b) = A * B /\ PowerOf(c, a + b) = X * Y
    BY <1>1, PowerAdds
  <1>4. r * A <= WAD * X /\ s * B <= WAD * Y
    BY DEF Understates
  <1> HIDE DEF A, B, X, Y
  <1>5. r * A \in Nat /\ s * B \in Nat /\ WAD * X \in Nat /\ WAD * Y \in Nat /\ A * B \in Nat
     /\ X * Y \in Nat /\ q * WAD \in Nat /\ r * s \in Nat
    BY <1>1, <1>2, Associates
  <1>6. (r * A) * (s * B) <= (WAD * X) * (WAD * Y)
    BY <1>4, <1>5, ProductsMonotone
  <1>7. (r * A) * (s * B) = (r * s) * (A * B)
    BY <1>2, Interchange
  <1>8. (WAD * X) * (WAD * Y) = WAD * (WAD * (X * Y))
    <2>1. (WAD * X) * (WAD * Y) = (WAD * WAD) * (X * Y)
      BY <1>1, <1>2, Interchange
    <2>2. (WAD * WAD) * (X * Y) = WAD * (WAD * (X * Y))
      BY <1>1, <1>5, Associates
    <2> QED
      BY <2>1, <2>2
  <1>9. (q * WAD) * (A * B) <= (r * s) * (A * B)
    BY <1>5, ProductsMonotone
  <1>10. (q * WAD) * (A * B) = WAD * (q * (A * B))
    <2>1. q * WAD = WAD * q
      BY <1>1, Associates
    <2>2. (WAD * q) * (A * B) = WAD * (q * (A * B))
      BY <1>1, <1>5, Associates
    <2> QED
      BY <2>1, <2>2
  <1>11. q * (A * B) \in Nat /\ WAD * (X * Y) \in Nat
    BY <1>1, <1>5, Associates
  <1>12. WAD * (q * (A * B)) <= WAD * (WAD * (X * Y))
    <2>1. WAD * (q * (A * B)) \in Nat /\ WAD * (WAD * (X * Y)) \in Nat /\ (r * s) * (A * B) \in Nat
      BY <1>1, <1>5, <1>11, Associates
    <2> QED
      BY <1>6, <1>7, <1>8, <1>9, <1>10, <2>1
  <1>13. q * (A * B) <= WAD * (X * Y)
    BY <1>11, <1>12, CancelScale
  <1> QED
    BY <1>3, <1>13 DEF Understates

Words == Nat \cup {MathOverflow}

(* What RateMul of two Rates returns: the truncated product; a factor of at least one    *)
(* does not make the other smaller; two factors up to one do not overflow, nor exceed it. *)
LEMMA RateProduct ==
  ASSUME NEW a \in Words, NEW b \in Words
  PROVE  LET q == RateMul(a, b) IN
         /\ q \in Words
         /\ q # MathOverflow => a \in Nat /\ b \in Nat /\ q \in Nat /\ q * WAD <= a * b
                               /\ (a >= WAD => q >= b)
         /\ a \in 0..WAD /\ b \in 0..WAD => q \in 0..WAD
  <1> DEFINE q == RateMul(a, b)
  <1>0. WAD \in Nat /\ WAD > 0 /\ U128_MAX \in Nat /\ WAD * WAD <= U128_MAX /\ MathOverflow \notin Nat
    BY FixedAssumption DEF MathOverflow
  <1>1. CASE MathOverflow \in {a, b}
    <2>1. q = MathOverflow
      BY <1>1 DEF RateMul
    <2>2. ~(a \in 0..WAD /\ b \in 0..WAD)
      BY <1>1, <1>0
    <2> HIDE DEF q
    <2>3. q \in Words
      BY <2>1 DEF Words
    <2> QED
      BY <2>1, <2>2, <2>3 DEF q
  <1>2. CASE MathOverflow \notin {a, b}
    <2>1. a \in Nat /\ b \in Nat
      BY <1>2 DEF Words
    <2>2. q = checked_div(checked_mul(a, b, U128_MAX), WAD)
      BY <1>2 DEF RateMul
    <2>3. ASSUME q # MathOverflow
          PROVE  q \in Nat /\ q * WAD <= a * b /\ a * b < (q + 1) * WAD
      BY <1>0, <2>1, <2>2, <2>3, Truncated
    <2> HIDE DEF q
    <2>4. ASSUME q # MathOverflow, a >= WAD
          PROVE  q >= b
      <3>1. q \in Nat /\ a * b < (q + 1) * WAD
        BY <2>3, <2>4
      <3>2. WAD * b <= a * b
        BY <1>0, <2>1, <2>4, ProductsMonotone
      <3>3. SUFFICES ASSUME q + 1 <= b PROVE FALSE
        BY <3>1, <2>1
      <3>4. WAD * (q + 1) <= WAD * b
        BY <1>0, <2>1, <3>1, <3>3, ProductMonotone, q + 1 \in Nat
      <3>5. WAD * (q + 1) = (q + 1) * WAD /\ (q + 1) * WAD \in Nat /\ a * b \in Nat /\ WAD * b \in Nat
        BY <1>0, <2>1, <3>1, q + 1 \in Nat, Associates
      <3> QED
        BY <3>1, <3>2, <3>4, <3>5
    <2>5. ASSUME a \in 0..WAD, b \in 0..WAD
          PROVE  q \in 0..WAD
      <3>1. a * b <= WAD * WAD /\ a * b \in Nat /\ WAD * WAD \in Nat
        BY <1>0, <2>1, <2>5, ProductsMonotone, Associates
      <3>2. a * b <= U128_MAX
        BY <1>0, <3>1
      <3>3. checked_mul(a, b, U128_MAX) = a * b
        BY <1>0, <2>1, <3>2, MulFits
      <3>4. q = (a * b) \div WAD
        BY <1>0, <2>2, <3>1, <3>3 DEF checked_div
      <3>5. (a * b) \div WAD \in Nat /\ WAD * ((a * b) \div WAD) <= a * b
        BY <1>0, <3>1, DivBounds
      <3>6. WAD * q <= WAD * WAD /\ q \in Nat
        <4>1. q \in Nat /\ WAD * q <= a * b
          BY <3>4, <3>5
        <4>2. WAD * q \in Nat
          BY <1>0, <4>1, Associates
        <4> QED
          BY <3>1, <4>1, <4>2
      <3>7. q <= WAD
        BY <1>0, <3>6, CancelScale
      <3> QED
        BY <3>6, <3>7
    <2>6. q \in Words
      BY <2>3 DEF Words
    <2> QED
      BY <2>1, <2>3, <2>4, <2>5, <2>6 DEF q
  <1> QED
    BY <1>1, <1>2
(* The state of the loop, and one turn of it. *)
PowState == [exp : Nat, base : Words, ret : Words]
Turn(p) == IF p.exp = 0 THEN p ELSE PowRound(p)

(* The exponent e is split: ret has taken m of it, base stands for the d-th power. *)
Split(p, c, e, m, d) ==
  /\ e = m + (2 * d) * (p.exp \div 2)
  /\ p.base \in Nat /\ p.ret \in Nat
  /\ Understates(p.base, c, d) /\ Understates(p.ret, c, m)
  /\ c >= WAD => p.base >= c /\ p.ret >= WAD /\ (m > 0 => p.ret >= c)

PowInv(p, c, e) ==
  /\ p.ret # MathOverflow => \E m \in Nat, d \in Nat : Split(p, c, e, m, d)
  /\ c <= WAD => p.base \in 0..WAD /\ p.ret \in 0..WAD

LEMMA Halves ==
  ASSUME NEW n \in Nat
  PROVE  /\ n \div 2 \in Nat /\ n % 2 \in 0..1 /\ n = (n % 2) + 2 * (n \div 2)
         /\ n > 0 => n \div 2 < n
  OBVIOUS

LEMMA RoundFields ==
  ASSUME NEW p \in PowState
  PROVE  LET q == PowRound(p) base == RateMul(p.base, p.base) IN
         /\ q.exp = p.exp \div 2 /\ q.base = base
         /\ q.ret = IF base = MathOverflow THEN MathOverflow
                    ELSE IF (p.exp \div 2) % 2 # 0 THEN RateMul(p.ret, base) ELSE p.ret
  BY DEF PowRound

LEMMA TurnType ==
  ASSUME NEW p \in PowState
  PROVE  Turn(p) \in PowState
  <1> DEFINE base == RateMul(p.base, p.base)
  <1>1. p.exp \in Nat /\ p.base \in Words /\ p.ret \in Words
    BY DEF PowState
  <1>2. base \in Words
    BY <1>1, RateProduct
  <1> HIDE DEF base
  <1>3. RateMul(p.ret, base) \in Words
    BY <1>1, <1>2, RateProduct
  <1>4. p.exp \div 2 \in Nat
    BY <1>1, Halves
  <1>5. MathOverflow \in Words
    BY DEF Words
  <1>6. PowRound(p) \in PowState
    BY <1>1, <1>2, <1>3, <1>4, <1>5 DEF PowRound, PowState, base
  <1> QED
    BY <1>6 DEF Turn

LEMMA StartPow ==
  ASSUME NEW c \in Nat, NEW e \in Nat
  PROVE  PowStart(c, e) \in PowState /\ PowInv(PowStart(c, e), c, e)
  <1> DEFINE p == PowStart(c, e)
  <1>0. WAD \in Nat /\ WAD > 0
    BY FixedAssumption
  <1>1. p.exp = e /\ p.base = c /\ p.ret = IF e % 2 # 0 THEN c ELSE WAD
    BY DEF PowStart
  <1>2. p \in PowState
    BY <1>0 DEF PowStart, PowState, Words
  <1> HIDE DEF p
  <1>3. PowerOf(WAD, 0) = 1 /\ PowerOf(c, 0) = 1
     /\ PowerOf(WAD, 0 + 1) = WAD * PowerOf(WAD, 0) /\ PowerOf(c, 0 + 1) = c * PowerOf(c, 0)
    BY <1>0, PowerSteps, 0 \in Nat
  <1>4. PowerOf(WAD, 1) = WAD /\ PowerOf(c, 1) = c
    BY <1>0, <1>3
  <1>5. c * WAD <= WAD * c /\ WAD * 1 <= WAD * 1
    BY <1>0
  <1>6. Understates(c, c, 1) /\ Understates(WAD, c, 0)
    BY <1>3, <1>4, <1>5, Zenon DEF Understates
  <1>7. e = (e % 2) + (2 * 1) * (e \div 2) /\ e % 2 \in 0..1
    BY Halves
  <1>8. Split(p, c, e, e % 2, 1)
    <2>1. CASE e % 2 = 0
      BY <1>0, <1>1, <1>6, <1>7, <2>1 DEF Split
    <2>2. CASE e % 2 = 1
      BY <1>0, <1>1, <1>6, <1>7, <2>2 DEF Split
    <2> QED
      BY <1>7, <2>1, <2>2
  <1>9. c <= WAD => p.base \in 0..WAD /\ p.ret \in 0..WAD
    BY <1>0, <1>1
  <1>10. e % 2 \in Nat /\ 1 \in Nat
    BY <1>7
  <1>11. PowInv(p, c, e)
    BY <1>8, <1>9, <1>10 DEF PowInv
  <1> QED
    BY <1>2, <1>11 DEF p

(* One round splits the exponent anew. *)
LEMMA RoundSplits ==
  ASSUME NEW p \in PowState, NEW c \in Nat, NEW e \in Nat, NEW m \in Nat, NEW d \in Nat,
         Split(p, c, e, m, d), PowRound(p).ret # MathOverflow
  PROVE  \E k \in Nat, j \in Nat : Split(PowRound(p), c, e, k, j)
  <1> DEFINE q == PowRound(p)
             b == RateMul(p.base, p.base)
             h == p.exp \div 2
  <1>0. WAD \in Nat /\ WAD > 0
    BY FixedAssumption
  <1>1. p.exp \in Nat /\ p.base \in Nat /\ p.ret \in Nat
    BY DEF PowState, Split
  <1>2. p.base \in Words /\ p.ret \in Words
    BY <1>1 DEF Words
  <1>3. h \in Nat /\ e = m + (2 * d) * h
    BY <1>1, Halves DEF Split
  <1>4. q.exp = h /\ q.base = b
     /\ q.ret = IF b = MathOverflow THEN MathOverflow
                ELSE IF h % 2 # 0 THEN RateMul(p.ret, b) ELSE p.ret
    BY RoundFields
  <1>5. q.ret # MathOverflow
    OBVIOUS
  <1>6. Understates(p.base, c, d) /\ Understates(p.ret, c, m)
     /\ (c >= WAD => p.base >= c /\ p.ret >= WAD /\ (m > 0 => p.ret >= c))
    BY DEF Split
  <1>7. b # MathOverflow
    BY <1>4, <1>5
  <1>8. b \in Nat /\ b * WAD <= p.base * p.base /\ (p.base >= WAD => b >= p.base)
    BY <1>2, <1>7, RateProduct
  <1> HIDE DEF q, b, h
  <1>9. Understates(b, c, d + d)
    BY <1>1, <1>6, <1>8, ProductUnderstates
  <1>10. c >= WAD => b >= c
    BY <1>0, <1>1, <1>6, <1>8
  <1>11. h \div 2 \in Nat /\ h % 2 \in 0..1 /\ h = (h % 2) + 2 * (h \div 2)
    BY <1>3, Halves
  <1>12. d + d \in Nat /\ 2 * d = d + d
    OBVIOUS
  <1>13. CASE h % 2 = 0
    <2>1. q.ret = p.ret
      BY <1>4, <1>7, <1>13
    <2>2. e = m + (2 * (d + d)) * (h \div 2)
      <3> DEFINE g == h \div 2
      <3>1. g \in Nat /\ h = 2 * g
        BY <1>11, <1>13
      <3> HIDE DEF g
      <3>2. (2 * d) * (2 * g) = (2 * (d + d)) * g
        BY <3>1
      <3>3. e = m + (2 * (d + d)) * g
        BY <1>3, <3>1, <3>2
      <3> QED
        BY <3>3 DEF g
    <2>3. Split(q, c, e, m, d + d)
      BY <1>1, <1>4, <1>6, <1>8, <1>9, <1>10, <2>1, <2>2 DEF Split
    <2> QED
      BY <1>12, <2>3 DEF q
  <1>14. CASE h % 2 = 1
    <2>1. q.ret = RateMul(p.ret, b) /\ q.ret # MathOverflow
      BY <1>4, <1>5, <1>7, <1>14
    <2>2. b \in Words
      BY <1>8 DEF Words
    <2>3. q.ret \in Nat /\ q.ret * WAD <= p.ret * b /\ (p.ret >= WAD => q.ret >= b)
      BY <1>2, <2>1, <2>2, RateProduct
    <2>4. Understates(q.ret, c, m + (d + d))
      BY <1>1, <1>6, <1>8, <1>9, <1>12, <2>3, ProductUnderstates
    <2>5. e = (m + (d + d)) + (2 * (d + d)) * (h \div 2)
      <3> DEFINE g == h \div 2
      <3>1. g \in Nat /\ h = 1 + 2 * g
        BY <1>11, <1>14
      <3> HIDE DEF g
      <3>2. (2 * d) * (1 + 2 * g) = (d + d) + (2 * (d + d)) * g
        BY <3>1
      <3>3. (2 * (d + d)) * g \in Nat
        BY <1>12, <3>1
      <3>4. e = (m + (d + d)) + (2 * (d + d)) * g
        BY <1>3, <1>12, <3>1, <3>2, <3>3
      <3> QED
        BY <3>4 DEF g
    <2>6. c >= WAD => q.ret >= c /\ q.ret >= WAD
      BY <1>0, <1>6, <1>8, <1>10, <2>3
    <2>7. Split(q, c, e, m + (d + d), d + d)
      BY <1>4, <1>8, <1>9, <1>10, <2>3, <2>4, <2>5, <2>6 DEF Split
    <2>8. m + (d + d) \in Nat
      BY <1>12
    <2> QED
      BY <1>12, <2>7, <2>8 DEF q
  <1> QED
    BY <1>11, <1>13, <1>14

LEMMA TurnKeeps ==
  ASSUME NEW p \in PowState, NEW c \in Nat, NEW e \in Nat, PowInv(p, c, e)
  PROVE  PowInv(Turn(p), c, e)
  <1> DEFINE q == PowRound(p)
             b == RateMul(p.base, p.base)
  <1>0. MathOverflow \notin Nat /\ WAD \in Nat
    BY FixedAssumption DEF MathOverflow
  <1>1. p.exp \in Nat /\ p.base \in Words /\ p.ret \in Words
    BY DEF PowState
  <1>2. q.base = b
     /\ q.ret = IF b = MathOverflow THEN MathOverflow
                ELSE IF (p.exp \div 2) % 2 # 0 THEN RateMul(p.ret, b) ELSE p.ret
    BY RoundFields
  <1>3. b \in Words /\ (p.base \in 0..WAD => b \in 0..WAD)
    BY <1>1, RateProduct
  <1>a. RateMul(p.ret, b) # MathOverflow => p.ret \in Nat
    BY <1>1, <1>3, RateProduct
  <1>b. p.ret \in 0..WAD /\ b \in 0..WAD => RateMul(p.ret, b) \in 0..WAD
    BY <1>1, <1>3, RateProduct
  <1>4. ASSUME q.ret # MathOverflow
        PROVE  \E m \in Nat, d \in Nat : Split(q, c, e, m, d)
    <2>1. p.ret # MathOverflow
      <3> HIDE DEF b, q
      <3> QED
        BY <1>0, <1>2, <1>4, <1>a
    <2>2. PICK m \in Nat, d \in Nat : Split(p, c, e, m, d)
      BY <2>1 DEF PowInv
    <2> QED
      BY <1>4, <2>2, RoundSplits
  <1>5. ASSUME c <= WAD
        PROVE  q.base \in 0..WAD /\ q.ret \in 0..WAD
    <2>1. p.base \in 0..WAD /\ p.ret \in 0..WAD
      BY <1>5 DEF PowInv
    <2>2. b \in 0..WAD
      BY <1>3, <2>1
    <2>3. b # MathOverflow
      BY <1>0, <2>2
    <2> HIDE DEF b, q
    <2> QED
      BY <1>2, <1>b, <2>1, <2>2, <2>3
  <1> HIDE DEF q
  <1>6. PowInv(q, c, e)
    BY <1>4, <1>5 DEF PowInv
  <1> QED
    BY <1>6 DEF Turn, q
(* The loop ends with the whole exponent taken. *)
LEMMA PowEnds ==
  ASSUME NEW c \in Nat, NEW e \in Nat
  PROVE  \E p \in PowState : p.exp = 0 /\ PowInv(p, c, e) /\ try_pow(c, e) = p.ret
  <1> DEFINE start == PowStart(c, e)
             step == [p \in PowState |-> Turn(p)]
             Table(g) == g = [k \in 0..e |->
                                IF k = 0 THEN PowStart(c, e)
                                ELSE IF g[k - 1].exp = 0 THEN g[k - 1] ELSE PowRound(g[k - 1])]
             l == CHOOSE g : Table(g)
             Good(p, k) == /\ p \in PowState /\ PowInv(p, c, e)
                           /\ p.exp = 0 \/ p.exp + k <= e
             Sound == {k \in Nat : k \in 0..e => Good(l[k], k)}
  <1>1. start \in PowState /\ PowInv(start, c, e) /\ start.exp = e
    BY StartPow DEF PowStart
  <1>2. step \in [PowState -> PowState]
    BY TurnType
  <1>3. PICK g \in [0..e -> PowState] : Runs(g, start, step, e)
    <2> HIDE DEF start, step
    <2> QED
      BY <1>1, <1>2, LoopRuns
  <1>4. ASSUME NEW k \in 0..e PROVE g[k] = IF k = 0 THEN start ELSE Turn(g[k - 1])
    <2>1. k # 0 => g[k - 1] \in PowState
      BY k # 0 => k - 1 \in 0..e
    <2> HIDE DEF start
    <2> QED
      BY <1>3, <2>1 DEF Runs
  <1>5. Table(g)
    <2>1. g = [k \in 0..e |-> IF k = 0 THEN start ELSE Turn(g[k - 1])]
      <3> HIDE DEF start
      <3> QED
        BY <1>4
    <2> QED
      BY <2>1, Zenon DEF Turn
  <1>6. Table(l)
    <2> HIDE DEF Table
    <2> QED
      BY <1>5, Zenon
  <1>7. try_pow(c, e) = l[e].ret
    BY Zenon DEF try_pow
  <1> HIDE DEF l
  <1>8. ASSUME NEW k \in 0..e PROVE l[k] = IF k = 0 THEN start ELSE Turn(l[k - 1])
    BY <1>6, Zenon DEF Turn
  <1> HIDE DEF start, Table, step
  <1>9. 0 \in Sound
    <2>1. l[0] = start
      BY <1>8, 0 \in 0..e
    <2>2. Good(l[0], 0)
      BY <1>1, <2>1
    <2> QED
      BY <2>2
  <1>10. ASSUME NEW k \in Nat, k \in Sound PROVE k + 1 \in Sound
    <2>1. SUFFICES ASSUME k + 1 \in 0..e PROVE Good(l[k + 1], k + 1)
      OBVIOUS
    <2>2. k \in 0..e /\ k + 1 # 0 /\ (k + 1) - 1 = k
      BY <2>1
    <2>3. Good(l[k], k)
      BY <1>10, <2>2
    <2>4. l[k + 1] = Turn(l[k])
      BY <1>8, <2>1, <2>2
    <2> DEFINE p == l[k]
    <2> HIDE DEF p
    <2>5. p \in PowState /\ PowInv(p, c, e) /\ (p.exp = 0 \/ p.exp + k <= e) /\ l[k + 1] = Turn(p)
      BY <2>3, <2>4 DEF p
    <2>6. Turn(p) \in PowState /\ PowInv(Turn(p), c, e)
      BY <2>5, TurnType, TurnKeeps
    <2>7. Turn(p).exp = 0 \/ Turn(p).exp + (k + 1) <= e
      <3>1. p.exp \in Nat
        BY <2>5 DEF PowState
      <3>2. CASE p.exp = 0
        BY <3>2 DEF Turn
      <3>3. CASE p.exp # 0
        <4>1. Turn(p).exp = p.exp \div 2
          BY <2>5, <3>3, RoundFields DEF Turn
        <4>2. p.exp \div 2 \in Nat /\ p.exp \div 2 < p.exp
          BY <3>1, <3>3, Halves
        <4> QED
          BY <2>5, <3>1, <3>3, <4>1, <4>2
      <3> QED
        BY <3>2, <3>3
    <2> QED
      BY <2>5, <2>6, <2>7
  <1>11. e \in Sound
    <2> HIDE DEF Sound
    <2> QED
      BY <1>9, <1>10, SetInduction
  <1>12. Good(l[e], e)
    BY <1>11
  <1>13. l[e].exp = 0
    <2>1. l[e].exp \in Nat
      BY <1>12 DEF PowState
    <2> QED
      BY <1>12, <2>1
  <1> QED
    BY <1>7, <1>12, <1>13

(* What try_pow returns. *)
LEMMA PowCompounds ==
  ASSUME NEW c \in Nat, NEW e \in Nat
  PROVE  LET r == try_pow(c, e) IN
         /\ c <= WAD => r # MathOverflow
         /\ r # MathOverflow /\ e > 0 =>
              /\ c >= WAD => r >= c
              /\ r * PowerOf(WAD, e - 1) <= PowerOf(c, e)
  <1> DEFINE r == try_pow(c, e)
  <1>0. MathOverflow \notin Nat /\ WAD \in Nat /\ WAD > 0
    BY FixedAssumption DEF MathOverflow
  <1>1. PICK p \in PowState : p.exp = 0 /\ PowInv(p, c, e) /\ r = p.ret
    BY PowEnds
  <1> HIDE DEF r
  <1>2. ASSUME c <= WAD PROVE r # MathOverflow
    <2>1. r \in 0..WAD
      BY <1>1, <1>2 DEF PowInv
    <2> QED
      BY <1>0, <2>1
  <1>3. ASSUME r # MathOverflow, e > 0
        PROVE  (c >= WAD => r >= c) /\ r * PowerOf(WAD, e - 1) <= PowerOf(c, e)
    <2>1. PICK m \in Nat, d \in Nat : Split(p, c, e, m, d)
      BY <1>1, <1>3 DEF PowInv
    <2>2. p.exp \div 2 = 0
      BY <1>1
    <2>3. (2 * d) * 0 = 0
      OBVIOUS
    <2>4. m = e
      BY <2>1, <2>2, <2>3 DEF Split
    <2>5. r \in Nat /\ (c >= WAD => r >= c) /\ Understates(r, c, e)
      BY <1>1, <1>3, <2>1, <2>4 DEF Split
    <2> DEFINE A == PowerOf(WAD, e - 1)
               X == PowerOf(c, e)
    <2>a. e - 1 \in Nat /\ (e - 1) + 1 = e
      BY <1>3
    <2>6. A \in Nat /\ X \in Nat /\ PowerOf(WAD, (e - 1) + 1) = WAD * A /\ (e - 1) + 1 = e
      BY <1>0, <2>a, PowerSteps
    <2>7. r * (WAD * A) <= WAD * X
      BY <2>5, <2>6 DEF Understates
    <2> HIDE DEF A, X
    <2>8. r * (WAD * A) = WAD * (r * A)
      <3>1. r * (WAD * A) = (r * WAD) * A /\ WAD * (r * A) = (WAD * r) * A /\ r * WAD = WAD * r
        BY <1>0, <2>5, <2>6, Associates
      <3> QED
        BY <3>1
    <2>9. r * A \in Nat
      BY <2>5, <2>6, Associates
    <2>10. r * A <= X
      BY <2>6, <2>7, <2>8, <2>9, CancelScale
    <2> QED
      BY <2>5, <2>10 DEF A, X
  <1> QED
    BY <1>2, <1>3 DEF r
-----------------------------------------------------------------------------
(* One step of RoundsAsNamed for each group of operations. *)

LEMMA MathOverflowApart == MathOverflow \notin Nat
  BY DEF MathOverflow

LEMMA InputTypes ==
  Wide \subseteq Nat /\ Narrow \subseteq Nat /\ Ints \subseteq Nat /\ Exponents \subseteq Nat
  BY FixedAssumption, InputAssumption

(* The operations RoundsAsNamed speaks of. *)
Rounding == {"mul", "mul_rate", "rate_mul", "div", "div_rate", "rate_div",
             "floor", "ceil", "round", "pow"}

LEMMA OthersDoNotRound ==
  ASSUME op' \notin Rounding
  PROVE  RoundsAsNamed'
  BY DEF RoundsAsNamed, TruncatesOnce, WholeTokens, Compounds, Rounding

LEMMA DecimalRounds ==
  ASSUME NEW a \in Wide, OnDecimal(a)
  PROVE  RoundsAsNamed'
  <1>0. a \in Nat
    BY InputTypes
  <1>1. CASE Calculate("to_scaled_val", a, 0, TryFromDecimal(a))
    <2>1. op' \notin Rounding
      BY <1>1 DEF Calculate, Rounding
    <2> QED
      BY <2>1, OthersDoNotRound
  <1>2. CASE Calculate("floor", a, 0, try_floor_u64(a))
    <2>1. op' = "floor" /\ x' = a /\ out' = try_floor_u64(a)
      BY <1>2 DEF Calculate
    <2>2. out' # MathOverflow => out' * WAD <= x' /\ x' < (out' + 1) * WAD
      BY <1>0, <2>1, Floored
    <2> QED
      BY <2>1, <2>2 DEF RoundsAsNamed, TruncatesOnce, WholeTokens, Compounds, MathOverflow
  <1>3. CASE Calculate("ceil", a, 0, try_ceil_u64(a))
    <2>1. op' = "ceil" /\ x' = a /\ out' = try_ceil_u64(a)
      BY <1>3 DEF Calculate
    <2>2. out' # MathOverflow => x' <= out' * WAD /\ out' * WAD < x' + WAD
      BY <1>0, <2>1, CeilAndRound
    <2> QED
      BY <2>1, <2>2 DEF RoundsAsNamed, TruncatesOnce, WholeTokens, Compounds, MathOverflow
  <1>4. CASE Calculate("round", a, 0, try_round_u64(a))
    <2>1. op' = "round" /\ x' = a /\ out' = try_round_u64(a)
      BY <1>4 DEF Calculate
    <2>2. out' # MathOverflow => x' - HALF_WAD < out' * WAD /\ out' * WAD <= x' + HALF_WAD
      BY <1>0, <2>1, CeilAndRound
    <2> QED
      BY <2>1, <2>2 DEF RoundsAsNamed, TruncatesOnce, WholeTokens, Compounds, MathOverflow, HALF_WAD
  <1> QED
    BY <1>1, <1>2, <1>3, <1>4 DEF OnDecimal

(* A truncated product, whatever the words. *)
LEMMA ProductRounds ==
  ASSUME NEW a \in Nat, NEW b \in Nat, NEW max \in Nat,
         op' \in {"mul", "mul_rate", "rate_mul"}, x' = a, y' = b,
         out' = checked_div(checked_mul(a, b, max), WAD)
  PROVE  RoundsAsNamed'
  <1>1. out' # MathOverflow => out' * WAD <= x' * y' /\ x' * y' < (out' + 1) * WAD
    BY Truncated
  <1> QED
    BY <1>1 DEF RoundsAsNamed, TruncatesOnce, WholeTokens, Compounds, MathOverflow

LEMMA QuotientRounds ==
  ASSUME NEW a \in Nat, NEW b \in Nat, NEW max \in Nat,
         op' \in {"div", "div_rate", "rate_div"}, x' = a, y' = b,
         out' = checked_div(checked_mul(a, WAD, max), b)
  PROVE  RoundsAsNamed'
  <1>1. out' # MathOverflow => out' * y' <= x' * WAD /\ x' * WAD < (out' + 1) * y'
    BY Divided
  <1> QED
    BY <1>1 DEF RoundsAsNamed, TruncatesOnce, WholeTokens, Compounds, MathOverflow

LEMMA DecimalsRound ==
  ASSUME NEW a \in Wide, NEW b \in Wide, OnDecimals(a, b)
  PROVE  RoundsAsNamed'
  <1>0. a \in Nat /\ b \in Nat /\ U192_MAX \in Nat
    BY InputTypes, FixedAssumption
  <1>1. CASE Calculate("add", a, b, DecAdd(a, b)) \/ Calculate("sub", a, b, DecSub(a, b))
    <2>1. op' \notin Rounding
      BY <1>1 DEF Calculate, Rounding
    <2> QED
      BY <2>1, OthersDoNotRound
  <1>2. CASE Calculate("mul", a, b, DecMul(a, b))
    <2>1. op' \in {"mul", "mul_rate", "rate_mul"} /\ x' = a /\ y' = b
       /\ out' = checked_div(checked_mul(a, b, U192_MAX), WAD)
      BY <1>2 DEF Calculate, DecMul
    <2> QED
      BY <1>0, <2>1, ProductRounds
  <1>3. CASE Calculate("div", a, b, DecDiv(a, b))
    <2>1. op' \in {"div", "div_rate", "rate_div"} /\ x' = a /\ y' = b
       /\ out' = checked_div(checked_mul(a, WAD, U192_MAX), b)
      BY <1>3 DEF Calculate, DecDiv
    <2> QED
      BY <1>0, <2>1, QuotientRounds
  <1> QED
    BY <1>1, <1>2, <1>3 DEF OnDecimals

LEMMA DecimalAndRateRound ==
  ASSUME NEW a \in Wide, NEW b \in Narrow, OnDecimalAndRate(a, b)
  PROVE  RoundsAsNamed'
  <1>0. a \in Nat /\ b \in Nat /\ U192_MAX \in Nat
    BY InputTypes, FixedAssumption
  <1>1. CASE Calculate("mul_rate", a, b, DecMulRate(a, b))
    <2>1. op' \in {"mul", "mul_rate", "rate_mul"} /\ x' = a /\ y' = b
       /\ out' = checked_div(checked_mul(a, b, U192_MAX), WAD)
      BY <1>1 DEF Calculate, DecMulRate, DecMul, FromRate
    <2> QED
      BY <1>0, <2>1, ProductRounds
  <1>2. CASE Calculate("div_rate", a, b, DecDivRate(a, b))
    <2>1. op' \in {"div", "div_rate", "rate_div"} /\ x' = a /\ y' = b
       /\ out' = checked_div(checked_mul(a, WAD, U192_MAX), b)
      BY <1>2 DEF Calculate, DecDivRate, DecDiv, FromRate
    <2> QED
      BY <1>0, <2>1, QuotientRounds
  <1> QED
    BY <1>1, <1>2 DEF OnDecimalAndRate

LEMMA RatesRound ==
  ASSUME NEW a \in Narrow, NEW b \in Narrow, OnRates(a, b)
  PROVE  RoundsAsNamed'
  <1>0. a \in Nat /\ b \in Nat /\ U128_MAX \in Nat
    BY InputTypes, FixedAssumption
  <1>1. CASE Calculate("rate_add", a, b, RateAdd(a, b)) \/ Calculate("rate_sub", a, b, RateSub(a, b))
    <2>1. op' \notin Rounding
      BY <1>1 DEF Calculate, Rounding
    <2> QED
      BY <2>1, OthersDoNotRound
  <1>2. CASE Calculate("rate_mul", a, b, RateMul(a, b))
    <2>0. MathOverflow \notin {a, b}
      BY <1>0, MathOverflowApart
    <2>1. op' \in {"mul", "mul_rate", "rate_mul"} /\ x' = a /\ y' = b
       /\ out' = checked_div(checked_mul(a, b, U128_MAX), WAD)
      BY <1>2, <2>0 DEF Calculate, RateMul
    <2> QED
      BY <1>0, <2>1, ProductRounds
  <1>3. CASE Calculate("rate_div", a, b, RateDiv(a, b))
    <2>1. op' \in {"div", "div_rate", "rate_div"} /\ x' = a /\ y' = b
       /\ out' = checked_div(checked_mul(a, WAD, U128_MAX), b)
      BY <1>3 DEF Calculate, RateDiv
    <2> QED
      BY <1>0, <2>1, QuotientRounds
  <1> QED
    BY <1>1, <1>2, <1>3 DEF OnRates

LEMMA PowerRounds ==
  ASSUME NEW a \in Narrow, NEW e \in Exponents, OnPower(a, e)
  PROVE  RoundsAsNamed'
  <1>0. a \in Nat /\ e \in Nat
    BY InputTypes
  <1>1. op' = "pow" /\ x' = a /\ y' = e /\ out' = try_pow(a, e)
    BY DEF OnPower, Calculate
  <1>2. /\ x' <= WAD => out' # MathOverflow
        /\ out' # MathOverflow /\ y' > 0 =>
              /\ x' >= WAD => out' >= x'
              /\ out' * PowerOf(WAD, y' - 1) <= PowerOf(x', y')
    BY <1>0, <1>1, PowCompounds
  <1>3. PowerOf(WAD, y - 1)' = PowerOf(WAD, y' - 1) /\ PowerOf(x, y)' = PowerOf(x', y')
    BY DEF PowerOf
  <1>4. Compounds'
    BY <1>2, <1>3 DEF Compounds, MathOverflow
  <1>5. TruncatesOnce' /\ WholeTokens'
    BY <1>1 DEF TruncatesOnce, WholeTokens
  <1> QED
    BY <1>4, <1>5 DEF RoundsAsNamed

(* Every operation on Decimal and Rate loses less than a unit in the direction its name  *)
(* says, or is an error, and compound interest is neither lost nor overstated: for       *)
(* every scale, every width and every operand (decimal.rs:69-206, rate.rs:71-174).       *)
THEOREM RoundsAlways == Spec => []RoundsAsNamed
  <1>1. Init => RoundsAsNamed
    BY DEF Init, RoundsAsNamed, TruncatesOnce, WholeTokens, Compounds
  <1>2. RoundsAsNamed /\ [Next]_vars => RoundsAsNamed'
    <2> SUFFICES ASSUME RoundsAsNamed, [Next]_vars PROVE RoundsAsNamed'
      OBVIOUS
    <2>1. CASE UNCHANGED vars
      BY <2>1 DEF vars, RoundsAsNamed, TruncatesOnce, WholeTokens, Compounds, PowerOf, MathOverflow,
                  HALF_WAD
    <2>2. ASSUME NEW n \in Ints, OnInt(n) \/ (\E a \in Wide : OnDecimalAndInt(a, n))
                                 \/ (\E r \in Narrow : OnRateAndInt(r, n))
                                 \/ (\E p \in Percents : OnFee(n, p))
          PROVE  RoundsAsNamed'
      <3>1. op' \notin Rounding
        BY <2>2 DEF OnInt, OnDecimalAndInt, OnRateAndInt, OnFee, Calculate, Rounding
      <3> QED
        BY <3>1, OthersDoNotRound
    <2>3. ASSUME NEW p \in Percents, OnPercent(p) PROVE RoundsAsNamed'
      <3>1. op' \notin Rounding
        BY <2>3 DEF OnPercent, Calculate, Rounding
      <3> QED
        BY <3>1, OthersDoNotRound
    <2>4. ASSUME NEW a \in Wide, OnDecimal(a) \/ (\E b \in Wide : OnDecimals(a, b))
                                 \/ (\E r \in Narrow : OnDecimalAndRate(a, r))
          PROVE  RoundsAsNamed'
      BY <2>4, DecimalRounds, DecimalsRound, DecimalAndRateRound
    <2>5. ASSUME NEW a \in Narrow,
                 (\E b \in Narrow : OnRates(a, b)) \/ (\E e \in Exponents : OnPower(a, e))
          PROVE  RoundsAsNamed'
      BY <2>5, RatesRound, PowerRounds
    <2> QED
      BY <2>1, <2>2, <2>3, <2>4, <2>5 DEF Next
  <1> QED
    BY <1>1, <1>2, PTL DEF Spec
=============================================================================
