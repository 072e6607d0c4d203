---------------------------- MODULE LendingProofs ----------------------------
(***************************************************************************)
(* Custody in the lending program, and what passes for fresh in it, for    *)
(* any number of reserves, obligations and users, any amounts, prices and  *)
(* configurations, and any number of slots.                                *)
(*                                                                         *)
(* First the lemmas about the operators the lending program is modelled    *)
(* with: sums over finite functions, the fixed-point arithmetic, and what  *)
(* each calculation of a reserve returns, preserves or bounds.  Induction  *)
(* is by the least element of a set of naturals (WFMin).                   *)
(***************************************************************************)
EXTENDS BotOnChain, FiniteSetTheorems, TLAPS

(* A set of naturals that is not empty has a least element. *)
LEMMA LeastNatural ==
  ASSUME NEW T \in SUBSET Nat, T # {}
  PROVE  \E n \in T : \A m \in T : n <= m
  <1> DEFINE R == {ss \in Nat \X Nat : ss[1] < ss[2]}
  <1>1. IsWellFoundedOn(R, Nat)
    BY NatLessThanWellFounded, Zenon DEF OpToRel
  <1>2. PICK n \in T : \A m \in T : ~(<<m, n>> \in R)
    BY <1>1, WFMin
  <1>3. ASSUME NEW m \in T, m < n PROVE FALSE
    <2>1. <<m, n>> \in Nat \X Nat
      OBVIOUS
    <2>2. <<m, n>> \in R
      BY <2>1, <1>3
    <2> QED
      BY <2>2, <1>2
  <1> QED
    BY <1>3

(* Induction, for the set of the naturals that have a property. *)
LEMMA SetInduction ==
  ASSUME NEW S, 0 \in S, \A n \in Nat : n \in S => n + 1 \in S
  PROVE  \A n \in Nat : n \in S
  <1> DEFINE T == Nat \ S
  <1> SUFFICES ASSUME T # {} PROVE FALSE
    OBVIOUS
  <1>1. PICK n \in T : \A m \in T : n <= m
    BY LeastNatural
  <1>2. n # 0 /\ n \in Nat
    BY <1>1
  <1>3. n - 1 \in Nat /\ n - 1 \notin T
    BY <1>1, <1>2
  <1> QED
    BY <1>1, <1>3

(* The order FoldFunctionOnSet takes the elements of a set in. *)
First(s) == CHOOSE x \in s : TRUE
Rest(s) == s \ {First(s)}

(* g is right about s. *)
Adds(f, g, s) == g[s] = IF s = {} THEN 0 ELSE f[First(s)] + g[Rest(s)]

(* What SumFunction is defined as. *)
LEMMA SumUnfolds ==
  ASSUME NEW f
  PROVE  SumFunction(f) = (CHOOSE g : g = [s \in SUBSET DOMAIN f |->
             IF s = {} THEN 0 ELSE f[First(s)] + g[Rest(s)]])[DOMAIN f]
  BY Zenon DEF SumFunction, SumFunctionOnSet, FoldFunctionOnSet, MapThenFoldSet, First, Rest

(* A set without its first element is a smaller one. *)
LEMMA RestSmaller ==
  ASSUME NEW D, IsFiniteSet(D), NEW s \in SUBSET D, s # {}
  PROVE  /\ First(s) \in s /\ Rest(s) \in SUBSET D
         /\ Cardinality(s) \in Nat /\ Cardinality(Rest(s)) = Cardinality(s) - 1
         /\ Cardinality(s) <= Cardinality(D)
         /\ Cardinality(s) > 0
  <1>1. First(s) \in s
    BY Zenon DEF First
  <1>2. IsFiniteSet(s) /\ Cardinality(s) <= Cardinality(D)
    BY FS_Subset
  <1>3. Cardinality(s) \in Nat
    BY <1>2, FS_CardinalityType
  <1>4. Cardinality(Rest(s)) = Cardinality(s) - 1
    BY <1>1, <1>2, FS_RemoveElement DEF Rest
  <1>5. Cardinality(s) # 0
    BY <1>2, FS_EmptySet
  <1> QED
    BY <1>1, <1>2, <1>3, <1>4, <1>5 DEF Rest

(* That definition makes sense on a finite domain: the sums of the subsets   *)
(* of the domain exist, built up by their size.                              *)
LEMMA PartialSums ==
  ASSUME NEW f, IsFiniteSet(DOMAIN f)
  PROVE  \E g : /\ g = [s \in SUBSET DOMAIN f |->
                          IF s = {} THEN 0 ELSE f[First(s)] + g[Rest(s)]]
                /\ SumFunction(f) = g[DOMAIN f]
  <1> DEFINE D == DOMAIN f
             UpTo(g, n) == \A s \in SUBSET D : Cardinality(s) <= n => Adds(f, g, s)
             Reached == {n \in Nat : \E g : g = [s \in SUBSET D |-> g[s]] /\ UpTo(g, n)}
  <1>1. 0 \in Reached
    <2> DEFINE g == [s \in SUBSET D |-> 0]
    <2>1. ASSUME NEW s \in SUBSET D, Cardinality(s) <= 0 PROVE s = {}
      BY <2>1, RestSmaller
    <2>2. UpTo(g, 0)
      BY <2>1 DEF Adds
    <2> QED
      BY <2>2
  <1>2. ASSUME NEW n \in Nat, n \in Reached PROVE n + 1 \in Reached
    <2>1. PICK g : g = [s \in SUBSET D |-> g[s]] /\ UpTo(g, n)
      BY <1>2
    <2> DEFINE h == [s \in SUBSET D |-> IF Cardinality(s) = n + 1 THEN f[First(s)] + g[Rest(s)]
                                        ELSE g[s]]
    <2>2. ASSUME NEW s \in SUBSET D, Cardinality(s) <= n + 1 PROVE Adds(f, h, s)
      <3>0. Cardinality({}) = 0
        BY FS_EmptySet
      <3>1. CASE s = {}
        <4>1. Adds(f, g, {})
          BY <3>0, <2>1, {} \in SUBSET D, 0 <= n, Zenon
        <4>2. h[{}] = g[{}]
          BY <3>0
        <4> QED
          BY <3>1, <4>1, <4>2 DEF Adds
      <3>2. CASE s # {} /\ Cardinality(s) = n + 1
        BY <3>2, RestSmaller DEF Adds
      <3>3. CASE s # {} /\ Cardinality(s) # n + 1
        <4>1. Cardinality(s) <= n /\ Cardinality(Rest(s)) # n + 1
           /\ Rest(s) \in SUBSET D
          BY <3>3, <2>2, RestSmaller
        <4>2. Adds(f, g, s)
          BY <4>1, <2>1
        <4> QED
          BY <4>1, <4>2, <3>3 DEF Adds
      <3> QED
        BY <3>1, <3>2, <3>3
    <2>3. UpTo(h, n + 1)
      BY <2>2
    <2>4. \A s \in SUBSET D : h[s] = IF Cardinality(s) = n + 1 THEN f[First(s)] + g[Rest(s)]
                                    ELSE g[s]
      OBVIOUS
    <2>5. h = [s \in SUBSET D |-> h[s]]
      BY <2>4, Zenon
    <2>6. \E k : k = [s \in SUBSET D |-> k[s]] /\ UpTo(k, n + 1)
      <3> HIDE DEF h, UpTo
      <3> QED
        BY <2>3, <2>5, Zenon
    <2> QED
      <3> HIDE DEF UpTo
      <3> QED
        BY <2>6, n + 1 \in Nat, Zenon
  <1>3. Cardinality(D) \in Reached
    <2>1. Cardinality(D) \in Nat
      BY FS_CardinalityType
    <2> HIDE DEF Reached
    <2> QED
      BY <2>1, <1>1, <1>2, SetInduction
  <1>4. PICK g : g = [s \in SUBSET D |-> g[s]] /\ UpTo(g, Cardinality(D))
    BY <1>3
  <1>5. \A s \in SUBSET D : Cardinality(s) <= Cardinality(D)
    BY FS_Subset
  <1>6. g = [s \in SUBSET D |-> IF s = {} THEN 0 ELSE f[First(s)] + g[Rest(s)]]
    BY <1>4, <1>5 DEF Adds
  <1> DEFINE k == CHOOSE k : k = [s \in SUBSET DOMAIN f |->
                                    IF s = {} THEN 0 ELSE f[First(s)] + k[Rest(s)]]
  <1>7. k = [s \in SUBSET DOMAIN f |-> IF s = {} THEN 0 ELSE f[First(s)] + k[Rest(s)]]
    BY <1>6, Zenon
  <1>8. SumFunction(f) = k[DOMAIN f]
    BY SumUnfolds
  <1> QED
    BY <1>7, <1>8, Zenon

(* A sum of naturals is a natural. *)
LEMMA SumIsNat ==
  ASSUME NEW D, IsFiniteSet(D), NEW f \in [D -> Nat]
  PROVE  SumFunction(f) \in Nat
  <1>1. PICK g : /\ g = [s \in SUBSET D |-> IF s = {} THEN 0 ELSE f[First(s)] + g[Rest(s)]]
                 /\ SumFunction(f) = g[D]
    BY PartialSums
  <1> DEFINE Reached == {n \in Nat : \A s \in SUBSET D : Cardinality(s) <= n => g[s] \in Nat}
  <1>2. 0 \in Reached
    <2>1. ASSUME NEW s \in SUBSET D, Cardinality(s) <= 0 PROVE s = {}
      BY <2>1, RestSmaller
    <2> QED
      BY <2>1, <1>1
  <1>3. ASSUME NEW n \in Nat, n \in Reached PROVE n + 1 \in Reached
    <2>1. ASSUME NEW s \in SUBSET D, Cardinality(s) <= n + 1 PROVE g[s] \in Nat
      <3>1. CASE s = {}
        BY <3>1, <1>1
      <3>2. CASE s # {}
        <4>1. First(s) \in D /\ Rest(s) \in SUBSET D /\ Cardinality(Rest(s)) <= n
          BY <3>2, <2>1, RestSmaller
        <4>2. g[Rest(s)] \in Nat /\ f[First(s)] \in Nat
          BY <4>1, <1>3
        <4>3. g[s] = f[First(s)] + g[Rest(s)]
          BY <1>1, <3>2
        <4> QED
          BY <4>2, <4>3
      <3> QED
        BY <3>1, <3>2
    <2> QED
      BY <2>1
  <1>4. Cardinality(D) \in Nat
    BY FS_CardinalityType
  <1>5. Cardinality(D) \in Reached
    <2> HIDE DEF Reached
    <2> QED
      BY <1>2, <1>3, <1>4, SetInduction
  <1>6. D \in SUBSET D /\ Cardinality(D) <= Cardinality(D)
    BY <1>4
  <1>7. g[D] \in Nat
    BY <1>5, <1>6, Zenon
  <1> QED
    BY <1>1, <1>7

(* A sum of nothing but zeros is zero. *)
LEMMA SumOfZeros ==
  ASSUME NEW D, IsFiniteSet(D), NEW f \in [D -> Nat], \A a \in D : f[a] = 0
  PROVE  SumFunction(f) = 0
  <1>1. PICK g : /\ g = [s \in SUBSET D |-> IF s = {} THEN 0 ELSE f[First(s)] + g[Rest(s)]]
                 /\ SumFunction(f) = g[D]
    BY PartialSums
  <1> DEFINE Reached == {n \in Nat : \A s \in SUBSET D : Cardinality(s) <= n => g[s] = 0}
  <1>2. 0 \in Reached
    <2>1. ASSUME NEW s \in SUBSET D, Cardinality(s) <= 0 PROVE s = {}
      BY <2>1, RestSmaller
    <2> QED
      BY <2>1, <1>1
  <1>3. ASSUME NEW n \in Nat, n \in Reached PROVE n + 1 \in Reached
    <2>1. ASSUME NEW s \in SUBSET D, Cardinality(s) <= n + 1 PROVE g[s] = 0
      <3>1. CASE s = {}
        BY <3>1, <1>1
      <3>2. CASE s # {}
        <4>1. First(s) \in D /\ Rest(s) \in SUBSET D /\ Cardinality(Rest(s)) <= n
          BY <3>2, <2>1, RestSmaller
        <4>2. g[Rest(s)] = 0 /\ f[First(s)] = 0
          BY <4>1, <1>3
        <4>3. g[s] = f[First(s)] + g[Rest(s)]
          BY <1>1, <3>2
        <4> QED
          BY <4>2, <4>3
      <3> QED
        BY <3>1, <3>2
    <2> QED
      BY <2>1
  <1>4. Cardinality(D) \in Nat
    BY FS_CardinalityType
  <1>5. Cardinality(D) \in Reached
    <2> HIDE DEF Reached
    <2> QED
      BY <1>2, <1>3, <1>4, SetInduction
  <1>6. D \in SUBSET D /\ Cardinality(D) <= Cardinality(D)
    BY <1>4
  <1>7. g[D] = 0
    BY <1>5, <1>6, Zenon
  <1> QED
    BY <1>1, <1>7

(* Changing one term changes the sum by as much. *)
LEMMA SumUpdated ==
  ASSUME NEW D, IsFiniteSet(D), NEW e \in [D -> Nat], NEW f \in [D -> Nat],
         NEW a \in D, \A x \in D \ {a} : e[x] = f[x]
  PROVE  SumFunction(f) = SumFunction(e) + (f[a] - e[a])
  <1>1. PICK g : /\ g = [s \in SUBSET D |-> IF s = {} THEN 0 ELSE f[First(s)] + g[Rest(s)]]
                 /\ SumFunction(f) = g[D]
    BY PartialSums
  <1>2. PICK h : /\ h = [s \in SUBSET D |-> IF s = {} THEN 0 ELSE e[First(s)] + h[Rest(s)]]
                 /\ SumFunction(e) = h[D]
    BY PartialSums
  <1> DEFINE d == f[a] - e[a]
             Fine(s) == /\ g[s] \in Int /\ h[s] \in Int
                        /\ a \in s => g[s] = h[s] + d
                        /\ a \notin s => g[s] = h[s]
             Reached == {n \in Nat : \A s \in SUBSET D : Cardinality(s) <= n => Fine(s)}
  <1>3. d \in Int
    OBVIOUS
  <1>4. 0 \in Reached
    <2>1. ASSUME NEW s \in SUBSET D, Cardinality(s) <= 0 PROVE s = {}
      BY <2>1, RestSmaller
    <2> QED
      BY <2>1, <1>1, <1>2
  <1>5. ASSUME NEW n \in Nat, n \in Reached PROVE n + 1 \in Reached
    <2>1. ASSUME NEW s \in SUBSET D, Cardinality(s) <= n + 1 PROVE Fine(s)
      <3>1. CASE s = {}
        BY <3>1, <1>1, <1>2
      <3>2. CASE s # {}
        <4>1. First(s) \in s /\ Rest(s) \in SUBSET D /\ Cardinality(Rest(s)) <= n
          BY <3>2, <2>1, RestSmaller
        <4>2. Fine(Rest(s)) /\ f[First(s)] \in Nat /\ e[First(s)] \in Nat
          BY <4>1, <1>5
        <4>3. g[s] = f[First(s)] + g[Rest(s)] /\ h[s] = e[First(s)] + h[Rest(s)]
          BY <1>1, <1>2, <3>2
        <4>4. First(s) \notin Rest(s) /\ \A x : x # First(s) => (x \in s <=> x \in Rest(s))
          BY DEF Rest
        <4>5. CASE First(s) = a
          BY <4>1, <4>2, <4>3, <4>4, <4>5
        <4>6. CASE First(s) # a
          <5>1. f[First(s)] = e[First(s)]
            BY <4>6, <4>1
          <5> QED
            BY <4>1, <4>2, <4>3, <4>4, <4>6, <5>1, <1>3
        <4> QED
          BY <4>5, <4>6
      <3> QED
        BY <3>1, <3>2
    <2> QED
      BY <2>1
  <1>6. Cardinality(D) \in Nat
    BY FS_CardinalityType
  <1>7. Cardinality(D) \in Reached
    <2> HIDE DEF Reached
    <2> QED
      BY <1>4, <1>5, <1>6, SetInduction
  <1>8. Fine(D)
    BY <1>6, <1>7
  <1> QED
    BY <1>1, <1>2, <1>8

(* No term is more than the sum. *)
LEMMA SumAtLeast ==
  ASSUME NEW D, IsFiniteSet(D), NEW f \in [D -> Nat], NEW a \in D
  PROVE  SumFunction(f) \in Nat /\ SumFunction(f) >= f[a]
  <1> DEFINE e == [x \in D |-> IF x = a THEN 0 ELSE f[x]]
  <1>1. e \in [D -> Nat] /\ e[a] = 0 /\ \A x \in D \ {a} : e[x] = f[x]
    OBVIOUS
  <1> HIDE DEF e
  <1>2. SumFunction(e) \in Nat /\ SumFunction(f) \in Nat
    BY <1>1, SumIsNat
  <1>3. SumFunction(f) = SumFunction(e) + (f[a] - e[a])
    BY <1>1, SumUpdated
  <1> QED
    BY <1>1, <1>2, <1>3
-----------------------------------------------------------------------------
(* Fixed-point arithmetic. *)

LEMMA DivBounds ==
  ASSUME NEW n \in Nat, NEW d \in Nat, d > 0
  PROVE  n \div d \in Nat /\ d * (n \div d) <= n /\ n < d * (n \div d) + d
  BY SMT

LEMMA MulMonotone ==
  ASSUME NEW a \in Nat, NEW b \in Nat, NEW c \in Nat, b <= c
  PROVE  a * b \in Nat /\ a * b <= a * c
  BY SMT

LEMMA MulCommutes ==
  ASSUME NEW a \in Nat, NEW b \in Nat
  PROVE  a * b = b * a /\ a * b \in Nat
  BY SMT

(* What bounds a number bounds its quotient. *)
LEMMA DivAtMost ==
  ASSUME NEW n \in Nat, NEW d \in Nat, d > 0, NEW m \in Nat, n <= d * m
  PROVE  n \div d <= m
  <1> DEFINE q == n \div d
  <1>1. q \in Nat /\ d * q <= n
    BY DivBounds
  <1> HIDE DEF q
  <1>2. SUFFICES ASSUME q >= m + 1 PROVE FALSE
    BY <1>1 DEF q
  <1>3. d * (m + 1) <= d * q
    BY <1>1, <1>2, MulMonotone
  <1>4. d * (m + 1) = d * m + d /\ d * m \in Nat /\ d * q \in Nat
    BY <1>1, SMT
  <1> QED
    BY <1>1, <1>3, <1>4

LEMMA DivAtLeast ==
  ASSUME NEW n \in Nat, NEW d \in Nat, d > 0, NEW m \in Nat, d * m <= n
  PROVE  n \div d >= m
  <1> DEFINE q == n \div d
  <1>1. q \in Nat /\ n < d * q + d
    BY DivBounds
  <1> HIDE DEF q
  <1>2. SUFFICES ASSUME q + 1 <= m PROVE FALSE
    BY <1>1 DEF q
  <1>3. d * (q + 1) <= d * m
    BY <1>1, <1>2, MulMonotone
  <1>4. d * (q + 1) = d * q + d /\ d * m \in Nat /\ d * q \in Nat
    BY <1>1, SMT
  <1> QED
    BY <1>1, <1>3, <1>4

LEMMA WadType == Wad \in Nat /\ Wad > 0
  BY WadAssumption

LEMMA TryMulType ==
  ASSUME NEW a \in Nat, NEW b \in Nat
  PROVE  /\ TryMul(a, b) \in Nat
         /\ b <= Wad => TryMul(a, b) <= a
         /\ b >= Wad => TryMul(a, b) >= a
  <1>1. a * b \in Nat /\ a * Wad = Wad * a /\ Wad * a \in Nat
    BY WadType, MulCommutes
  <1>2. TryMul(a, b) \in Nat
    BY <1>1, WadType, DivBounds DEF TryMul
  <1>3. ASSUME b <= Wad PROVE TryMul(a, b) <= a
    <2>1. a * b <= Wad * a
      BY <1>1, <1>3, WadType, MulMonotone
    <2> QED
      BY <1>1, <2>1, WadType, DivAtMost DEF TryMul
  <1>4. ASSUME b >= Wad PROVE TryMul(a, b) >= a
    <2>1. Wad * a <= a * b
      BY <1>1, <1>4, WadType, MulMonotone
    <2> QED
      BY <1>1, <2>1, WadType, DivAtLeast DEF TryMul
  <1> QED
    BY <1>2, <1>3, <1>4

LEMMA TryDivType ==
  ASSUME NEW a \in Nat, NEW b \in Nat, b > 0
  PROVE  TryDiv(a, b) \in Nat /\ (a <= b => TryDiv(a, b) <= Wad)
  <1>1. a * Wad \in Nat /\ a * Wad = Wad * a /\ b * Wad = Wad * b /\ b * Wad \in Nat
    BY WadType, MulCommutes
  <1>2. TryDiv(a, b) \in Nat
    BY <1>1, DivBounds DEF TryDiv
  <1>3. ASSUME a <= b PROVE TryDiv(a, b) <= Wad
    <2>1. a * Wad <= b * Wad
      BY <1>1, <1>3, WadType, MulMonotone
    <2> QED
      BY <1>1, <2>1, WadType, DivAtMost DEF TryDiv
  <1> QED
    BY <1>2, <1>3

LEMMA FromPercentType ==
  ASSUME NEW p \in Nat
  PROVE  /\ FromPercent(p) \in Nat
         /\ p <= 100 => FromPercent(p) <= Wad
         /\ p > 0 => FromPercent(p) > 0
  <1> DEFINE c == Wad \div 100
  <1>1. c \in Nat /\ 100 * c = Wad /\ c > 0
    BY WadAssumption, SMT
  <1> HIDE DEF c
  <1>2. p * c \in Nat /\ p * c = c * p /\ c * 1 = c /\ c * 100 = Wad
    BY <1>1, SMT
  <1>3. p <= 100 => c * p <= c * 100
    BY <1>1, MulMonotone
  <1>4. p > 0 => c * 1 <= c * p
    BY <1>1, MulMonotone
  <1>5. FromPercent(p) = p * c
    BY DEF FromPercent, c
  <1> QED
    BY <1>1, <1>2, <1>3, <1>4, <1>5

LEMMA FromIntType ==
  ASSUME NEW n \in Nat
  PROVE  FromInt(n) \in Nat /\ Floor(FromInt(n)) = n /\ (n > 0 => FromInt(n) > 0)
  <1>1. n * Wad \in Nat /\ n * Wad = Wad * n
    BY WadType, MulCommutes
  <1>2. (n * Wad) \div Wad <= n /\ (n * Wad) \div Wad >= n /\ (n * Wad) \div Wad \in Nat
    BY <1>1, WadType, DivAtMost, DivAtLeast, DivBounds
  <1>3. n > 0 => Wad * 1 <= Wad * n /\ Wad * 1 = Wad
    BY WadType, MulMonotone
  <1> QED
    BY <1>1, <1>2, <1>3, WadType DEF FromInt, Floor

LEMMA RoundingTypes ==
  ASSUME NEW a \in Nat
  PROVE  /\ Floor(a) \in Nat /\ FromInt(Floor(a)) <= a
         /\ Ceil(a) \in Nat /\ Round(a) \in Nat /\ a <= FromInt(Ceil(a))
         /\ \A n \in Nat : a <= FromInt(n) => Floor(a) <= n
  <1>1. Floor(a) \in Nat /\ Wad * Floor(a) <= a
    BY WadType, DivBounds DEF Floor
  <1>2. FromInt(Floor(a)) = Wad * Floor(a)
    BY <1>1, WadType, MulCommutes DEF FromInt
  <1>3. a + Wad - 1 \in Nat /\ Wad \div 2 \in Nat
    BY WadType, DivBounds
  <1>4. Ceil(a) \in Nat /\ Round(a) \in Nat
    BY <1>3, WadType, DivBounds DEF Ceil, Round
  <1>5. ASSUME NEW n \in Nat, a <= FromInt(n) PROVE Floor(a) <= n
    BY <1>5, WadType, MulCommutes, DivAtMost DEF Floor, FromInt
  <1>6. a <= FromInt(Ceil(a))
    <2>1. a + Wad - 1 < Wad * Ceil(a) + Wad /\ Wad * Ceil(a) \in Nat
      BY <1>3, <1>4, WadType, DivBounds, MulCommutes DEF Ceil
    <2>2. FromInt(Ceil(a)) = Wad * Ceil(a)
      BY <1>4, WadType, MulCommutes DEF FromInt
    <2> QED
      BY <2>1, <2>2, WadType
  <1> QED
    BY <1>1, <1>2, <1>4, <1>5, <1>6

LEMMA MinMaxTypes ==
  ASSUME NEW a \in Nat, NEW b \in Nat
  PROVE  /\ MinOf(a, b) \in Nat /\ MinOf(a, b) <= a /\ MinOf(a, b) <= b
         /\ MaxOf(a, b) \in Nat /\ MaxOf(a, b) >= a /\ MaxOf(a, b) >= b
  BY DEF MinOf, MaxOf
-----------------------------------------------------------------------------
(* The state of the loop of TryPow: neither number is below one. *)
Growth == {n \in Nat : n >= Wad}
Power == [exp : Nat, base : Growth, ret : Growth]

LEMMA RoundKeepsPower ==
  ASSUME NEW p \in Power
  PROVE  PowRound(p) \in Power
  <1>0. p.exp \in Nat /\ p.base \in Growth /\ p.ret \in Growth
    BY DEF Power
  <1>1. p.exp \div 2 \in Nat
    BY <1>0, DivBounds
  <1>2. \A a, b \in Growth : TryMul(a, b) \in Growth
    BY TryMulType, WadType DEF Growth
  <1>3. TryMul(p.base, p.base) \in Growth
    BY <1>0, <1>2
  <1>4. TryMul(p.ret, TryMul(p.base, p.base)) \in Growth
    BY <1>0, <1>2, <1>3
  <1> QED
    BY <1>0, <1>1, <1>3, <1>4 DEF PowRound, Power

(* Interest never shrinks a debt: a power of a rate of at least one is at    *)
(* least one (try_pow).                                                      *)
LEMMA PowGrows ==
  ASSUME NEW base \in Growth, NEW exp \in Nat
  PROVE  TryPow(base, exp) \in Growth
  <1> DEFINE D == 0..exp
             start == [exp |-> exp, base |-> base, ret |-> IF exp % 2 # 0 THEN base ELSE Wad]
             Step(p) == IF p.exp = 0 THEN p ELSE PowRound(p)
             Value(g, k) == IF k = 0 THEN start ELSE Step(g[k - 1])
             Loop(g) == g = [k \in D |-> Value(g, k)]
             Reached == {n \in Nat : \E g \in [D -> Power] :
                                      \A k \in D : k <= n => g[k] = Value(g, k)}
  <1>0. start \in Power
    BY WadType DEF Power, Growth
  <1>1. \A p \in Power : Step(p) \in Power
    BY RoundKeepsPower
  <1>2. 0 \in Reached
    <2> DEFINE g == [k \in D |-> start]
    <2>1. g \in [D -> Power] /\ \A k \in D : k <= 0 => g[k] = Value(g, k)
      BY <1>0
    <2> HIDE DEF start, Step
    <2> QED
      BY <2>1
  <1>3. ASSUME NEW n \in Nat, n \in Reached PROVE n + 1 \in Reached
    <2>1. PICK g \in [D -> Power] : \A k \in D : k <= n => g[k] = Value(g, k)
      BY <1>3
    <2> HIDE DEF start, Step
    <2> DEFINE h == [k \in D |-> IF k = n + 1 THEN Step(g[n]) ELSE g[k]]
    <2>2. ASSUME NEW k \in D PROVE h[k] \in Power
      <3>1. CASE k = n + 1
        BY <3>1, <1>1, n \in D
      <3> QED
        BY <3>1
    <2>3. h \in [D -> Power]
      BY <2>2
    <2>4. ASSUME NEW k \in D, k <= n + 1 PROVE h[k] = Value(h, k)
      <3>1. CASE k = n + 1
        BY <3>1
      <3>2. CASE k # n + 1
        <4>1. k <= n /\ k # n + 1 /\ (k # 0 => k - 1 \in D /\ k - 1 # n + 1)
          BY <3>2, <2>4
        <4>2. h[k] = g[k] /\ (k # 0 => h[k - 1] = g[k - 1])
          BY <4>1
        <4> QED
          BY <4>1, <4>2, <2>1
      <3> QED
        BY <3>1, <3>2
    <2>5. \E f \in [D -> Power] : \A k \in D : k <= n + 1 => f[k] = Value(f, k)
      <3> HIDE DEF h, Value
      <3> QED
        BY <2>3, <2>4
    <2> QED
      BY <2>5
  <1>4. exp \in Reached
    <2> HIDE DEF Reached
    <2> QED
      BY <1>2, <1>3, SetInduction
  <1>5. PICK g \in [D -> Power] : \A k \in D : g[k] = Value(g, k)
    BY <1>4
  <1>6. Loop(g)
    BY <1>5
  <1> DEFINE l == CHOOSE f : Loop(f)
  <1>7. Loop(l)
    <2> HIDE DEF Loop
    <2> QED
      BY <1>6, Zenon
  <1>8. TryPow(base, exp) = l[exp].ret
    BY Zenon DEF TryPow
  <1> HIDE DEF l
  <1>9. \A k \in D : l[k] = Value(l, k)
    BY <1>7
  <1> DEFINE Typed == {n \in Nat : n \in D => l[n] \in Power}
  <1>10. 0 \in Typed
    BY <1>0, <1>9
  <1>11. ASSUME NEW n \in Nat, n \in Typed PROVE n + 1 \in Typed
    <2>1. SUFFICES ASSUME n + 1 \in D PROVE l[n + 1] \in Power
      OBVIOUS
    <2>2. l[n] \in Power
      BY <2>1, <1>11
    <2>3. l[n + 1] = Step(l[n])
      <3> HIDE DEF Step
      <3> QED
        BY <2>1, <1>9
    <2> QED
      BY <2>2, <2>3, <1>1
  <1>12. exp \in Typed
    <2> HIDE DEF Typed
    <2> QED
      BY <1>10, <1>11, SetInduction
  <1>13. l[exp] \in Power
    BY <1>12
  <1> QED
    BY <1>8, <1>13 DEF Power
-----------------------------------------------------------------------------
(* What a reserve computes. *)

LEMMA ConfigType ==
  ASSUME NEW c \in Configs
  PROVE  /\ c.optimalUtilization \in 0..100
         /\ c.minRate \in Nat /\ c.optimalRate \in Nat /\ c.maxRate \in Nat
         /\ c.minRate <= c.optimalRate /\ c.optimalRate <= c.maxRate
         /\ c.ltv \in Nat /\ c.threshold \in Nat /\ c.bonus \in Nat
         /\ c.borrowFee \in Nat /\ c.flashFee \in Nat /\ c.hostFee \in Nat
         /\ c.takeRate \in 0..100 /\ c.borrowLimit \in Nat
  <1>1. c \in Config
    BY ConfigAssumption
  <1> QED
    BY <1>1, WadType DEF Config, Percent

LEMMA ReserveFields ==
  ASSUME NEW x \in ReserveState
  PROVE  /\ x.slot \in Nat /\ x.stale \in BOOLEAN /\ x.available \in Nat
         /\ x.borrowed \in Nat /\ x.fees \in Nat /\ x.cumulative \in Nat /\ x.cumulative > 0
         /\ x.price \in Nat /\ x.supply \in Nat /\ x.config \in Configs
  BY DEF ReserveState

LEMMA TotalSupplyType ==
  ASSUME NEW x \in ReserveState
  PROVE  TotalSupply(x) \in Int /\ (HasSupply(x) <=> TotalSupply(x) >= 0)
  BY ReserveFields, FromIntType DEF TotalSupply, HasSupply

LEMMA MaxBorrowRateType ==
  ASSUME NEW max \in Nat
  PROVE  MaxBorrowRate(max) \in Nat
  <1>1. FromPercent(max) \in Nat /\ FromPercent(50) \in Nat
    BY FromPercentType
  <1> DEFINE halves == [p \in 247..255 |->
                     CASE p = 251 -> 6 [] p = 252 -> 7 [] p = 253 -> 8
                       [] p = 254 -> 10 [] p = 255 -> 12 [] p = 250 -> 20
                       [] p = 249 -> 30 [] p = 248 -> 40 [] p = 247 -> 50]
  <1>2. \A p \in 247..255 : halves[p] \in Nat
    <2> SUFFICES ASSUME NEW p \in 247..255 PROVE halves[p] \in Nat
      OBVIOUS
    <2> QED
      BY SMT
  <1>3. MaxBorrowRate(max) = IF max \in DOMAIN halves THEN FromPercent(50) * halves[max]
                             ELSE FromPercent(max)
    BY DEF MaxBorrowRate
  <1>4. max \in 247..255 => FromPercent(50) * halves[max] \in Nat
    <2> HIDE DEF halves
    <2> QED
      BY <1>1, <1>2, MulCommutes
  <1> QED
    BY <1>1, <1>3, <1>4

(* The borrow rate is not negative. *)
LEMMA BorrowRateType ==
  ASSUME NEW x \in ReserveState, HasSupply(x)
  PROVE  CurrentBorrowRate(x) \in Nat
  <1> DEFINE c == x.config
             u == UtilizationRate(x)
             optimal == FromPercent(c.optimalUtilization)
             low == TryMul(TryDiv(u, optimal), FromPercent(c.optimalRate - c.minRate))
                      + FromPercent(c.minRate)
             high == TryMul(TryDiv(u - optimal, FromPercent(100 - c.optimalUtilization)),
                            FromPercent(c.maxRate - c.optimalRate)) + FromPercent(c.optimalRate)
  <1>1. c \in Configs /\ x.borrowed \in Nat
    BY ReserveFields
  <1> HIDE DEF c
  <1>2. u \in Nat
    <2>1. TotalSupply(x) \in Nat
      BY TotalSupplyType
    <2> QED
      BY <1>1, <2>1, TryDivType DEF UtilizationRate
  <1> HIDE DEF u
  <1>3. /\ c.optimalUtilization \in 0..100
        /\ c.minRate \in Nat /\ c.optimalRate \in Nat /\ c.maxRate \in Nat
        /\ c.optimalRate - c.minRate \in Nat /\ c.maxRate - c.optimalRate \in Nat
    BY <1>1, ConfigType
  <1>4. /\ optimal \in Nat /\ FromPercent(c.minRate) \in Nat /\ FromPercent(c.optimalRate) \in Nat
        /\ FromPercent(c.optimalRate - c.minRate) \in Nat
        /\ FromPercent(c.maxRate - c.optimalRate) \in Nat
    BY <1>3, FromPercentType
  <1>5. CASE u < optimal \/ c.optimalUtilization = 100
    <2>1. optimal > 0
      BY <1>2, <1>4, <1>5, FromPercentType
    <2>2. TryDiv(u, optimal) \in Nat
      BY <2>1, <1>2, <1>4, TryDivType
    <2>3. TryMul(TryDiv(u, optimal), FromPercent(c.optimalRate - c.minRate)) \in Nat
      BY <2>2, <1>4, TryMulType, Zenon
    <2>4. low \in Nat
      BY <2>3, <1>4
    <2> HIDE DEF optimal, low
    <2> QED
      BY <2>4, <1>5 DEF CurrentBorrowRate, c, u, optimal, low
  <1>6. CASE ~(u < optimal \/ c.optimalUtilization = 100) /\ c.optimalRate = c.maxRate
    BY <1>3, <1>6, MaxBorrowRateType DEF CurrentBorrowRate, c, u
  <1>7. CASE ~(u < optimal \/ c.optimalUtilization = 100) /\ c.optimalRate # c.maxRate
    <2>1. 100 - c.optimalUtilization \in Nat /\ 100 - c.optimalUtilization > 0
      BY <1>3, <1>7
    <2>2. FromPercent(100 - c.optimalUtilization) \in Nat
          /\ FromPercent(100 - c.optimalUtilization) > 0
      BY <2>1, FromPercentType
    <2>3. u - optimal \in Nat
      BY <1>2, <1>4, <1>7
    <2>4. TryDiv(u - optimal, FromPercent(100 - c.optimalUtilization)) \in Nat
      BY <2>2, <2>3, TryDivType
    <2>5. TryMul(TryDiv(u - optimal, FromPercent(100 - c.optimalUtilization)),
                 FromPercent(c.maxRate - c.optimalRate)) \in Nat
      BY <2>4, <1>4, TryMulType, Zenon
    <2>6. high \in Nat
      BY <2>5, <1>4
    <2> HIDE DEF optimal, high
    <2> QED
      BY <2>6, <1>7 DEF CurrentBorrowRate, c, u, optimal, high
  <1> QED
    BY <1>5, <1>6, <1>7

(* Interest leaves the tokens, and total supply stays not negative: what     *)
(* the protocol takes is a part of the new debt.                             *)
LEMMA CompoundType ==
  ASSUME NEW x \in ReserveState, HasSupply(x), NEW elapsed \in Nat
  PROVE  LET y == CompoundInterest(x, elapsed)
         IN  /\ y \in ReserveState /\ HasSupply(y) /\ TotalSupply(y) >= TotalSupply(x)
             /\ y.available = x.available /\ y.supply = x.supply
             /\ y.price = x.price /\ y.config = x.config
  <1> DEFINE compounded == TryPow(Wad + CurrentBorrowRate(x) \div SlotsPerYear, elapsed)
             newDebt == TryMul(x.borrowed, compounded) - x.borrowed
             taken == TryMul(newDebt, FromPercent(x.config.takeRate))
             y == CompoundInterest(x, elapsed)
  <1>1. CurrentBorrowRate(x) \div SlotsPerYear \in Nat
    BY BorrowRateType, SlotsPerYearAssumption, DivBounds
  <1>2. Wad + CurrentBorrowRate(x) \div SlotsPerYear \in Growth
    BY <1>1, WadType DEF Growth
  <1>3. compounded \in Nat /\ compounded >= Wad
    BY <1>2, PowGrows DEF Growth
  <1> HIDE DEF compounded
  <1>0. x.borrowed \in Nat /\ x.cumulative \in Nat /\ x.cumulative > 0 /\ x.fees \in Nat
    BY ReserveFields
  <1>4. newDebt \in Nat
    <2>1. TryMul(x.borrowed, compounded) \in Nat /\ TryMul(x.borrowed, compounded) >= x.borrowed
      BY <1>0, <1>3, TryMulType
    <2> QED
      BY <1>0, <2>1
  <1>5. taken \in Nat /\ taken <= newDebt
    <2>1. FromPercent(x.config.takeRate) \in Nat /\ FromPercent(x.config.takeRate) <= Wad
      BY ReserveFields, ConfigType, FromPercentType
    <2> HIDE DEF newDebt
    <2> QED
      BY <1>4, <2>1, TryMulType
  <1>6. TryMul(x.cumulative, compounded) \in Nat /\ TryMul(x.cumulative, compounded) > 0
    <2>1. /\ TryMul(x.cumulative, compounded) \in Nat
          /\ TryMul(x.cumulative, compounded) >= x.cumulative
      BY <1>0, <1>3, TryMulType
    <2> QED
      BY <1>0, <2>1
  <1>7. y = [x EXCEPT !.cumulative = TryMul(x.cumulative, compounded),
                      !.fees = x.fees + taken, !.borrowed = x.borrowed + newDebt]
    BY DEF CompoundInterest, compounded
  <1> HIDE DEF newDebt, taken, y
  <1>8. y \in ReserveState
    <2>1. x.fees + taken \in Nat /\ x.borrowed + newDebt \in Nat
      BY <1>0, <1>4, <1>5
    <2>2. TryMul(x.cumulative, compounded) \in Nat \ {0}
      BY <1>6
    <2> QED
      BY <1>7, <2>1, <2>2 DEF ReserveState
  <1>9. /\ y.available = x.available /\ y.supply = x.supply /\ y.price = x.price
        /\ y.config = x.config /\ y.fees = x.fees + taken /\ y.borrowed = x.borrowed + newDebt
    BY <1>7 DEF ReserveState
  <1>10. HasSupply(y)
    BY <1>4, <1>5, <1>9, ReserveFields, FromIntType DEF HasSupply
  <1>11. TotalSupply(y) >= TotalSupply(x)
    BY <1>4, <1>5, <1>9, ReserveFields, FromIntType DEF TotalSupply
  <1> QED
    BY <1>8, <1>9, <1>10, <1>11 DEF y

LEMMA AccruedType ==
  ASSUME slot \in Nat, NEW x \in ReserveState, slot > x.slot => HasSupply(x)
  PROVE  LET y == Accrued(x)
         IN  /\ y \in ReserveState /\ y.slot = slot /\ y.stale = FALSE
             /\ y.available = x.available /\ y.supply = x.supply
             /\ y.price = x.price /\ y.config = x.config
             /\ HasSupply(x) => HasSupply(y)
             /\ TotalSupply(y) >= TotalSupply(x)
  <1> DEFINE z == IF slot > x.slot THEN CompoundInterest(x, slot - x.slot) ELSE x
             y == Accrued(x)
  <1>1. /\ z \in ReserveState /\ z.available = x.available /\ z.supply = x.supply
        /\ z.price = x.price /\ z.config = x.config /\ (HasSupply(x) => HasSupply(z))
        /\ TotalSupply(z) >= TotalSupply(x)
    <2>1. CASE slot > x.slot
      <3>1. slot - x.slot \in Nat
        BY <2>1, ReserveFields
      <3> QED
        BY <2>1, <3>1, CompoundType
    <2>2. CASE ~(slot > x.slot)
      BY <2>2, TotalSupplyType
    <2> QED
      BY <2>1, <2>2
  <1>2. y = [z EXCEPT !.slot = slot, !.stale = FALSE]
    BY DEF Accrued, UpdateSlot
  <1> HIDE DEF z, y
  <1>3. y \in ReserveState
    BY <1>1, <1>2 DEF ReserveState
  <1>4. /\ y.slot = slot /\ y.stale = FALSE /\ y.available = z.available /\ y.supply = z.supply
        /\ y.price = z.price /\ y.config = z.config /\ y.borrowed = z.borrowed /\ y.fees = z.fees
    BY <1>1, <1>2 DEF ReserveState
  <1>5. (HasSupply(z) => HasSupply(y)) /\ TotalSupply(y) = TotalSupply(z)
    BY <1>4 DEF HasSupply, TotalSupply
  <1> QED
    BY <1>1, <1>3, <1>4, <1>5 DEF y

LEMMA ExchangeRateType ==
  ASSUME NEW x \in ReserveState, HasSupply(x)
  PROVE  ExchangeRate(x) \in Nat
  <1>1. TotalSupply(x) \in Nat
    BY TotalSupplyType
  <1>2. FromInt(x.supply) \in Nat
    BY ReserveFields, FromIntType
  <1>3. INITIAL_COLLATERAL_RATE \in Nat
    BY WadType DEF INITIAL_COLLATERAL_RATE
  <1> QED
    BY <1>1, <1>2, <1>3, TryDivType DEF ExchangeRate

LEMMA DepositType ==
  ASSUME NEW x \in ReserveState, HasSupply(x), NEW n \in Nat
  PROVE  LET y == DepositLiquidity(x, n)
             minted == LiquidityToCollateral(x, n)
         IN  /\ minted \in Nat /\ y \in ReserveState
             /\ y.available = x.available + n /\ y.supply = x.supply + minted
             /\ y.slot = x.slot /\ y.stale = x.stale /\ y.config = x.config
             /\ y.borrowed = x.borrowed /\ y.fees = x.fees /\ y.cumulative = x.cumulative
  <1> DEFINE y == DepositLiquidity(x, n)
             minted == LiquidityToCollateral(x, n)
  <1>1. FromInt(n) \in Nat /\ ExchangeRate(x) \in Nat
    BY FromIntType, ExchangeRateType
  <1>2. TryMul(FromInt(n), ExchangeRate(x)) \in Nat
    BY <1>1, TryMulType
  <1>3. minted \in Nat
    BY <1>2, RoundingTypes DEF LiquidityToCollateral
  <1>4. y = [x EXCEPT !.available = x.available + n, !.supply = x.supply + minted]
    BY DEF DepositLiquidity
  <1>5. x.available + n \in Nat /\ x.supply + minted \in Nat
    BY <1>3, ReserveFields
  <1> HIDE DEF minted, y
  <1>6. y \in ReserveState
    BY <1>4, <1>5 DEF ReserveState
  <1>7. /\ y.available = x.available + n /\ y.supply = x.supply + minted
        /\ y.slot = x.slot /\ y.stale = x.stale /\ y.config = x.config
        /\ y.borrowed = x.borrowed /\ y.fees = x.fees /\ y.cumulative = x.cumulative
    BY <1>4 DEF ReserveState
  <1> QED
    BY <1>3, <1>6, <1>7 DEF minted, y

LEMMA RedeemType ==
  ASSUME NEW x \in ReserveState, HasSupply(x), NEW n \in Nat,
         NEW res \in RedeemCollateral(x, n)
  PROVE  /\ res.liquidity \in Nat /\ res.reserve \in ReserveState
         /\ res.reserve.available = x.available - res.liquidity
         /\ res.reserve.supply = x.supply - n
         /\ res.reserve.slot = x.slot /\ res.reserve.stale = x.stale
         /\ res.reserve.borrowed = x.borrowed /\ res.reserve.fees = x.fees
         /\ res.reserve.cumulative = x.cumulative
         /\ res.liquidity = CollateralToLiquidity(x, n)
         /\ ExchangeRate(x) # 0 /\ n <= x.supply
  <1> DEFINE rate == ExchangeRate(x)
             liq == CollateralToLiquidity(x, n)
             y == [x EXCEPT !.available = x.available - liq, !.supply = x.supply - n]
  <1>1. rate \in Nat
    BY ExchangeRateType
  <1>2. rate # 0 /\ ~(n > x.supply \/ liq > x.available)
        /\ res = [reserve |-> y, liquidity |-> liq]
    BY DEF RedeemCollateral
  <1>3. TryDiv(FromInt(n), rate) \in Nat
    BY <1>1, <1>2, FromIntType, TryDivType
  <1>4. liq \in Nat
    BY <1>3, RoundingTypes DEF CollateralToLiquidity, CollateralValue
  <1>5. x.available - liq \in Nat /\ x.supply - n \in Nat
    BY <1>2, <1>4, ReserveFields
  <1>6. res.reserve = y /\ res.liquidity = liq
    BY <1>2
  <1>9. n <= x.supply /\ res.liquidity = CollateralToLiquidity(x, n) /\ ExchangeRate(x) # 0
    BY <1>2, <1>6, ReserveFields
  <1> HIDE DEF liq
  <1>7. y \in ReserveState
    BY <1>5 DEF ReserveState
  <1>8. /\ y.available = x.available - liq /\ y.supply = x.supply - n
        /\ y.slot = x.slot /\ y.stale = x.stale
        /\ y.borrowed = x.borrowed /\ y.fees = x.fees /\ y.cumulative = x.cumulative
    BY DEF ReserveState
  <1> QED
    BY <1>4, <1>6, <1>7, <1>8, <1>9

LEMMA FeesType ==
  ASSUME NEW amount \in Nat, NEW feeWad \in Nat, NEW hostFee \in Nat, NEW inclusive \in BOOLEAN,
         NEW f \in CalculateFees(amount, feeWad, hostFee, inclusive)
  PROVE  f.fee \in Nat /\ f.host \in Nat
  <1> DEFINE minimum == IF hostFee > 0 THEN 2 ELSE 1
             rate == IF inclusive THEN TryDiv(feeWad, feeWad + Wad) ELSE feeWad
             fee == MaxOf(TryMul(amount, rate), FromInt(minimum))
             host == IF hostFee > 0 THEN MaxOf(Round(TryMul(fee, FromPercent(hostFee))), 1) ELSE 0
  <1>1. rate \in Nat
    <2>1. TryDiv(feeWad, feeWad + Wad) \in Nat
      BY WadType, TryDivType
    <2> QED
      BY <2>1
  <1> HIDE DEF rate
  <1>2. TryMul(amount, rate) \in Nat /\ FromInt(minimum) \in Nat
    BY <1>1, TryMulType, FromIntType
  <1>3. fee \in Nat
    BY <1>2, MinMaxTypes
  <1> HIDE DEF fee
  <1>4. TryMul(fee, FromPercent(hostFee)) \in Nat
    BY <1>3, TryMulType, FromPercentType
  <1>5. Round(TryMul(fee, FromPercent(hostFee))) \in Nat /\ Round(fee) \in Nat
    BY <1>3, <1>4, RoundingTypes
  <1>6. host \in Nat
    BY <1>5, MinMaxTypes
  <1> HIDE DEF host
  <1>7. f = [fee |-> 0, host |-> 0] \/ f = [fee |-> Round(fee), host |-> host]
    BY DEF CalculateFees, host, fee, rate
  <1> QED
    BY <1>5, <1>6, <1>7

(* What leaves the reserve for a loan is what its books call lent, in whole  *)
(* tokens.                                                                   *)
LEMMA BorrowType ==
  ASSUME NEW x \in ReserveState, NEW n \in Asked, NEW maxValue \in Nat, NEW capacity \in Nat,
         NEW res \in CalculateBorrow(x, n, maxValue, capacity)
  PROVE  /\ res.borrow \in Nat /\ res.receive \in Nat /\ res.fee \in Nat
         /\ res.receive + res.fee = Floor(res.borrow)
  <1>0. /\ x.price \in Nat /\ x.available \in Nat /\ x.config.borrowFee \in Nat
        /\ x.config.hostFee \in Nat
    BY ReserveFields, ConfigType
  <1>1. CASE n = MAX
    <2> DEFINE borrow == MinOf(MinOf(TryDiv(maxValue, x.price), capacity), FromInt(x.available))
    <2>1. x.price # 0
      BY <1>1 DEF CalculateBorrow
    <2>2. TryDiv(maxValue, x.price) \in Nat /\ FromInt(x.available) \in Nat
      <3>1. x.price > 0
        BY <1>0, <2>1
      <3> QED
        BY <1>0, <3>1, TryDivType, FromIntType
    <2>3. borrow \in Nat
      BY <2>2, MinMaxTypes
    <2> HIDE DEF borrow
    <2>4. PICK f \in CalculateFees(borrow, x.config.borrowFee, x.config.hostFee, TRUE) :
             /\ f.fee <= Floor(borrow)
             /\ res = [borrow |-> borrow, receive |-> ReceiveLessFee(borrow, f.fee),
                       fee |-> f.fee, host |-> f.host]
      BY <1>1, <2>1 DEF CalculateBorrow, borrow
    <2>5. f.fee \in Nat /\ Floor(borrow) \in Nat
      BY <1>0, <2>3, FeesType, RoundingTypes
    <2> QED
      BY <2>3, <2>4, <2>5 DEF ReceiveLessFee
  <1>2. CASE n # MAX
    <2>1. n \in Nat
      BY <1>2, BoundsAssumption DEF Asked
    <2>2. PICK f \in CalculateFees(FromInt(n), x.config.borrowFee, x.config.hostFee, FALSE) :
             res = [borrow |-> FromInt(n + f.fee), receive |-> n, fee |-> f.fee, host |-> f.host]
      BY <1>2 DEF CalculateBorrow
    <2>3. f.fee \in Nat
      BY <1>0, <2>1, FeesType, FromIntType
    <2>4. FromInt(n + f.fee) \in Nat /\ Floor(FromInt(n + f.fee)) = n + f.fee
      BY <2>1, <2>3, FromIntType
    <2> QED
      BY <2>1, <2>2, <2>3, <2>4
  <1> QED
    BY <1>1, <1>2

LEMMA SettleableType ==
  ASSUME NEW n \in Asked, NEW borrowed \in Nat
  PROVE  Settleable(n, borrowed) \in Nat /\ Settleable(n, borrowed) <= borrowed
  <1>1. CASE n = MAX
    BY <1>1 DEF Settleable
  <1>2. CASE n # MAX
    <2>1. n \in Nat
      BY <1>2, BoundsAssumption DEF Asked
    <2> QED
      BY <1>2, <2>1, FromIntType, MinMaxTypes DEF Settleable
  <1> QED
    BY <1>1, <1>2

LEMMA RepayType ==
  ASSUME NEW n \in Asked, NEW borrowed \in Nat
  PROVE  LET res == CalculateRepay(n, borrowed)
         IN  /\ res.settle \in Nat /\ res.settle <= borrowed /\ res.repay \in Nat
             /\ res.settle <= FromInt(res.repay)
  BY SettleableType, RoundingTypes DEF CalculateRepay

LEMMA BorrowReserveType ==
  ASSUME NEW x \in ReserveState, NEW borrow \in Nat, Floor(borrow) <= x.available
  PROVE  LET y == BorrowReserve(x, borrow)
         IN  /\ y \in ReserveState /\ y.available = x.available - Floor(borrow)
             /\ y.supply = x.supply /\ y.slot = x.slot /\ y.stale = x.stale
             /\ y.borrowed = x.borrowed + borrow /\ y.fees = x.fees /\ y.cumulative = x.cumulative
  <1> DEFINE y == BorrowReserve(x, borrow)
  <1>1. y = [x EXCEPT !.available = x.available - Floor(borrow), !.borrowed = x.borrowed + borrow]
    BY DEF BorrowReserve
  <1>0. x.available \in Nat /\ x.borrowed \in Nat /\ Floor(borrow) \in Nat
    BY ReserveFields, RoundingTypes
  <1>2. x.available - Floor(borrow) \in Nat /\ x.borrowed + borrow \in Nat
    BY <1>0
  <1> HIDE DEF y
  <1>3. y \in ReserveState
    BY <1>1, <1>2 DEF ReserveState
  <1>4. /\ y.available = x.available - Floor(borrow)
        /\ y.supply = x.supply /\ y.slot = x.slot /\ y.stale = x.stale
        /\ y.borrowed = x.borrowed + borrow /\ y.fees = x.fees /\ y.cumulative = x.cumulative
    BY <1>1 DEF ReserveState
  <1> QED
    BY <1>3, <1>4 DEF y

LEMMA RepayReserveType ==
  ASSUME NEW x \in ReserveState, NEW repay \in Nat, NEW settle \in Nat
  PROVE  LET y == RepayReserve(x, repay, settle)
         IN  /\ y \in ReserveState /\ y.available = x.available + repay
             /\ y.supply = x.supply /\ y.slot = x.slot /\ y.stale = x.stale
             /\ y.borrowed = x.borrowed - MinOf(settle, x.borrowed)
             /\ y.fees = x.fees /\ y.cumulative = x.cumulative
  <1> DEFINE y == RepayReserve(x, repay, settle)
  <1>1. y = [x EXCEPT !.available = x.available + repay,
                      !.borrowed = x.borrowed - MinOf(settle, x.borrowed)]
    BY DEF RepayReserve
  <1>2. x.available + repay \in Nat /\ x.borrowed - MinOf(settle, x.borrowed) \in Nat
    <2>1. x.available \in Nat /\ x.borrowed \in Nat
      BY ReserveFields
    <2>2. MinOf(settle, x.borrowed) \in Nat /\ MinOf(settle, x.borrowed) <= x.borrowed
      BY <2>1, MinMaxTypes
    <2> QED
      BY <2>1, <2>2
  <1> HIDE DEF y
  <1>3. y \in ReserveState
    BY <1>1, <1>2 DEF ReserveState
  <1>4. /\ y.available = x.available + repay
        /\ y.supply = x.supply /\ y.slot = x.slot /\ y.stale = x.stale
        /\ y.borrowed = x.borrowed - MinOf(settle, x.borrowed)
        /\ y.fees = x.fees /\ y.cumulative = x.cumulative
    BY <1>1 DEF ReserveState
  <1> QED
    BY <1>3, <1>4 DEF y

LEMMA MarkStaleType ==
  ASSUME NEW x \in ReserveState
  PROVE  LET y == MarkStale(x)
         IN  /\ y \in ReserveState /\ y.stale = TRUE /\ y.available = x.available
             /\ y.supply = x.supply /\ y.slot = x.slot
             /\ y.borrowed = x.borrowed /\ y.fees = x.fees /\ y.cumulative = x.cumulative
  BY DEF MarkStale, ReserveState

LEMMA RedeemFeesType ==
  ASSUME NEW x \in ReserveState
  PROVE  LET paid == CalculateRedeemFees(x)
         IN  paid \in Nat /\ paid <= x.available /\ FromInt(paid) <= x.fees
  <1> DEFINE paid == CalculateRedeemFees(x)
  <1>1. x.available \in Nat /\ x.fees \in Nat /\ Floor(x.fees) \in Nat
        /\ FromInt(Floor(x.fees)) <= x.fees
    BY ReserveFields, RoundingTypes
  <1>2. paid \in Nat /\ paid <= x.available /\ paid <= Floor(x.fees)
    BY <1>1, MinMaxTypes DEF CalculateRedeemFees
  <1> HIDE DEF paid
  <1>3. FromInt(paid) <= FromInt(Floor(x.fees)) /\ FromInt(paid) \in Nat
        /\ FromInt(Floor(x.fees)) \in Nat
    BY <1>1, <1>2, WadType, MulMonotone, MulCommutes, FromIntType DEF FromInt
  <1>4. FromInt(paid) <= x.fees
    BY <1>1, <1>3
  <1> QED
    BY <1>2, <1>4 DEF paid
-----------------------------------------------------------------------------
(* Liquidations and withdrawals. *)

(* A liquidation settles no more than is owed and seizes no more than is     *)
(* deposited.                                                                *)
LEMMA LiquidationType ==
  ASSUME NEW bonus \in Nat, NEW n \in Asked, NEW borrowedValue \in Nat,
         NEW b \in Borrow, b.value # 0, NEW d \in Deposit, d.value # 0
  PROVE  LET res == CalculateLiquidation(bonus, n, borrowedValue, b, d)
         IN  /\ res.settle \in Nat /\ res.settle <= b.amount
             /\ res.repay \in Nat
             /\ res.withdraw \in Nat /\ res.withdraw <= d.amount
             /\ (IsDust(b.amount) /\ res.settle = b.amount) \/ res.settle <= FromInt(res.repay)
  <1> DEFINE bonusRate == FromPercent(bonus) + Wad
             maxAmount == Settleable(n, b.amount)
             dust == IsDust(b.amount)
             most == MaxLiquidationAmount(borrowedValue, b)
             offered == IF dust THEN maxAmount ELSE MinOf(most, maxAmount)
             value == IF dust THEN TryMul(b.value, bonusRate)
                      ELSE TryMul(TryMul(b.value, TryDiv(offered, b.amount)), bonusRate)
             paid == IF value > d.value THEN TryMul(offered, TryDiv(d.value, value)) ELSE offered
             part == Floor(TryMul(FromInt(d.amount), TryDiv(value, d.value)))
             withdraw == IF value >= d.value THEN d.amount ELSE part
             settle == IF dust THEN b.amount ELSE paid
  <1>0. /\ b.amount \in Nat /\ b.value \in Nat /\ b.value > 0
        /\ d.amount \in Nat /\ d.value \in Nat /\ d.value > 0
    BY DEF Borrow, Deposit
  <1>1. bonusRate \in Nat
    BY FromPercentType, WadType
  <1>2. maxAmount \in Nat /\ maxAmount <= b.amount
    BY <1>0, SettleableType
  <1>3. most \in Nat
    <2> DEFINE v == MinOf(TryMul(borrowedValue, FromPercent(LIQUIDATION_CLOSE_FACTOR)), b.value)
    <2>1. TryMul(borrowedValue, FromPercent(LIQUIDATION_CLOSE_FACTOR)) \in Nat
      BY FromPercentType, TryMulType DEF LIQUIDATION_CLOSE_FACTOR
    <2>2. v \in Nat
      BY <1>0, <2>1, MinMaxTypes
    <2> HIDE DEF v
    <2>3. TryDiv(v, b.value) \in Nat
      BY <1>0, <2>2, TryDivType
    <2> QED
      BY <1>0, <2>3, TryMulType DEF MaxLiquidationAmount, v
  <1> HIDE DEF bonusRate, maxAmount, most
  <1>4. offered \in Nat /\ offered <= b.amount
    <2>1. MinOf(most, maxAmount) \in Nat /\ MinOf(most, maxAmount) <= maxAmount
      BY <1>2, <1>3, MinMaxTypes
    <2> QED
      BY <1>0, <1>2, <2>1
  <1> HIDE DEF offered
  <1>5. ~dust => b.amount > 0
    <2>1. FromInt(LIQUIDATION_CLOSE_AMOUNT) \in Nat /\ FromInt(LIQUIDATION_CLOSE_AMOUNT) > 0
      BY FromIntType DEF LIQUIDATION_CLOSE_AMOUNT
    <2> QED
      BY <1>0, <2>1 DEF IsDust
  <1> HIDE DEF dust
  <1>6. value \in Nat
    <2>1. TryMul(b.value, bonusRate) \in Nat
      BY <1>0, <1>1, TryMulType
    <2>2. ASSUME ~dust PROVE TryMul(TryMul(b.value, TryDiv(offered, b.amount)), bonusRate) \in Nat
      <3>1. TryDiv(offered, b.amount) \in Nat
        BY <1>0, <1>4, <1>5, <2>2, TryDivType
      <3>2. TryMul(b.value, TryDiv(offered, b.amount)) \in Nat
        BY <1>0, <3>1, TryMulType
      <3> QED
        BY <1>1, <3>2, TryMulType
    <2> QED
      BY <2>1, <2>2
  <1> HIDE DEF value
  <1>7. paid \in Nat /\ paid <= b.amount
    <2>1. CASE value > d.value
      <3>1. TryDiv(d.value, value) \in Nat /\ TryDiv(d.value, value) <= Wad
        BY <1>0, <1>6, <2>1, TryDivType
      <3>2. TryMul(offered, TryDiv(d.value, value)) \in Nat
            /\ TryMul(offered, TryDiv(d.value, value)) <= offered
        BY <1>4, <3>1, TryMulType
      <3> QED
        BY <1>0, <1>4, <2>1, <3>2
    <2>2. CASE ~(value > d.value)
      BY <1>4, <2>2
    <2> QED
      BY <2>1, <2>2
  <1> HIDE DEF paid
  <1>8. withdraw \in Nat /\ withdraw <= d.amount
    <2>1. CASE value >= d.value
      BY <1>0, <2>1
    <2>2. CASE ~(value >= d.value)
      <3>1. TryDiv(value, d.value) \in Nat /\ TryDiv(value, d.value) <= Wad
        BY <1>0, <1>6, <2>2, TryDivType
      <3>2. FromInt(d.amount) \in Nat
        BY <1>0, FromIntType
      <3>3. TryMul(FromInt(d.amount), TryDiv(value, d.value)) \in Nat
            /\ TryMul(FromInt(d.amount), TryDiv(value, d.value)) <= FromInt(d.amount)
        BY <3>1, <3>2, TryMulType
      <3>4. part \in Nat /\ part <= d.amount
        BY <1>0, <3>3, RoundingTypes
      <3> QED
        BY <2>2, <3>4
    <2> QED
      BY <2>1, <2>2
  <1>9. settle \in Nat /\ settle <= b.amount
    BY <1>0, <1>7
  <1> HIDE DEF settle, withdraw
  <1>10. CalculateLiquidation(bonus, n, borrowedValue, b, d)
           = [settle |-> settle, repay |-> Ceil(paid), withdraw |-> withdraw]
    BY DEF CalculateLiquidation, settle, withdraw, paid, value, dust, offered, most, maxAmount, bonusRate
  <1>11. Ceil(paid) \in Nat /\ paid <= FromInt(Ceil(paid))
    BY <1>7, RoundingTypes
  <1>12. (IsDust(b.amount) /\ settle = b.amount) \/ settle <= FromInt(Ceil(paid))
    BY <1>11 DEF settle, dust
  <1> QED
    BY <1>8, <1>9, <1>10, <1>11, <1>12

LEMMA ProtocolFeeType ==
  ASSUME NEW bonus \in Nat, NEW n \in Nat
  PROVE  ProtocolLiquidationFee(bonus, n) \in Nat
  <1> DEFINE wads == FromInt(n)
             b == FromPercent(bonus) + Wad
             share == wads - TryDiv(wads, b)
  <1>1. wads \in Nat /\ b \in Nat /\ b > 0 /\ b >= Wad
    BY FromIntType, FromPercentType, WadType
  <1>2. TryDiv(wads, b) \in Nat /\ TryDiv(wads, b) <= wads
    <2>1. TryDiv(wads, b) \in Nat
      BY <1>1, TryDivType
    <2>2. wads * Wad <= wads * b /\ wads * b = b * wads /\ wads * Wad \in Nat
      BY <1>1, WadType, MulMonotone, MulCommutes
    <2>3. wads * Wad <= b * wads
      BY <2>2
    <2>4. (wads * Wad) \div b <= wads
      <3> HIDE DEF wads, b
      <3> QED
        BY <1>1, <2>2, <2>3, DivAtMost
    <2> QED
      BY <2>1, <2>4 DEF TryDiv
  <1>3. share \in Nat
    BY <1>1, <1>2
  <1> HIDE DEF share
  <1>4. TryMul(share, FromPercent(0)) \in Nat
    BY <1>3, FromPercentType, TryMulType
  <1>5. Ceil(TryMul(share, FromPercent(0))) \in Nat
    BY <1>4, RoundingTypes
  <1> QED
    BY <1>5, MinMaxTypes DEF ProtocolLiquidationFee, share

LEMMA ObligationFields ==
  ASSUME NEW ob \in ObligationState
  PROVE  /\ ob.slot \in Nat /\ ob.stale \in BOOLEAN
         /\ ob.deposits \in [Reserves -> Deposit \cup {NoEntry}]
         /\ ob.borrows \in [Reserves -> Borrow \cup {NoEntry}]
         /\ ob.depositedValue \in Nat /\ ob.borrowedValue \in Nat
         /\ ob.allowedBorrowValue \in Nat /\ ob.unhealthyBorrowValue \in Nat
  BY DEF ObligationState

(* A withdrawal takes no more than is deposited. *)
LEMMA WithdrawType ==
  ASSUME NEW ob \in ObligationState, NEW r \in Reserves, NEW ltv \in Nat, NEW n \in Asked \cup {0},
         ob.deposits[r] # NoEntry, NEW taken \in WithdrawAmount(ob, r, ltv, n)
  PROVE  taken \in Nat /\ taken <= ob.deposits[r].amount
  <1> DEFINE d == ob.deposits[r]
             asked == IF n = MAX THEN d.amount ELSE MinOf(n, d.amount)
             most == MaxWithdrawValue(ob, ltv)
             part == Floor(TryDiv(MinOf(most, d.value), d.value) * d.amount)
  <1>1. d \in Deposit
    BY ObligationFields
  <1>2. d.amount \in Nat /\ d.value \in Nat
    BY <1>1 DEF Deposit
  <1> HIDE DEF d
  <1>3. asked \in Nat /\ asked <= d.amount
    <2>1. CASE n = MAX
      BY <2>1, <1>2
    <2>2. CASE n # MAX
      <3>1. n \in Nat
        BY <2>2, BoundsAssumption DEF Asked
      <3> QED
        BY <2>2, <3>1, <1>2, MinMaxTypes
    <2> QED
      BY <2>1, <2>2
  <1>4. most \in Nat
    <2>0. /\ ob.allowedBorrowValue \in Nat /\ ob.borrowedValue \in Nat /\ ob.depositedValue \in Nat
      BY ObligationFields
    <2>1. ASSUME ltv # 0, ~(ob.allowedBorrowValue <= ob.borrowedValue)
          PROVE  TryDiv(ob.allowedBorrowValue - ob.borrowedValue, FromPercent(ltv)) \in Nat
      <3>1. FromPercent(ltv) \in Nat /\ FromPercent(ltv) > 0
        BY <2>1, FromPercentType
      <3>2. ob.allowedBorrowValue - ob.borrowedValue \in Nat
        BY <2>0, <2>1
      <3> QED
        BY <3>1, <3>2, TryDivType
    <2> QED
      BY <2>0, <2>1 DEF MaxWithdrawValue
  <1> HIDE DEF asked, most
  <1>5. CASE taken = asked
    BY <1>3, <1>5 DEF d
  <1>6. CASE d.value # 0 /\ taken = MinOf(part, d.amount)
    <2>1. MinOf(most, d.value) \in Nat
      BY <1>2, <1>4, MinMaxTypes
    <2>2. d.value > 0
      BY <1>2, <1>6
    <2>3. TryDiv(MinOf(most, d.value), d.value) \in Nat
      BY <1>2, <2>1, <2>2, TryDivType
    <2>4. TryDiv(MinOf(most, d.value), d.value) * d.amount \in Nat
      BY <1>2, <2>3, MulCommutes
    <2>5. part \in Nat
      BY <2>4, RoundingTypes
    <2> HIDE DEF part
    <2>6. taken \in Nat /\ taken <= d.amount
      BY <1>2, <1>6, <2>5, MinMaxTypes
    <2> QED
      BY <2>6 DEF d
  <1>7. taken = asked \/ (d.value # 0 /\ taken = MinOf(part, d.amount))
    BY DEF WithdrawAmount, asked, most, d
  <1> QED
    BY <1>5, <1>6, <1>7
-----------------------------------------------------------------------------
(* The entries of an obligation. *)

LEMMA AmountOfType ==
  ASSUME NEW ob \in ObligationState, NEW r \in Reserves
  PROVE  AmountOf(ob.deposits[r]) \in Nat
  <1>1. ob.deposits[r] \in Deposit \cup {NoEntry}
    BY ObligationFields
  <1> QED
    BY <1>1 DEF AmountOf, Deposit

LEMMA AddDepositType ==
  ASSUME NEW ob \in ObligationState, NEW r \in Reserves, NEW n \in Nat
  PROVE  LET new == AddDeposit(ob, r, n)
         IN  /\ new \in ObligationState
             /\ AmountOf(new.deposits[r]) = AmountOf(ob.deposits[r]) + n
             /\ \A q \in Reserves \ {r} : new.deposits[q] = ob.deposits[q]
             /\ new.borrows = ob.borrows /\ new.slot = ob.slot
  <1> DEFINE d == IF ob.deposits[r] = NoEntry THEN [amount |-> n, value |-> 0]
                  ELSE [ob.deposits[r] EXCEPT !.amount = ob.deposits[r].amount + n]
             new == AddDeposit(ob, r, n)
  <1>1. ob.deposits \in [Reserves -> Deposit \cup {NoEntry}]
    BY ObligationFields
  <1>2. d \in Deposit /\ d.amount = AmountOf(ob.deposits[r]) + n
    BY <1>1 DEF Deposit, AmountOf
  <1>3. new = [ob EXCEPT !.deposits = [ob.deposits EXCEPT ![r] = d]]
    BY DEF AddDeposit
  <1> HIDE DEF d, new
  <1>4. [ob.deposits EXCEPT ![r] = d] \in [Reserves -> Deposit \cup {NoEntry}]
    BY <1>1, <1>2
  <1>5. new \in ObligationState /\ new.deposits = [ob.deposits EXCEPT ![r] = d]
        /\ new.borrows = ob.borrows /\ new.slot = ob.slot
    BY <1>3, <1>4 DEF ObligationState
  <1>6. new.deposits[r] = d /\ \A q \in Reserves \ {r} : new.deposits[q] = ob.deposits[q]
    BY <1>1, <1>5
  <1>7. AmountOf(d) = d.amount
    BY <1>2, NoneAssumption DEF AmountOf
  <1> QED
    BY <1>2, <1>5, <1>6, <1>7 DEF new

LEMMA TakeDepositType ==
  ASSUME NEW ob \in ObligationState, NEW r \in Reserves, ob.deposits[r] # NoEntry,
         NEW n \in Nat, n <= ob.deposits[r].amount
  PROVE  LET new == TakeDeposit(ob, r, n)
         IN  /\ new \in ObligationState
             /\ AmountOf(new.deposits[r]) = AmountOf(ob.deposits[r]) - n
             /\ \A q \in Reserves \ {r} : new.deposits[q] = ob.deposits[q]
             /\ new.borrows = ob.borrows /\ new.slot = ob.slot
  <1> DEFINE d == IF ob.deposits[r].amount = n THEN NoEntry
                  ELSE [ob.deposits[r] EXCEPT !.amount = ob.deposits[r].amount - n]
             new == TakeDeposit(ob, r, n)
  <1>1. ob.deposits \in [Reserves -> Deposit \cup {NoEntry}]
    BY ObligationFields
  <1>2. ob.deposits[r] \in Deposit /\ ob.deposits[r].amount \in Nat
    BY <1>1 DEF Deposit
  <1>3. d \in Deposit \cup {NoEntry} /\ AmountOf(d) = ob.deposits[r].amount - n
    <2>1. CASE ob.deposits[r].amount = n
      BY <1>2, <2>1 DEF AmountOf
    <2>2. CASE ob.deposits[r].amount # n
      <3>1. ob.deposits[r].amount - n \in Nat
        BY <1>2
      <3>2. d = [ob.deposits[r] EXCEPT !.amount = ob.deposits[r].amount - n]
        BY <2>2
      <3>3. d \in Deposit /\ d.amount = ob.deposits[r].amount - n
        BY <1>2, <3>1, <3>2 DEF Deposit
      <3> QED
        BY <3>3, NoneAssumption DEF AmountOf
    <2> QED
      BY <2>1, <2>2
  <1>4. new = [ob EXCEPT !.deposits = [ob.deposits EXCEPT ![r] = d]]
    BY DEF TakeDeposit
  <1> HIDE DEF d, new
  <1>5. [ob.deposits EXCEPT ![r] = d] \in [Reserves -> Deposit \cup {NoEntry}]
    BY <1>1, <1>3
  <1>6. new \in ObligationState /\ new.deposits = [ob.deposits EXCEPT ![r] = d]
        /\ new.borrows = ob.borrows /\ new.slot = ob.slot
    BY <1>4, <1>5 DEF ObligationState
  <1>7. new.deposits[r] = d /\ \A q \in Reserves \ {r} : new.deposits[q] = ob.deposits[q]
    BY <1>1, <1>6
  <1> QED
    BY <1>3, <1>6, <1>7 DEF new, AmountOf

(* Replacing a borrow leaves the deposits. *)
LEMMA BorrowReplaced ==
  ASSUME NEW ob \in ObligationState, NEW r \in Reserves, NEW b \in Borrow \cup {NoEntry}
  PROVE  LET new == [ob EXCEPT !.borrows = [ob.borrows EXCEPT ![r] = b]]
         IN  /\ new \in ObligationState /\ new.deposits = ob.deposits
             /\ new.borrows[r] = b /\ new.slot = ob.slot
             /\ \A q \in Reserves \ {r} : new.borrows[q] = ob.borrows[q]
  <1>1. ob.borrows \in [Reserves -> Borrow \cup {NoEntry}]
    BY ObligationFields
  <1>2. [ob.borrows EXCEPT ![r] = b] \in [Reserves -> Borrow \cup {NoEntry}]
    BY <1>1
  <1> DEFINE borrows == [ob.borrows EXCEPT ![r] = b]
             new == [ob EXCEPT !.borrows = borrows]
  <1>3. borrows[r] = b /\ \A q \in Reserves \ {r} : borrows[q] = ob.borrows[q]
    BY <1>1
  <1> HIDE DEF borrows
  <1>4. /\ new \in ObligationState /\ new.deposits = ob.deposits
        /\ new.borrows = borrows /\ new.slot = ob.slot
    BY <1>2 DEF ObligationState, borrows
  <1> QED
    BY <1>3, <1>4 DEF borrows

LEMMA TakeBorrowType ==
  ASSUME NEW ob \in ObligationState, NEW r \in Reserves, ob.borrows[r] # NoEntry,
         NEW settle \in Nat, settle <= ob.borrows[r].amount
  PROVE  LET new == TakeBorrow(ob, r, settle)
         IN  /\ new \in ObligationState /\ new.deposits = ob.deposits /\ new.slot = ob.slot
             /\ \A q \in Reserves \ {r} : new.borrows[q] = ob.borrows[q]
  <1> DEFINE b == IF ob.borrows[r].amount = settle THEN NoEntry
                  ELSE [ob.borrows[r] EXCEPT !.amount = ob.borrows[r].amount - settle]
  <1>1. ob.borrows[r] \in Borrow
    BY ObligationFields
  <1>2. ob.borrows[r].amount - settle \in Nat
    BY <1>1 DEF Borrow
  <1>3. b \in Borrow \cup {NoEntry}
    BY <1>1, <1>2 DEF Borrow
  <1>4. TakeBorrow(ob, r, settle) = [ob EXCEPT !.borrows = [ob.borrows EXCEPT ![r] = b]]
    BY DEF TakeBorrow
  <1> HIDE DEF b
  <1> QED
    BY <1>3, <1>4, BorrowReplaced

LEMMA AddBorrowType ==
  ASSUME NEW ob \in ObligationState, NEW r \in Reserves, NEW cumulative \in Nat \ {0},
         NEW borrow \in Nat
  PROVE  LET new == AddBorrow(ob, r, cumulative, borrow)
         IN  /\ new \in ObligationState /\ new.deposits = ob.deposits /\ new.slot = ob.slot
             /\ \A q \in Reserves \ {r} : new.borrows[q] = ob.borrows[q]
  <1> DEFINE b == IF ob.borrows[r] = NoEntry
                  THEN [cumulative |-> cumulative, amount |-> borrow, value |-> 0]
                  ELSE [ob.borrows[r] EXCEPT !.amount = ob.borrows[r].amount + borrow]
  <1>1. ob.borrows[r] \in Borrow \cup {NoEntry}
    BY ObligationFields
  <1>2. ob.borrows[r] \in Borrow => ob.borrows[r].amount + borrow \in Nat
    BY DEF Borrow
  <1>3. b \in Borrow
    BY <1>1, <1>2 DEF Borrow
  <1>4. AddBorrow(ob, r, cumulative, borrow) = [ob EXCEPT !.borrows = [ob.borrows EXCEPT ![r] = b]]
    BY DEF AddBorrow
  <1> HIDE DEF b
  <1> QED
    BY <1>3, <1>4, BorrowReplaced

LEMMA AccrueBorrowType ==
  ASSUME NEW b \in Borrow, NEW cumulative \in Nat
  PROVE  /\ AccrueBorrow(b, cumulative) \in Borrow
         /\ AccrueBorrow(b, cumulative).cumulative >= cumulative
  <1>1. b.cumulative \in Nat /\ b.cumulative > 0 /\ b.amount \in Nat
    BY DEF Borrow
  <1>2. TryDiv(cumulative, b.cumulative) \in Nat
    BY <1>1, TryDivType
  <1>3. TryMul(b.amount, TryDiv(cumulative, b.cumulative)) \in Nat
    BY <1>1, <1>2, TryMulType
  <1>4. ~(cumulative <= b.cumulative) => cumulative \in Nat \ {0}
    BY <1>1
  <1>5. AccrueBorrow(b, cumulative) \in Borrow
    BY <1>3, <1>4 DEF AccrueBorrow, Borrow
  <1>6. AccrueBorrow(b, cumulative).cumulative >= cumulative
    BY <1>1, <1>3 DEF AccrueBorrow, Borrow
  <1> QED
    BY <1>5, <1>6

LEMMA MarkObligationType ==
  ASSUME NEW ob \in ObligationState
  PROVE  LET new == MarkStale(ob)
         IN  new \in ObligationState /\ new.stale = TRUE /\ new.slot = ob.slot
             /\ new.deposits = ob.deposits /\ new.borrows = ob.borrows
  BY DEF MarkStale, ObligationState

LEMMA GlobalLimitType ==
  ASSUME slot \in Nat
  PROVE  /\ GlobalUnhealthyBorrowValue \in Nat
         /\ GlobalUnhealthyBorrowValue - CapMargin \in Nat
  <1> DEFINE now == MinOf(MaxOf(CapFrom, slot), CapTo)
             fall == (CapStart - CapEnd) * (CapTo - now)
             share == fall \div (CapTo - CapFrom)
  <1>1. CapStart - CapEnd \in Nat /\ CapTo - CapFrom \in Nat /\ CapTo - CapFrom > 0
        /\ CapEnd \in Nat /\ CapMargin \in Nat /\ CapMargin <= CapEnd
        /\ CapFrom \in Nat /\ CapTo \in Nat
    BY BoundsAssumption
  <1>2. now \in Nat /\ now <= CapTo
    BY <1>1, MinMaxTypes
  <1> HIDE DEF now
  <1>3. CapTo - now \in Nat
    BY <1>1, <1>2
  <1>4. fall \in Nat
    BY <1>1, <1>3, MulCommutes
  <1> HIDE DEF fall
  <1>5. share \in Nat
    BY <1>1, <1>4, DivBounds
  <1> HIDE DEF share
  <1>6. GlobalUnhealthyBorrowValue = CapEnd + share
    BY DEF GlobalUnhealthyBorrowValue, share, fall, now
  <1> QED
    BY <1>1, <1>5, <1>6

(* A refresh values the entries and leaves the amounts deposited; an entry   *)
(* is in it only if it was in the obligation.                                *)
LEMMA ValuedType ==
  ASSUME slot \in Nat, NEW ob \in ObligationState,
         NEW rs \in [Reserves -> ReserveState \cup {NoReserve}],
         \A r \in Held(ob.deposits) :
            rs[r] # NoReserve /\ HasSupply(rs[r]) /\ ExchangeRate(rs[r]) > 0,
         \A r \in Held(ob.borrows) : rs[r] # NoReserve
  PROVE  LET new == Valued(ob, rs)
         IN  /\ new \in ObligationState /\ new.slot = ob.slot
             /\ \A r \in Reserves : AmountOf(new.deposits[r]) = AmountOf(ob.deposits[r])
  <1> DEFINE deposits == [r \in Reserves |->
                IF ob.deposits[r] = NoEntry THEN NoEntry
                ELSE [ob.deposits[r] EXCEPT !.value = DepositValue(rs[r], ob.deposits[r])]]
             accrued(r) == AccrueBorrow(ob.borrows[r], rs[r].cumulative)
             borrows == [r \in Reserves |->
                IF ob.borrows[r] = NoEntry THEN NoEntry
                ELSE [accrued(r) EXCEPT !.value = TryMul(accrued(r).amount, rs[r].price)]]
             ValueAt(r, percent) == TryMul(deposits[r].value, FromPercent(percent))
             deposited == SumFunction([r \in Held(deposits) |-> deposits[r].value])
             borrowed == SumFunction([r \in Held(borrows) |-> borrows[r].value])
             allowed == SumFunction([r \in Held(deposits) |-> ValueAt(r, rs[r].config.ltv)])
             unhealthy == SumFunction([r \in Held(deposits) |-> ValueAt(r, rs[r].config.threshold)])
             most == MinOf(allowed, GlobalUnhealthyBorrowValue - CapMargin)
             limit == MinOf(unhealthy, GlobalUnhealthyBorrowValue)
             new == Valued(ob, rs)
  <1>0. /\ ob.deposits \in [Reserves -> Deposit \cup {NoEntry}]
        /\ ob.borrows \in [Reserves -> Borrow \cup {NoEntry}]
    BY ObligationFields
  <1>1. ASSUME NEW r \in Reserves, ob.deposits[r] # NoEntry
        PROVE  /\ deposits[r] \in Deposit
               /\ deposits[r].amount = ob.deposits[r].amount
               /\ rs[r] \in ReserveState
    <2>1. r \in Held(ob.deposits)
      BY <1>1 DEF Held
    <2>2. rs[r] \in ReserveState /\ HasSupply(rs[r]) /\ ExchangeRate(rs[r]) > 0
      BY <2>1
    <2>3. ob.deposits[r] \in Deposit /\ ob.deposits[r].amount \in Nat
      BY <1>0, <1>1 DEF Deposit
    <2>4. ExchangeRate(rs[r]) \in Nat /\ FromInt(ob.deposits[r].amount) \in Nat
          /\ rs[r].price \in Nat
      BY <2>2, <2>3, ExchangeRateType, FromIntType, ReserveFields
    <2>5. CollateralValue(rs[r], ob.deposits[r].amount) \in Nat
      BY <2>2, <2>4, TryDivType DEF CollateralValue
    <2>6. DepositValue(rs[r], ob.deposits[r]) \in Nat
      BY <2>4, <2>5, TryMulType DEF DepositValue
    <2>7. deposits[r] = [ob.deposits[r] EXCEPT !.value = DepositValue(rs[r], ob.deposits[r])]
      BY <1>1
    <2> HIDE DEF deposits
    <2> QED
      BY <2>2, <2>3, <2>6, <2>7 DEF Deposit
  <1>2. ASSUME NEW r \in Reserves, ob.borrows[r] # NoEntry
        PROVE  borrows[r] \in Borrow
    <2>1. r \in Held(ob.borrows)
      BY <1>2 DEF Held
    <2>2. rs[r] \in ReserveState
      BY <2>1
    <2>3. rs[r].cumulative \in Nat /\ rs[r].price \in Nat
      BY <2>2, ReserveFields
    <2>4. accrued(r) \in Borrow
      BY <1>0, <1>2, <2>3, AccrueBorrowType
    <2> HIDE DEF accrued
    <2>5. TryMul(accrued(r).amount, rs[r].price) \in Nat
      BY <2>3, <2>4, TryMulType DEF Borrow
    <2>6. borrows[r] = [accrued(r) EXCEPT !.value = TryMul(accrued(r).amount, rs[r].price)]
      BY <1>2
    <2> HIDE DEF borrows
    <2> QED
      BY <2>4, <2>5, <2>6 DEF Borrow
  <1>3. \A r \in Reserves : /\ ob.deposits[r] = NoEntry => deposits[r] = NoEntry
                            /\ ob.borrows[r] = NoEntry => borrows[r] = NoEntry
    OBVIOUS
  <1>15. \A r \in Reserves : ob.deposits[r] # NoEntry =>
            /\ deposits[r] \in Deposit /\ deposits[r].amount = ob.deposits[r].amount
            /\ rs[r] \in ReserveState
    BY <1>1, Zenon
  <1>16. \A r \in Reserves : ob.borrows[r] # NoEntry => borrows[r] \in Borrow
    BY <1>2, Zenon
  <1>4. deposits = [r \in Reserves |-> deposits[r]] /\ borrows = [r \in Reserves |-> borrows[r]]
    BY Zenon
  <1> HIDE DEF deposits, borrows
  <1>5. deposits \in [Reserves -> Deposit \cup {NoEntry}]
    <2>1. \A r \in Reserves : deposits[r] \in Deposit \cup {NoEntry}
      BY <1>15, <1>3, Zenon
    <2> QED
      BY <1>4, <2>1, Zenon
  <1>6. borrows \in [Reserves -> Borrow \cup {NoEntry}]
    <2>1. \A r \in Reserves : borrows[r] \in Borrow \cup {NoEntry}
      BY <1>16, <1>3, Zenon
    <2> QED
      BY <1>4, <2>1, Zenon
  <1>7. \A r \in Reserves : AmountOf(deposits[r]) = AmountOf(ob.deposits[r])
    BY <1>15, <1>3, NoneAssumption, Zenon DEF AmountOf
  <1>8. IsFiniteSet(Held(deposits)) /\ IsFiniteSet(Held(borrows))
    BY PartiesAssumption, FS_Subset DEF Held
  <1>9. ASSUME NEW r \in Held(deposits)
        PROVE  /\ deposits[r].value \in Nat
               /\ ValueAt(r, rs[r].config.ltv) \in Nat /\ ValueAt(r, rs[r].config.threshold) \in Nat
    <2>1. r \in Reserves /\ deposits[r] # NoEntry
      BY DEF Held
    <2>2. deposits[r] \in Deposit /\ rs[r] \in ReserveState
      BY <1>15, <1>3, <2>1, Zenon
    <2>3. deposits[r].value \in Nat
      BY <2>2 DEF Deposit
    <2>4. rs[r].config.ltv \in Nat /\ rs[r].config.threshold \in Nat
      BY <2>2, ReserveFields, ConfigType
    <2>5. FromPercent(rs[r].config.ltv) \in Nat /\ FromPercent(rs[r].config.threshold) \in Nat
      BY <2>4, FromPercentType
    <2> QED
      BY <2>3, <2>5, TryMulType
  <1>10. ASSUME NEW r \in Held(borrows) PROVE borrows[r].value \in Nat
    <2>1. r \in Reserves /\ borrows[r] # NoEntry
      BY DEF Held
    <2>2. borrows[r] \in Borrow
      BY <1>16, <1>3, <2>1, Zenon
    <2> QED
      BY <2>2 DEF Borrow
  <1>11. deposited \in Nat /\ borrowed \in Nat /\ allowed \in Nat /\ unhealthy \in Nat
    <2>1. [r \in Held(deposits) |-> deposits[r].value] \in [Held(deposits) -> Nat]
      BY <1>9
    <2>2. [r \in Held(borrows) |-> borrows[r].value] \in [Held(borrows) -> Nat]
      BY <1>10
    <2>3. [r \in Held(deposits) |-> ValueAt(r, rs[r].config.ltv)] \in [Held(deposits) -> Nat]
      BY <1>9
    <2>4. [r \in Held(deposits) |-> ValueAt(r, rs[r].config.threshold)] \in [Held(deposits) -> Nat]
      BY <1>9
    <2> QED
      BY <1>8, <2>1, <2>2, <2>3, <2>4, SumIsNat
  <1>12. new = [ob EXCEPT !.deposits = deposits, !.borrows = borrows,
                          !.depositedValue = deposited, !.borrowedValue = borrowed,
                          !.allowedBorrowValue = most, !.unhealthyBorrowValue = limit]
    BY DEF Valued, deposits, borrows
  <1> HIDE DEF deposited, borrowed, allowed, unhealthy
  <1>13. most \in Nat /\ limit \in Nat
    BY <1>11, GlobalLimitType, MinMaxTypes
  <1> HIDE DEF most, limit, new
  <1>14. new \in ObligationState /\ new.slot = ob.slot /\ new.deposits = deposits
    BY <1>5, <1>6, <1>11, <1>12, <1>13 DEF ObligationState
  <1> QED
    BY <1>7, <1>14 DEF new

(* What a refresh makes of each entry of an obligation. *)
DepositWorth(ob, rs, r) == DepositValue(rs[r], ob.deposits[r])
BorrowWorth(ob, rs, r) == TryMul(AccrueBorrow(ob.borrows[r], rs[r].cumulative).amount, rs[r].price)
LimitWorth(ob, rs, r) == TryMul(DepositWorth(ob, rs, r), FromPercent(rs[r].config.threshold))

(* The reserves a refresh of ob needs are there and have a rate. *)
CanValue(ob, rs) ==
  /\ rs \in [Reserves -> ReserveState \cup {NoReserve}]
  /\ \A r \in Held(ob.deposits) :
       rs[r] # NoReserve /\ HasSupply(rs[r]) /\ ExchangeRate(rs[r]) > 0
  /\ \A r \in Held(ob.borrows) : rs[r] # NoReserve

LEMMA WorthType ==
  ASSUME NEW ob \in ObligationState, NEW rs, CanValue(ob, rs)
  PROVE  /\ IsFiniteSet(Held(ob.deposits)) /\ IsFiniteSet(Held(ob.borrows))
         /\ \A r \in Held(ob.deposits) :
              DepositWorth(ob, rs, r) \in Nat /\ LimitWorth(ob, rs, r) \in Nat
         /\ \A r \in Held(ob.borrows) : BorrowWorth(ob, rs, r) \in Nat
  <1>1. ASSUME NEW r \in Held(ob.deposits)
        PROVE  DepositWorth(ob, rs, r) \in Nat /\ LimitWorth(ob, rs, r) \in Nat
    <2>1. r \in Reserves /\ ob.deposits[r] \in Deposit
      BY ObligationFields DEF Held
    <2>2. rs[r] \in ReserveState /\ HasSupply(rs[r]) /\ ExchangeRate(rs[r]) > 0
      BY <2>1 DEF CanValue
    <2>3. ExchangeRate(rs[r]) \in Nat /\ FromInt(ob.deposits[r].amount) \in Nat
          /\ rs[r].price \in Nat /\ rs[r].config \in Configs
      BY <2>1, <2>2, ExchangeRateType, FromIntType, ReserveFields DEF Deposit
    <2>4. CollateralValue(rs[r], ob.deposits[r].amount) \in Nat
      BY <2>2, <2>3, TryDivType DEF CollateralValue
    <2>5. DepositWorth(ob, rs, r) \in Nat
      BY <2>3, <2>4, TryMulType DEF DepositWorth, DepositValue
    <2>6. FromPercent(rs[r].config.threshold) \in Nat
      BY <2>3, ConfigType, FromPercentType
    <2> QED
      BY <2>5, <2>6, TryMulType DEF LimitWorth
  <1>2. ASSUME NEW r \in Held(ob.borrows) PROVE BorrowWorth(ob, rs, r) \in Nat
    <2>1. r \in Reserves /\ ob.borrows[r] \in Borrow
      BY ObligationFields DEF Held
    <2>2. rs[r] \in ReserveState
      BY <2>1 DEF CanValue
    <2>3. rs[r].cumulative \in Nat /\ rs[r].price \in Nat
      BY <2>2, ReserveFields
    <2>4. AccrueBorrow(ob.borrows[r], rs[r].cumulative) \in Borrow
      BY <2>1, <2>3, AccrueBorrowType
    <2>5. AccrueBorrow(ob.borrows[r], rs[r].cumulative).amount \in Nat
      BY <2>4 DEF Borrow
    <2> QED
      BY <2>3, <2>5, TryMulType DEF BorrowWorth
  <1>3. IsFiniteSet(Held(ob.deposits)) /\ IsFiniteSet(Held(ob.borrows))
    BY PartiesAssumption, FS_Subset DEF Held
  <1> QED
    BY <1>1, <1>2, <1>3

(* The totals of a refreshed obligation are the sums over its entries.       *)
LEMMA ValuedSums ==
  ASSUME NEW ob \in ObligationState, NEW rs, CanValue(ob, rs)
  PROVE  LET new == Valued(ob, rs)
         IN  /\ Held(new.deposits) = Held(ob.deposits) /\ Held(new.borrows) = Held(ob.borrows)
             /\ \A r \in Held(ob.deposits) : new.deposits[r].value = DepositWorth(ob, rs, r)
             /\ \A r \in Held(ob.borrows) : new.borrows[r].value = BorrowWorth(ob, rs, r)
             /\ new.depositedValue =
                  SumFunction([r \in Held(ob.deposits) |-> DepositWorth(ob, rs, r)])
             /\ new.borrowedValue =
                  SumFunction([r \in Held(ob.borrows) |-> BorrowWorth(ob, rs, r)])
             /\ new.unhealthyBorrowValue =
                  MinOf(SumFunction([r \in Held(ob.deposits) |-> LimitWorth(ob, rs, r)]),
                        GlobalUnhealthyBorrowValue)
  <1> DEFINE deposits == [r \in Reserves |->
                IF ob.deposits[r] = NoEntry THEN NoEntry
                ELSE [ob.deposits[r] EXCEPT !.value = DepositValue(rs[r], ob.deposits[r])]]
             accrued(r) == AccrueBorrow(ob.borrows[r], rs[r].cumulative)
             borrows == [r \in Reserves |->
                IF ob.borrows[r] = NoEntry THEN NoEntry
                ELSE [accrued(r) EXCEPT !.value = TryMul(accrued(r).amount, rs[r].price)]]
             ValueAt(r, percent) == TryMul(deposits[r].value, FromPercent(percent))
             deposited == SumFunction([r \in Held(deposits) |-> deposits[r].value])
             borrowed == SumFunction([r \in Held(borrows) |-> borrows[r].value])
             unhealthy == SumFunction([r \in Held(deposits) |-> ValueAt(r, rs[r].config.threshold)])
             limit == MinOf(unhealthy, GlobalUnhealthyBorrowValue)
             new == Valued(ob, rs)
  <1>1. ASSUME NEW r \in Held(ob.deposits)
        PROVE  deposits[r].value = DepositWorth(ob, rs, r) /\ deposits[r] # NoEntry
    <2>1. r \in Reserves /\ ob.deposits[r] \in Deposit /\ ob.deposits[r] # NoEntry
      BY ObligationFields DEF Held
    <2>2. DepositWorth(ob, rs, r) \in Nat
      BY WorthType
    <2>3. deposits[r] = [ob.deposits[r] EXCEPT !.value = DepositWorth(ob, rs, r)]
      BY <2>1 DEF DepositWorth
    <2> HIDE DEF deposits
    <2>4. deposits[r] \in Deposit /\ deposits[r].value = DepositWorth(ob, rs, r)
      BY <2>1, <2>2, <2>3 DEF Deposit
    <2> QED
      BY <2>4, NoneAssumption
  <1>2. ASSUME NEW r \in Held(ob.borrows)
        PROVE  borrows[r].value = BorrowWorth(ob, rs, r) /\ borrows[r] # NoEntry
    <2>1. r \in Reserves /\ ob.borrows[r] \in Borrow /\ ob.borrows[r] # NoEntry
      BY ObligationFields DEF Held
    <2>2. BorrowWorth(ob, rs, r) \in Nat
      BY WorthType
    <2>3. rs[r] \in ReserveState
      BY <2>1 DEF CanValue
    <2>4. accrued(r) \in Borrow
      BY <2>1, <2>3, ReserveFields, AccrueBorrowType
    <2>5. borrows[r] = [accrued(r) EXCEPT !.value = BorrowWorth(ob, rs, r)]
      BY <2>1 DEF BorrowWorth
    <2> HIDE DEF borrows, accrued
    <2>6. borrows[r] \in Borrow /\ borrows[r].value = BorrowWorth(ob, rs, r)
      BY <2>2, <2>4, <2>5 DEF Borrow
    <2> QED
      BY <2>6, NoneAssumption
  <1>3. \A r \in Reserves : /\ ob.deposits[r] = NoEntry => deposits[r] = NoEntry
                            /\ ob.borrows[r] = NoEntry => borrows[r] = NoEntry
    OBVIOUS
  <1>4. /\ new.deposits = deposits /\ new.borrows = borrows
        /\ new.depositedValue = deposited /\ new.borrowedValue = borrowed
        /\ new.unhealthyBorrowValue = limit
    BY DEF Valued, ObligationState
  <1> HIDE DEF deposits, borrows, new
  <1>5. Held(deposits) = Held(ob.deposits) /\ Held(borrows) = Held(ob.borrows)
    BY <1>1, <1>2, <1>3 DEF Held
  <1>6. deposited = SumFunction([r \in Held(ob.deposits) |-> DepositWorth(ob, rs, r)])
    <2>1. [r \in Held(deposits) |-> deposits[r].value]
            = [r \in Held(ob.deposits) |-> DepositWorth(ob, rs, r)]
      BY <1>1, <1>5
    <2> QED
      BY <2>1
  <1>7. borrowed = SumFunction([r \in Held(ob.borrows) |-> BorrowWorth(ob, rs, r)])
    <2>1. [r \in Held(borrows) |-> borrows[r].value]
            = [r \in Held(ob.borrows) |-> BorrowWorth(ob, rs, r)]
      BY <1>2, <1>5
    <2> QED
      BY <2>1
  <1>8. unhealthy = SumFunction([r \in Held(ob.deposits) |-> LimitWorth(ob, rs, r)])
    <2>1. \A r \in Held(ob.deposits) : ValueAt(r, rs[r].config.threshold) = LimitWorth(ob, rs, r)
      BY <1>1 DEF LimitWorth
    <2>2. [r \in Held(deposits) |-> ValueAt(r, rs[r].config.threshold)]
            = [r \in Held(ob.deposits) |-> LimitWorth(ob, rs, r)]
      BY <1>5, <2>1
    <2> QED
      BY <2>2
  <1> QED
    BY <1>1, <1>2, <1>4, <1>5, <1>6, <1>7, <1>8 DEF new

-----------------------------------------------------------------------------
(* The proofs about the program. *)

(* Every variable has its type: no balance, no debt and no value is ever     *)
(* negative, whatever is rounded on the way.                                 *)
ClockOK ==
  /\ slot \in Nat /\ ops \in Nat /\ events \in Nat
  /\ oracle \in [Reserves -> Feeds]
  /\ priced \in [Reserves -> Nat]
  /\ DOMAIN seen = Obligations

TypeOK ==
  /\ ClockOK
  /\ reserve \in [Reserves -> ReserveState \cup {NoReserve}]
  /\ obligation \in [Obligations -> ObligationState \cup {NoObligation}]
  /\ vault \in [Reserves -> Nat]
  /\ collateralVault \in [Reserves -> Nat]
  /\ liquidity \in [Users -> [Reserves -> Nat]]
  /\ collateral \in [Users -> [Reserves -> Nat]]

(* No account was updated in a slot to come. *)
SlotsPast ==
  /\ \A r \in Reserves : reserve[r] # NoReserve => reserve[r].slot <= slot
  /\ \A o \in Obligations : obligation[o] # NoObligation => obligation[o].slot <= slot

Lendable(r) == IF reserve[r] = NoReserve THEN 0 ELSE reserve[r].available
Supply(r) == IF reserve[r] = NoReserve THEN 0 ELSE reserve[r].supply
Pledged(r) == SumFunction([o \in Obligations |-> DepositedIn(o, r)])
Outside(r) == SumFunction([u \in Users |-> collateral[u][r]])

(* Custody, also of a reserve that is yet to be created: then there is no    *)
(* collateral of it.                                                         *)
Backed(r) ==
  /\ vault[r] >= Lendable(r)
  /\ collateralVault[r] = Pledged(r)
  /\ Supply(r) = collateralVault[r] + Outside(r)

LendingInv == TypeOK /\ SlotsPast /\ \A r \in Reserves : Backed(r)
-----------------------------------------------------------------------------
(* What replacing one account does. *)

LEMMA SumsAreNat ==
  ASSUME TypeOK, NEW r \in Reserves
  PROVE  /\ Pledged(r) \in Nat /\ Outside(r) \in Nat
         /\ \A o \in Obligations : DepositedIn(o, r) \in Nat
         /\ \A u \in Users : collateral[u][r] \in Nat
  <1>1. \A o \in Obligations : DepositedIn(o, r) \in Nat
    BY AmountOfType DEF TypeOK, DepositedIn
  <1>2. \A u \in Users : collateral[u][r] \in Nat
    BY DEF TypeOK
  <1>3. [o \in Obligations |-> DepositedIn(o, r)] \in [Obligations -> Nat]
    BY <1>1
  <1>4. [u \in Users |-> collateral[u][r]] \in [Users -> Nat]
    BY <1>2
  <1> QED
    BY <1>1, <1>2, <1>3, <1>4, PartiesAssumption, SumIsNat DEF Pledged, Outside

LEMMA ReserveSet ==
  ASSUME TypeOK, SlotsPast, NEW r \in Reserves, NEW x \in ReserveState, x.slot <= slot, slot' = slot,
         reserve' = [reserve EXCEPT ![r] = x]
  PROVE  /\ reserve' \in [Reserves -> ReserveState \cup {NoReserve}]
         /\ \A q \in Reserves : reserve'[q] # NoReserve => reserve'[q].slot <= slot'
         /\ Lendable(r)' = x.available /\ Supply(r)' = x.supply
         /\ \A q \in Reserves \ {r} : Lendable(q)' = Lendable(q) /\ Supply(q)' = Supply(q)
  <1>1. reserve \in [Reserves -> ReserveState \cup {NoReserve}]
    BY DEF TypeOK
  <1>2. reserve'[r] = x /\ \A q \in Reserves \ {r} : reserve'[q] = reserve[q]
    BY <1>1
  <1>3. x # NoReserve
    BY NoneAssumption
  <1>4. \A q \in Reserves : reserve'[q] # NoReserve => reserve'[q].slot <= slot'
    BY <1>2 DEF SlotsPast
  <1> QED
    BY <1>1, <1>2, <1>3, <1>4 DEF Lendable, Supply

LEMMA ReservesKept ==
  ASSUME TypeOK, SlotsPast, slot' = slot, reserve' = reserve
  PROVE  /\ reserve' \in [Reserves -> ReserveState \cup {NoReserve}]
         /\ \A q \in Reserves : reserve'[q] # NoReserve => reserve'[q].slot <= slot'
         /\ \A q \in Reserves : Lendable(q)' = Lendable(q) /\ Supply(q)' = Supply(q)
  BY DEF TypeOK, SlotsPast, Lendable, Supply

LEMMA ObligationSet ==
  ASSUME TypeOK, SlotsPast, NEW o \in Obligations, NEW ob \in ObligationState, ob.slot <= slot,
         slot' = slot, obligation' = [obligation EXCEPT ![o] = ob]
  PROVE  /\ obligation' \in [Obligations -> ObligationState \cup {NoObligation}]
         /\ \A p \in Obligations : obligation'[p] # NoObligation => obligation'[p].slot <= slot'
         /\ \A r \in Reserves :
              Pledged(r)' = Pledged(r) + (AmountOf(ob.deposits[r]) - DepositedIn(o, r))
  <1>1. obligation \in [Obligations -> ObligationState \cup {NoObligation}]
    BY DEF TypeOK
  <1>2. obligation'[o] = ob /\ \A p \in Obligations \ {o} : obligation'[p] = obligation[p]
    BY <1>1
  <1>3. ob # NoObligation
    BY NoneAssumption
  <1>4. \A p \in Obligations : obligation'[p] # NoObligation => obligation'[p].slot <= slot'
    BY <1>2 DEF SlotsPast
  <1>5. ASSUME NEW r \in Reserves
        PROVE  Pledged(r)' = Pledged(r) + (AmountOf(ob.deposits[r]) - DepositedIn(o, r))
    <2> DEFINE e == [p \in Obligations |-> DepositedIn(p, r)]
               f == [p \in Obligations |-> DepositedIn(p, r)']
    <2>1. DepositedIn(o, r)' = AmountOf(ob.deposits[r])
      BY <1>2, <1>3 DEF DepositedIn, AmountOf
    <2>2. \A p \in Obligations \ {o} : DepositedIn(p, r)' = DepositedIn(p, r)
      BY <1>2 DEF DepositedIn, AmountOf
    <2>3. \A p \in Obligations : DepositedIn(p, r) \in Nat
      BY SumsAreNat
    <2>4. AmountOf(ob.deposits[r]) \in Nat
      BY AmountOfType
    <2>5. e \in [Obligations -> Nat] /\ f \in [Obligations -> Nat]
      BY <2>1, <2>2, <2>3, <2>4
    <2>6. \A p \in Obligations \ {o} : e[p] = f[p]
      BY <2>2
    <2>7. f[o] = AmountOf(ob.deposits[r]) /\ e[o] = DepositedIn(o, r)
      BY <2>1
    <2>8. Pledged(r) = SumFunction(e) /\ Pledged(r)' = SumFunction(f)
      BY DEF Pledged
    <2> HIDE DEF e, f
    <2> QED
      BY <2>5, <2>6, <2>7, <2>8, PartiesAssumption, SumUpdated
  <1> QED
    BY <1>1, <1>2, <1>4, <1>5

LEMMA ObligationsKept ==
  ASSUME TypeOK, SlotsPast, slot' = slot, obligation' = obligation
  PROVE  /\ obligation' \in [Obligations -> ObligationState \cup {NoObligation}]
         /\ \A p \in Obligations : obligation'[p] # NoObligation => obligation'[p].slot <= slot'
         /\ \A r \in Reserves : Pledged(r)' = Pledged(r)
  <1>1. \A r \in Reserves, o \in Obligations : DepositedIn(o, r)' = DepositedIn(o, r)
    BY DEF DepositedIn, AmountOf
  <1> QED
    BY <1>1 DEF TypeOK, SlotsPast, Pledged

LEMMA CollateralSet ==
  ASSUME TypeOK, NEW u \in Users, NEW r \in Reserves, NEW v \in Nat,
         collateral' = [collateral EXCEPT ![u][r] = v]
  PROVE  /\ collateral' \in [Users -> [Reserves -> Nat]]
         /\ Outside(r)' = Outside(r) + (v - collateral[u][r])
         /\ \A q \in Reserves \ {r} : Outside(q)' = Outside(q)
  <1>1. collateral \in [Users -> [Reserves -> Nat]]
    BY DEF TypeOK
  <1>2. collateral' \in [Users -> [Reserves -> Nat]]
    BY <1>1
  <1>3. /\ collateral'[u][r] = v
        /\ \A w \in Users, q \in Reserves : (w # u \/ q # r) => collateral'[w][q] = collateral[w][q]
    BY <1>1
  <1> DEFINE e == [w \in Users |-> collateral[w][r]]
             f == [w \in Users |-> collateral'[w][r]]
  <1>4. e \in [Users -> Nat] /\ f \in [Users -> Nat]
    BY <1>1, <1>2
  <1>5. \A w \in Users \ {u} : e[w] = f[w]
    BY <1>3
  <1>6. f[u] = v /\ e[u] = collateral[u][r]
    BY <1>3
  <1>7. Outside(r) = SumFunction(e) /\ Outside(r)' = SumFunction(f)
    BY DEF Outside
  <1>8. Outside(r)' = Outside(r) + (v - collateral[u][r])
    <2> HIDE DEF e, f
    <2>1. SumFunction(f) = SumFunction(e) + (f[u] - e[u])
      BY <1>4, <1>5, PartiesAssumption, SumUpdated
    <2> QED
      BY <1>6, <1>7, <2>1, Zenon
  <1>9. ASSUME NEW q \in Reserves \ {r} PROVE Outside(q)' = Outside(q)
    BY <1>3 DEF Outside
  <1> QED
    BY <1>2, <1>8, <1>9

LEMMA CollateralKept ==
  ASSUME TypeOK, collateral' = collateral
  PROVE  /\ collateral' \in [Users -> [Reserves -> Nat]]
         /\ \A q \in Reserves : Outside(q)' = Outside(q)
  BY DEF TypeOK, Outside

LEMMA TokensAreNat ==
  ASSUME TypeOK, NEW r \in Reserves
  PROVE  /\ vault[r] \in Nat /\ collateralVault[r] \in Nat
         /\ Lendable(r) \in Nat /\ Supply(r) \in Nat
         /\ \A u \in Users : liquidity[u][r] \in Nat
         /\ reserve[r] # NoReserve => reserve[r] \in ReserveState
  <1>1. reserve[r] # NoReserve => reserve[r] \in ReserveState
    BY DEF TypeOK
  <1>2. Lendable(r) \in Nat /\ Supply(r) \in Nat
    BY <1>1, ReserveFields DEF Lendable, Supply
  <1> QED
    BY <1>1, <1>2 DEF TypeOK

LEMMA ExistingReserve ==
  ASSUME TypeOK, SlotsPast, NEW r \in Reserves, reserve[r] # NoReserve
  PROVE  /\ reserve[r] \in ReserveState /\ reserve[r].slot <= slot
         /\ Lendable(r) = reserve[r].available /\ Supply(r) = reserve[r].supply
  BY DEF TypeOK, SlotsPast, Lendable, Supply

LEMMA ExistingObligation ==
  ASSUME TypeOK, SlotsPast, NEW o \in Obligations, obligation[o] # NoObligation
  PROVE  /\ obligation[o] \in ObligationState /\ obligation[o].slot <= slot
         /\ \A r \in Reserves : DepositedIn(o, r) = AmountOf(obligation[o].deposits[r])
  BY DEF TypeOK, SlotsPast, DepositedIn

LEMMA VaultSet ==
  ASSUME TypeOK, NEW r \in Reserves, NEW v \in Nat, vault' = [vault EXCEPT ![r] = v]
  PROVE  /\ vault' \in [Reserves -> Nat] /\ vault'[r] = v
         /\ \A q \in Reserves \ {r} : vault'[q] = vault[q]
  BY DEF TypeOK

LEMMA CollateralVaultSet ==
  ASSUME TypeOK, NEW r \in Reserves, NEW v \in Nat,
         collateralVault' = [collateralVault EXCEPT ![r] = v]
  PROVE  /\ collateralVault' \in [Reserves -> Nat] /\ collateralVault'[r] = v
         /\ \A q \in Reserves \ {r} : collateralVault'[q] = collateralVault[q]
  BY DEF TypeOK

LEMMA LiquiditySet ==
  ASSUME TypeOK, NEW u \in Users, NEW r \in Reserves, NEW v \in Nat,
         liquidity' = [liquidity EXCEPT ![u][r] = v]
  PROVE  liquidity' \in [Users -> [Reserves -> Nat]]
  BY DEF TypeOK

(* The token instructions. *)

LEMMA PayInMoves ==
  ASSUME TypeOK, NEW u \in Users, NEW r \in Reserves, NEW n \in Nat, PayIn(u, r, n)
  PROVE  /\ vault' \in [Reserves -> Nat] /\ vault'[r] = vault[r] + n
         /\ \A q \in Reserves \ {r} : vault'[q] = vault[q]
         /\ liquidity' \in [Users -> [Reserves -> Nat]]
  <1>1. vault[r] \in Nat /\ liquidity[u][r] \in Nat
    BY TokensAreNat
  <1>2. vault[r] + n \in Nat /\ liquidity[u][r] - n \in Nat
    BY <1>1 DEF PayIn
  <1>3. /\ vault' = [vault EXCEPT ![r] = vault[r] + n]
        /\ liquidity' = [liquidity EXCEPT ![u][r] = liquidity[u][r] - n]
    BY DEF PayIn
  <1> QED
    BY <1>2, <1>3, VaultSet, LiquiditySet

LEMMA PayOutMoves ==
  ASSUME TypeOK, NEW u \in Users, NEW r \in Reserves, NEW n \in Nat, PayOut(u, r, n)
  PROVE  /\ vault' \in [Reserves -> Nat] /\ vault'[r] = vault[r] - n
         /\ \A q \in Reserves \ {r} : vault'[q] = vault[q]
         /\ liquidity' \in [Users -> [Reserves -> Nat]]
  <1>1. vault[r] \in Nat /\ liquidity[u][r] \in Nat
    BY TokensAreNat
  <1>2. vault[r] - n \in Nat /\ liquidity[u][r] + n \in Nat
    BY <1>1 DEF PayOut
  <1>3. /\ vault' = [vault EXCEPT ![r] = vault[r] - n]
        /\ liquidity' = [liquidity EXCEPT ![u][r] = liquidity[u][r] + n]
    BY DEF PayOut
  <1> QED
    BY <1>2, <1>3, VaultSet, LiquiditySet

LEMMA MintToMoves ==
  ASSUME TypeOK, NEW u \in Users, NEW r \in Reserves, NEW n \in Nat, MintTo(u, r, n)
  PROVE  /\ collateral' \in [Users -> [Reserves -> Nat]]
         /\ Outside(r)' = Outside(r) + n
         /\ \A q \in Reserves \ {r} : Outside(q)' = Outside(q)
  <1> DEFINE v == collateral[u][r] + n
  <1>1. collateral[u][r] \in Nat /\ Outside(r) \in Nat
    BY SumsAreNat
  <1>2. v \in Nat /\ v - collateral[u][r] = n
    BY <1>1
  <1>3. collateral' = [collateral EXCEPT ![u][r] = v]
    BY DEF MintTo
  <1> HIDE DEF v
  <1>4. /\ collateral' \in [Users -> [Reserves -> Nat]]
        /\ Outside(r)' = Outside(r) + (v - collateral[u][r])
        /\ \A q \in Reserves \ {r} : Outside(q)' = Outside(q)
    BY <1>2, <1>3, CollateralSet
  <1> QED
    BY <1>2, <1>4

LEMMA BurnMoves ==
  ASSUME TypeOK, NEW u \in Users, NEW r \in Reserves, NEW n \in Nat, Burn(u, r, n)
  PROVE  /\ collateral' \in [Users -> [Reserves -> Nat]]
         /\ Outside(r)' = Outside(r) - n
         /\ \A q \in Reserves \ {r} : Outside(q)' = Outside(q)
  <1> DEFINE v == collateral[u][r] - n
  <1>1. collateral[u][r] \in Nat /\ Outside(r) \in Nat
    BY SumsAreNat
  <1>2. v \in Nat /\ Outside(r) + (v - collateral[u][r]) = Outside(r) - n
    BY <1>1 DEF Burn
  <1>3. collateral' = [collateral EXCEPT ![u][r] = v]
    BY DEF Burn
  <1> HIDE DEF v
  <1>4. /\ collateral' \in [Users -> [Reserves -> Nat]]
        /\ Outside(r)' = Outside(r) + (v - collateral[u][r])
        /\ \A q \in Reserves \ {r} : Outside(q)' = Outside(q)
    BY <1>2, <1>3, CollateralSet
  <1> QED
    BY <1>2, <1>4

LEMMA ReleaseMoves ==
  ASSUME TypeOK, NEW r \in Reserves, NEW n \in Nat, ReleaseCollateral(r, n)
  PROVE  /\ collateralVault' \in [Reserves -> Nat] /\ collateralVault'[r] = collateralVault[r] - n
         /\ \A q \in Reserves \ {r} : collateralVault'[q] = collateralVault[q]
  <1>1. collateralVault[r] - n \in Nat
    BY TokensAreNat DEF ReleaseCollateral
  <1>2. collateralVault' = [collateralVault EXCEPT ![r] = collateralVault[r] - n]
    BY DEF ReleaseCollateral
  <1> QED
    BY <1>1, <1>2, CollateralVaultSet

LEMMA OpFrame ==
  ASSUME TypeOK, Op, UNCHANGED history
  PROVE  ClockOK' /\ slot' = slot
  BY DEF TypeOK, ClockOK, Op, history

(* A step that moves the tokens of one reserve. *)
LEMMA OneReserveMoves ==
  ASSUME LendingInv, TypeOK', SlotsPast', NEW r \in Reserves, Backed(r)',
         \A q \in Reserves \ {r} :
            /\ vault'[q] = vault[q] /\ collateralVault'[q] = collateralVault[q]
            /\ Lendable(q)' = Lendable(q) /\ Supply(q)' = Supply(q)
            /\ Pledged(q)' = Pledged(q) /\ Outside(q)' = Outside(q)
  PROVE  LendingInv'
  <1>1. \A q \in Reserves \ {r} : Backed(q)'
    BY DEF LendingInv, Backed
  <1> QED
    BY <1>1 DEF LendingInv
(* A step on the books and the tokens of one reserve, that no obligation     *)
(* takes part in.                                                            *)
LEMMA ReserveMoves ==
  ASSUME LendingInv, ClockOK', slot' = slot,
         NEW r \in Reserves, reserve[r] # NoReserve,
         NEW x \in ReserveState, x.slot <= slot, reserve' = [reserve EXCEPT ![r] = x],
         UNCHANGED <<obligation, collateralVault>>,
         vault' \in [Reserves -> Nat], \A q \in Reserves \ {r} : vault'[q] = vault[q],
         liquidity' \in [Users -> [Reserves -> Nat]],
         collateral' \in [Users -> [Reserves -> Nat]],
         \A q \in Reserves \ {r} : Outside(q)' = Outside(q),
         vault'[r] - x.available >= vault[r] - reserve[r].available,
         NEW m \in Int, Outside(r)' = Outside(r) + m, x.supply = reserve[r].supply + m
  PROVE  LendingInv'
  <1>0. TypeOK /\ SlotsPast /\ \A q \in Reserves : Backed(q)
    BY DEF LendingInv
  <1>1. /\ reserve' \in [Reserves -> ReserveState \cup {NoReserve}]
        /\ \A q \in Reserves : reserve'[q] # NoReserve => reserve'[q].slot <= slot'
        /\ Lendable(r)' = x.available /\ Supply(r)' = x.supply
        /\ \A q \in Reserves \ {r} : Lendable(q)' = Lendable(q) /\ Supply(q)' = Supply(q)
    BY <1>0, ReserveSet
  <1>2. /\ obligation' \in [Obligations -> ObligationState \cup {NoObligation}]
        /\ \A p \in Obligations : obligation'[p] # NoObligation => obligation'[p].slot <= slot'
        /\ \A q \in Reserves : Pledged(q)' = Pledged(q)
    BY <1>0, ObligationsKept
  <1>3. TypeOK'
    BY <1>0, <1>1, <1>2 DEF TypeOK
  <1>4. SlotsPast'
    BY <1>1, <1>2 DEF SlotsPast
  <1>6. Backed(r)'
    <2>1. Backed(r) /\ Lendable(r) = reserve[r].available /\ Supply(r) = reserve[r].supply
      BY <1>0, ExistingReserve
    <2>2. /\ vault[r] \in Nat /\ collateralVault[r] \in Nat /\ Outside(r) \in Nat
          /\ reserve[r].available \in Nat /\ reserve[r].supply \in Nat
          /\ x.available \in Nat /\ x.supply \in Nat /\ vault'[r] \in Nat
      BY <1>0, TokensAreNat, SumsAreNat, ExistingReserve, ReserveFields
    <2> QED
      <3>1. vault[r] >= reserve[r].available /\ collateralVault[r] = Pledged(r)
            /\ reserve[r].supply = collateralVault[r] + Outside(r)
        BY <2>1 DEF Backed
      <3>2. vault'[r] >= x.available
        BY <2>2, <3>1
      <3>3. collateralVault'[r] = Pledged(r)'
        BY <1>2, <3>1
      <3>4. x.supply = collateralVault[r] + (Outside(r) + m)
        BY <2>2, <3>1
      <3> QED
        BY <1>1, <3>2, <3>3, <3>4 DEF Backed
  <1> QED
    BY <1>1, <1>2, <1>3, <1>4, <1>6, OneReserveMoves

(* The obligation o becomes ob, with d more of the collateral of r in it. *)
ObligationTo(o, ob, r, d) ==
  /\ obligation[o] # NoObligation
  /\ ob \in ObligationState /\ ob.slot <= slot
  /\ obligation' = [obligation EXCEPT ![o] = ob]
  /\ AmountOf(ob.deposits[r]) = AmountOf(obligation[o].deposits[r]) + d
  /\ \A q \in Reserves \ {r} : ob.deposits[q] = obligation[o].deposits[q]

(* Tokens of r move, d of its collateral to its collateral supply account    *)
(* and m to the users.                                                       *)
TokensMove(r, d, m) ==
  /\ collateralVault' \in [Reserves -> Nat]
  /\ collateralVault'[r] = collateralVault[r] + d
  /\ \A q \in Reserves \ {r} : collateralVault'[q] = collateralVault[q]
  /\ vault' \in [Reserves -> Nat] /\ \A q \in Reserves \ {r} : vault'[q] = vault[q]
  /\ liquidity' \in [Users -> [Reserves -> Nat]]
  /\ collateral' \in [Users -> [Reserves -> Nat]]
  /\ Outside(r)' = Outside(r) + m
  /\ \A q \in Reserves \ {r} : Outside(q)' = Outside(q)

(* And the books of r become x, that say so. *)
ReserveTo(r, x, d, m) ==
  /\ reserve[r] # NoReserve
  /\ x \in ReserveState /\ x.slot <= slot
  /\ reserve' = [reserve EXCEPT ![r] = x]
  /\ vault'[r] - x.available >= vault[r] - reserve[r].available
  /\ x.supply = reserve[r].supply + d + m

(* A step on the books of a reserve and an obligation. *)
LEMMA BooksMove ==
  ASSUME LendingInv, ClockOK', slot' = slot,
         NEW r \in Reserves, NEW x, NEW o \in Obligations, NEW ob, NEW d \in Int, NEW m \in Int,
         ReserveTo(r, x, d, m), ObligationTo(o, ob, r, d), TokensMove(r, d, m)
  PROVE  LendingInv'
  <1> USE DEF ReserveTo, ObligationTo, TokensMove
  <1>0. TypeOK /\ SlotsPast /\ \A q \in Reserves : Backed(q)
    BY DEF LendingInv
  <1>1. /\ reserve' \in [Reserves -> ReserveState \cup {NoReserve}]
        /\ \A q \in Reserves : reserve'[q] # NoReserve => reserve'[q].slot <= slot'
        /\ Lendable(r)' = x.available /\ Supply(r)' = x.supply
        /\ \A q \in Reserves \ {r} : Lendable(q)' = Lendable(q) /\ Supply(q)' = Supply(q)
    BY <1>0, ReserveSet
  <1>2. /\ obligation' \in [Obligations -> ObligationState \cup {NoObligation}]
        /\ \A p \in Obligations : obligation'[p] # NoObligation => obligation'[p].slot <= slot'
        /\ \A q \in Reserves :
             Pledged(q)' = Pledged(q) + (AmountOf(ob.deposits[q]) - DepositedIn(o, q))
    BY <1>0, ObligationSet
  <1>3. /\ obligation[o] \in ObligationState
        /\ \A q \in Reserves : DepositedIn(o, q) = AmountOf(obligation[o].deposits[q])
    BY <1>0, ExistingObligation
  <1>4. \A q \in Reserves : Pledged(q) \in Nat /\ AmountOf(obligation[o].deposits[q]) \in Nat
    BY <1>0, <1>3, SumsAreNat, AmountOfType
  <1>5. Pledged(r)' = Pledged(r) + d
    BY <1>2, <1>3, <1>4
  <1>6. \A q \in Reserves \ {r} : Pledged(q)' = Pledged(q)
    BY <1>2, <1>3, <1>4
  <1>7. TypeOK'
    BY <1>0, <1>1, <1>2 DEF TypeOK
  <1>8. SlotsPast'
    BY <1>1, <1>2 DEF SlotsPast
  <1>10. Backed(r)'
    <2>1. Backed(r) /\ Lendable(r) = reserve[r].available /\ Supply(r) = reserve[r].supply
      BY <1>0, ExistingReserve
    <2>2. /\ vault[r] \in Nat /\ collateralVault[r] \in Nat /\ Outside(r) \in Nat
          /\ reserve[r].available \in Nat /\ reserve[r].supply \in Nat
          /\ x.available \in Nat /\ x.supply \in Nat /\ vault'[r] \in Nat
      BY <1>0, TokensAreNat, SumsAreNat, ExistingReserve, ReserveFields
    <2> QED
      <3>1. vault[r] >= reserve[r].available /\ collateralVault[r] = Pledged(r)
            /\ reserve[r].supply = collateralVault[r] + Outside(r)
        BY <2>1 DEF Backed
      <3>2. vault'[r] >= x.available
        BY <2>2, <3>1
      <3>3. collateralVault'[r] = Pledged(r)'
        BY <1>5, <3>1
      <3>4. x.supply = (collateralVault[r] + d) + (Outside(r) + m)
        BY <2>2, <3>1
      <3> QED
        BY <1>1, <3>2, <3>3, <3>4 DEF Backed
  <1> QED
    BY <1>1, <1>6, <1>7, <1>8, <1>10, OneReserveMoves
-----------------------------------------------------------------------------
(* The instructions on reserves. *)

LEMMA InitReserveStep ==
  ASSUME LendingInv, NEW u \in Users, NEW r \in Reserves, InitReserve(u, r)
  PROVE  LendingInv'
  <1>0. TypeOK /\ SlotsPast /\ \A q \in Reserves : Backed(q)
    BY DEF LendingInv
  <1>1. PICK n \in Amounts :
           /\ reserve' = [reserve EXCEPT ![r] = DepositLiquidity(NewReserve(r), n)]
           /\ DepositTokens(u, r, n, DepositLiquidity(NewReserve(r), n).supply)
    BY DEF InitReserve
  <1>2. /\ reserve[r] = NoReserve /\ GetPrice(oracle[r]) # NoPrice
        /\ priced' = [priced EXCEPT ![r] = slot]
        /\ UNCHANGED <<slot, oracle, obligation, collateralVault, ops, events, seen>>
    BY DEF InitReserve
  <1>3. n \in Nat /\ slot \in Nat
    BY <1>0, BoundsAssumption DEF TypeOK, ClockOK
  <1> DEFINE new == NewReserve(r)
             x == DepositLiquidity(new, n)
             minted == LiquidityToCollateral(new, n)
  <1>4. GetPrice(oracle[r]) \in Nat
    BY <1>0, <1>2, FeedsAssumption DEF GetPrice, TypeOK, ClockOK
  <1>5. new \in ReserveState /\ new.available = 0 /\ new.supply = 0 /\ new.slot = slot
        /\ new.borrowed = 0 /\ new.fees = 0
    <2>1. InitialConfig[r] \in Configs /\ Wad \in Nat \ {0}
      BY ConfigAssumption, WadType
    <2> QED
      BY <1>3, <1>4, <2>1 DEF NewReserve, ReserveState
  <1> HIDE DEF new
  <1>6. HasSupply(new)
    BY <1>5, FromIntType DEF HasSupply
  <1>7. minted \in Nat /\ x \in ReserveState /\ x.available = n /\ x.supply = minted /\ x.slot = slot
    <2>1. minted \in Nat /\ x \in ReserveState /\ x.available = new.available + n
          /\ x.supply = new.supply + minted /\ x.slot = new.slot
      BY <1>3, <1>5, <1>6, DepositType
    <2> QED
      BY <1>3, <1>5, <2>1
  <1>8. reserve' = [reserve EXCEPT ![r] = x] /\ PayIn(u, r, n) /\ MintTo(u, r, minted)
    BY <1>1, <1>7 DEF DepositTokens, new
  <1> HIDE DEF x, minted
  <1>9. /\ reserve' \in [Reserves -> ReserveState \cup {NoReserve}]
        /\ \A q \in Reserves : reserve'[q] # NoReserve => reserve'[q].slot <= slot'
        /\ Lendable(r)' = n /\ Supply(r)' = minted
        /\ \A q \in Reserves \ {r} : Lendable(q)' = Lendable(q) /\ Supply(q)' = Supply(q)
    <2>1. x.slot <= slot /\ slot' = slot
      BY <1>2, <1>3, <1>7
    <2> QED
      BY <1>0, <1>7, <1>8, <2>1, ReserveSet
  <1>10. /\ obligation' \in [Obligations -> ObligationState \cup {NoObligation}]
         /\ \A p \in Obligations : obligation'[p] # NoObligation => obligation'[p].slot <= slot'
         /\ \A q \in Reserves : Pledged(q)' = Pledged(q)
    BY <1>0, <1>2, ObligationsKept
  <1>11. /\ vault[r] \in Nat /\ collateralVault[r] \in Nat
         /\ Pledged(r) \in Nat /\ Outside(r) \in Nat
    BY <1>0, TokensAreNat, SumsAreNat
  <1>13. /\ collateral' \in [Users -> [Reserves -> Nat]]
         /\ Outside(r)' = Outside(r) + minted
         /\ \A q \in Reserves \ {r} : Outside(q)' = Outside(q)
    BY <1>0, <1>7, <1>8, MintToMoves
  <1>14. /\ vault' \in [Reserves -> Nat] /\ vault'[r] = vault[r] + n
         /\ \A q \in Reserves \ {r} : vault'[q] = vault[q]
         /\ liquidity' \in [Users -> [Reserves -> Nat]]
    BY <1>0, <1>3, <1>8, PayInMoves
  <1>16. TypeOK'
    BY <1>0, <1>2, <1>3, <1>9, <1>10, <1>13, <1>14 DEF TypeOK, ClockOK
  <1>17. SlotsPast'
    BY <1>9, <1>10 DEF SlotsPast
  <1>18. Backed(r)'
    <2>1. Backed(r) /\ Lendable(r) = 0 /\ Supply(r) = 0
      BY <1>0, <1>2 DEF Lendable, Supply
    <2> QED
      BY <1>2, <1>3, <1>7, <1>9, <1>10, <1>11, <1>13, <1>14, <2>1 DEF Backed
  <1> QED
    BY <1>2, <1>9, <1>10, <1>13, <1>14, <1>16, <1>17, <1>18, OneReserveMoves

LEMMA RefreshReserveStep ==
  ASSUME LendingInv, NEW r \in Reserves, RefreshReserve(r)
  PROVE  LendingInv'
  <1>0. TypeOK /\ SlotsPast /\ slot \in Nat
    BY DEF LendingInv, TypeOK, ClockOK
  <1>1. /\ reserve[r] # NoReserve /\ CanAccrue(reserve[r]) /\ GetPrice(oracle[r]) # NoPrice
        /\ priced' = [priced EXCEPT ![r] = slot]
        /\ UNCHANGED <<slot, oracle, obligation, tokenVars, ops, events, seen>>
    BY DEF RefreshReserve
  <1>2. reserve[r] \in ReserveState /\ GetPrice(oracle[r]) \in Nat
    BY <1>0, <1>1, ExistingReserve, FeedsAssumption DEF GetPrice, TypeOK, ClockOK
  <1> DEFINE new == [reserve[r] EXCEPT !.price = GetPrice(oracle[r])]
             x == Accrued(new)
  <1>3. /\ new \in ReserveState /\ new.slot = reserve[r].slot
        /\ new.available = reserve[r].available /\ new.supply = reserve[r].supply
        /\ new.borrowed = reserve[r].borrowed /\ new.fees = reserve[r].fees
    BY <1>2 DEF ReserveState
  <1>4. reserve' = [reserve EXCEPT ![r] = x]
    BY DEF RefreshReserve
  <1> HIDE DEF new
  <1>5. slot > new.slot => HasSupply(new)
    BY <1>1, <1>3 DEF CanAccrue, HasSupply
  <1>6. /\ x \in ReserveState /\ x.slot = slot
        /\ x.available = new.available /\ x.supply = new.supply
    BY <1>0, <1>3, <1>5, AccruedType
  <1> HIDE DEF x
  <1>7. ClockOK' /\ slot' = slot
    BY <1>0, <1>1 DEF TypeOK, ClockOK
  <1>8. /\ vault' = vault /\ collateralVault' = collateralVault
        /\ liquidity' = liquidity /\ collateral' = collateral /\ obligation' = obligation
    BY <1>1 DEF tokenVars
  <1>9. /\ vault' \in [Reserves -> Nat] /\ \A q \in Reserves \ {r} : vault'[q] = vault[q]
        /\ liquidity' \in [Users -> [Reserves -> Nat]]
        /\ collateral' \in [Users -> [Reserves -> Nat]]
    BY <1>0, <1>8 DEF TypeOK
  <1>10. \A q \in Reserves : Outside(q)' = Outside(q) /\ Outside(q) \in Nat
    BY <1>0, <1>8, CollateralKept, SumsAreNat
  <1>11. vault[r] \in Nat /\ reserve[r].available \in Nat /\ reserve[r].supply \in Nat
    BY <1>0, <1>2, TokensAreNat, ReserveFields
  <1> DEFINE m == 0
  <1>12. /\ x.slot <= slot /\ vault'[r] - x.available >= vault[r] - reserve[r].available
         /\ m \in Int /\ Outside(r)' = Outside(r) + m /\ x.supply = reserve[r].supply + m
    BY <1>0, <1>3, <1>6, <1>8, <1>10, <1>11
  <1> HIDE DEF m
  <1> QED
    BY <1>1, <1>4, <1>6, <1>7, <1>8, <1>9, <1>10, <1>12, ReserveMoves

(* What the four instructions that bring in or take out liquidity have in    *)
(* common: the reserve, accrued, is as good as the one on the books.         *)
LEMMA AccruedReserve ==
  ASSUME LendingInv, NEW r \in Reserves, reserve[r] # NoReserve, CanAccrue(reserve[r])
  PROVE  LET x == Accrued(reserve[r])
         IN  /\ x \in ReserveState /\ x.slot = slot /\ slot \in Nat
             /\ x.available = reserve[r].available /\ x.supply = reserve[r].supply
             /\ HasSupply(reserve[r]) => HasSupply(x)
             /\ reserve[r].available \in Nat /\ reserve[r].supply \in Nat
  <1>1. TypeOK /\ SlotsPast /\ slot \in Nat
    BY DEF LendingInv, TypeOK, ClockOK
  <1>2. reserve[r] \in ReserveState
    BY <1>1, ExistingReserve
  <1>3. reserve[r].available \in Nat /\ reserve[r].supply \in Nat
    BY <1>2, ReserveFields
  <1> QED
    BY <1>1, <1>2, <1>3, AccruedType DEF CanAccrue

LEMMA DepositedReserve ==
  ASSUME LendingInv, NEW r \in Reserves, NEW n \in Amounts, CanDeposit(r, n)
  PROVE  /\ reserve[r] # NoReserve /\ n \in Nat
         /\ Minted(r, n) \in Nat
         /\ Deposited(r, n) \in ReserveState /\ Deposited(r, n).slot <= slot
         /\ Deposited(r, n).available = reserve[r].available + n
         /\ Deposited(r, n).supply = reserve[r].supply + Minted(r, n)
         /\ reserve[r].available \in Nat /\ reserve[r].supply \in Nat
  <1> DEFINE x == Accrued(reserve[r])
             y == DepositLiquidity(x, n)
  <1>1. reserve[r] # NoReserve /\ HasSupply(reserve[r]) /\ CanAccrue(reserve[r]) /\ n \in Nat
    BY BoundsAssumption DEF CanDeposit, CanAccrue
  <1>2. /\ x \in ReserveState /\ x.slot = slot /\ slot \in Nat
        /\ x.available = reserve[r].available /\ x.supply = reserve[r].supply
        /\ HasSupply(x) /\ reserve[r].available \in Nat /\ reserve[r].supply \in Nat
    BY <1>1, AccruedReserve
  <1>3. Deposited(r, n) = MarkStale(y) /\ Minted(r, n) = LiquidityToCollateral(x, n)
    BY DEF Deposited, Minted
  <1> HIDE DEF x
  <1>4. /\ Minted(r, n) \in Nat /\ y \in ReserveState /\ y.slot = x.slot
        /\ y.available = x.available + n /\ y.supply = x.supply + Minted(r, n)
    BY <1>1, <1>2, <1>3, DepositType
  <1> HIDE DEF y
  <1>5. /\ MarkStale(y) \in ReserveState /\ MarkStale(y).slot = y.slot
        /\ MarkStale(y).available = y.available /\ MarkStale(y).supply = y.supply
    BY <1>4, MarkStaleType
  <1> QED
    BY <1>1, <1>2, <1>3, <1>4, <1>5

LEMMA DepositReserveStep ==
  ASSUME LendingInv, NEW u \in Users, NEW r \in Reserves, NEW n \in Amounts,
         DepositReserveLiquidity(u, r, n)
  PROVE  LendingInv'
  <1> DEFINE x == Deposited(r, n)
             m == Minted(r, n)
  <1>0. TypeOK
    BY DEF LendingInv
  <1>1. /\ Op /\ CanDeposit(r, n) /\ reserve' = [reserve EXCEPT ![r] = x]
        /\ PayIn(u, r, n) /\ MintTo(u, r, m)
        /\ UNCHANGED <<obligation, collateralVault>> /\ UNCHANGED history
    BY DEF DepositReserveLiquidity, DepositTokens
  <1>2. /\ reserve[r] # NoReserve /\ n \in Nat /\ m \in Nat
        /\ x \in ReserveState /\ x.slot <= slot
        /\ x.available = reserve[r].available + n /\ x.supply = reserve[r].supply + m
        /\ reserve[r].available \in Nat /\ reserve[r].supply \in Nat
    BY <1>1, DepositedReserve
  <1> HIDE DEF x, m
  <1>3. ClockOK' /\ slot' = slot
    BY <1>0, <1>1, OpFrame
  <1>4. /\ vault' \in [Reserves -> Nat] /\ vault'[r] = vault[r] + n
        /\ \A q \in Reserves \ {r} : vault'[q] = vault[q]
        /\ liquidity' \in [Users -> [Reserves -> Nat]]
    BY <1>0, <1>1, <1>2, PayInMoves
  <1>5. /\ collateral' \in [Users -> [Reserves -> Nat]] /\ Outside(r)' = Outside(r) + m
        /\ \A q \in Reserves \ {r} : Outside(q)' = Outside(q)
    BY <1>0, <1>1, <1>2, MintToMoves
  <1>6. vault[r] \in Nat
    BY <1>0, TokensAreNat
  <1>7. vault'[r] - x.available >= vault[r] - reserve[r].available /\ m \in Int
    BY <1>2, <1>4, <1>6
  <1> QED
    BY <1>1, <1>2, <1>3, <1>4, <1>5, <1>7, ReserveMoves

LEMMA RedeemReserveStep ==
  ASSUME LendingInv, NEW u \in Users, NEW r \in Reserves, NEW n \in Amounts,
         RedeemReserveCollateral(u, r, n)
  PROVE  LendingInv'
  <1>0. TypeOK /\ n \in Nat
    BY BoundsAssumption DEF LendingInv
  <1> DEFINE y == Accrued(reserve[r])
  <1>1. PICK res \in RedeemCollateral(y, n) :
          /\ reserve' = [reserve EXCEPT ![r] = MarkStale(res.reserve)]
          /\ PayOut(u, r, res.liquidity)
    BY DEF RedeemReserveCollateral
  <1>2. /\ Op /\ reserve[r] # NoReserve /\ HasSupply(reserve[r]) /\ CanAccrue(reserve[r])
        /\ Burn(u, r, n) /\ UNCHANGED <<obligation, collateralVault>> /\ UNCHANGED history
    BY DEF RedeemReserveCollateral, CanAccrue
  <1>3. /\ y \in ReserveState /\ y.slot = slot /\ slot \in Nat
        /\ y.available = reserve[r].available /\ y.supply = reserve[r].supply
        /\ HasSupply(y) /\ reserve[r].available \in Nat /\ reserve[r].supply \in Nat
    BY <1>2, AccruedReserve
  <1> HIDE DEF y
  <1>4. /\ res.liquidity \in Nat /\ res.reserve \in ReserveState
        /\ res.reserve.available = y.available - res.liquidity
        /\ res.reserve.supply = y.supply - n /\ res.reserve.slot = y.slot
    BY <1>0, <1>1, <1>3, RedeemType
  <1> DEFINE x == MarkStale(res.reserve)
  <1>5. /\ x \in ReserveState /\ x.available = res.reserve.available
        /\ x.supply = res.reserve.supply /\ x.slot = res.reserve.slot
    BY <1>4, MarkStaleType
  <1>6. reserve' = [reserve EXCEPT ![r] = x]
    BY <1>1
  <1> HIDE DEF x
  <1>7. ClockOK' /\ slot' = slot
    BY <1>0, <1>2, OpFrame
  <1>8. /\ vault' \in [Reserves -> Nat] /\ vault'[r] = vault[r] - res.liquidity
        /\ \A q \in Reserves \ {r} : vault'[q] = vault[q]
        /\ liquidity' \in [Users -> [Reserves -> Nat]]
    BY <1>0, <1>1, <1>4, PayOutMoves
  <1>9. /\ collateral' \in [Users -> [Reserves -> Nat]] /\ Outside(r)' = Outside(r) - n
        /\ \A q \in Reserves \ {r} : Outside(q)' = Outside(q)
    BY <1>0, <1>2, BurnMoves
  <1>10. vault[r] \in Nat /\ Outside(r) \in Nat
    BY <1>0, TokensAreNat, SumsAreNat
  <1>11. /\ x.slot <= slot /\ vault'[r] - x.available >= vault[r] - reserve[r].available
         /\ -n \in Int /\ x.supply = reserve[r].supply + (-n)
         /\ Outside(r) - n = Outside(r) + (-n)
    BY <1>0, <1>3, <1>4, <1>5, <1>8, <1>10
  <1>12. Outside(r)' = Outside(r) + (-n)
    BY <1>9, <1>11
  <1> QED
    BY <1>2, <1>5, <1>6, <1>7, <1>8, <1>9, <1>11, <1>12, ReserveMoves

LEMMA FlashLoanStep ==
  ASSUME LendingInv, NEW u \in Users, NEW r \in Reserves, NEW n \in Asked, FlashLoan(u, r, n)
  PROVE  LendingInv'
  <1> DEFINE y == reserve[r]
             loan == IF n = MAX THEN y.available ELSE n
             z == BorrowReserve(y, FromInt(loan))
             x == RepayReserve(z, loan, FromInt(loan))
  <1>0. TypeOK /\ SlotsPast
    BY DEF LendingInv
  <1>1. /\ Op /\ y # NoReserve /\ loan <= y.available /\ loan <= vault[r]
        /\ reserve' = [reserve EXCEPT ![r] = x]
        /\ UNCHANGED <<obligation, collateralVault, collateral>> /\ UNCHANGED history
    BY DEF FlashLoan
  <1>2. PICK f \in CalculateFees(FromInt(loan), y.config.flashFee, y.config.hostFee, FALSE),
             extra \in Extras :
          /\ OnTopOfLoan(f.fee, extra) <= liquidity[u][r]
          /\ liquidity' = [liquidity EXCEPT ![u][r] = @ - OnTopOfLoan(f.fee, extra)]
          /\ PayFlashFees(r, vault[r] - loan + (loan + OnTopOfLoan(f.fee, extra)), f)
    BY DEF FlashLoan
  <1>3. y \in ReserveState /\ y.slot <= slot
    BY <1>0, <1>1, ExistingReserve
  <1>4. y.available \in Nat /\ y.supply \in Nat /\ y.config \in Configs
    BY <1>3, ReserveFields
  <1>5. loan \in Nat
    BY <1>4, BoundsAssumption DEF Asked
  <1> HIDE DEF y, loan
  <1>6. FromInt(loan) \in Nat /\ Floor(FromInt(loan)) = loan
    BY <1>5, FromIntType
  <1>7. z \in ReserveState /\ z.available = y.available - loan /\ z.supply = y.supply /\ z.slot = y.slot
    BY <1>1, <1>3, <1>6, BorrowReserveType
  <1> HIDE DEF z
  <1>8. x \in ReserveState /\ x.available = z.available + loan /\ x.supply = z.supply /\ x.slot = z.slot
    BY <1>5, <1>6, <1>7, RepayReserveType
  <1> HIDE DEF x
  <1>9. y.config.flashFee \in Nat /\ y.config.hostFee \in Nat
    BY <1>4, ConfigType
  <1>10. f.fee \in Nat /\ extra \in Nat
    BY <1>2, <1>6, <1>9, FeesType, BoundsAssumption
  <1>11. vault[r] \in Nat /\ liquidity[u][r] \in Nat
    BY <1>0, TokensAreNat
  <1> DEFINE v == vault[r] + extra
             left == liquidity[u][r] - (f.fee + extra)
  <1>12. v \in Nat /\ left \in Nat
    BY <1>2, <1>10, <1>11 DEF OnTopOfLoan
  <1>13. vault' = [vault EXCEPT ![r] = v]
    <2>1. vault' = [vault EXCEPT ![r] = (vault[r] - loan + (loan + (f.fee + extra))) - f.fee]
      BY <1>2 DEF PayFlashFees, OnTopOfLoan
    <2>2. (vault[r] - loan + (loan + (f.fee + extra))) - f.fee = v
      BY <1>5, <1>10, <1>11
    <2> HIDE DEF v
    <2> QED
      BY <2>1, <2>2
  <1>14. liquidity' = [liquidity EXCEPT ![u][r] = left]
    BY <1>2 DEF OnTopOfLoan
  <1>15. v = vault[r] + extra
    OBVIOUS
  <1> HIDE DEF v, left
  <1>16. /\ vault' \in [Reserves -> Nat] /\ vault'[r] = v
         /\ \A q \in Reserves \ {r} : vault'[q] = vault[q]
    BY <1>0, <1>12, <1>13, VaultSet
  <1>17. liquidity' \in [Users -> [Reserves -> Nat]]
    BY <1>0, <1>12, <1>14, LiquiditySet
  <1>18. ClockOK' /\ slot' = slot
    BY <1>0, <1>1, OpFrame
  <1>19. /\ collateral' \in [Users -> [Reserves -> Nat]]
         /\ \A q \in Reserves : Outside(q)' = Outside(q) /\ Outside(q) \in Nat
    BY <1>0, <1>1, CollateralKept, SumsAreNat
  <1> DEFINE m == 0
  <1>20. /\ x.slot <= slot /\ vault'[r] - x.available >= vault[r] - y.available
         /\ m \in Int /\ Outside(r)' = Outside(r) + m /\ x.supply = y.supply + m
    BY <1>3, <1>4, <1>5, <1>7, <1>8, <1>10, <1>11, <1>12, <1>15, <1>16, <1>19
  <1> HIDE DEF m
  <1> QED
    BY <1>1, <1>8, <1>16, <1>17, <1>18, <1>19, <1>20, ReserveMoves DEF y

LEMMA RedeemFeesStep ==
  ASSUME LendingInv, NEW r \in Reserves, RedeemFees(r)
  PROVE  LendingInv'
  <1> DEFINE y == reserve[r]
             paid == CalculateRedeemFees(y)
             z == [y EXCEPT !.available = @ - paid, !.fees = @ - FromInt(paid)]
             x == MarkStale(z)
             v == vault[r] - paid
  <1>0. TypeOK /\ SlotsPast
    BY DEF LendingInv
  <1>1. /\ Op /\ y # NoReserve /\ paid <= vault[r]
        /\ reserve' = [reserve EXCEPT ![r] = x]
        /\ vault' = [vault EXCEPT ![r] = v]
        /\ UNCHANGED <<obligation, collateralVault, liquidity, collateral>> /\ UNCHANGED history
    BY DEF RedeemFees, FreshReserve
  <1>2. y \in ReserveState /\ y.slot <= slot
    BY <1>0, <1>1, ExistingReserve
  <1>3. y.available \in Nat /\ y.supply \in Nat /\ y.fees \in Nat
    BY <1>2, ReserveFields
  <1> HIDE DEF y
  <1>4. paid \in Nat /\ paid <= y.available /\ FromInt(paid) <= y.fees
    BY <1>2, RedeemFeesType
  <1> HIDE DEF paid
  <1>5. FromInt(paid) \in Nat
    BY <1>4, FromIntType
  <1>6. y.available - paid \in Nat /\ y.fees - FromInt(paid) \in Nat
    BY <1>3, <1>4, <1>5
  <1>7. z \in ReserveState /\ z.available = y.available - paid /\ z.supply = y.supply /\ z.slot = y.slot
    BY <1>2, <1>6 DEF ReserveState
  <1> HIDE DEF z
  <1>8. x \in ReserveState /\ x.available = z.available /\ x.supply = z.supply /\ x.slot = z.slot
    BY <1>7, MarkStaleType
  <1> HIDE DEF x
  <1>9. vault[r] \in Nat
    BY <1>0, TokensAreNat
  <1>10. v \in Nat /\ v = vault[r] - paid
    BY <1>1, <1>4, <1>9
  <1> HIDE DEF v
  <1>11. /\ vault' \in [Reserves -> Nat] /\ vault'[r] = v
         /\ \A q \in Reserves \ {r} : vault'[q] = vault[q]
    BY <1>0, <1>1, <1>10, VaultSet
  <1>12. ClockOK' /\ slot' = slot
    BY <1>0, <1>1, OpFrame
  <1>13. /\ collateral' \in [Users -> [Reserves -> Nat]]
         /\ liquidity' \in [Users -> [Reserves -> Nat]]
         /\ \A q \in Reserves : Outside(q)' = Outside(q) /\ Outside(q) \in Nat
    BY <1>0, <1>1, CollateralKept, SumsAreNat DEF TypeOK
  <1> DEFINE m == 0
  <1>14. /\ x.slot <= slot /\ vault'[r] - x.available >= vault[r] - y.available
         /\ m \in Int /\ Outside(r)' = Outside(r) + m /\ x.supply = y.supply + m
    BY <1>2, <1>3, <1>4, <1>7, <1>8, <1>9, <1>10, <1>11, <1>13
  <1> HIDE DEF m
  <1> QED
    BY <1>1, <1>8, <1>11, <1>12, <1>13, <1>14, ReserveMoves DEF y

LEMMA UpdateConfigStep ==
  ASSUME LendingInv, NEW r \in Reserves, UpdateReserveConfig(r)
  PROVE  LendingInv'
  <1>0. TypeOK /\ SlotsPast
    BY DEF LendingInv
  <1>1. PICK c \in Configs : reserve' = [reserve EXCEPT ![r].config = c]
    BY DEF UpdateReserveConfig
  <1>2. /\ events > 0 /\ events' = events - 1 /\ reserve[r] # NoReserve
        /\ UNCHANGED <<slot, oracle, obligation, tokenVars, ops, history>>
    BY DEF UpdateReserveConfig
  <1>3. reserve[r] \in ReserveState /\ reserve[r].slot <= slot
    BY <1>0, <1>2, ExistingReserve
  <1> DEFINE x == [reserve[r] EXCEPT !.config = c]
  <1>4. /\ x \in ReserveState /\ x.available = reserve[r].available
        /\ x.supply = reserve[r].supply /\ x.slot = reserve[r].slot
    BY <1>3 DEF ReserveState
  <1>5. reserve' = [reserve EXCEPT ![r] = x]
    BY <1>1
  <1> HIDE DEF x
  <1>6. vault[r] \in Nat /\ reserve[r].available \in Nat /\ reserve[r].supply \in Nat
    BY <1>0, <1>3, TokensAreNat, ReserveFields
  <1>7. ClockOK' /\ slot' = slot
    BY <1>0, <1>2 DEF TypeOK, ClockOK, history
  <1>8. /\ vault' = vault /\ collateralVault' = collateralVault
        /\ liquidity' = liquidity /\ collateral' = collateral /\ obligation' = obligation
    BY <1>2 DEF tokenVars
  <1>9. /\ vault' \in [Reserves -> Nat] /\ \A q \in Reserves \ {r} : vault'[q] = vault[q]
        /\ liquidity' \in [Users -> [Reserves -> Nat]]
        /\ collateral' \in [Users -> [Reserves -> Nat]]
    BY <1>0, <1>8 DEF TypeOK
  <1>10. \A q \in Reserves : Outside(q)' = Outside(q) /\ Outside(q) \in Nat
    BY <1>0, <1>8, CollateralKept, SumsAreNat
  <1> DEFINE m == 0
  <1>11. /\ x.slot <= slot /\ vault'[r] - x.available >= vault[r] - reserve[r].available
         /\ m \in Int /\ Outside(r)' = Outside(r) + m /\ x.supply = reserve[r].supply + m
    BY <1>3, <1>4, <1>6, <1>8, <1>10
  <1> HIDE DEF m
  <1> QED
    BY <1>2, <1>4, <1>5, <1>7, <1>8, <1>9, <1>10, <1>11, ReserveMoves
-----------------------------------------------------------------------------
(* The instructions on obligations. *)

(* A step on one obligation that leaves its deposits as large as they were. *)
LEMMA ObligationMoves ==
  ASSUME LendingInv, ClockOK', slot' = slot, UNCHANGED <<reserve, tokenVars>>,
         NEW o \in Obligations, NEW ob \in ObligationState, ob.slot <= slot,
         obligation' = [obligation EXCEPT ![o] = ob],
         \A q \in Reserves : AmountOf(ob.deposits[q]) = DepositedIn(o, q)
  PROVE  LendingInv'
  <1>0. TypeOK /\ SlotsPast /\ \A q \in Reserves : Backed(q)
    BY DEF LendingInv
  <1>1. /\ reserve' \in [Reserves -> ReserveState \cup {NoReserve}]
        /\ \A q \in Reserves : reserve'[q] # NoReserve => reserve'[q].slot <= slot'
        /\ \A q \in Reserves : Lendable(q)' = Lendable(q) /\ Supply(q)' = Supply(q)
    BY <1>0, ReservesKept
  <1>2. /\ obligation' \in [Obligations -> ObligationState \cup {NoObligation}]
        /\ \A p \in Obligations : obligation'[p] # NoObligation => obligation'[p].slot <= slot'
        /\ \A q \in Reserves :
             Pledged(q)' = Pledged(q) + (AmountOf(ob.deposits[q]) - DepositedIn(o, q))
    BY <1>0, ObligationSet
  <1>3. \A q \in Reserves : Pledged(q) \in Nat /\ DepositedIn(o, q) \in Nat
    BY <1>0, SumsAreNat
  <1>4. \A q \in Reserves : Pledged(q)' = Pledged(q)
    BY <1>2, <1>3
  <1>5. /\ vault' = vault /\ collateralVault' = collateralVault
        /\ liquidity' = liquidity /\ collateral' = collateral
    BY DEF tokenVars
  <1>6. \A q \in Reserves : Outside(q)' = Outside(q)
    BY <1>0, <1>5, CollateralKept
  <1>7. TypeOK'
    BY <1>0, <1>1, <1>2, <1>5 DEF TypeOK
  <1>8. SlotsPast'
    BY <1>1, <1>2 DEF SlotsPast
  <1>9. \A q \in Reserves : Backed(q)'
    BY <1>0, <1>1, <1>4, <1>5, <1>6 DEF Backed
  <1> QED
    BY <1>7, <1>8, <1>9 DEF LendingInv

LEMMA InitObligationStep ==
  ASSUME LendingInv, NEW o \in Obligations, InitObligation(o)
  PROVE  LendingInv'
  <1>1. /\ obligation[o] = NoObligation
        /\ obligation' = [obligation EXCEPT ![o] = NewObligation]
        /\ UNCHANGED <<slot, oracle, reserve, tokenVars, ops, events, history>>
    BY DEF InitObligation
  <1>2. TypeOK /\ slot \in Nat
    BY DEF LendingInv, TypeOK, ClockOK
  <1>3. NewObligation \in ObligationState /\ NewObligation.slot = slot
    BY <1>2 DEF NewObligation, ObligationState
  <1>4. \A q \in Reserves : AmountOf(NewObligation.deposits[q]) = DepositedIn(o, q)
    BY <1>1 DEF NewObligation, AmountOf, DepositedIn
  <1>5. ClockOK' /\ slot' = slot /\ NewObligation.slot <= slot
    BY <1>1, <1>2, <1>3 DEF TypeOK, ClockOK, history
  <1> QED
    BY <1>1, <1>3, <1>4, <1>5, ObligationMoves

(* The refresh finds each reserve it values the entries with. *)
LEMMA RefreshedObligation ==
  ASSUME LendingInv, NEW o \in Obligations, RefreshObligation(o)
  PROVE  LET ob == Valued(obligation[o], reserve)
         IN  /\ ob \in ObligationState
             /\ \A q \in Reserves :
                  AmountOf(ob.deposits[q]) = AmountOf(obligation[o].deposits[q])
  <1>0. TypeOK /\ SlotsPast /\ slot \in Nat
        /\ reserve \in [Reserves -> ReserveState \cup {NoReserve}]
    BY DEF LendingInv, TypeOK, ClockOK
  <1>1. obligation[o] # NoObligation
    BY DEF RefreshObligation
  <1>2. obligation[o] \in ObligationState
    BY <1>0, <1>1, ExistingObligation
  <1>3. \A r \in Held(obligation[o].deposits) :
           reserve[r] # NoReserve /\ HasSupply(reserve[r]) /\ ExchangeRate(reserve[r]) > 0
    BY DEF RefreshObligation, FreshReserve
  <1>4. \A r \in Held(obligation[o].borrows) : reserve[r] # NoReserve
    BY DEF RefreshObligation, FreshReserve
  <1> QED
    BY <1>0, <1>2, <1>3, <1>4, ValuedType

LEMMA RefreshObligationStep ==
  ASSUME LendingInv, NEW o \in Obligations, RefreshObligation(o)
  PROVE  LendingInv'
  <1> DEFINE valued == Valued(obligation[o], reserve)
             ob == UpdateSlot(valued)
  <1>0. TypeOK /\ SlotsPast /\ slot \in Nat
    BY DEF LendingInv, TypeOK, ClockOK
  <1>1. /\ obligation[o] # NoObligation
        /\ obligation' = [obligation EXCEPT ![o] = ob]
        /\ seen' = [seen EXCEPT ![o] = [deposits |-> valued.deposits,
                                        borrows |-> valued.borrows, terms |-> Terms]]
        /\ UNCHANGED <<slot, oracle, reserve, tokenVars, ops, events, priced>>
    BY DEF RefreshObligation
  <1>2. /\ valued \in ObligationState
        /\ \A q \in Reserves :
             AmountOf(valued.deposits[q]) = AmountOf(obligation[o].deposits[q])
    BY RefreshedObligation
  <1> HIDE DEF valued
  <1>3. ob \in ObligationState /\ ob.slot = slot /\ ob.deposits = valued.deposits
    BY <1>0, <1>2 DEF UpdateSlot, ObligationState
  <1> HIDE DEF ob
  <1>4. \A q \in Reserves : DepositedIn(o, q) = AmountOf(obligation[o].deposits[q])
    BY <1>0, <1>1, ExistingObligation
  <1>5. \A q \in Reserves : AmountOf(ob.deposits[q]) = DepositedIn(o, q)
    BY <1>2, <1>3, <1>4
  <1>6. ClockOK' /\ slot' = slot /\ ob.slot <= slot
    BY <1>0, <1>1, <1>3 DEF TypeOK, ClockOK
  <1> QED
    BY <1>1, <1>3, <1>5, <1>6, ObligationMoves

LEMMA DepositCollateralStep ==
  ASSUME LendingInv, NEW o \in Obligations, NEW r \in Reserves, NEW n \in Amounts,
         DepositObligationCollateral(o, r, n)
  PROVE  LendingInv'
  <1> DEFINE u == OwnerOf[o]
             y == Accrued(reserve[r])
             x == MarkStale(y)
             new == AddDeposit(obligation[o], r, n)
             ob == MarkStale(new)
             k == collateralVault[r] + n
  <1>0. TypeOK /\ SlotsPast /\ n \in Nat /\ u \in Users
    BY BoundsAssumption, PartiesAssumption DEF LendingInv
  <1>1. /\ Op /\ reserve[r] # NoReserve /\ CanAccrue(reserve[r]) /\ obligation[o] # NoObligation
        /\ reserve' = [reserve EXCEPT ![r] = x]
        /\ obligation' = [obligation EXCEPT ![o] = ob]
        /\ collateralVault' = [collateralVault EXCEPT ![r] = k]
        /\ UNCHANGED <<vault, liquidity>> /\ UNCHANGED history
    BY DEF DepositObligationCollateral
  <1>2. Burn(u, r, n)
    BY DEF DepositObligationCollateral, Burn
  <1> HIDE DEF u
  <1>3. /\ y \in ReserveState /\ y.slot = slot /\ slot \in Nat
        /\ y.available = reserve[r].available /\ y.supply = reserve[r].supply
        /\ reserve[r].available \in Nat /\ reserve[r].supply \in Nat
    BY <1>1, AccruedReserve
  <1> HIDE DEF y
  <1>4. x \in ReserveState /\ x.available = y.available /\ x.supply = y.supply /\ x.slot = y.slot
    BY <1>3, MarkStaleType
  <1> HIDE DEF x
  <1>5. obligation[o] \in ObligationState /\ obligation[o].slot <= slot
    BY <1>0, <1>1, ExistingObligation
  <1>6. /\ new \in ObligationState /\ new.slot = obligation[o].slot
        /\ AmountOf(new.deposits[r]) = AmountOf(obligation[o].deposits[r]) + n
        /\ \A q \in Reserves \ {r} : new.deposits[q] = obligation[o].deposits[q]
    BY <1>0, <1>5, AddDepositType
  <1> HIDE DEF new
  <1>7. ob \in ObligationState /\ ob.slot = new.slot /\ ob.deposits = new.deposits
    BY <1>6, MarkObligationType
  <1> HIDE DEF ob
  <1>8. /\ collateral' \in [Users -> [Reserves -> Nat]] /\ Outside(r)' = Outside(r) - n
        /\ \A q \in Reserves \ {r} : Outside(q)' = Outside(q)
    BY <1>0, <1>2, BurnMoves
  <1>9. vault[r] \in Nat /\ collateralVault[r] \in Nat /\ Outside(r) \in Nat
    BY <1>0, TokensAreNat, SumsAreNat
  <1>10. k \in Nat /\ k = collateralVault[r] + n
    BY <1>0, <1>9
  <1> HIDE DEF k
  <1>11. /\ collateralVault' \in [Reserves -> Nat] /\ collateralVault'[r] = k
         /\ \A q \in Reserves \ {r} : collateralVault'[q] = collateralVault[q]
    BY <1>0, <1>1, <1>10, CollateralVaultSet
  <1>12. ClockOK' /\ slot' = slot
    BY <1>0, <1>1, OpFrame
  <1>13. /\ vault' \in [Reserves -> Nat] /\ \A q \in Reserves \ {r} : vault'[q] = vault[q]
         /\ liquidity' \in [Users -> [Reserves -> Nat]]
    BY <1>0, <1>1 DEF TypeOK
  <1> DEFINE m == -n
  <1>14. /\ x.slot <= slot /\ vault'[r] - x.available >= vault[r] - reserve[r].available
         /\ m \in Int /\ n \in Int /\ Outside(r) - n = Outside(r) + m
         /\ x.supply = reserve[r].supply + n + m
         /\ ob.slot <= slot
    BY <1>0, <1>1, <1>3, <1>4, <1>5, <1>6, <1>7, <1>9
  <1>15. /\ AmountOf(ob.deposits[r]) = AmountOf(obligation[o].deposits[r]) + n
         /\ \A q \in Reserves \ {r} : ob.deposits[q] = obligation[o].deposits[q]
         /\ collateralVault'[r] = collateralVault[r] + n
         /\ Outside(r)' = Outside(r) + m
    BY <1>6, <1>7, <1>8, <1>10, <1>11, <1>14
  <1> HIDE DEF m
  <1> QED
    <2>1. ReserveTo(r, x, n, m)
      BY <1>1, <1>4, <1>14 DEF ReserveTo
    <2>2. ObligationTo(o, ob, r, n)
      BY <1>1, <1>7, <1>14, <1>15 DEF ObligationTo
    <2>3. TokensMove(r, n, m)
      BY <1>8, <1>11, <1>13, <1>15 DEF TokensMove
    <2> QED
      BY <1>12, <1>14, <2>1, <2>2, <2>3, BooksMove

LEMMA DepositBothStep ==
  ASSUME LendingInv, NEW o \in Obligations, NEW r \in Reserves, NEW n \in Amounts,
         DepositLiquidityAndCollateral(o, r, n)
  PROVE  LendingInv'
  <1> DEFINE u == OwnerOf[o]
             d == Minted(r, n)
             x == Deposited(r, n)
             new == AddDeposit(obligation[o], r, d)
             ob == MarkStale(new)
             k == collateralVault[r] + d
             m == 0
  <1>0. TypeOK /\ SlotsPast /\ u \in Users
    BY PartiesAssumption DEF LendingInv
  <1>1. /\ Op /\ CanDeposit(r, n) /\ obligation[o] # NoObligation
        /\ reserve' = [reserve EXCEPT ![r] = x]
        /\ obligation' = [obligation EXCEPT ![o] = ob]
        /\ PayIn(u, r, n)
        /\ collateralVault' = [collateralVault EXCEPT ![r] = k]
        /\ collateral' = collateral /\ UNCHANGED history
    BY DEF DepositLiquidityAndCollateral
  <1> HIDE DEF u
  <1>2. /\ reserve[r] # NoReserve /\ n \in Nat /\ d \in Nat
        /\ x \in ReserveState /\ x.slot <= slot
        /\ x.available = reserve[r].available + n /\ x.supply = reserve[r].supply + d
        /\ reserve[r].available \in Nat /\ reserve[r].supply \in Nat
    BY <1>1, DepositedReserve
  <1> HIDE DEF x, d
  <1>3. obligation[o] \in ObligationState /\ obligation[o].slot <= slot
    BY <1>0, <1>1, ExistingObligation
  <1>4. /\ new \in ObligationState /\ new.slot = obligation[o].slot
        /\ AmountOf(new.deposits[r]) = AmountOf(obligation[o].deposits[r]) + d
        /\ \A q \in Reserves \ {r} : new.deposits[q] = obligation[o].deposits[q]
    BY <1>2, <1>3, AddDepositType
  <1> HIDE DEF new
  <1>5. ob \in ObligationState /\ ob.slot = new.slot /\ ob.deposits = new.deposits
    BY <1>4, MarkObligationType
  <1> HIDE DEF ob
  <1>6. /\ vault' \in [Reserves -> Nat] /\ vault'[r] = vault[r] + n
        /\ \A q \in Reserves \ {r} : vault'[q] = vault[q]
        /\ liquidity' \in [Users -> [Reserves -> Nat]]
    BY <1>0, <1>1, <1>2, PayInMoves
  <1>7. vault[r] \in Nat /\ collateralVault[r] \in Nat
    BY <1>0, TokensAreNat
  <1>8. k \in Nat /\ k = collateralVault[r] + d
    BY <1>2, <1>7
  <1> HIDE DEF k
  <1>9. /\ collateralVault' \in [Reserves -> Nat] /\ collateralVault'[r] = k
        /\ \A q \in Reserves \ {r} : collateralVault'[q] = collateralVault[q]
    BY <1>0, <1>1, <1>8, CollateralVaultSet
  <1>10. /\ collateral' \in [Users -> [Reserves -> Nat]]
         /\ \A q \in Reserves : Outside(q)' = Outside(q) /\ Outside(q) \in Nat
    BY <1>0, <1>1, CollateralKept, SumsAreNat
  <1>11. ClockOK' /\ slot' = slot
    BY <1>0, <1>1, OpFrame
  <1>12. /\ vault'[r] - x.available >= vault[r] - reserve[r].available
         /\ d \in Int /\ m \in Int /\ x.supply = reserve[r].supply + d + m
    BY <1>2, <1>6, <1>7
  <1>13. Outside(r)' = Outside(r) + m
    BY <1>10
  <1> HIDE DEF m
  <1>14. ReserveTo(r, x, d, m)
    BY <1>1, <1>2, <1>12 DEF ReserveTo
  <1>15. ObligationTo(o, ob, r, d)
    BY <1>1, <1>3, <1>4, <1>5 DEF ObligationTo
  <1>16. TokensMove(r, d, m)
    BY <1>6, <1>8, <1>9, <1>10, <1>13 DEF TokensMove
  <1> QED
    BY <1>11, <1>12, <1>14, <1>15, <1>16, BooksMove

(* What is taken from an obligation was in it. *)
LEMMA WithdrawnObligation ==
  ASSUME LendingInv, NEW o \in Obligations, NEW r \in Reserves, NEW n \in Asked \cup {0},
         CanWithdraw(o, r),
         NEW taken \in WithdrawAmount(obligation[o], r, reserve[r].config.ltv, n),
         obligation' = [obligation EXCEPT ![o] = MarkStale(TakeDeposit(obligation[o], r, taken))]
  PROVE  /\ taken \in Nat
         /\ ObligationTo(o, MarkStale(TakeDeposit(obligation[o], r, taken)), r, -taken)
         /\ reserve[r] # NoReserve /\ reserve[r] \in ReserveState /\ reserve[r].slot <= slot
         /\ reserve[r].available \in Nat /\ reserve[r].supply \in Nat
  <1> DEFINE old == obligation[o]
             new == TakeDeposit(old, r, taken)
             ob == MarkStale(new)
  <1>0. TypeOK /\ SlotsPast
    BY DEF LendingInv
  <1>1. reserve[r] # NoReserve /\ old # NoObligation /\ old.deposits[r] # NoEntry
    BY DEF CanWithdraw, FreshReserve, FreshObligation
  <1>2. old \in ObligationState /\ old.slot <= slot
    BY <1>0, <1>1, ExistingObligation
  <1>3. reserve[r] \in ReserveState /\ reserve[r].slot <= slot
    BY <1>0, <1>1, ExistingReserve
  <1>4. reserve[r].available \in Nat /\ reserve[r].supply \in Nat /\ reserve[r].config \in Configs
    BY <1>3, ReserveFields
  <1>5. reserve[r].config.ltv \in Nat
    BY <1>4, ConfigType
  <1>6. taken \in Nat /\ taken <= old.deposits[r].amount
    BY <1>1, <1>2, <1>5, WithdrawType
  <1>7. /\ new \in ObligationState /\ new.slot = old.slot
        /\ AmountOf(new.deposits[r]) = AmountOf(old.deposits[r]) - taken
        /\ \A q \in Reserves \ {r} : new.deposits[q] = old.deposits[q]
    BY <1>1, <1>2, <1>6, TakeDepositType
  <1>8. obligation' = [obligation EXCEPT ![o] = ob]
    OBVIOUS
  <1> HIDE DEF new
  <1>9. ob \in ObligationState /\ ob.slot = new.slot /\ ob.deposits = new.deposits
    BY <1>7, MarkObligationType
  <1> HIDE DEF ob
  <1>10. AmountOf(old.deposits[r]) \in Nat
    BY <1>2, AmountOfType
  <1>11. AmountOf(old.deposits[r]) - taken = AmountOf(old.deposits[r]) + (-taken)
    BY <1>6, <1>10
  <1>12. ObligationTo(o, ob, r, -taken)
    BY <1>1, <1>2, <1>7, <1>8, <1>9, <1>11 DEF ObligationTo
  <1> QED
    BY <1>1, <1>3, <1>4, <1>6, <1>12 DEF ob, new

LEMMA WithdrawStep ==
  ASSUME LendingInv, NEW o \in Obligations, NEW r \in Reserves, NEW n \in Asked,
         WithdrawObligationCollateral(o, r, n)
  PROVE  LendingInv'
  <1>1. PICK taken \in WithdrawAmount(obligation[o], r, reserve[r].config.ltv, n) :
          /\ obligation' = [obligation EXCEPT ![o] = MarkStale(TakeDeposit(obligation[o], r, taken))]
          /\ ReleaseCollateral(r, taken)
          /\ MintTo(OwnerOf[o], r, taken)
    BY DEF WithdrawObligationCollateral, MintTo
  <1>2. /\ Op /\ CanWithdraw(o, r) /\ reserve' = reserve /\ vault' = vault
        /\ liquidity' = liquidity /\ UNCHANGED history
    BY DEF WithdrawObligationCollateral
  <1>0. TypeOK /\ OwnerOf[o] \in Users
    BY PartiesAssumption DEF LendingInv
  <1> DEFINE ob == MarkStale(TakeDeposit(obligation[o], r, taken))
             d == -taken
             x == reserve[r]
  <1>3. /\ taken \in Nat /\ ObligationTo(o, ob, r, d)
        /\ x # NoReserve /\ x \in ReserveState /\ x.slot <= slot
        /\ x.available \in Nat /\ x.supply \in Nat
    BY <1>1, <1>2, WithdrawnObligation
  <1> HIDE DEF ob
  <1>4. /\ collateralVault' \in [Reserves -> Nat] /\ collateralVault'[r] = collateralVault[r] - taken
        /\ \A q \in Reserves \ {r} : collateralVault'[q] = collateralVault[q]
    BY <1>0, <1>1, <1>3, ReleaseMoves
  <1>5. /\ collateral' \in [Users -> [Reserves -> Nat]] /\ Outside(r)' = Outside(r) + taken
        /\ \A q \in Reserves \ {r} : Outside(q)' = Outside(q)
    BY <1>0, <1>1, <1>3, MintToMoves
  <1>6. vault[r] \in Nat /\ collateralVault[r] \in Nat
    BY <1>0, TokensAreNat
  <1>7. /\ d \in Int /\ taken \in Int /\ x.supply = reserve[r].supply + d + taken
        /\ collateralVault[r] - taken = collateralVault[r] + d
        /\ vault'[r] - x.available >= vault[r] - reserve[r].available
    BY <1>2, <1>3, <1>6
  <1>8. reserve \in [Reserves -> ReserveState \cup {NoReserve}]
        /\ vault \in [Reserves -> Nat] /\ liquidity \in [Users -> [Reserves -> Nat]]
    BY <1>0 DEF TypeOK
  <1>9. reserve' = [reserve EXCEPT ![r] = x]
    BY <1>2, <1>8
  <1> HIDE DEF d
  <1>10. ReserveTo(r, x, d, taken)
    BY <1>3, <1>7, <1>9 DEF ReserveTo
  <1>11. TokensMove(r, d, taken)
    BY <1>2, <1>4, <1>5, <1>7, <1>8 DEF TokensMove
  <1>12. ClockOK' /\ slot' = slot
    BY <1>0, <1>2, OpFrame
  <1> QED
    BY <1>3, <1>7, <1>10, <1>11, <1>12, BooksMove

LEMMA WithdrawRedeemStep ==
  ASSUME LendingInv, NEW o \in Obligations, NEW r \in Reserves, NEW n \in Asked \cup {0},
         WithdrawAndRedeem(o, r, n)
  PROVE  LendingInv'
  <1>a. PICK taken \in WithdrawAmount(obligation[o], r, reserve[r].config.ltv, n) :
          \E res \in RedeemCollateral(reserve[r], taken) :
            /\ obligation' = [obligation EXCEPT ![o] = MarkStale(TakeDeposit(obligation[o], r, taken))]
            /\ reserve' = [reserve EXCEPT ![r] = MarkStale(res.reserve)]
            /\ ReleaseCollateral(r, taken)
            /\ PayOut(OwnerOf[o], r, res.liquidity)
    BY DEF WithdrawAndRedeem
  <1>1. PICK res \in RedeemCollateral(reserve[r], taken) :
          /\ obligation' = [obligation EXCEPT ![o] = MarkStale(TakeDeposit(obligation[o], r, taken))]
          /\ reserve' = [reserve EXCEPT ![r] = MarkStale(res.reserve)]
          /\ ReleaseCollateral(r, taken)
          /\ PayOut(OwnerOf[o], r, res.liquidity)
    BY <1>a
  <1>2. /\ Op /\ CanWithdraw(o, r) /\ HasSupply(reserve[r])
        /\ collateral' = collateral /\ UNCHANGED history
    BY DEF WithdrawAndRedeem
  <1>0. TypeOK /\ OwnerOf[o] \in Users
    BY PartiesAssumption DEF LendingInv
  <1> DEFINE ob == MarkStale(TakeDeposit(obligation[o], r, taken))
             d == -taken
             m == 0
             x == MarkStale(res.reserve)
  <1>3. /\ taken \in Nat /\ ObligationTo(o, ob, r, d)
        /\ reserve[r] # NoReserve /\ reserve[r] \in ReserveState /\ reserve[r].slot <= slot
        /\ reserve[r].available \in Nat /\ reserve[r].supply \in Nat
    BY <1>1, <1>2, WithdrawnObligation
  <1> HIDE DEF ob
  <1>4. /\ res.liquidity \in Nat /\ res.reserve \in ReserveState
        /\ res.reserve.available = reserve[r].available - res.liquidity
        /\ res.reserve.supply = reserve[r].supply - taken /\ res.reserve.slot = reserve[r].slot
    BY <1>1, <1>2, <1>3, RedeemType
  <1>5. /\ x \in ReserveState /\ x.available = res.reserve.available
        /\ x.supply = res.reserve.supply /\ x.slot = res.reserve.slot
    BY <1>4, MarkStaleType
  <1>6. reserve' = [reserve EXCEPT ![r] = x]
    BY <1>1
  <1> HIDE DEF x
  <1>7. /\ collateralVault' \in [Reserves -> Nat] /\ collateralVault'[r] = collateralVault[r] - taken
        /\ \A q \in Reserves \ {r} : collateralVault'[q] = collateralVault[q]
    BY <1>0, <1>1, <1>3, ReleaseMoves
  <1>8. /\ vault' \in [Reserves -> Nat] /\ vault'[r] = vault[r] - res.liquidity
        /\ \A q \in Reserves \ {r} : vault'[q] = vault[q]
        /\ liquidity' \in [Users -> [Reserves -> Nat]]
    BY <1>0, <1>1, <1>4, PayOutMoves
  <1>9. /\ collateral' \in [Users -> [Reserves -> Nat]]
        /\ \A q \in Reserves : Outside(q)' = Outside(q) /\ Outside(q) \in Nat
    BY <1>0, <1>2, CollateralKept, SumsAreNat
  <1>10. vault[r] \in Nat /\ collateralVault[r] \in Nat
    BY <1>0, TokensAreNat
  <1>11. /\ d \in Int /\ m \in Int /\ x.supply = reserve[r].supply + d + m
         /\ collateralVault[r] - taken = collateralVault[r] + d
         /\ vault'[r] - x.available >= vault[r] - reserve[r].available /\ x.slot <= slot
    BY <1>3, <1>4, <1>5, <1>8, <1>10
  <1>12. Outside(r)' = Outside(r) + m
    BY <1>9
  <1> HIDE DEF d, m
  <1>13. ReserveTo(r, x, d, m)
    BY <1>3, <1>5, <1>6, <1>11 DEF ReserveTo
  <1>14. TokensMove(r, d, m)
    BY <1>7, <1>8, <1>9, <1>11, <1>12 DEF TokensMove
  <1>15. ClockOK' /\ slot' = slot
    BY <1>0, <1>2, OpFrame
  <1> QED
    BY <1>3, <1>11, <1>13, <1>14, <1>15, BooksMove

LEMMA BorrowStep ==
  ASSUME LendingInv, NEW o \in Obligations, NEW r \in Reserves, NEW n \in Asked,
         BorrowObligationLiquidity(o, r, n)
  PROVE  LendingInv'
  <1> DEFINE y == reserve[r]
             old == obligation[o]
  <1>1. PICK res \in CalculateBorrow(y, n, old.allowedBorrowValue - old.borrowedValue, Capacity(y)) :
          /\ Floor(res.borrow) <= y.available
          /\ reserve' = [reserve EXCEPT ![r] = MarkStale(BorrowReserve(y, res.borrow))]
          /\ obligation' = [obligation EXCEPT ![o] = Drawn(old, r, y.cumulative, res.borrow)]
          /\ PayLoan(OwnerOf[o], r, res)
    BY DEF BorrowObligationLiquidity
  <1>2. /\ Op /\ y # NoReserve /\ old # NoObligation
        /\ old.allowedBorrowValue > old.borrowedValue
        /\ collateralVault' = collateralVault /\ collateral' = collateral /\ UNCHANGED history
    BY DEF BorrowObligationLiquidity, FreshReserve, FreshObligation
  <1>0. TypeOK /\ SlotsPast /\ OwnerOf[o] \in Users
    BY PartiesAssumption DEF LendingInv
  <1>3. y \in ReserveState /\ y.slot <= slot /\ old \in ObligationState /\ old.slot <= slot
    BY <1>0, <1>2, ExistingReserve, ExistingObligation
  <1>4. /\ y.available \in Nat /\ y.supply \in Nat /\ y.borrowed \in Nat /\ y.config \in Configs
        /\ y.cumulative \in Nat /\ y.cumulative > 0
        /\ old.allowedBorrowValue \in Nat /\ old.borrowedValue \in Nat
    BY <1>3, ReserveFields, ObligationFields
  <1>5. old.allowedBorrowValue - old.borrowedValue \in Nat
    BY <1>2, <1>4
  <1>6. Capacity(y) \in Nat
    <2>1. FromInt(y.config.borrowLimit) \in Nat
      BY <1>4, ConfigType, FromIntType
    <2> QED
      BY <1>4, <2>1 DEF Capacity, MaxOf
  <1>7. y.cumulative \in Nat \ {0}
    BY <1>4
  <1> DEFINE z == BorrowReserve(y, res.borrow)
             x == MarkStale(z)
             new == AddBorrow(old, r, y.cumulative, res.borrow)
             ob == MarkStale(new)
             d == 0
             m == 0
  <1>8. /\ reserve' = [reserve EXCEPT ![r] = x]
        /\ obligation' = [obligation EXCEPT ![o] = ob]
    BY <1>1 DEF Drawn
  <1> HIDE DEF y, old
  <1>9. /\ res.borrow \in Nat /\ res.receive \in Nat /\ res.fee \in Nat
        /\ res.receive + res.fee = Floor(res.borrow)
    BY <1>1, <1>3, <1>5, <1>6, BorrowType
  <1>10. /\ z \in ReserveState /\ z.available = y.available - Floor(res.borrow)
         /\ z.supply = y.supply /\ z.slot = y.slot
    BY <1>1, <1>3, <1>9, BorrowReserveType
  <1> HIDE DEF z
  <1>11. x \in ReserveState /\ x.available = z.available /\ x.supply = z.supply /\ x.slot = z.slot
    BY <1>10, MarkStaleType
  <1> HIDE DEF x
  <1>12. new \in ObligationState /\ new.deposits = old.deposits /\ new.slot = old.slot
    BY <1>3, <1>7, <1>9, AddBorrowType
  <1> HIDE DEF new
  <1>13. ob \in ObligationState /\ ob.slot = new.slot /\ ob.deposits = new.deposits
    BY <1>12, MarkObligationType
  <1> HIDE DEF ob
  <1>14. /\ vault[r] \in Nat /\ liquidity[OwnerOf[o]][r] \in Nat
         /\ collateralVault[r] \in Nat /\ AmountOf(old.deposits[r]) \in Nat
    BY <1>0, <1>3, TokensAreNat, AmountOfType
  <1> DEFINE v == vault[r] - (res.receive + res.fee)
             w == liquidity[OwnerOf[o]][r] + res.receive
  <1>15. v \in Nat /\ w \in Nat /\ v = vault[r] - Floor(res.borrow)
    BY <1>1, <1>9, <1>14 DEF PayLoan
  <1>16. vault' = [vault EXCEPT ![r] = v] /\ liquidity' = [liquidity EXCEPT ![OwnerOf[o]][r] = w]
    BY <1>1 DEF PayLoan
  <1> HIDE DEF v, w
  <1>17. /\ vault' \in [Reserves -> Nat] /\ vault'[r] = v
         /\ \A q \in Reserves \ {r} : vault'[q] = vault[q]
    BY <1>0, <1>15, <1>16, VaultSet
  <1>18. liquidity' \in [Users -> [Reserves -> Nat]]
    BY <1>0, <1>15, <1>16, LiquiditySet
  <1>19. /\ collateral' \in [Users -> [Reserves -> Nat]]
         /\ \A q \in Reserves : Outside(q)' = Outside(q) /\ Outside(q) \in Nat
    BY <1>0, <1>2, CollateralKept, SumsAreNat
  <1>20. Floor(res.borrow) \in Nat
    BY <1>9, RoundingTypes
  <1>21. /\ d \in Int /\ m \in Int /\ x.supply = y.supply + d + m /\ x.slot <= slot
         /\ vault'[r] - x.available >= vault[r] - y.available
         /\ AmountOf(ob.deposits[r]) = AmountOf(old.deposits[r]) + d
         /\ collateralVault'[r] = collateralVault[r] + d
         /\ Outside(r)' = Outside(r) + m
    BY <1>2, <1>3, <1>4, <1>10, <1>11, <1>12, <1>13, <1>14, <1>15, <1>17, <1>19, <1>20
  <1> HIDE DEF d, m
  <1>22. ReserveTo(r, x, d, m)
    BY <1>2, <1>8, <1>11, <1>21 DEF ReserveTo, y
  <1>23. ObligationTo(o, ob, r, d)
    BY <1>2, <1>3, <1>8, <1>12, <1>13, <1>21 DEF ObligationTo, old
  <1>24. TokensMove(r, d, m)
    BY <1>0, <1>2, <1>17, <1>18, <1>19, <1>21 DEF TokensMove, TypeOK
  <1>25. ClockOK' /\ slot' = slot
    BY <1>0, <1>2, OpFrame
  <1> QED
    BY <1>21, <1>22, <1>23, <1>24, <1>25, BooksMove

LEMMA RepayStep ==
  ASSUME LendingInv, NEW u \in Users, NEW o \in Obligations, NEW r \in Reserves, NEW n \in Asked,
         RepayObligationLiquidity(u, o, r, n)
  PROVE  LendingInv'
  <1> DEFINE y == Accrued(reserve[r])
             old == obligation[o]
             b == AccrueBorrow(old.borrows[r], y.cumulative)
             res == CalculateRepay(n, b.amount)
             z == RepayReserve(y, res.repay, res.settle)
             x == MarkStale(z)
             mid == [old EXCEPT !.borrows = [old.borrows EXCEPT ![r] = b]]
             new == TakeBorrow(mid, r, res.settle)
             ob == MarkStale(new)
             d == 0
             m == 0
  <1>0. TypeOK /\ SlotsPast
    BY DEF LendingInv
  <1>1. /\ Op /\ reserve[r] # NoReserve /\ CanAccrue(reserve[r])
        /\ old # NoObligation /\ old.borrows[r] # NoEntry
        /\ collateralVault' = collateralVault /\ collateral' = collateral /\ UNCHANGED history
    BY DEF RepayObligationLiquidity
  <1>2. PayIn(u, r, res.repay) /\ reserve' = [reserve EXCEPT ![r] = x]
    BY DEF RepayObligationLiquidity
  <1>3. obligation' = [obligation EXCEPT ![o] = ob]
    BY DEF RepayObligationLiquidity
  <1>4. /\ y \in ReserveState /\ y.slot = slot /\ slot \in Nat
        /\ y.available = reserve[r].available /\ y.supply = reserve[r].supply
        /\ reserve[r].available \in Nat /\ reserve[r].supply \in Nat
    BY <1>1, AccruedReserve
  <1>5. old \in ObligationState /\ old.slot <= slot
    BY <1>0, <1>1, ExistingObligation
  <1> HIDE DEF y, old
  <1>6. y.cumulative \in Nat /\ old.borrows[r] \in Borrow
    BY <1>1, <1>4, <1>5, ReserveFields, ObligationFields
  <1>7. b \in Borrow
    BY <1>6, AccrueBorrowType
  <1> HIDE DEF b
  <1>8. b.amount \in Nat /\ b # NoEntry
    BY <1>7, NoneAssumption DEF Borrow
  <1>9. res.settle \in Nat /\ res.settle <= b.amount /\ res.repay \in Nat
    BY <1>8, RepayType
  <1> HIDE DEF res
  <1>10. /\ z \in ReserveState /\ z.available = y.available + res.repay
         /\ z.supply = y.supply /\ z.slot = y.slot
    BY <1>4, <1>9, RepayReserveType
  <1> HIDE DEF z
  <1>11. x \in ReserveState /\ x.available = z.available /\ x.supply = z.supply /\ x.slot = z.slot
    BY <1>10, MarkStaleType
  <1> HIDE DEF x
  <1>12. mid \in ObligationState /\ mid.deposits = old.deposits /\ mid.borrows[r] = b
         /\ mid.slot = old.slot
    BY <1>5, <1>7, BorrowReplaced
  <1> HIDE DEF mid
  <1>13. new \in ObligationState /\ new.deposits = mid.deposits /\ new.slot = mid.slot
    BY <1>8, <1>9, <1>12, TakeBorrowType
  <1> HIDE DEF new
  <1>14. ob \in ObligationState /\ ob.slot = new.slot /\ ob.deposits = new.deposits
    BY <1>13, MarkObligationType
  <1> HIDE DEF ob
  <1>15. /\ vault' \in [Reserves -> Nat] /\ vault'[r] = vault[r] + res.repay
         /\ \A q \in Reserves \ {r} : vault'[q] = vault[q]
         /\ liquidity' \in [Users -> [Reserves -> Nat]]
    BY <1>0, <1>2, <1>9, PayInMoves
  <1>16. /\ collateral' \in [Users -> [Reserves -> Nat]]
         /\ \A q \in Reserves : Outside(q)' = Outside(q) /\ Outside(q) \in Nat
    BY <1>0, <1>1, CollateralKept, SumsAreNat
  <1>17. vault[r] \in Nat /\ collateralVault[r] \in Nat /\ AmountOf(old.deposits[r]) \in Nat
    BY <1>0, <1>5, TokensAreNat, AmountOfType
  <1>18. /\ d \in Int /\ m \in Int /\ x.supply = reserve[r].supply + d + m /\ x.slot <= slot
         /\ vault'[r] - x.available >= vault[r] - reserve[r].available
         /\ AmountOf(ob.deposits[r]) = AmountOf(old.deposits[r]) + d
         /\ collateralVault'[r] = collateralVault[r] + d
         /\ Outside(r)' = Outside(r) + m
    BY <1>1, <1>4, <1>9, <1>10, <1>11, <1>12, <1>13, <1>14, <1>15, <1>16, <1>17
  <1> HIDE DEF d, m
  <1>19. ReserveTo(r, x, d, m)
    BY <1>1, <1>2, <1>11, <1>18 DEF ReserveTo
  <1>20. ObligationTo(o, ob, r, d)
    BY <1>1, <1>3, <1>5, <1>12, <1>13, <1>14, <1>18 DEF ObligationTo, old
  <1>21. TokensMove(r, d, m)
    BY <1>0, <1>1, <1>15, <1>16, <1>18 DEF TokensMove, TypeOK
  <1>22. ClockOK' /\ slot' = slot
    BY <1>0, <1>1, OpFrame
  <1> QED
    BY <1>18, <1>19, <1>20, <1>21, <1>22, BooksMove
-----------------------------------------------------------------------------
(* Liquidations.  The reserve repaid and the one seized from may be the      *)
(* same, so the two are taken one after the other.                           *)

(* The terms of a liquidation. *)
LEMMA LiquidationTerms ==
  ASSUME LendingInv, NEW o \in Obligations, NEW rr \in Reserves, NEW wr \in Reserves,
         NEW n \in Asked, CanLiquidate(o, rr, wr), NEW res, res = Liquidation(o, rr, wr, n)
  PROVE  /\ obligation[o] # NoObligation /\ obligation[o] \in ObligationState
         /\ obligation[o].slot <= slot
         /\ reserve[rr] # NoReserve /\ reserve[rr] \in ReserveState /\ reserve[rr].slot <= slot
         /\ reserve[wr] # NoReserve /\ reserve[wr].config.bonus \in Nat
         /\ obligation[o].borrows[rr] # NoEntry /\ obligation[o].deposits[wr] # NoEntry
         /\ res.settle \in Nat /\ res.settle <= obligation[o].borrows[rr].amount
         /\ res.repay \in Nat
         /\ res.withdraw \in Nat /\ res.withdraw <= obligation[o].deposits[wr].amount
         /\ \/ IsDust(obligation[o].borrows[rr].amount) /\ res.settle = obligation[o].borrows[rr].amount
            \/ res.settle <= FromInt(res.repay)
  <1> DEFINE ob == obligation[o]
             b == ob.borrows[rr]
             d == ob.deposits[wr]
             bonus == reserve[wr].config.bonus
  <1>0. TypeOK /\ SlotsPast
    BY DEF LendingInv
  <1>1. /\ reserve[rr] # NoReserve /\ reserve[wr] # NoReserve /\ ob # NoObligation
        /\ b # NoEntry /\ b.value # 0 /\ d # NoEntry /\ d.value # 0
    BY DEF CanLiquidate, FreshReserve, FreshObligation
  <1>2. /\ reserve[rr] \in ReserveState /\ reserve[rr].slot <= slot
        /\ reserve[wr] \in ReserveState /\ ob \in ObligationState /\ ob.slot <= slot
    BY <1>0, <1>1, ExistingReserve, ExistingObligation
  <1>3. b \in Borrow /\ d \in Deposit /\ ob.borrowedValue \in Nat
    BY <1>1, <1>2, ObligationFields
  <1>4. bonus \in Nat
    BY <1>2, ReserveFields, ConfigType
  <1>5. res = CalculateLiquidation(bonus, n, ob.borrowedValue, b, d)
    BY DEF Liquidation
  <1> HIDE DEF ob, b, d, bonus
  <1>6. /\ res.settle \in Nat /\ res.settle <= b.amount /\ res.repay \in Nat
        /\ res.withdraw \in Nat /\ res.withdraw <= d.amount
        /\ (IsDust(b.amount) /\ res.settle = b.amount) \/ res.settle <= FromInt(res.repay)
    BY <1>1, <1>3, <1>4, <1>5, LiquidationType
  <1> QED
    BY <1>1, <1>2, <1>4, <1>6 DEF ob, b, d, bonus

(* The obligation, and the collateral supply account. *)
LEMMA LiquidatedObligation ==
  ASSUME LendingInv, slot' = slot, NEW u \in Users,
         NEW o \in Obligations, NEW rr \in Reserves, NEW wr \in Reserves,
         NEW n \in Asked, CanLiquidate(o, rr, wr), NEW res, res = Liquidation(o, rr, wr, n),
         LiquidateBooks(u, o, rr, wr, res)
  PROVE  /\ obligation' \in [Obligations -> ObligationState \cup {NoObligation}]
         /\ \A p \in Obligations : obligation'[p] # NoObligation => obligation'[p].slot <= slot'
         /\ collateralVault' \in [Reserves -> Nat]
         /\ collateralVault'[wr] = collateralVault[wr] - res.withdraw
         /\ \A q \in Reserves \ {wr} : collateralVault'[q] = collateralVault[q]
         /\ \A q \in Reserves : collateralVault'[q] = Pledged(q)'
  <1> DEFINE old == obligation[o]
             mid == TakeBorrow(old, rr, res.settle)
             new == TakeDeposit(mid, wr, res.withdraw)
             ob == MarkStale(new)
  <1>0. TypeOK /\ SlotsPast /\ \A q \in Reserves : Backed(q)
    BY DEF LendingInv
  <1>1. /\ old # NoObligation /\ old \in ObligationState /\ old.slot <= slot
        /\ old.borrows[rr] # NoEntry /\ old.deposits[wr] # NoEntry
        /\ res.settle \in Nat /\ res.settle <= old.borrows[rr].amount
        /\ res.withdraw \in Nat /\ res.withdraw <= old.deposits[wr].amount
    BY LiquidationTerms
  <1>2. ReleaseCollateral(wr, res.withdraw) /\ obligation' = [obligation EXCEPT ![o] = ob]
    BY DEF LiquidateBooks
  <1>3. \A q \in Reserves : DepositedIn(o, q) = AmountOf(old.deposits[q])
    BY <1>0, <1>1, ExistingObligation
  <1> HIDE DEF old
  <1>4. mid \in ObligationState /\ mid.deposits = old.deposits /\ mid.slot = old.slot
    BY <1>1, TakeBorrowType
  <1> HIDE DEF mid
  <1>5. mid.deposits[wr] # NoEntry /\ res.withdraw <= mid.deposits[wr].amount
    BY <1>1, <1>4
  <1>6. /\ new \in ObligationState /\ new.slot = mid.slot
        /\ AmountOf(new.deposits[wr]) = AmountOf(mid.deposits[wr]) - res.withdraw
        /\ \A q \in Reserves \ {wr} : new.deposits[q] = mid.deposits[q]
    BY <1>1, <1>4, <1>5, TakeDepositType
  <1> HIDE DEF new
  <1>7. ob \in ObligationState /\ ob.slot = new.slot /\ ob.deposits = new.deposits
    BY <1>6, MarkObligationType
  <1> HIDE DEF ob
  <1>8. /\ obligation' \in [Obligations -> ObligationState \cup {NoObligation}]
        /\ \A p \in Obligations : obligation'[p] # NoObligation => obligation'[p].slot <= slot'
        /\ \A q \in Reserves :
             Pledged(q)' = Pledged(q) + (AmountOf(ob.deposits[q]) - DepositedIn(o, q))
    <2>1. ob.slot <= slot
      BY <1>1, <1>4, <1>6, <1>7
    <2> QED
      BY <1>0, <1>2, <1>7, <2>1, ObligationSet
  <1>9. /\ collateralVault' \in [Reserves -> Nat]
        /\ collateralVault'[wr] = collateralVault[wr] - res.withdraw
        /\ \A q \in Reserves \ {wr} : collateralVault'[q] = collateralVault[q]
    BY <1>0, <1>1, <1>2, ReleaseMoves
  <1>10. \A q \in Reserves : Pledged(q) \in Nat /\ AmountOf(old.deposits[q]) \in Nat
    BY <1>0, <1>1, SumsAreNat, AmountOfType
  <1>11. \A q \in Reserves : collateralVault[q] = Pledged(q)
    BY <1>0 DEF Backed
  <1>12. collateralVault'[wr] = Pledged(wr)'
    <2>1. AmountOf(ob.deposits[wr]) = AmountOf(old.deposits[wr]) - res.withdraw
      BY <1>4, <1>6, <1>7
    <2>2. Pledged(wr)' = Pledged(wr) + ((AmountOf(old.deposits[wr]) - res.withdraw)
                                         - AmountOf(old.deposits[wr]))
      BY <1>3, <1>8, <2>1
    <2>3. Pledged(wr) + ((AmountOf(old.deposits[wr]) - res.withdraw)
                           - AmountOf(old.deposits[wr])) = Pledged(wr) - res.withdraw
      BY <1>1, <1>10
    <2> QED
      BY <1>9, <1>11, <2>2, <2>3
  <1>13. ASSUME NEW q \in Reserves \ {wr} PROVE collateralVault'[q] = Pledged(q)'
    <2>1. AmountOf(ob.deposits[q]) = AmountOf(old.deposits[q])
      BY <1>4, <1>6, <1>7
    <2>2. Pledged(q)' = Pledged(q) + (AmountOf(old.deposits[q]) - AmountOf(old.deposits[q]))
      BY <1>3, <1>8, <2>1
    <2>3. Pledged(q) + (AmountOf(old.deposits[q]) - AmountOf(old.deposits[q])) = Pledged(q)
      BY <1>10
    <2> QED
      BY <1>9, <1>11, <2>2, <2>3
  <1> QED
    BY <1>8, <1>9, <1>12, <1>13

(* The reserve repaid, and its liquidity supply account. *)
Settled(o, rr, res, repaid, paid) ==
  /\ repaid = Liquidated(o, rr, res)
  /\ paid = [vault EXCEPT ![rr] = @ + res.repay]

LEMMA LiquidatedReserves ==
  ASSUME LendingInv, NEW o \in Obligations, NEW rr \in Reserves, NEW wr \in Reserves,
         NEW n \in Asked, CanLiquidate(o, rr, wr), NEW res, res = Liquidation(o, rr, wr, n),
         NEW repaid, NEW paid, Settled(o, rr, res, repaid, paid)
  PROVE  /\ repaid \in [Reserves -> ReserveState \cup {NoReserve}]
         /\ paid \in [Reserves -> Nat]
         /\ \A q \in Reserves : reserve[q] = NoReserve => repaid[q] = NoReserve
         /\ \A q \in Reserves : reserve[q] # NoReserve =>
              /\ repaid[q] # NoReserve /\ repaid[q] \in ReserveState /\ repaid[q].slot <= slot
              /\ repaid[q].supply = reserve[q].supply
              /\ paid[q] >= repaid[q].available
  <1> DEFINE old == reserve[rr]
             repay == res.repay
             settle == res.settle
             y == RepayReserve(old, repay, settle)
             x == MarkStale(y)
             v == vault[rr] + repay
  <1>0. /\ TypeOK /\ SlotsPast /\ \A q \in Reserves : Backed(q)
        /\ vault \in [Reserves -> Nat]
        /\ reserve \in [Reserves -> ReserveState \cup {NoReserve}]
    BY DEF LendingInv, TypeOK
  <1>1. /\ reserve[rr] # NoReserve /\ old \in ReserveState /\ old.slot <= slot
        /\ settle \in Nat /\ repay \in Nat
    BY LiquidationTerms
  <1>2. repaid = [reserve EXCEPT ![rr] = x] /\ paid = [vault EXCEPT ![rr] = v]
    BY DEF Settled, Liquidated
  <1>3. v \in Nat /\ vault[rr] \in Nat /\ old.available \in Nat
    BY <1>0, <1>1, TokensAreNat, ReserveFields
  <1>4. \A q \in Reserves : reserve[q] # NoReserve =>
          /\ reserve[q] \in ReserveState /\ reserve[q].slot <= slot
          /\ vault[q] >= reserve[q].available
    BY <1>0, ExistingReserve DEF Backed, Lendable
  <1>5. vault[rr] >= old.available
    BY <1>1, <1>4
  <1> HIDE DEF old, repay, settle
  <1>6. /\ y \in ReserveState /\ y.available = old.available + repay
        /\ y.supply = old.supply /\ y.slot = old.slot
    BY <1>1, RepayReserveType
  <1> HIDE DEF y
  <1>7. x \in ReserveState /\ x.available = y.available /\ x.supply = y.supply /\ x.slot = y.slot
    BY <1>6, MarkStaleType
  <1>8. x # NoReserve
    BY <1>7, NoneAssumption
  <1>9. v >= x.available
    BY <1>1, <1>3, <1>5, <1>6, <1>7
  <1> HIDE DEF x, v
  <1>10. /\ repaid[rr] = x /\ paid[rr] = v
         /\ \A q \in Reserves \ {rr} : repaid[q] = reserve[q] /\ paid[q] = vault[q]
    BY <1>0, <1>2
  <1>11. /\ repaid \in [Reserves -> ReserveState \cup {NoReserve}] /\ paid \in [Reserves -> Nat]
    BY <1>0, <1>2, <1>3, <1>7
  <1>12. ASSUME NEW q \in Reserves, reserve[q] # NoReserve
         PROVE  /\ repaid[q] # NoReserve /\ repaid[q] \in ReserveState /\ repaid[q].slot <= slot
                /\ repaid[q].supply = reserve[q].supply /\ paid[q] >= repaid[q].available
    <2>1. CASE q = rr
      BY <1>1, <1>6, <1>7, <1>8, <1>9, <1>10, <2>1 DEF old
    <2>2. CASE q # rr
      BY <1>4, <1>10, <1>12, <2>2
    <2> QED
      BY <2>1, <2>2
  <1>13. \A q \in Reserves : reserve[q] = NoReserve => repaid[q] = NoReserve
    BY <1>1, <1>10
  <1> QED
    BY <1>11, <1>12, <1>13

LEMMA LiquidateStep ==
  ASSUME LendingInv, NEW u \in Users, NEW o \in Obligations,
         NEW rr \in Reserves, NEW wr \in Reserves, NEW n \in Asked,
         LiquidateObligation(u, o, rr, wr, n)
  PROVE  LendingInv'
  <1> DEFINE res == Liquidation(o, rr, wr, n)
             repaid == Liquidated(o, rr, res)
             paid == [vault EXCEPT ![rr] = @ + res.repay]
  <1>0. TypeOK /\ SlotsPast /\ \A q \in Reserves : Backed(q)
    BY DEF LendingInv
  <1>1. /\ Op /\ CanLiquidate(o, rr, wr) /\ LiquidateBooks(u, o, rr, wr, res)
        /\ reserve' = Liquidated(o, rr, res) /\ PayIn(u, rr, res.repay)
        /\ MintTo(u, wr, res.withdraw) /\ UNCHANGED history
    BY DEF LiquidateObligation, MintTo
  <1>2. /\ res = Liquidation(o, rr, wr, n) /\ Settled(o, rr, res, repaid, paid)
        /\ reserve' = repaid /\ vault' = paid
    BY <1>1 DEF PayIn, Settled
  <1> HIDE DEF res, repaid, paid
  <1>3. res.repay \in Nat /\ res.withdraw \in Nat
    BY <1>1, <1>2, LiquidationTerms
  <1>4. ClockOK' /\ slot' = slot
    BY <1>0, <1>1, OpFrame
  <1>5. /\ obligation' \in [Obligations -> ObligationState \cup {NoObligation}]
        /\ \A p \in Obligations : obligation'[p] # NoObligation => obligation'[p].slot <= slot'
        /\ collateralVault' \in [Reserves -> Nat]
        /\ collateralVault'[wr] = collateralVault[wr] - res.withdraw
        /\ \A q \in Reserves \ {wr} : collateralVault'[q] = collateralVault[q]
        /\ \A q \in Reserves : collateralVault'[q] = Pledged(q)'
    BY <1>1, <1>2, <1>4, LiquidatedObligation
  <1>6. /\ reserve' \in [Reserves -> ReserveState \cup {NoReserve}]
        /\ vault' \in [Reserves -> Nat]
        /\ \A q \in Reserves : reserve[q] = NoReserve => reserve'[q] = NoReserve
        /\ \A q \in Reserves : reserve[q] # NoReserve =>
             /\ reserve'[q] # NoReserve /\ reserve'[q] \in ReserveState /\ reserve'[q].slot <= slot
             /\ reserve'[q].supply = reserve[q].supply
             /\ vault'[q] >= reserve'[q].available
    <2>1. /\ repaid \in [Reserves -> ReserveState \cup {NoReserve}]
          /\ paid \in [Reserves -> Nat]
          /\ \A q \in Reserves : reserve[q] = NoReserve => repaid[q] = NoReserve
          /\ \A q \in Reserves : reserve[q] # NoReserve =>
               /\ repaid[q] # NoReserve /\ repaid[q] \in ReserveState /\ repaid[q].slot <= slot
               /\ repaid[q].supply = reserve[q].supply
               /\ paid[q] >= repaid[q].available
      BY <1>1, <1>2, LiquidatedReserves
    <2> QED
      BY <1>2, <2>1
  <1>7. /\ collateral' \in [Users -> [Reserves -> Nat]]
        /\ Outside(wr)' = Outside(wr) + res.withdraw
        /\ \A q \in Reserves \ {wr} : Outside(q)' = Outside(q)
    BY <1>0, <1>1, <1>3, MintToMoves
  <1>8. liquidity' \in [Users -> [Reserves -> Nat]]
    BY <1>0, <1>1, <1>3, PayInMoves
  <1>9. TypeOK'
    BY <1>4, <1>5, <1>6, <1>7, <1>8 DEF TypeOK
  <1>10. SlotsPast'
    BY <1>4, <1>5, <1>6 DEF SlotsPast
  <1>11. \A q \in Reserves : vault'[q] >= Lendable(q)' /\ Supply(q)' = Supply(q)
    BY <1>6 DEF Lendable, Supply
  <1>12. \A q \in Reserves : Supply(q)' = collateralVault'[q] + Outside(q)'
    <2>1. Supply(wr) = (collateralVault[wr] - res.withdraw) + (Outside(wr) + res.withdraw)
      BY <1>0, <1>3, TokensAreNat, SumsAreNat DEF Backed
    <2>2. \A q \in Reserves : Supply(q) = collateralVault[q] + Outside(q)
      BY <1>0 DEF Backed
    <2>3. Supply(wr)' = collateralVault'[wr] + Outside(wr)'
      BY <1>5, <1>7, <1>11, <2>1
    <2>4. \A q \in Reserves \ {wr} : Supply(q)' = collateralVault'[q] + Outside(q)'
      BY <1>5, <1>7, <1>11, <2>2
    <2> QED
      BY <2>3, <2>4
  <1>13. \A q \in Reserves : Backed(q)'
    BY <1>5, <1>11, <1>12 DEF Backed
  <1> QED
    BY <1>9, <1>10, <1>13 DEF LendingInv

LEMMA LiquidateRedeemStep ==
  ASSUME LendingInv, NEW u \in Users, NEW o \in Obligations,
         NEW rr \in Reserves, NEW wr \in Reserves, NEW n \in Asked,
         LiquidateAndRedeem(u, o, rr, wr, n)
  PROVE  LendingInv'
  <1> DEFINE res == Liquidation(o, rr, wr, n)
             repaid == Liquidated(o, rr, res)
             paid == [vault EXCEPT ![rr] = @ + res.repay]
             spent == [liquidity[u] EXCEPT ![rr] = @ - res.repay]
             bonus == reserve[wr].config.bonus
             y == Accrued(repaid[wr])
  <1>0. TypeOK /\ SlotsPast /\ (\A q \in Reserves : Backed(q)) /\ slot \in Nat
    BY DEF LendingInv, TypeOK, ClockOK
  <1>1. /\ Op /\ CanLiquidate(o, rr, wr) /\ LiquidateBooks(u, o, rr, wr, res)
        /\ HasSupply(repaid[wr]) /\ collateral' = collateral /\ UNCHANGED history
    BY DEF LiquidateAndRedeem
  <1>2. PICK out \in RedeemCollateral(y, res.withdraw) :
          LET fee == ProtocolLiquidationFee(bonus, out.liquidity) IN
          /\ out.liquidity <= paid[wr]
          /\ fee <= spent[wr] + out.liquidity
          /\ reserve' = [repaid EXCEPT ![wr] = MarkStale(out.reserve)]
          /\ vault' = [paid EXCEPT ![wr] = @ - out.liquidity]
          /\ liquidity' = [liquidity EXCEPT ![u] = [spent EXCEPT ![wr] = @ + out.liquidity - fee]]
    BY DEF LiquidateAndRedeem
  <1> DEFINE fee == ProtocolLiquidationFee(bonus, out.liquidity)
             x == MarkStale(out.reserve)
             v == paid[wr] - out.liquidity
             w == spent[wr] + out.liquidity - fee
  <1>3. /\ out.liquidity <= paid[wr] /\ fee <= spent[wr] + out.liquidity
        /\ reserve' = [repaid EXCEPT ![wr] = x] /\ vault' = [paid EXCEPT ![wr] = v]
        /\ liquidity' = [liquidity EXCEPT ![u] = [spent EXCEPT ![wr] = w]]
        /\ res = Liquidation(o, rr, wr, n) /\ Settled(o, rr, res, repaid, paid)
    BY <1>2 DEF Settled
  <1>4. res.repay <= liquidity[u][rr]
    BY <1>1 DEF LiquidateBooks
  <1>5. spent = [liquidity[u] EXCEPT ![rr] = liquidity[u][rr] - res.repay]
    OBVIOUS
  <1> HIDE DEF res, repaid, paid, spent
  <1>6. /\ res.repay \in Nat /\ res.withdraw \in Nat /\ bonus \in Nat /\ reserve[wr] # NoReserve
    BY <1>1, <1>3, LiquidationTerms
  <1> HIDE DEF bonus
  <1>7. ClockOK' /\ slot' = slot
    BY <1>0, <1>1, OpFrame
  <1>8. /\ obligation' \in [Obligations -> ObligationState \cup {NoObligation}]
        /\ \A p \in Obligations : obligation'[p] # NoObligation => obligation'[p].slot <= slot'
        /\ collateralVault' \in [Reserves -> Nat]
        /\ collateralVault'[wr] = collateralVault[wr] - res.withdraw
        /\ \A q \in Reserves \ {wr} : collateralVault'[q] = collateralVault[q]
        /\ \A q \in Reserves : collateralVault'[q] = Pledged(q)'
    BY <1>1, <1>3, <1>7, LiquidatedObligation
  <1>9. /\ repaid \in [Reserves -> ReserveState \cup {NoReserve}]
        /\ paid \in [Reserves -> Nat]
        /\ \A q \in Reserves : reserve[q] = NoReserve => repaid[q] = NoReserve
        /\ \A q \in Reserves : reserve[q] # NoReserve =>
             /\ repaid[q] # NoReserve /\ repaid[q] \in ReserveState /\ repaid[q].slot <= slot
             /\ repaid[q].supply = reserve[q].supply
             /\ paid[q] >= repaid[q].available
    BY <1>1, <1>3, LiquidatedReserves
  <1>10. /\ repaid[wr] \in ReserveState /\ repaid[wr].slot <= slot
         /\ repaid[wr].supply = reserve[wr].supply /\ paid[wr] >= repaid[wr].available
         /\ paid[wr] \in Nat
    BY <1>6, <1>9
  <1>11. /\ y \in ReserveState /\ y.slot = slot /\ HasSupply(y)
         /\ y.available = repaid[wr].available /\ y.supply = repaid[wr].supply
    BY <1>0, <1>1, <1>10, AccruedType
  <1>12. out \in RedeemCollateral(y, res.withdraw)
    BY <1>2
  <1> HIDE DEF y
  <1>13. /\ out.liquidity \in Nat /\ out.reserve \in ReserveState
         /\ out.reserve.available = y.available - out.liquidity
         /\ out.reserve.supply = y.supply - res.withdraw /\ out.reserve.slot = y.slot
    BY <1>6, <1>11, <1>12, RedeemType
  <1>14. /\ x \in ReserveState /\ x.available = out.reserve.available
         /\ x.supply = out.reserve.supply /\ x.slot = out.reserve.slot
    BY <1>13, MarkStaleType
  <1>15. x # NoReserve
    BY <1>14, NoneAssumption
  <1> HIDE DEF x
  <1>16. fee \in Nat
    BY <1>6, <1>13, ProtocolFeeType
  <1> HIDE DEF fee
  <1>17. repaid[wr].available \in Nat /\ reserve[wr].supply \in Nat
    BY <1>10, ReserveFields
  <1>18. v \in Nat /\ v >= x.available
    BY <1>3, <1>10, <1>11, <1>13, <1>14, <1>17
  <1> HIDE DEF v
  <1>19. liquidity' \in [Users -> [Reserves -> Nat]]
    <2>1. liquidity \in [Users -> [Reserves -> Nat]]
      BY <1>0 DEF TypeOK
    <2>2. liquidity[u][rr] - res.repay \in Nat /\ liquidity[u] \in [Reserves -> Nat]
      BY <1>4, <1>6, <2>1
    <2>3. spent \in [Reserves -> Nat]
      BY <1>5, <2>2
    <2>4. w \in Nat
      BY <1>3, <1>13, <1>16, <2>3
    <2> HIDE DEF w
    <2>5. [spent EXCEPT ![wr] = w] \in [Reserves -> Nat]
      BY <2>3, <2>4
    <2> QED
      BY <1>3, <2>1, <2>5
  <1>20. /\ reserve' \in [Reserves -> ReserveState \cup {NoReserve}] /\ vault' \in [Reserves -> Nat]
         /\ reserve'[wr] = x /\ vault'[wr] = v
         /\ \A q \in Reserves \ {wr} : reserve'[q] = repaid[q] /\ vault'[q] = paid[q]
    BY <1>3, <1>9, <1>14, <1>18
  <1>21. /\ collateral' \in [Users -> [Reserves -> Nat]]
         /\ \A q \in Reserves : Outside(q)' = Outside(q) /\ Outside(q) \in Nat
    BY <1>0, <1>1, CollateralKept, SumsAreNat
  <1>22. TypeOK'
    BY <1>7, <1>8, <1>19, <1>20, <1>21 DEF TypeOK
  <1>23. SlotsPast'
    <2>1. x.slot <= slot
      BY <1>0, <1>11, <1>13, <1>14
    <2>2. \A q \in Reserves : reserve'[q] # NoReserve => reserve'[q].slot <= slot
      BY <1>9, <1>20, <2>1
    <2> QED
      BY <1>7, <1>8, <2>2 DEF SlotsPast
  <1>24. vault'[wr] >= Lendable(wr)' /\ Supply(wr)' = reserve[wr].supply - res.withdraw
    BY <1>10, <1>11, <1>13, <1>14, <1>15, <1>18, <1>20 DEF Lendable, Supply
  <1>25. \A q \in Reserves \ {wr} : vault'[q] >= Lendable(q)' /\ Supply(q)' = Supply(q)
    <2>1. \A q \in Reserves : vault'[q] >= 0
      BY <1>20
    <2> QED
      BY <1>9, <1>20, <2>1 DEF Lendable, Supply
  <1>26. Supply(wr)' = collateralVault'[wr] + Outside(wr)'
    <2>1. reserve[wr].supply = collateralVault[wr] + Outside(wr) /\ collateralVault[wr] \in Nat
      BY <1>0, <1>6, TokensAreNat DEF Backed, Supply
    <2>2. reserve[wr].supply - res.withdraw = (collateralVault[wr] - res.withdraw) + Outside(wr)
      BY <1>6, <1>21, <2>1
    <2> QED
      BY <1>8, <1>21, <1>24, <2>2
  <1>27. \A q \in Reserves \ {wr} : Supply(q)' = collateralVault'[q] + Outside(q)'
    <2>1. \A q \in Reserves : Supply(q) = collateralVault[q] + Outside(q)
      BY <1>0 DEF Backed
    <2> QED
      BY <1>8, <1>21, <1>25, <2>1
  <1>28. \A q \in Reserves : Backed(q)'
    BY <1>8, <1>24, <1>25, <1>26, <1>27 DEF Backed
  <1> QED
    BY <1>22, <1>23, <1>28 DEF LendingInv
-----------------------------------------------------------------------------
(* Time and prices. *)

LEMMA AdvanceSlotStep ==
  ASSUME LendingInv, AdvanceSlot
  PROVE  LendingInv'
  <1>0. TypeOK /\ SlotsPast /\ \A q \in Reserves : Backed(q)
    BY DEF LendingInv
  <1>1. /\ slot' = slot + 1 /\ vault' = vault /\ collateralVault' = collateralVault
        /\ liquidity' = liquidity /\ collateral' = collateral
        /\ UNCHANGED <<oracle, reserve, obligation, ops, events, priced, seen>>
    BY DEF AdvanceSlot, tokenVars, history
  <1>2. TypeOK'
    BY <1>0, <1>1 DEF TypeOK, ClockOK
  <1>3. SlotsPast'
    <2>1. slot \in Nat
      BY <1>0 DEF TypeOK, ClockOK
    <2>2. \A q \in Reserves : reserve[q] # NoReserve => reserve[q].slot \in Nat
      BY <1>0, ExistingReserve, ReserveFields
    <2>3. \A p \in Obligations : obligation[p] # NoObligation => obligation[p].slot \in Nat
      BY <1>0, ExistingObligation, ObligationFields
    <2> QED
      BY <1>0, <1>1, <2>1, <2>2, <2>3 DEF SlotsPast
  <1>4. \A q \in Reserves : Backed(q)'
    BY <1>0, <1>1 DEF Backed, Lendable, Supply, Pledged, Outside, DepositedIn
  <1> QED
    BY <1>2, <1>3, <1>4 DEF LendingInv

LEMMA MoveOracleStep ==
  ASSUME LendingInv, NEW r \in Reserves, MoveOracle(r)
  PROVE  LendingInv'
  <1>0. TypeOK /\ SlotsPast /\ \A q \in Reserves : Backed(q)
    BY DEF LendingInv
  <1>1. PICK feed \in Feeds :
          /\ events' = events \/ (events > 0 /\ events' = events - 1)
          /\ oracle' = [oracle EXCEPT ![r] = feed]
    BY DEF MoveOracle
  <1>2. /\ slot' = slot /\ vault' = vault /\ collateralVault' = collateralVault
        /\ liquidity' = liquidity /\ collateral' = collateral
        /\ UNCHANGED <<reserve, obligation, ops, priced, seen>>
    BY DEF MoveOracle, tokenVars, history
  <1>3. TypeOK'
    BY <1>0, <1>1, <1>2 DEF TypeOK, ClockOK
  <1>4. SlotsPast'
    BY <1>0, <1>2 DEF SlotsPast
  <1>5. \A q \in Reserves : Backed(q)'
    BY <1>0, <1>2 DEF Backed, Lendable, Supply, Pledged, Outside, DepositedIn
  <1> QED
    BY <1>3, <1>4, <1>5 DEF LendingInv

LEMMA NothingMoves ==
  ASSUME LendingInv, UNCHANGED vars
  PROVE  LendingInv'
  <1>1. /\ slot' = slot /\ vault' = vault /\ collateralVault' = collateralVault
        /\ liquidity' = liquidity /\ collateral' = collateral
        /\ UNCHANGED <<oracle, reserve, obligation, ops, events, priced, seen>>
    BY DEF vars, tokenVars, history
  <1> QED
    BY <1>1 DEF LendingInv, TypeOK, ClockOK, SlotsPast, Backed, Lendable, Supply, Pledged, Outside,
                DepositedIn
-----------------------------------------------------------------------------
LEMMA LendingInit == Init => LendingInv
  <1> SUFFICES ASSUME Init PROVE LendingInv
    OBVIOUS
  <1> USE DEF Init
  <1>1. TypeOK
    BY PartiesAssumption, BoundsAssumption, FeedsAssumption DEF TypeOK, ClockOK
  <1>2. SlotsPast
    BY DEF SlotsPast
  <1>3. ASSUME NEW r \in Reserves PROVE Backed(r)
    <2> DEFINE e == [o \in Obligations |-> DepositedIn(o, r)]
               f == [u \in Users |-> collateral[u][r]]
    <2>1. e \in [Obligations -> Nat] /\ \A o \in Obligations : e[o] = 0
      BY DEF DepositedIn
    <2>2. f \in [Users -> Nat] /\ \A u \in Users : f[u] = 0
      OBVIOUS
    <2>3. Pledged(r) = SumFunction(e) /\ Outside(r) = SumFunction(f)
      BY DEF Pledged, Outside
    <2> HIDE DEF e, f
    <2>4. SumFunction(e) = 0 /\ SumFunction(f) = 0
      BY <2>1, <2>2, PartiesAssumption, SumOfZeros
    <2> QED
      BY <2>3, <2>4 DEF Backed, Lendable, Supply
  <1> QED
    BY <1>1, <1>2, <1>3 DEF LendingInv

LEMMA LendingStep == LendingInv /\ [Next]_vars => LendingInv'
  <1> SUFFICES ASSUME LendingInv, [Next]_vars PROVE LendingInv'
    OBVIOUS
  <1>1. ASSUME NEW r \in Reserves, ReserveStep(r) PROVE LendingInv'
    <2>1. ASSUME NEW u \in Users, NEW n \in Asked, FlashLoan(u, r, n) PROVE LendingInv'
      BY <2>1, FlashLoanStep
    <2>2. ASSUME NEW u \in Users, NEW n \in Amounts,
                 DepositReserveLiquidity(u, r, n) \/ RedeemReserveCollateral(u, r, n)
          PROVE  LendingInv'
      BY <2>2, DepositReserveStep, RedeemReserveStep
    <2> QED
      BY <1>1, <2>1, <2>2, RefreshReserveStep, RedeemFeesStep, UpdateConfigStep, MoveOracleStep,
         InitReserveStep DEF ReserveStep
  <1>2. ASSUME NEW o \in Obligations, ObligationStep(o) PROVE LendingInv'
    <2>1. ASSUME NEW r \in Reserves, NEW n \in Amounts,
                 DepositObligationCollateral(o, r, n) \/ DepositLiquidityAndCollateral(o, r, n)
          PROVE  LendingInv'
      BY <2>1, DepositCollateralStep, DepositBothStep
    <2>2. ASSUME NEW r \in Reserves, NEW n \in Asked,
                 WithdrawObligationCollateral(o, r, n) \/ BorrowObligationLiquidity(o, r, n)
          PROVE  LendingInv'
      BY <2>2, WithdrawStep, BorrowStep
    <2>3. ASSUME NEW r \in Reserves, NEW n \in Asked \cup {0}, WithdrawAndRedeem(o, r, n)
          PROVE  LendingInv'
      BY <2>3, WithdrawRedeemStep
    <2> QED
      BY <1>2, <2>1, <2>2, <2>3, InitObligationStep, RefreshObligationStep DEF ObligationStep
  <1>3. ASSUME NEW u \in Users, NEW o \in Obligations, AnyoneStep(u, o) PROVE LendingInv'
    <2>1. PICK r \in Reserves, n \in Asked :
            \/ RepayObligationLiquidity(u, o, r, n)
            \/ \E wr \in Reserves : \/ LiquidateObligation(u, o, r, wr, n)
                                     \/ LiquidateAndRedeem(u, o, r, wr, n)
      BY <1>3 DEF AnyoneStep
    <2> QED
      BY <2>1, RepayStep, LiquidateStep, LiquidateRedeemStep
  <1> QED
    BY <1>1, <1>2, <1>3, AdvanceSlotStep, NothingMoves DEF Next

(* Custody, in every market and for as long as it runs: the tokens in the    *)
(* liquidity supply account cover what the books of the reserve call         *)
(* available, the collateral supply account holds what the obligations have  *)
(* deposited, and the supply that the exchange rate is computed from is what *)
(* has been minted (the transfers, mints and burns of processor.rs against   *)
(* the books of reserve.rs and obligation.rs).                               *)
THEOREM CustodyHolds == Spec => []Custody
  <1>1. LendingInv => Custody
    BY DEF LendingInv, Backed, Lendable, Supply, Pledged, Outside, Custody, VaultBacksBooks,
           CollateralBacked
  <1> QED
    BY <1>1, LendingInit, LendingStep, PTL DEF Spec
-----------------------------------------------------------------------------
(* What passes for fresh.  A step within a slot reads a price, or leaves a   *)
(* reserve it changes as stale as it finds it, or marks it; and it marks     *)
(* every obligation it changes but the one it values.                        *)

ReservesMarked ==
  \A r \in Reserves : reserve'[r] # NoReserve =>
    \/ reserve'[r].stale = TRUE
    \/ priced'[r] = slot
    \/ /\ reserve[r] # NoReserve
       /\ reserve'[r].slot = reserve[r].slot /\ reserve'[r].stale = reserve[r].stale

(* Obligation o is valued with its reserves as they are, each of them fresh. *)
Revalued(o) ==
  /\ reserve' = reserve
  /\ obligation'[o].deposits = seen'[o].deposits
  /\ obligation'[o].borrows = seen'[o].borrows
  /\ seen'[o].terms = Terms
  /\ \A r \in Held(obligation'[o].deposits) \cup Held(obligation'[o].borrows) : FreshReserve(r)
  /\ obligation'[o].depositedValue # 0 => Held(obligation'[o].deposits) # {}
  /\ \A r \in Held(obligation'[o].borrows) :
       obligation'[o].borrows[r].cumulative >= reserve[r].cumulative

ObligationsMarked ==
  \A o \in Obligations : obligation'[o] # NoObligation =>
    \/ obligation'[o].stale = TRUE
    \/ obligation'[o] = obligation[o] /\ seen'[o] = seen[o]
    \/ Revalued(o)

WithinSlot ==
  /\ slot' = slot
  /\ \A r \in Reserves : priced'[r] = priced[r] \/ priced'[r] = slot
  /\ ReservesMarked /\ ObligationsMarked

(* To mark a record stale it has to have that field. *)
LEMMA MarkedIsStale ==
  ASSUME NEW x, NEW S, S \in {ReserveState, ObligationState}, MarkStale(x) \in S
  PROVE  MarkStale(x).stale = TRUE
  BY DEF MarkStale, ReserveState, ObligationState

LEMMA ReserveMarked ==
  ASSUME TypeOK, TypeOK', NEW r \in Reserves, NEW x, reserve' = [reserve EXCEPT ![r] = MarkStale(x)]
  PROVE  ReservesMarked
  <1> DEFINE y == MarkStale(x)
  <1>1. /\ reserve \in [Reserves -> ReserveState \cup {NoReserve}]
        /\ reserve' \in [Reserves -> ReserveState \cup {NoReserve}]
    BY DEF TypeOK
  <1>2. y \in ReserveState => y.stale = TRUE
    BY MarkedIsStale
  <1>3. reserve' = [reserve EXCEPT ![r] = y]
    OBVIOUS
  <1> HIDE DEF y
  <1>4. reserve'[r] = y /\ \A q \in Reserves \ {r} : reserve'[q] = reserve[q]
    BY <1>1, <1>3
  <1> QED
    BY <1>1, <1>2, <1>4 DEF ReservesMarked

LEMMA ObligationMarked ==
  ASSUME TypeOK, TypeOK', NEW o \in Obligations, NEW x, seen' = seen,
         obligation' = [obligation EXCEPT ![o] = MarkStale(x)]
  PROVE  ObligationsMarked
  <1> DEFINE y == MarkStale(x)
  <1>1. /\ obligation \in [Obligations -> ObligationState \cup {NoObligation}]
        /\ obligation' \in [Obligations -> ObligationState \cup {NoObligation}]
    BY DEF TypeOK
  <1>2. y \in ObligationState => y.stale = TRUE
    BY MarkedIsStale
  <1>3. obligation' = [obligation EXCEPT ![o] = y]
    OBVIOUS
  <1> HIDE DEF y
  <1>4. obligation'[o] = y /\ \A p \in Obligations \ {o} : obligation'[p] = obligation[p]
    BY <1>1, <1>3
  <1> QED
    BY <1>1, <1>2, <1>4 DEF ObligationsMarked

LEMMA ReservesUnmarked ==
  ASSUME reserve' = reserve
  PROVE  ReservesMarked
  BY DEF ReservesMarked

LEMMA ObligationsUnmarked ==
  ASSUME obligation' = obligation, seen' = seen
  PROVE  ObligationsMarked
  BY DEF ObligationsMarked

LEMMA OpWithinSlot ==
  ASSUME Op, UNCHANGED history, ReservesMarked, ObligationsMarked
  PROVE  WithinSlot
  BY DEF Op, history, WithinSlot

(* A step that reads the price of the one reserve it changes. *)
LEMMA PriceRead ==
  ASSUME TypeOK, NEW r \in Reserves, NEW x, reserve' = [reserve EXCEPT ![r] = x],
         priced' = [priced EXCEPT ![r] = slot], UNCHANGED <<slot, obligation, seen>>
  PROVE  WithinSlot
  <1>1. /\ reserve \in [Reserves -> ReserveState \cup {NoReserve}]
        /\ priced \in [Reserves -> Nat]
    BY DEF TypeOK, ClockOK
  <1>2. /\ priced'[r] = slot
        /\ \A q \in Reserves \ {r} : reserve'[q] = reserve[q] /\ priced'[q] = priced[q]
    BY <1>1
  <1>3. ReservesMarked
    BY <1>2 DEF ReservesMarked
  <1>4. ObligationsMarked
    BY ObligationsUnmarked
  <1> QED
    BY <1>2, <1>3, <1>4 DEF WithinSlot

LEMMA ReserveStepMarks ==
  ASSUME LendingInv, LendingInv', NEW r \in Reserves, ReserveStep(r)
  PROVE  WithinSlot
  <1>0. TypeOK /\ TypeOK' /\ SlotsPast
    BY DEF LendingInv
  <1>1. ASSUME RefreshReserve(r) PROVE WithinSlot
    BY <1>0, <1>1, PriceRead DEF RefreshReserve
  <1>2. ASSUME NEW u \in Users, InitReserve(u, r) PROVE WithinSlot
    <2>1. PICK n \in Amounts : reserve' = [reserve EXCEPT ![r] = DepositLiquidity(NewReserve(r), n)]
      BY <1>2 DEF InitReserve
    <2> QED
      BY <1>0, <1>2, <2>1, PriceRead DEF InitReserve
  <1>3. ASSUME RedeemFees(r) PROVE WithinSlot
    <2>1. Op /\ UNCHANGED history /\ obligation' = obligation /\ seen' = seen
      BY <1>3 DEF RedeemFees, history
    <2>2. ReservesMarked
      BY <1>0, <1>3, ReserveMarked DEF RedeemFees
    <2> QED
      BY <2>1, <2>2, ObligationsUnmarked, OpWithinSlot
  <1>4. ASSUME UpdateReserveConfig(r) PROVE WithinSlot
    <2>1. PICK c \in Configs : reserve' = [reserve EXCEPT ![r].config = c]
      BY <1>4 DEF UpdateReserveConfig
    <2>2. /\ reserve[r] # NoReserve /\ slot' = slot /\ obligation' = obligation
          /\ seen' = seen /\ priced' = priced
      BY <1>4 DEF UpdateReserveConfig, history
    <2>3. reserve[r] \in ReserveState /\ reserve \in [Reserves -> ReserveState \cup {NoReserve}]
      BY <1>0, <2>2, ExistingReserve DEF TypeOK
    <2>4. /\ reserve'[r].slot = reserve[r].slot /\ reserve'[r].stale = reserve[r].stale
          /\ \A q \in Reserves \ {r} : reserve'[q] = reserve[q]
      BY <2>1, <2>3 DEF ReserveState
    <2>5. ReservesMarked
      BY <2>2, <2>4 DEF ReservesMarked
    <2> QED
      BY <2>2, <2>5, ObligationsUnmarked DEF WithinSlot
  <1>5. ASSUME MoveOracle(r) PROVE WithinSlot
    BY <1>5, ReservesUnmarked, ObligationsUnmarked DEF MoveOracle, history, WithinSlot
  <1>6. ASSUME NEW u \in Users, NEW n \in Amounts, DepositReserveLiquidity(u, r, n)
        PROVE  WithinSlot
    <2>1. Op /\ UNCHANGED history /\ obligation' = obligation /\ seen' = seen
      BY <1>6 DEF DepositReserveLiquidity, history
    <2>2. ReservesMarked
      BY <1>0, <1>6, ReserveMarked DEF DepositReserveLiquidity, Deposited
    <2> QED
      BY <2>1, <2>2, ObligationsUnmarked, OpWithinSlot
  <1>7. ASSUME NEW u \in Users, NEW n \in Amounts, RedeemReserveCollateral(u, r, n)
        PROVE  WithinSlot
    <2>1. Op /\ UNCHANGED history /\ obligation' = obligation /\ seen' = seen
      BY <1>7 DEF RedeemReserveCollateral, history
    <2>2. PICK res \in RedeemCollateral(Accrued(reserve[r]), n) :
            reserve' = [reserve EXCEPT ![r] = MarkStale(res.reserve)]
      BY <1>7 DEF RedeemReserveCollateral
    <2>3. ReservesMarked
      BY <1>0, <2>2, ReserveMarked
    <2> QED
      BY <2>1, <2>3, ObligationsUnmarked, OpWithinSlot
  <1>8. ASSUME NEW u \in Users, NEW n \in Asked, FlashLoan(u, r, n)
        PROVE  WithinSlot
    <2>1. Op /\ UNCHANGED history /\ obligation' = obligation /\ seen' = seen /\ reserve[r] # NoReserve
      BY <1>8 DEF FlashLoan, history
    <2>2. PICK loan : reserve' = [reserve EXCEPT ![r] =
                         RepayReserve(BorrowReserve(reserve[r], FromInt(loan)), loan, FromInt(loan))]
      BY <1>8 DEF FlashLoan
    <2>3. reserve[r] \in ReserveState /\ reserve \in [Reserves -> ReserveState \cup {NoReserve}]
      BY <1>0, <2>1, ExistingReserve DEF TypeOK
    <2>4. /\ reserve'[r].slot = reserve[r].slot /\ reserve'[r].stale = reserve[r].stale
          /\ \A q \in Reserves \ {r} : reserve'[q] = reserve[q]
      BY <2>2, <2>3 DEF ReserveState, RepayReserve, BorrowReserve
    <2>5. ReservesMarked
      BY <2>1, <2>4 DEF ReservesMarked
    <2> QED
      BY <2>1, <2>5, ObligationsUnmarked, OpWithinSlot
  <1> QED
    BY <1>1, <1>2, <1>3, <1>4, <1>5, <1>6, <1>7, <1>8 DEF ReserveStep

(* The entries a refresh leaves are the ones it found. *)
LEMMA ValuedEntries ==
  ASSUME NEW ob \in ObligationState, NEW rs
  PROVE  /\ Held(Valued(ob, rs).deposits) \subseteq Held(ob.deposits)
         /\ Held(Valued(ob, rs).borrows) \subseteq Held(ob.borrows)
  <1> DEFINE deposits == [r \in Reserves |->
                 IF ob.deposits[r] = NoEntry THEN NoEntry
                 ELSE [ob.deposits[r] EXCEPT !.value = DepositValue(rs[r], ob.deposits[r])]]
             accrued(r) == AccrueBorrow(ob.borrows[r], rs[r].cumulative)
             borrows == [r \in Reserves |->
                 IF ob.borrows[r] = NoEntry THEN NoEntry
                 ELSE [accrued(r) EXCEPT !.value = TryMul(accrued(r).amount, rs[r].price)]]
  <1>1. Held(deposits) \subseteq Held(ob.deposits)
    BY DEF Held
  <1>2. Held(borrows) \subseteq Held(ob.borrows)
    BY DEF Held
  <1>3. Valued(ob, rs).deposits = deposits /\ Valued(ob, rs).borrows = borrows
    BY DEF Valued, ObligationState
  <1> HIDE DEF deposits, borrows
  <1> QED
    BY <1>1, <1>2, <1>3

(* A refresh leaves a borrow accrued to the rate of its reserve. *)
LEMMA ValuedBorrow ==
  ASSUME NEW ob \in ObligationState, NEW rs, NEW r \in Reserves, ob.borrows[r] # NoEntry,
         rs[r] \in ReserveState
  PROVE  LET b == AccrueBorrow(ob.borrows[r], rs[r].cumulative)
             d == Valued(ob, rs).borrows[r]
         IN  /\ d \in Borrow /\ d.amount = b.amount
             /\ d.cumulative = b.cumulative /\ d.cumulative >= rs[r].cumulative
  <1> DEFINE accrued(q) == AccrueBorrow(ob.borrows[q], rs[q].cumulative)
             borrows == [q \in Reserves |->
                 IF ob.borrows[q] = NoEntry THEN NoEntry
                 ELSE [accrued(q) EXCEPT !.value = TryMul(accrued(q).amount, rs[q].price)]]
             b == AccrueBorrow(ob.borrows[r], rs[r].cumulative)
             d == [b EXCEPT !.value = TryMul(b.amount, rs[r].price)]
  <1>1. Valued(ob, rs).borrows = borrows
    BY DEF Valued, ObligationState
  <1>2. borrows[r] = d
    OBVIOUS
  <1>3. ob.borrows[r] \in Borrow /\ rs[r].cumulative \in Nat /\ rs[r].price \in Nat
    BY ObligationFields, ReserveFields
  <1>4. b \in Borrow /\ b.cumulative >= rs[r].cumulative
    BY <1>3, AccrueBorrowType
  <1> HIDE DEF b
  <1>5. TryMul(b.amount, rs[r].price) \in Nat
    BY <1>3, <1>4, TryMulType DEF Borrow
  <1>6. d \in Borrow /\ d.amount = b.amount /\ d.cumulative = b.cumulative
    BY <1>4, <1>5 DEF Borrow
  <1> QED
    BY <1>1, <1>2, <1>4, <1>6 DEF b

(* Only an obligation with deposits is found to have a deposited value.      *)
LEMMA WorthNeedsDeposits ==
  ASSUME LendingInv, NEW o \in Obligations, RefreshObligation(o)
  PROVE  LET ob == Valued(obligation[o], reserve)
         IN  /\ Held(ob.deposits) = Held(obligation[o].deposits)
             /\ Held(ob.borrows) = Held(obligation[o].borrows)
             /\ ob.depositedValue # 0 => Held(ob.deposits) # {}
  <1> DEFINE old == obligation[o]
             ob == Valued(old, reserve)
             worth == [r \in Held(old.deposits) |-> DepositWorth(old, reserve, r)]
  <1>1. old \in ObligationState /\ reserve \in [Reserves -> ReserveState \cup {NoReserve}]
    BY ExistingObligation DEF LendingInv, TypeOK, RefreshObligation
  <1>2. CanValue(old, reserve)
    BY <1>1 DEF RefreshObligation, FreshReserve, CanValue
  <1> HIDE DEF old
  <1>3. /\ Held(ob.deposits) = Held(old.deposits) /\ Held(ob.borrows) = Held(old.borrows)
        /\ ob.depositedValue = SumFunction(worth)
    BY <1>1, <1>2, ValuedSums
  <1>4. IsFiniteSet(Held(old.deposits)) /\ worth \in [Held(old.deposits) -> Nat]
    BY <1>1, <1>2, WorthType
  <1> HIDE DEF ob, worth
  <1>5. Held(old.deposits) = {} => SumFunction(worth) = 0
    BY <1>4, SumOfZeros
  <1> QED
    BY <1>3, <1>5 DEF ob, old

LEMMA RefreshMarks ==
  ASSUME LendingInv, LendingInv', NEW o \in Obligations, RefreshObligation(o)
  PROVE  WithinSlot
  <1> DEFINE valued == Valued(obligation[o], reserve)
             ob == UpdateSlot(valued)
  <1>0. TypeOK /\ SlotsPast /\ DOMAIN seen = Obligations
        /\ obligation \in [Obligations -> ObligationState \cup {NoObligation}]
    BY DEF LendingInv, TypeOK, ClockOK
  <1>1. /\ obligation[o] # NoObligation
        /\ obligation' = [obligation EXCEPT ![o] = ob]
        /\ seen' = [seen EXCEPT ![o] = [deposits |-> valued.deposits,
                                        borrows |-> valued.borrows, terms |-> Terms]]
        /\ \A r \in Held(obligation[o].deposits) \cup Held(obligation[o].borrows) : FreshReserve(r)
        /\ UNCHANGED <<slot, reserve, priced>>
    BY DEF RefreshObligation
  <1>2. obligation[o] \in ObligationState /\ valued \in ObligationState
    BY <1>0, <1>1, ExistingObligation, RefreshedObligation
  <1>3. /\ Held(valued.deposits) \subseteq Held(obligation[o].deposits)
        /\ Held(valued.borrows) \subseteq Held(obligation[o].borrows)
    BY <1>2, ValuedEntries
  <1>11. valued.depositedValue # 0 => Held(valued.deposits) # {}
    BY WorthNeedsDeposits
  <1>12. ASSUME NEW r \in Held(valued.borrows)
         PROVE  valued.borrows[r].cumulative >= reserve[r].cumulative
    <2>1. r \in Reserves /\ r \in Held(obligation[o].borrows) /\ reserve[r] # NoReserve
      BY <1>1, <1>3 DEF Held, FreshReserve
    <2>2. obligation[o].borrows[r] # NoEntry /\ reserve[r] \in ReserveState
      BY <1>0, <2>1, ExistingReserve DEF Held
    <2> QED
      BY <1>2, <2>1, <2>2, ValuedBorrow
  <1> HIDE DEF valued
  <1>4. ob.deposits = valued.deposits /\ ob.borrows = valued.borrows
        /\ ob.depositedValue = valued.depositedValue
    BY <1>2 DEF UpdateSlot, ObligationState
  <1> HIDE DEF ob
  <1>5. /\ obligation'[o] = ob
        /\ \A p \in Obligations \ {o} : obligation'[p] = obligation[p] /\ seen'[p] = seen[p]
    BY <1>0, <1>1
  <1>6. seen'[o] = [deposits |-> valued.deposits, borrows |-> valued.borrows, terms |-> Terms]
    BY <1>0, <1>1
  <1>7. /\ seen'[o].deposits = valued.deposits /\ seen'[o].borrows = valued.borrows
        /\ seen'[o].terms = Terms
    BY <1>6
  <1>8. \A r \in Held(ob.deposits) \cup Held(ob.borrows) : FreshReserve(r)
    BY <1>1, <1>3, <1>4
  <1>9. Revalued(o)
    BY <1>1, <1>4, <1>5, <1>7, <1>8, <1>11, <1>12 DEF Revalued
  <1>10. ObligationsMarked
    BY <1>5, <1>9 DEF ObligationsMarked
  <1> QED
    BY <1>1, <1>10, ReservesUnmarked DEF WithinSlot

LEMMA ObligationStepMarks ==
  ASSUME LendingInv, LendingInv', NEW o \in Obligations, ObligationStep(o)
  PROVE  WithinSlot
  <1>0. TypeOK /\ TypeOK' /\ SlotsPast
    BY DEF LendingInv
  <1>1. ASSUME InitObligation(o) PROVE WithinSlot
    <2>1. /\ obligation' = [obligation EXCEPT ![o] = NewObligation]
          /\ slot' = slot /\ reserve' = reserve /\ priced' = priced /\ seen' = seen
          /\ obligation \in [Obligations -> ObligationState \cup {NoObligation}]
      BY <1>0, <1>1 DEF InitObligation, history, TypeOK
    <2>2. /\ obligation'[o].stale = TRUE
          /\ \A p \in Obligations \ {o} : obligation'[p] = obligation[p]
      BY <2>1 DEF NewObligation
    <2> QED
      BY <2>1, <2>2, ReservesUnmarked DEF WithinSlot, ObligationsMarked
  <1>2. ASSUME NEW r \in Reserves, NEW n \in Amounts, DepositObligationCollateral(o, r, n)
        PROVE  WithinSlot
    <2>1. Op /\ UNCHANGED history /\ seen' = seen
      BY <1>2 DEF DepositObligationCollateral, history
    <2>2. ReservesMarked
      BY <1>0, <1>2, ReserveMarked DEF DepositObligationCollateral
    <2>3. ObligationsMarked
      BY <1>0, <1>2, <2>1, ObligationMarked DEF DepositObligationCollateral
    <2> QED
      BY <2>1, <2>2, <2>3, OpWithinSlot
  <1>3. ASSUME NEW r \in Reserves, NEW n \in Amounts, DepositLiquidityAndCollateral(o, r, n)
        PROVE  WithinSlot
    <2>1. Op /\ UNCHANGED history /\ seen' = seen
      BY <1>3 DEF DepositLiquidityAndCollateral, history
    <2>2. ReservesMarked
      BY <1>0, <1>3, ReserveMarked DEF DepositLiquidityAndCollateral, Deposited
    <2>3. ObligationsMarked
      BY <1>0, <1>3, <2>1, ObligationMarked DEF DepositLiquidityAndCollateral
    <2> QED
      BY <2>1, <2>2, <2>3, OpWithinSlot
  <1>4. ASSUME NEW r \in Reserves, NEW n \in Asked, WithdrawObligationCollateral(o, r, n)
        PROVE  WithinSlot
    <2>1. Op /\ UNCHANGED history /\ seen' = seen /\ reserve' = reserve
      BY <1>4 DEF WithdrawObligationCollateral, history
    <2>2. PICK taken : obligation' = [obligation EXCEPT ![o] =
                                        MarkStale(TakeDeposit(obligation[o], r, taken))]
      BY <1>4 DEF WithdrawObligationCollateral
    <2>3. ObligationsMarked
      BY <1>0, <2>1, <2>2, ObligationMarked
    <2> QED
      BY <2>1, <2>3, ReservesUnmarked, OpWithinSlot
  <1>5. ASSUME NEW r \in Reserves, NEW n \in Asked \cup {0}, WithdrawAndRedeem(o, r, n)
        PROVE  WithinSlot
    <2>1. Op /\ UNCHANGED history /\ seen' = seen
      BY <1>5 DEF WithdrawAndRedeem, history
    <2>2. PICK taken, res : /\ obligation' = [obligation EXCEPT ![o] =
                                               MarkStale(TakeDeposit(obligation[o], r, taken))]
                            /\ reserve' = [reserve EXCEPT ![r] = MarkStale(res.reserve)]
      BY <1>5 DEF WithdrawAndRedeem
    <2>3. ObligationsMarked
      BY <1>0, <2>1, <2>2, ObligationMarked
    <2>4. ReservesMarked
      BY <1>0, <2>2, ReserveMarked
    <2> QED
      BY <2>1, <2>3, <2>4, OpWithinSlot
  <1>6. ASSUME NEW r \in Reserves, NEW n \in Asked, BorrowObligationLiquidity(o, r, n)
        PROVE  WithinSlot
    <2>1. Op /\ UNCHANGED history /\ seen' = seen
      BY <1>6 DEF BorrowObligationLiquidity, history
    <2>2. PICK res : /\ reserve' = [reserve EXCEPT ![r] =
                                     MarkStale(BorrowReserve(reserve[r], res.borrow))]
                     /\ obligation' = [obligation EXCEPT ![o] =
                          MarkStale(AddBorrow(obligation[o], r, reserve[r].cumulative, res.borrow))]
      BY <1>6 DEF BorrowObligationLiquidity, Drawn
    <2>3. ObligationsMarked
      BY <1>0, <2>1, <2>2, ObligationMarked
    <2>4. ReservesMarked
      BY <1>0, <2>2, ReserveMarked
    <2> QED
      BY <2>1, <2>3, <2>4, OpWithinSlot
  <1>7. ASSUME RefreshObligation(o) PROVE WithinSlot
    BY <1>7, RefreshMarks
  <1> QED
    BY <1>1, <1>2, <1>3, <1>4, <1>5, <1>6, <1>7 DEF ObligationStep

LEMMA AnyoneStepMarks ==
  ASSUME LendingInv, LendingInv', NEW u \in Users, NEW o \in Obligations, AnyoneStep(u, o)
  PROVE  WithinSlot
  <1>0. TypeOK /\ TypeOK' /\ SlotsPast
    BY DEF LendingInv
  <1>1. ASSUME NEW r \in Reserves, NEW n \in Asked, RepayObligationLiquidity(u, o, r, n)
        PROVE  WithinSlot
    <2>1. Op /\ UNCHANGED history /\ seen' = seen
      BY <1>1 DEF RepayObligationLiquidity, history
    <2>2. ReservesMarked
      <3>1. PICK x : reserve' = [reserve EXCEPT ![r] = MarkStale(x)]
        BY <1>1 DEF RepayObligationLiquidity
      <3> QED
        BY <1>0, <3>1, ReserveMarked
    <2>3. ObligationsMarked
      <3>1. PICK x : obligation' = [obligation EXCEPT ![o] = MarkStale(x)]
        BY <1>1 DEF RepayObligationLiquidity
      <3> QED
        BY <1>0, <2>1, <3>1, ObligationMarked
    <2> QED
      BY <2>1, <2>2, <2>3, OpWithinSlot
  <1>2. ASSUME NEW rr \in Reserves, NEW wr \in Reserves, NEW n \in Asked,
               LiquidateObligation(u, o, rr, wr, n)
        PROVE  WithinSlot
    <2>1. Op /\ UNCHANGED history /\ seen' = seen
      BY <1>2 DEF LiquidateObligation, history
    <2>2. ReservesMarked
      <3>1. PICK x : reserve' = [reserve EXCEPT ![rr] = MarkStale(x)]
        BY <1>2 DEF LiquidateObligation, Liquidated
      <3> QED
        BY <1>0, <3>1, ReserveMarked
    <2>3. ObligationsMarked
      <3>1. PICK x : obligation' = [obligation EXCEPT ![o] = MarkStale(x)]
        BY <1>2 DEF LiquidateObligation, LiquidateBooks
      <3> QED
        BY <1>0, <2>1, <3>1, ObligationMarked
    <2> QED
      BY <2>1, <2>2, <2>3, OpWithinSlot
  <1>3. ASSUME NEW rr \in Reserves, NEW wr \in Reserves, NEW n \in Asked,
               LiquidateAndRedeem(u, o, rr, wr, n)
        PROVE  WithinSlot
    <2>1. Op /\ UNCHANGED history /\ seen' = seen
      BY <1>3 DEF LiquidateAndRedeem, history
    <2>2. ReservesMarked
      <3>1. PICK x, y : reserve' = [[reserve EXCEPT ![rr] = MarkStale(x)] EXCEPT ![wr] = MarkStale(y)]
        BY <1>3 DEF LiquidateAndRedeem, Liquidated
      <3> DEFINE a == MarkStale(x)
                 b == MarkStale(y)
      <3>2. /\ a \in ReserveState => a.stale = TRUE
            /\ b \in ReserveState => b.stale = TRUE
        BY MarkedIsStale
      <3>3. reserve' = [[reserve EXCEPT ![rr] = a] EXCEPT ![wr] = b]
        BY <3>1
      <3> HIDE DEF a, b
      <3>4. /\ reserve'[wr] = b /\ (rr # wr => reserve'[rr] = a)
            /\ \A q \in Reserves \ {rr, wr} : reserve'[q] = reserve[q]
        BY <1>0, <3>3 DEF TypeOK
      <3>5. \A q \in Reserves : reserve'[q] # NoReserve => reserve'[q] \in ReserveState
        BY <1>0 DEF TypeOK
      <3> QED
        BY <3>2, <3>4, <3>5 DEF ReservesMarked
    <2>3. ObligationsMarked
      <3>1. PICK x : obligation' = [obligation EXCEPT ![o] = MarkStale(x)]
        BY <1>3 DEF LiquidateAndRedeem, LiquidateBooks
      <3> QED
        BY <1>0, <2>1, <3>1, ObligationMarked
    <2> QED
      BY <2>1, <2>2, <2>3, OpWithinSlot
  <1> QED
    BY <1>1, <1>2, <1>3 DEF AnyoneStep

(* At the turn of a slot nothing passes for fresh. *)
LEMMA SlotTurns ==
  ASSUME LendingInv, AdvanceSlot
  PROVE  /\ \A r \in Reserves : ~FreshReserve(r)'
         /\ \A o \in Obligations : ~FreshObligation(o)'
  <1>0. TypeOK /\ SlotsPast /\ slot \in Nat
    BY DEF LendingInv, TypeOK, ClockOK
  <1>1. slot' = slot + 1 /\ reserve' = reserve /\ obligation' = obligation
    BY DEF AdvanceSlot
  <1>2. \A q \in Reserves : reserve[q] # NoReserve =>
          reserve[q].slot \in Nat /\ reserve[q].slot <= slot
    BY <1>0, ExistingReserve, ReserveFields
  <1>3. \A p \in Obligations : obligation[p] # NoObligation =>
          obligation[p].slot \in Nat /\ obligation[p].slot <= slot
    BY <1>0, ExistingObligation, ObligationFields
  <1> QED
    BY <1>0, <1>1, <1>2, <1>3 DEF FreshReserve, FreshObligation, IsStale

(* Every step but the clock's stays within the slot. *)
LEMMA StepsMark ==
  ASSUME LendingInv, LendingInv', [Next]_vars
  PROVE  WithinSlot \/ AdvanceSlot
  <1>1. ASSUME UNCHANGED vars PROVE WithinSlot
    BY <1>1, ReservesUnmarked, ObligationsUnmarked DEF vars, history, WithinSlot
  <1> QED
    BY <1>1, ReserveStepMarks, ObligationStepMarks, AnyoneStepMarks DEF Next

(* What follows from a step within a slot for the accounts that pass for     *)
(* fresh after it.                                                           *)
LEMMA FreshBefore ==
  ASSUME WithinSlot
  PROVE  /\ \A r \in Reserves : FreshReserve(r)' => priced'[r] = slot \/ FreshReserve(r)
         /\ \A o \in Obligations : FreshObligation(o)' =>
              \/ FreshObligation(o) /\ obligation'[o] = obligation[o] /\ seen'[o] = seen[o]
              \/ Revalued(o)
  BY DEF WithinSlot, ReservesMarked, ObligationsMarked, FreshReserve, FreshObligation, IsStale

LEMMA PricedStep ==
  ASSUME LendingInv, LendingInv', [Next]_vars, FreshMeansPriced
  PROVE  FreshMeansPriced'
  <1>1. CASE AdvanceSlot
    BY <1>1, SlotTurns DEF FreshMeansPriced
  <1>2. CASE WithinSlot
    <2>1. slot' = slot /\ \A r \in Reserves : priced[r] = slot => priced'[r] = slot'
      BY <1>2 DEF WithinSlot
    <2>2. ASSUME NEW r \in Reserves, FreshReserve(r)' PROVE priced'[r] = slot'
      BY <1>2, <2>1, <2>2, FreshBefore DEF FreshMeansPriced
    <2>3. ASSUME NEW o \in Obligations, FreshObligation(o)',
                 NEW r \in Held(obligation'[o].deposits) \cup Held(obligation'[o].borrows)
          PROVE  priced'[r] = slot'
      <3>1. r \in Reserves
        BY DEF Held
      <3>2. CASE FreshObligation(o) /\ obligation'[o] = obligation[o]
        BY <2>1, <3>1, <3>2 DEF FreshMeansPriced, Held
      <3>3. CASE Revalued(o)
        BY <2>1, <3>1, <3>3 DEF FreshMeansPriced, Revalued
      <3> QED
        BY <1>2, <2>3, <3>2, <3>3, FreshBefore
    <2> QED
      BY <2>2, <2>3 DEF FreshMeansPriced, Held
  <1> QED
    BY <1>1, <1>2, StepsMark

LEMMA UnchangedStep ==
  ASSUME LendingInv, LendingInv', [Next]_vars, FreshMeansUnchanged
  PROVE  FreshMeansUnchanged'
  <1>1. CASE AdvanceSlot
    BY <1>1, SlotTurns DEF FreshMeansUnchanged
  <1>2. CASE WithinSlot
    BY <1>2, FreshBefore DEF FreshMeansUnchanged, Revalued
  <1> QED
    BY <1>1, <1>2, StepsMark

(* No valuation is used twice, in any market: while an obligation passes for *)
(* fresh its entries are the ones it was valued with, whatever instructions  *)
(* come in between and from whom (the mark_stale calls of processor.rs).     *)
THEOREM ValuationsUsedOnce == Spec => []FreshMeansUnchanged
  <1>1. Init => FreshMeansUnchanged
    BY DEF Init, FreshMeansUnchanged, FreshObligation
  <1>2. LendingInv /\ FreshMeansUnchanged /\ [Next]_vars => FreshMeansUnchanged'
    BY LendingStep, UnchangedStep
  <1> QED
    BY <1>1, <1>2, LendingInit, LendingStep, PTL DEF Spec

(* The configurations an obligation was valued with were in force within the *)
(* slot, as long as it passes for fresh.                                     *)
TermsInForce ==
  \A o \in Obligations : FreshObligation(o) =>
    \A r \in Touched(o) : seen[o].terms[r][2] \in inForce[r]

LEMMA TermsStep ==
  ASSUME LendingInv, LendingInv', ChainNext, TermsInForce
  PROVE  TermsInForce'
  <1>0. Next /\ [Next]_vars
    BY DEF ChainNext
  <1>1. CASE AdvanceSlot
    BY <1>1, SlotTurns DEF TermsInForce
  <1>2. CASE WithinSlot
    <2>1. slot' = slot
      BY <1>2 DEF WithinSlot
    <2>2. \A r \in Reserves : inForce'[r] = ConfigOf(reserve'[r]) \cup inForce[r]
      BY <2>1 DEF ChainNext
    <2>3. ASSUME NEW o \in Obligations, FreshObligation(o)', NEW r \in Touched(o)'
          PROVE  seen'[o].terms[r][2] \in inForce'[r]
      <3>1. r \in Held(obligation'[o].deposits) \cup Held(obligation'[o].borrows) /\ r \in Reserves
        BY <2>3 DEF Touched, Held
      <3>2. CASE FreshObligation(o) /\ obligation'[o] = obligation[o] /\ seen'[o] = seen[o]
        <4>1. r \in Touched(o)
          BY <3>1, <3>2 DEF Touched, Held
        <4> QED
          BY <2>2, <3>1, <3>2, <4>1 DEF TermsInForce
      <3>3. CASE Revalued(o)
        <4>1. reserve' = reserve /\ reserve[r] # NoReserve /\ seen'[o].terms = Terms
          BY <3>1, <3>3 DEF Revalued, FreshReserve
        <4>2. Terms[r] = <<reserve[r].price, reserve[r].config>>
          BY <3>1, <4>1 DEF Terms
        <4>3. seen'[o].terms[r][2] = reserve[r].config
          BY <4>1, <4>2
        <4> QED
          BY <2>2, <3>1, <4>1, <4>3 DEF ConfigOf
      <3> QED
        BY <1>2, <2>3, <3>2, <3>3, FreshBefore
    <2> QED
      BY <2>3 DEF TermsInForce
  <1> QED
    BY <1>0, <1>1, <1>2, StepsMark

(* What passes for fresh rests on this slot, in any market: each reserve an  *)
(* obligation is valued with has had its price read in this very slot, and   *)
(* the configuration used was in force at some time in it                    *)
(* (_refresh_reserve_interest, process_update_reserve_config, is_stale).     *)
THEOREM FreshTermsAreThisSlots == ChainSpec => []FreshMeansThisSlotsTerms
  <1> DEFINE Inv == LendingInv /\ FreshMeansPriced /\ TermsInForce
  <1>1. ChainInit => Inv
    <2>1. Init => FreshMeansPriced /\ TermsInForce
      BY DEF Init, FreshMeansPriced, TermsInForce, FreshReserve, FreshObligation
    <2> QED
      BY <2>1, LendingInit DEF ChainInit
  <1>2. Inv /\ [ChainNext]_chainVars => Inv'
    <2> SUFFICES ASSUME Inv, [ChainNext]_chainVars PROVE Inv'
      OBVIOUS
    <2>1. [Next]_vars
      BY DEF ChainNext, chainVars
    <2>2. LendingInv'
      BY <2>1, LendingStep
    <2>3. FreshMeansPriced'
      BY <2>1, <2>2, PricedStep
    <2>4. CASE ChainNext
      BY <2>2, <2>3, <2>4, TermsStep
    <2>5. CASE UNCHANGED chainVars
      <3>1. UNCHANGED <<slot, obligation, seen, inForce>>
        BY <2>5 DEF chainVars, vars, history
      <3>2. TermsInForce'
        BY <3>1 DEF TermsInForce, FreshObligation, IsStale, Touched, Held
      <3> QED
        BY <2>2, <2>3, <3>2
    <2> QED
      BY <2>4, <2>5
  <1>3. Inv => FreshMeansThisSlotsTerms
    BY DEF TermsInForce, FreshMeansThisSlotsTerms
  <1> QED
    BY <1>1, <1>2, <1>3, PTL DEF ChainSpec
-----------------------------------------------------------------------------
(* Verdicts.  The sums the program and the bots come to are sums of the same *)
(* terms, so it is enough to compare them entry by entry.                    *)

Owed(ob, rs) == SumFunction([r \in Held(ob.borrows) |-> BorrowWorth(ob, rs, r)])
Pawned(ob, rs) == SumFunction([r \in Held(ob.deposits) |-> DepositWorth(ob, rs, r)])
Limit(ob, rs) == SumFunction([r \in Held(ob.deposits) |-> LimitWorth(ob, rs, r)])

LEMMA TotalsAreNat ==
  ASSUME NEW ob \in ObligationState, NEW rs, CanValue(ob, rs)
  PROVE  Owed(ob, rs) \in Nat /\ Pawned(ob, rs) \in Nat /\ Limit(ob, rs) \in Nat
  <1>1. /\ [r \in Held(ob.borrows) |-> BorrowWorth(ob, rs, r)] \in [Held(ob.borrows) -> Nat]
        /\ [r \in Held(ob.deposits) |-> DepositWorth(ob, rs, r)] \in [Held(ob.deposits) -> Nat]
        /\ [r \in Held(ob.deposits) |-> LimitWorth(ob, rs, r)] \in [Held(ob.deposits) -> Nat]
    BY WorthType
  <1>2. IsFiniteSet(Held(ob.deposits)) /\ IsFiniteSet(Held(ob.borrows))
    BY WorthType
  <1> QED
    BY <1>1, <1>2, SumIsNat DEF Owed, Pawned, Limit

(* A total that is not zero has an entry that is not. *)
LEMMA SomeIsOwed ==
  ASSUME NEW ob \in ObligationState, NEW rs, CanValue(ob, rs), Owed(ob, rs) # 0
  PROVE  \E r \in Held(ob.borrows) : BorrowWorth(ob, rs, r) # 0
  <1> DEFINE f == [r \in Held(ob.borrows) |-> BorrowWorth(ob, rs, r)]
  <1>1. f \in [Held(ob.borrows) -> Nat] /\ \A r \in Held(ob.borrows) : f[r] = BorrowWorth(ob, rs, r)
    BY WorthType
  <1>2. IsFiniteSet(Held(ob.borrows)) /\ SumFunction(f) # 0
    BY WorthType DEF Owed
  <1> HIDE DEF f
  <1>3. \E r \in Held(ob.borrows) : f[r] # 0
    BY <1>1, <1>2, SumOfZeros
  <1> QED
    BY <1>1, <1>3

(* A limit that is not zero comes from a deposit that has a value. *)
LEMMA SomeIsPawned ==
  ASSUME NEW ob \in ObligationState, NEW rs, CanValue(ob, rs), Limit(ob, rs) # 0
  PROVE  /\ \E r \in Held(ob.deposits) : DepositWorth(ob, rs, r) # 0
         /\ Pawned(ob, rs) # 0
  <1> DEFINE f == [r \in Held(ob.deposits) |-> LimitWorth(ob, rs, r)]
             g == [r \in Held(ob.deposits) |-> DepositWorth(ob, rs, r)]
  <1>1. /\ f \in [Held(ob.deposits) -> Nat]
        /\ \A r \in Held(ob.deposits) : f[r] = LimitWorth(ob, rs, r)
    BY WorthType
  <1>2. /\ g \in [Held(ob.deposits) -> Nat]
        /\ \A r \in Held(ob.deposits) : g[r] = DepositWorth(ob, rs, r)
    BY WorthType
  <1>3. IsFiniteSet(Held(ob.deposits)) /\ SumFunction(f) # 0 /\ SumFunction(g) = Pawned(ob, rs)
    BY WorthType DEF Limit, Pawned
  <1> HIDE DEF f, g
  <1>4. PICK r \in Held(ob.deposits) : f[r] # 0
    BY <1>1, <1>3, SumOfZeros
  <1>5. DepositWorth(ob, rs, r) # 0
    <2> SUFFICES ASSUME DepositWorth(ob, rs, r) = 0 PROVE FALSE
      OBVIOUS
    <2>1. r \in Reserves /\ rs[r] \in ReserveState
      BY DEF CanValue, Held
    <2>2. FromPercent(rs[r].config.threshold) \in Nat
      BY <2>1, ReserveFields, ConfigType, FromPercentType
    <2>3. TryMul(0, FromPercent(rs[r].config.threshold)) = 0
      BY <2>2, WadType DEF TryMul
    <2> QED
      BY <1>1, <1>4, <2>3 DEF LimitWorth
  <1>6. SumFunction(g) \in Nat /\ SumFunction(g) >= g[r]
    BY <1>2, <1>3, SumAtLeast
  <1> QED
    BY <1>2, <1>3, <1>5, <1>6

(* The refreshes of a liquidation leave reserves it can be valued with. *)
LEMMA RefreshedReserves ==
  ASSUME LendingInv, NEW o \in Obligations, CanRefresh(o)
  PROVE  /\ obligation[o] \in ObligationState
         /\ CanValue(obligation[o], Refreshed(o))
         /\ \A r \in Touched(o) : r \in Reserves /\ reserve[r] \in ReserveState
  <1>0. /\ TypeOK /\ SlotsPast /\ slot \in Nat
        /\ reserve \in [Reserves -> ReserveState \cup {NoReserve}]
    BY DEF LendingInv, TypeOK, ClockOK
  <1>1. obligation[o] \in ObligationState
    BY <1>0, ExistingObligation DEF CanRefresh
  <1>2. \A r \in Touched(o) : r \in Reserves /\ reserve[r] \in ReserveState
    BY <1>0 DEF CanRefresh, Touched, Held
  <1>3. ASSUME NEW r \in Touched(o)
        PROVE  Refreshed(o)[r] \in ReserveState
    <2> DEFINE x == [reserve[r] EXCEPT !.price = GetPrice(oracle[r])]
    <2>1. r \in Reserves /\ reserve[r] \in ReserveState
      BY <1>2
    <2>2. GetPrice(oracle[r]) \in Nat
      BY <1>0, <2>1, FeedsAssumption DEF CanRefresh, GetPrice, TypeOK, ClockOK
    <2>3. /\ x \in ReserveState /\ x.slot = reserve[r].slot /\ x.available = reserve[r].available
          /\ x.borrowed = reserve[r].borrowed /\ x.fees = reserve[r].fees
      BY <2>1, <2>2 DEF ReserveState
    <2>4. Refreshed(o)[r] = Accrued(x)
      BY <2>1 DEF Refreshed
    <2> HIDE DEF x
    <2>5. slot > x.slot => HasSupply(x)
      BY <2>3 DEF CanRefresh, CanAccrue, HasSupply
    <2> QED
      BY <1>0, <2>3, <2>4, <2>5, AccruedType
  <1>4. \A r \in Reserves \ Touched(o) : Refreshed(o)[r] = reserve[r]
    BY DEF Refreshed
  <1>5. Refreshed(o) \in [Reserves -> ReserveState \cup {NoReserve}]
    <2>1. Refreshed(o) = [r \in Reserves |-> Refreshed(o)[r]]
      BY DEF Refreshed
    <2>2. \A r \in Reserves : Refreshed(o)[r] \in ReserveState \cup {NoReserve}
      BY <1>0, <1>3, <1>4
    <2> QED
      BY <2>1, <2>2, Zenon
  <1>6. CanValue(obligation[o], Refreshed(o))
    <2>1. \A r \in Held(obligation[o].deposits) :
            HasSupply(Refreshed(o)[r]) /\ ExchangeRate(Refreshed(o)[r]) > 0
      BY DEF CanRefresh
    <2>2. \A r \in Held(obligation[o].deposits) \cup Held(obligation[o].borrows) :
            Refreshed(o)[r] # NoReserve
      BY <1>3, NoneAssumption DEF Touched
    <2> QED
      BY <1>5, <2>1, <2>2 DEF CanValue
  <1> QED
    BY <1>1, <1>2, <1>6

(* The program's verdict, in terms of the totals. *)
LEMMA ProgramAccepts ==
  ASSUME LendingInv, NEW o \in Obligations, CanRefresh(o), NEW rr, NEW wr
  PROVE  LET ob == obligation[o]
             rs == Refreshed(o)
         IN  Accepts(o, rr, wr) <=>
               /\ Pawned(ob, rs) # 0 /\ Owed(ob, rs) # 0
               /\ Owed(ob, rs) >= MinOf(Limit(ob, rs), GlobalUnhealthyBorrowValue)
               /\ rr \in Held(ob.borrows) /\ BorrowWorth(ob, rs, rr) # 0
               /\ wr \in Held(ob.deposits) /\ DepositWorth(ob, rs, wr) # 0
  <1> DEFINE ob == obligation[o]
             rs == Refreshed(o)
             new == Valued(ob, rs)
  <1>1. ob \in ObligationState /\ CanValue(ob, rs)
    BY RefreshedReserves
  <1>2. Accepts(o, rr, wr) <=>
          /\ new.depositedValue # 0 /\ new.borrowedValue # 0
          /\ new.borrowedValue >= new.unhealthyBorrowValue
          /\ rr \in Held(new.borrows) /\ new.borrows[rr].value # 0
          /\ wr \in Held(new.deposits) /\ new.deposits[wr].value # 0
    BY DEF Accepts
  <1> HIDE DEF ob, rs
  <1>3. /\ Held(new.deposits) = Held(ob.deposits) /\ Held(new.borrows) = Held(ob.borrows)
        /\ \A r \in Held(ob.deposits) : new.deposits[r].value = DepositWorth(ob, rs, r)
        /\ \A r \in Held(ob.borrows) : new.borrows[r].value = BorrowWorth(ob, rs, r)
        /\ new.depositedValue = Pawned(ob, rs) /\ new.borrowedValue = Owed(ob, rs)
        /\ new.unhealthyBorrowValue = MinOf(Limit(ob, rs), GlobalUnhealthyBorrowValue)
    BY <1>1, ValuedSums DEF Pawned, Owed, Limit
  <1> HIDE DEF new
  <1> QED
    BY <1>2, <1>3 DEF ob, rs

(* On accounts that are up to date the Rust bot has the program's terms. *)
LEMMA BotHasTheTerms ==
  ASSUME LendingInv, NEW o \in Obligations, UpToDate(o)
  PROVE  LET ob == obligation[o]
             rs == Refreshed(o)
         IN  /\ Valuable(ob)
             /\ \A r \in Held(ob.deposits) : BotDepositValue(ob, r) = DepositWorth(ob, rs, r)
             /\ \A r \in Held(ob.borrows) : BotBorrowValue(ob, r) = BorrowWorth(ob, rs, r)
             /\ BotBorrowedValue(ob) = Owed(ob, rs) /\ BotUnhealthyValue(ob) = Limit(ob, rs)
  <1> DEFINE ob == obligation[o]
             rs == Refreshed(o)
  <1>0. CanRefresh(o)
    BY DEF UpToDate
  <1>1. /\ ob \in ObligationState /\ CanValue(ob, rs)
        /\ \A r \in Touched(o) : r \in Reserves /\ reserve[r] \in ReserveState
    BY <1>0, RefreshedReserves
  <1>2. ASSUME NEW r \in Touched(o)
        PROVE  /\ rs[r].price = reserve[r].price /\ rs[r].cumulative = reserve[r].cumulative
               /\ rs[r].config = reserve[r].config /\ rs[r].supply = reserve[r].supply
               /\ rs[r].available = reserve[r].available /\ rs[r].borrowed = reserve[r].borrowed
               /\ rs[r].fees = reserve[r].fees
    <2>1. r \in Reserves /\ reserve[r] \in ReserveState
      BY <1>1
    <2>2. rs[r] = [reserve[r] EXCEPT !.slot = slot, !.stale = FALSE]
      BY <2>1 DEF UpToDate, UpdateSlot
    <2> HIDE DEF rs
    <2> QED
      BY <2>1, <2>2 DEF ReserveState
  <1>3. ASSUME NEW r \in Touched(o)
        PROVE  /\ HasSupply(rs[r]) <=> HasSupply(reserve[r])
               /\ ExchangeRate(rs[r]) = ExchangeRate(reserve[r])
    BY <1>2 DEF HasSupply, ExchangeRate, TotalSupply
  <1>4. \A r \in Held(ob.deposits) \cup Held(ob.borrows) : r \in Touched(o)
    BY DEF Touched
  <1> HIDE DEF rs
  <1>5. \A r \in Held(ob.deposits) : BotDepositValue(ob, r) = DepositWorth(ob, rs, r)
    BY <1>2, <1>3, <1>4 DEF BotDepositValue, DepositWorth, DepositValue, CollateralValue
  <1>6. \A r \in Held(ob.borrows) : BotBorrowValue(ob, r) = BorrowWorth(ob, rs, r)
    BY <1>2, <1>4 DEF BotBorrowValue, BorrowWorth
  <1>7. Valuable(ob)
    BY <1>1, <1>3, <1>4 DEF Valuable, CanValue
  <1>8. BotBorrowedValue(ob) = Owed(ob, rs)
    BY <1>6 DEF BotBorrowedValue, Owed
  <1>9. BotUnhealthyValue(ob) = Limit(ob, rs)
    <2>1. \A r \in Held(ob.deposits) :
            TryMul(BotDepositValue(ob, r), FromPercent(reserve[r].config.threshold))
              = LimitWorth(ob, rs, r)
      BY <1>2, <1>4, <1>5 DEF LimitWorth
    <2> QED
      BY <2>1 DEF BotUnhealthyValue, Limit
  <1> QED
    BY <1>5, <1>6, <1>7, <1>8, <1>9 DEF rs

(* What the Rust bot flags the program accepts. *)
LEMMA FlaggedAccepted ==
  ASSUME LendingInv, NEW o \in Obligations, BotFlags(o), UpToDate(o),
         NEW rr \in SelectedBorrow(obligation[o]), NEW wr \in SelectedDeposit(obligation[o])
  PROVE  Accepts(o, rr, wr)
  <1> DEFINE ob == obligation[o]
             rs == Refreshed(o)
  <1>0. CanRefresh(o)
    BY DEF UpToDate
  <1>1. ob \in ObligationState /\ CanValue(ob, rs)
    BY <1>0, RefreshedReserves
  <1>2. /\ \A r \in Held(ob.deposits) : BotDepositValue(ob, r) = DepositWorth(ob, rs, r)
        /\ \A r \in Held(ob.borrows) : BotBorrowValue(ob, r) = BorrowWorth(ob, rs, r)
        /\ BotBorrowedValue(ob) = Owed(ob, rs) /\ BotUnhealthyValue(ob) = Limit(ob, rs)
    BY BotHasTheTerms
  <1>3. Owed(ob, rs) # 0 /\ Limit(ob, rs) # 0 /\ ~(Owed(ob, rs) <= Limit(ob, rs))
    BY <1>2 DEF BotFlags, Underwater
  <1>4. /\ rr \in Held(ob.borrows)
        /\ \A s \in Held(ob.borrows) : BotBorrowValue(ob, s) <= BotBorrowValue(ob, rr)
        /\ wr \in Held(ob.deposits)
        /\ \A s \in Held(ob.deposits) : BotDepositValue(ob, s) <= BotDepositValue(ob, wr)
    BY DEF SelectedBorrow, SelectedDeposit
  <1> HIDE DEF ob, rs
  <1>5. Owed(ob, rs) \in Nat /\ Pawned(ob, rs) \in Nat /\ Limit(ob, rs) \in Nat
    BY <1>1, TotalsAreNat
  <1>6. /\ \A r \in Held(ob.deposits) : DepositWorth(ob, rs, r) \in Nat
        /\ \A r \in Held(ob.borrows) : BorrowWorth(ob, rs, r) \in Nat
    BY <1>1, WorthType
  <1>7. BorrowWorth(ob, rs, rr) # 0
    <2>1. PICK s \in Held(ob.borrows) : BorrowWorth(ob, rs, s) # 0
      BY <1>1, <1>3, SomeIsOwed
    <2>2. BorrowWorth(ob, rs, s) <= BorrowWorth(ob, rs, rr)
      BY <1>2, <1>4
    <2> QED
      BY <1>4, <1>6, <2>1, <2>2
  <1>8. Pawned(ob, rs) # 0 /\ \E s \in Held(ob.deposits) : DepositWorth(ob, rs, s) # 0
    BY <1>1, <1>3, SomeIsPawned
  <1>9. DepositWorth(ob, rs, wr) # 0
    <2>1. PICK s \in Held(ob.deposits) : DepositWorth(ob, rs, s) # 0
      BY <1>8
    <2>2. DepositWorth(ob, rs, s) <= DepositWorth(ob, rs, wr)
      BY <1>2, <1>4
    <2> QED
      BY <1>4, <1>6, <2>1, <2>2
  <1>10. Owed(ob, rs) >= MinOf(Limit(ob, rs), GlobalUnhealthyBorrowValue)
    <2>1. slot \in Nat
      BY DEF LendingInv, TypeOK, ClockOK
    <2>2. GlobalUnhealthyBorrowValue \in Nat
      BY <2>1, GlobalLimitType
    <2> QED
      BY <1>3, <1>5, <2>2 DEF MinOf
  <1> QED
    BY <1>0, <1>3, <1>4, <1>7, <1>8, <1>9, <1>10, ProgramAccepts DEF ob, rs

(* What it leaves although the program accepts it is at the edge. *)
LEMMA LeftAtTheEdge ==
  ASSUME LendingInv, NEW o \in Obligations, UpToDate(o), ~BotFlags(o),
         NEW rr, NEW wr, Accepts(o, rr, wr)
  PROVE  LET borrowed == BotBorrowedValue(obligation[o])
             unhealthy == BotUnhealthyValue(obligation[o])
         IN  \/ borrowed = unhealthy \/ unhealthy = 0
             \/ unhealthy > GlobalUnhealthyBorrowValue
  <1> DEFINE ob == obligation[o]
             rs == Refreshed(o)
  <1>0. CanRefresh(o) /\ ob # NoObligation
    BY DEF UpToDate, CanRefresh
  <1>1. ob \in ObligationState /\ CanValue(ob, rs)
    BY <1>0, RefreshedReserves
  <1>2. Valuable(ob) /\ BotBorrowedValue(ob) = Owed(ob, rs) /\ BotUnhealthyValue(ob) = Limit(ob, rs)
    BY BotHasTheTerms
  <1>3. /\ Owed(ob, rs) # 0 /\ Owed(ob, rs) >= MinOf(Limit(ob, rs), GlobalUnhealthyBorrowValue)
        /\ Held(ob.borrows) # {} /\ Held(ob.deposits) # {}
    BY <1>0, ProgramAccepts
  <1>4. ~Underwater(BotBorrowedValue(ob), BotUnhealthyValue(ob))
    BY <1>0, <1>2, <1>3 DEF BotFlags
  <1>5. Owed(ob, rs) <= Limit(ob, rs) \/ Limit(ob, rs) = 0
    BY <1>2, <1>3, <1>4 DEF Underwater
  <1>6. Owed(ob, rs) \in Nat /\ Limit(ob, rs) \in Nat
    BY <1>1, TotalsAreNat
  <1>7. slot \in Nat
    BY DEF LendingInv, TypeOK, ClockOK
  <1>8. GlobalUnhealthyBorrowValue \in Nat
    BY <1>7, GlobalLimitType
  <1> HIDE DEF ob, rs
  <1>9. Owed(ob, rs) = Limit(ob, rs) \/ Limit(ob, rs) = 0 \/ Limit(ob, rs) > GlobalUnhealthyBorrowValue
    BY <1>3, <1>5, <1>6, <1>8 DEF MinOf
  <1> QED
    BY <1>2, <1>9 DEF ob

LEMMA LendingRuns == ChainSpec => []LendingInv
  <1>1. ChainInit => LendingInv
    BY LendingInit DEF ChainInit
  <1>2. LendingInv /\ [ChainNext]_chainVars => LendingInv'
    BY LendingStep DEF ChainNext, chainVars
  <1> QED
    BY <1>1, <1>2, PTL DEF ChainSpec

(* The Rust bot and the program agree on what may be liquidated, in every    *)
(* market and at any prices: on accounts that are up to date the program     *)
(* accepts what the bot flags, whichever of equally large entries the bot    *)
(* picks, and what the bot leaves although it would be accepted is at the    *)
(* edge (process_markets in helpers.rs against _liquidate_obligation).       *)
THEOREM BotAndProgramAgree == ChainSpec => []VerdictsAgree
  <1>1. LendingInv => VerdictsAgree
    <2> SUFFICES ASSUME LendingInv PROVE FlaggedIsAccepted /\ MissedOnlyAtTheEdge
      BY DEF VerdictsAgree
    <2>1. FlaggedIsAccepted
      BY FlaggedAccepted DEF FlaggedIsAccepted
    <2>2. MissedOnlyAtTheEdge
      BY LeftAtTheEdge DEF MissedOnlyAtTheEdge
    <2> QED
      BY <2>1, <2>2
  <1> QED
    BY <1>1, LendingRuns, PTL

(* With interest up to date and no protocol fees, the TypeScript bot has the *)
(* terms of the refreshes in the transaction, whatever the recorded prices.  *)
LEMMA TsHasTheTerms ==
  ASSUME LendingInv, NEW o \in Obligations, CanRefresh(o),
         \A r \in Touched(o) : reserve[r].slot = slot /\ reserve[r].fees = 0
  PROVE  LET ob == obligation[o]
             rs == Refreshed(o)
         IN  /\ TsPriced(ob) /\ \A r \in Held(ob.deposits) : TsExchangeRate(reserve[r]) > 0
             /\ TsBorrowedValue(ob) = Owed(ob, rs) /\ TsUnhealthyValue(ob) = Limit(ob, rs)
  <1> DEFINE ob == obligation[o]
             rs == Refreshed(o)
  <1>0. /\ TypeOK /\ SlotsPast /\ slot \in Nat
    BY DEF LendingInv, TypeOK, ClockOK
  <1>1. /\ ob \in ObligationState /\ CanValue(ob, rs)
        /\ \A r \in Touched(o) : r \in Reserves /\ reserve[r] \in ReserveState
    BY RefreshedReserves
  <1>2. ASSUME NEW r \in Touched(o)
        PROVE  /\ rs[r].price = GetPrice(oracle[r]) /\ rs[r].cumulative = reserve[r].cumulative
               /\ rs[r].config = reserve[r].config /\ rs[r].supply = reserve[r].supply
               /\ rs[r].available = reserve[r].available /\ rs[r].borrowed = reserve[r].borrowed
               /\ rs[r].fees = 0
    <2> DEFINE x == [reserve[r] EXCEPT !.price = GetPrice(oracle[r])]
    <2>1. r \in Reserves /\ reserve[r] \in ReserveState
      BY <1>1
    <2>2. GetPrice(oracle[r]) \in Nat
      BY <1>0, <2>1, FeedsAssumption DEF CanRefresh, GetPrice, TypeOK, ClockOK
    <2>3. /\ x \in ReserveState /\ x.slot = slot /\ x.price = GetPrice(oracle[r])
          /\ x.cumulative = reserve[r].cumulative /\ x.config = reserve[r].config
          /\ x.supply = reserve[r].supply /\ x.available = reserve[r].available
          /\ x.borrowed = reserve[r].borrowed /\ x.fees = 0
      BY <2>1, <2>2 DEF ReserveState
    <2>4. rs[r] = Accrued(x)
      BY <2>1 DEF Refreshed
    <2> HIDE DEF x, rs
    <2>5. Accrued(x) = [x EXCEPT !.slot = slot, !.stale = FALSE]
      <3>1. ~(slot > x.slot)
        BY <1>0, <2>3
      <3> QED
        BY <3>1, Zenon DEF Accrued, UpdateSlot
    <2> QED
      BY <2>3, <2>4, <2>5 DEF ReserveState
  <1>3. ASSUME NEW r \in Touched(o)
        PROVE  TsExchangeRate(reserve[r]) = ExchangeRate(rs[r])
    <2>1. reserve[r] \in ReserveState
      BY <1>1
    <2>2. FromInt(reserve[r].available) \in Nat /\ reserve[r].borrowed \in Nat
      BY <2>1, ReserveFields, FromIntType
    <2>3. TotalSupply(rs[r]) = FromInt(reserve[r].available) + reserve[r].borrowed
      BY <1>2, <2>2 DEF TotalSupply
    <2> QED
      BY <1>2, <2>3 DEF TsExchangeRate, ExchangeRate
  <1>4. \A r \in Held(ob.deposits) \cup Held(ob.borrows) : r \in Touched(o)
    BY DEF Touched
  <1>5. TsPriced(ob)
    BY <1>4 DEF TsPriced, CanRefresh
  <1> HIDE DEF rs
  <1>6. \A r \in Held(ob.deposits) : TsExchangeRate(reserve[r]) > 0
    BY <1>1, <1>3, <1>4 DEF CanValue
  <1>7. TsBorrowedValue(ob) = Owed(ob, rs)
    <2>1. \A r \in Held(ob.borrows) :
            TryMul(AccrueBorrow(ob.borrows[r], reserve[r].cumulative).amount, GetPrice(oracle[r]))
              = BorrowWorth(ob, rs, r)
      BY <1>2, <1>4 DEF BorrowWorth
    <2> QED
      BY <2>1 DEF TsBorrowedValue, Owed
  <1>8. TsUnhealthyValue(ob) = Limit(ob, rs)
    <2>1. \A r \in Held(ob.deposits) : TsDepositValue(ob, r) = DepositWorth(ob, rs, r)
      BY <1>2, <1>3, <1>4 DEF TsDepositValue, DepositWorth, DepositValue, CollateralValue
    <2>2. \A r \in Held(ob.deposits) :
            TryMul(TsDepositValue(ob, r), FromPercent(reserve[r].config.threshold))
              = LimitWorth(ob, rs, r)
      BY <1>2, <1>4, <2>1 DEF LimitWorth
    <2> QED
      BY <2>2 DEF TsUnhealthyValue, Limit
  <1> QED
    BY <1>5, <1>6, <1>7, <1>8 DEF rs

(* The TypeScript bot follows the oracle, in every market: as long as        *)
(* interest is up to date and no protocol fees have accumulated, it flags    *)
(* what the program accepts, except at the edges, however old the recorded   *)
(* prices are (calculateRefreshedObligation and runLiquidator against        *)
(* _refresh_reserve and _liquidate_obligation).                              *)
THEOREM TsFollowsTheOracle == ChainSpec => []TsSeesOraclePrices
  <1>1. LendingInv => TsSeesOraclePrices
    <2> SUFFICES ASSUME LendingInv, NEW o \in Obligations,
                        NEW rr \in Reserves, NEW wr \in Reserves, Accepts(o, rr, wr),
                        \A r \in Touched(o) : reserve[r].slot = slot /\ reserve[r].fees = 0
                 PROVE  \/ TsFlags(o)
                        \/ TsBorrowedValue(obligation[o]) = TsUnhealthyValue(obligation[o])
                        \/ TsUnhealthyValue(obligation[o]) > GlobalUnhealthyBorrowValue
      BY DEF TsSeesOraclePrices
    <2> DEFINE ob == obligation[o]
               rs == Refreshed(o)
    <2>1. CanRefresh(o) /\ ob # NoObligation
      BY DEF Accepts, CanRefresh
    <2>2. ob \in ObligationState /\ CanValue(ob, rs)
      BY <2>1, RefreshedReserves
    <2>3. /\ TsPriced(ob) /\ \A r \in Held(ob.deposits) : TsExchangeRate(reserve[r]) > 0
          /\ TsBorrowedValue(ob) = Owed(ob, rs) /\ TsUnhealthyValue(ob) = Limit(ob, rs)
      BY <2>1, TsHasTheTerms
    <2>4. /\ Owed(ob, rs) >= MinOf(Limit(ob, rs), GlobalUnhealthyBorrowValue)
          /\ Held(ob.borrows) # {} /\ Held(ob.deposits) # {}
      BY <2>1, ProgramAccepts
    <2>5. Owed(ob, rs) \in Nat /\ Limit(ob, rs) \in Nat
      BY <2>2, TotalsAreNat
    <2>6. slot \in Nat
      BY DEF LendingInv, TypeOK, ClockOK
    <2>7. GlobalUnhealthyBorrowValue \in Nat
      BY <2>6, GlobalLimitType
    <2>8. \/ Owed(ob, rs) > Limit(ob, rs) \/ Owed(ob, rs) = Limit(ob, rs)
          \/ Limit(ob, rs) > GlobalUnhealthyBorrowValue
      <3> HIDE DEF ob, rs
      <3> QED
        BY <2>4, <2>5, <2>7 DEF MinOf
    <2> QED
      BY <2>1, <2>3, <2>4, <2>8 DEF TsFlags
  <1> QED
    BY <1>1, LendingRuns, PTL
-----------------------------------------------------------------------------
(* The entries of an obligation, counted.  Each obligation of the program    *)
(* implements ObligationSlots, so that its entries always fit its account.   *)

Filled(entries) == Cardinality(Held(entries))

DepositCount(o) == IF obligation[o] = NoObligation THEN 0 ELSE Filled(obligation[o].deposits)
BorrowCount(o) == IF obligation[o] = NoObligation THEN 0 ELSE Filled(obligation[o].borrows)

Entries(o) == INSTANCE ObligationSlots WITH
                MAX_OBLIGATION_RESERVES <- MaxObligationReserves,
                deposits <- DepositCount(o), borrows <- BorrowCount(o)

(* The entries of o change as the abstract specification allows, or not.     *)
SlotsStep(o) == Entries(o)!Next \/ UNCHANGED Entries(o)!slots

LEMMA FilledType ==
  ASSUME NEW f
  PROVE  /\ IsFiniteSet(Held(f)) /\ Filled(f) \in Nat
         /\ Held(f) # {} => Filled(f) > 0
  <1>1. IsFiniteSet(Held(f))
    BY PartiesAssumption, FS_Subset DEF Held
  <1>2. Cardinality(Held(f)) \in Nat /\ (Cardinality(Held(f)) = 0 <=> Held(f) = {})
    BY <1>1, FS_CardinalityType, FS_EmptySet
  <1> QED
    BY <1>1, <1>2 DEF Filled

(* A change of the entry of r counts for one, at most. *)
LEMMA EntryReplaced ==
  ASSUME NEW f, NEW g, NEW r \in Reserves, \A q \in Reserves \ {r} : g[q] = f[q]
  PROVE  /\ (f[r] = NoEntry <=> g[r] = NoEntry) => Filled(g) = Filled(f)
         /\ f[r] = NoEntry /\ g[r] # NoEntry => Filled(g) = Filled(f) + 1
         /\ f[r] # NoEntry /\ g[r] = NoEntry => Filled(f) > 0 /\ Filled(g) = Filled(f) - 1
  <1>0. /\ IsFiniteSet(Held(f)) /\ Filled(f) \in Nat
        /\ IsFiniteSet(Held(g)) /\ Filled(g) \in Nat
    BY FilledType
  <1>1. ASSUME f[r] = NoEntry <=> g[r] = NoEntry PROVE Filled(g) = Filled(f)
    <2>1. Held(g) = Held(f)
      BY <1>1 DEF Held
    <2> QED
      BY <2>1 DEF Filled
  <1>2. ASSUME f[r] = NoEntry, g[r] # NoEntry PROVE Filled(g) = Filled(f) + 1
    <2>1. Held(g) = Held(f) \cup {r} /\ r \notin Held(f)
      BY <1>2 DEF Held
    <2> QED
      BY <1>0, <2>1, FS_AddElement DEF Filled
  <1>3. ASSUME f[r] # NoEntry, g[r] = NoEntry PROVE Filled(f) = Filled(g) + 1
    <2>1. Held(f) = Held(g) \cup {r} /\ r \notin Held(g)
      BY <1>3 DEF Held
    <2> QED
      BY <1>0, <2>1, FS_AddElement DEF Filled
  <1> QED
    BY <1>0, <1>1, <1>2, <1>3

LEMMA ObligationLeft ==
  ASSUME NEW o, obligation'[o] = obligation[o]
  PROVE  SlotsStep(o)
  BY DEF SlotsStep, Entries!slots, DepositCount, BorrowCount

(* At most one deposit and one borrow of o are touched, and an entry is only *)
(* added where there is room, a borrow only beside a deposit.                *)
LEMMA EntriesMove ==
  ASSUME NEW o, NEW old, NEW new, obligation[o] = old, obligation'[o] = new,
         old # NoObligation, new # NoObligation,
         NEW rd \in Reserves, \A q \in Reserves \ {rd} : new.deposits[q] = old.deposits[q],
         NEW rb \in Reserves, \A q \in Reserves \ {rb} : new.borrows[q] = old.borrows[q],
         \/ new.borrows = old.borrows /\ CanAddDeposit(old, rd)
         \/ new.deposits = old.deposits /\ CanAddBorrow(old, rb) /\ Held(old.deposits) # {}
         \/ new.deposits = old.deposits /\ old.borrows[rb] # NoEntry
         \/ old.deposits[rd] # NoEntry /\ old.borrows[rb] # NoEntry
  PROVE  SlotsStep(o)
  <1> DEFINE d == Filled(old.deposits)
             e == Filled(new.deposits)
             b == Filled(old.borrows)
             c == Filled(new.borrows)
  <1>0. /\ d \in Nat /\ e \in Nat /\ b \in Nat /\ c \in Nat /\ MaxObligationReserves \in Nat
        /\ Held(old.deposits) # {} => d > 0
    BY FilledType, BoundsAssumption
  <1>1. /\ DepositCount(o) = d /\ DepositCount(o)' = e
        /\ BorrowCount(o) = b /\ BorrowCount(o)' = c
    BY DEF DepositCount, BorrowCount
  <1>2. /\ old.deposits[rd] = NoEntry => e = d \/ e = d + 1
        /\ old.deposits[rd] # NoEntry => e = d \/ (d > 0 /\ e = d - 1)
    BY <1>0, EntryReplaced
  <1>3. /\ old.borrows[rb] = NoEntry => c = b \/ c = b + 1
        /\ old.borrows[rb] # NoEntry => c = b \/ (b > 0 /\ c = b - 1)
    BY <1>0, EntryReplaced
  <1>4. Size(old) = d + b
    BY DEF Size, Filled
  <1>5. new.deposits = old.deposits => e = d
    OBVIOUS
  <1>6. new.borrows = old.borrows => c = b
    OBVIOUS
  <1> HIDE DEF d, e, b, c
  <1>7. \/ e = d /\ c = b
        \/ d + b < MaxObligationReserves /\ e = d + 1 /\ c = b
        \/ d > 0 /\ e = d - 1 /\ c = b
        \/ d > 0 /\ d + b < MaxObligationReserves /\ c = b + 1 /\ e = d
        \/ b > 0 /\ c = b - 1 /\ e = d
        \/ d > 0 /\ e = d - 1 /\ b > 0 /\ c = b - 1
    BY <1>0, <1>2, <1>3, <1>4, <1>5, <1>6 DEF CanAddDeposit, CanAddBorrow
  <1> QED
    BY <1>1, <1>7 DEF SlotsStep, Entries!Next, Entries!slots, Entries!HasRoom, Entries!AddDeposit,
         Entries!RemoveDeposit, Entries!AddBorrow, Entries!RemoveBorrow, Entries!RemoveBoth

(* A step that replaces the account of o, with at most one deposit and one   *)
(* borrow changed, for each obligation.                                      *)
OneTouched(old, new, rd, rb) ==
  /\ new \in ObligationState
  /\ \A q \in Reserves \ {rd} : new.deposits[q] = old.deposits[q]
  /\ \A q \in Reserves \ {rb} : new.borrows[q] = old.borrows[q]
  /\ \/ new.borrows = old.borrows /\ CanAddDeposit(old, rd)
     \/ new.deposits = old.deposits /\ CanAddBorrow(old, rb) /\ Held(old.deposits) # {}
     \/ new.deposits = old.deposits /\ old.borrows[rb] # NoEntry
     \/ old.deposits[rd] # NoEntry /\ old.borrows[rb] # NoEntry

LEMMA AccountReplaced ==
  ASSUME TypeOK, NEW o \in Obligations, NEW new, obligation' = [obligation EXCEPT ![o] = new],
         obligation[o] # NoObligation,
         NEW rd \in Reserves, NEW rb \in Reserves, OneTouched(obligation[o], new, rd, rb)
  PROVE  \A p \in Obligations : SlotsStep(p)
  <1>1. /\ obligation'[o] = new /\ \A p \in Obligations \ {o} : obligation'[p] = obligation[p]
    BY DEF TypeOK
  <1>2. \A p \in Obligations \ {o} : SlotsStep(p)
    BY <1>1, ObligationLeft
  <1>3. new # NoObligation
    BY NoneAssumption DEF OneTouched
  <1>4. SlotsStep(o)
    BY <1>1, <1>3, EntriesMove DEF OneTouched
  <1> QED
    BY <1>2, <1>4

LEMMA DepositSlots ==
  ASSUME LendingInv, NEW o \in Obligations, NEW r \in Reserves, NEW n \in Nat,
         obligation[o] # NoObligation, CanAddDeposit(obligation[o], r),
         obligation' = [obligation EXCEPT ![o] = MarkStale(AddDeposit(obligation[o], r, n))]
  PROVE  \A p \in Obligations : SlotsStep(p)
  <1> DEFINE old == obligation[o]
             mid == AddDeposit(old, r, n)
             new == MarkStale(mid)
  <1>1. TypeOK /\ old \in ObligationState
    BY ExistingObligation DEF LendingInv
  <1>2. /\ mid \in ObligationState /\ mid.borrows = old.borrows
        /\ \A q \in Reserves \ {r} : mid.deposits[q] = old.deposits[q]
    BY <1>1, AddDepositType
  <1> HIDE DEF mid
  <1>3. new \in ObligationState /\ new.deposits = mid.deposits /\ new.borrows = mid.borrows
    BY <1>2, MarkObligationType
  <1>4. obligation' = [obligation EXCEPT ![o] = new]
    BY DEF mid
  <1> HIDE DEF new
  <1>5. OneTouched(old, new, r, r)
    BY <1>2, <1>3 DEF OneTouched
  <1> QED
    BY <1>1, <1>4, <1>5, AccountReplaced

LEMMA WithdrawSlots ==
  ASSUME LendingInv, NEW o \in Obligations, NEW r \in Reserves, NEW n \in Asked \cup {0},
         CanWithdraw(o, r),
         NEW taken \in WithdrawAmount(obligation[o], r, reserve[r].config.ltv, n),
         obligation' = [obligation EXCEPT ![o] = MarkStale(TakeDeposit(obligation[o], r, taken))]
  PROVE  \A p \in Obligations : SlotsStep(p)
  <1> DEFINE old == obligation[o]
             mid == TakeDeposit(old, r, taken)
             new == MarkStale(mid)
  <1>1. old # NoObligation /\ old.deposits[r] # NoEntry /\ reserve[r] # NoReserve
    BY DEF CanWithdraw, FreshObligation, FreshReserve
  <1>2. TypeOK /\ old \in ObligationState /\ reserve[r] \in ReserveState
    BY <1>1, ExistingObligation, ExistingReserve DEF LendingInv
  <1>3. reserve[r].config.ltv \in Nat
    BY <1>2, ReserveFields, ConfigType
  <1>4. taken \in Nat /\ taken <= old.deposits[r].amount
    BY <1>1, <1>2, <1>3, WithdrawType
  <1>5. /\ mid \in ObligationState /\ mid.borrows = old.borrows
        /\ \A q \in Reserves \ {r} : mid.deposits[q] = old.deposits[q]
    BY <1>1, <1>2, <1>4, TakeDepositType
  <1> HIDE DEF mid
  <1>6. new \in ObligationState /\ new.deposits = mid.deposits /\ new.borrows = mid.borrows
    BY <1>5, MarkObligationType
  <1>7. obligation' = [obligation EXCEPT ![o] = new]
    BY DEF mid
  <1> HIDE DEF new
  <1>8. OneTouched(old, new, r, r)
    BY <1>1, <1>5, <1>6 DEF OneTouched, CanAddDeposit
  <1> QED
    BY <1>1, <1>2, <1>7, <1>8, AccountReplaced

(* An obligation that passes for fresh has a deposited value only if it has  *)
(* deposits; what a borrow checks is the value.                              *)
WorthIsDeposited ==
  \A o \in Obligations :
    FreshObligation(o) /\ obligation[o].depositedValue # 0 => Held(obligation[o].deposits) # {}

LEMMA WorthStep ==
  ASSUME LendingInv, LendingInv', [Next]_vars, WorthIsDeposited
  PROVE  WorthIsDeposited'
  <1>1. CASE AdvanceSlot
    BY <1>1, SlotTurns DEF WorthIsDeposited
  <1>2. CASE WithinSlot
    BY <1>2, FreshBefore DEF WorthIsDeposited, Revalued, Held
  <1> QED
    BY <1>1, <1>2, StepsMark

LEMMA BorrowSlots ==
  ASSUME LendingInv, WorthIsDeposited, NEW o \in Obligations, NEW r \in Reserves, NEW n \in Asked,
         BorrowObligationLiquidity(o, r, n)
  PROVE  \A p \in Obligations : SlotsStep(p)
  <1> DEFINE y == reserve[r]
             old == obligation[o]
  <1>1. PICK res \in CalculateBorrow(y, n, old.allowedBorrowValue - old.borrowedValue, Capacity(y)) :
          obligation' = [obligation EXCEPT ![o] = Drawn(old, r, y.cumulative, res.borrow)]
    BY DEF BorrowObligationLiquidity
  <1>2. /\ y # NoReserve /\ old # NoObligation /\ CanAddBorrow(old, r)
        /\ old.allowedBorrowValue > old.borrowedValue
        /\ Held(old.deposits) # {}
    BY DEF BorrowObligationLiquidity, FreshReserve, FreshObligation, WorthIsDeposited
  <1>3. TypeOK /\ y \in ReserveState /\ old \in ObligationState
    BY <1>2, ExistingReserve, ExistingObligation DEF LendingInv
  <1>4. /\ y.borrowed \in Nat /\ y.config \in Configs /\ y.cumulative \in Nat \ {0}
        /\ old.allowedBorrowValue \in Nat /\ old.borrowedValue \in Nat
    BY <1>3, ReserveFields, ObligationFields
  <1>5. old.allowedBorrowValue - old.borrowedValue \in Nat
    BY <1>2, <1>4
  <1>6. Capacity(y) \in Nat
    <2>1. FromInt(y.config.borrowLimit) \in Nat
      BY <1>4, ConfigType, FromIntType
    <2> QED
      BY <1>4, <2>1 DEF Capacity, MaxOf
  <1> DEFINE mid == AddBorrow(old, r, y.cumulative, res.borrow)
             new == MarkStale(mid)
  <1>7. obligation' = [obligation EXCEPT ![o] = new]
    BY <1>1 DEF Drawn
  <1> HIDE DEF y, old
  <1>8. res.borrow \in Nat
    BY <1>1, <1>3, <1>5, <1>6, BorrowType
  <1>9. /\ mid \in ObligationState /\ mid.deposits = old.deposits
        /\ \A q \in Reserves \ {r} : mid.borrows[q] = old.borrows[q]
    BY <1>3, <1>4, <1>8, AddBorrowType
  <1> HIDE DEF mid
  <1>10. new \in ObligationState /\ new.deposits = mid.deposits /\ new.borrows = mid.borrows
    BY <1>9, MarkObligationType
  <1> HIDE DEF new
  <1>11. OneTouched(old, new, r, r)
    BY <1>2, <1>9, <1>10 DEF OneTouched
  <1> QED
    BY <1>2, <1>3, <1>7, <1>11, AccountReplaced DEF old

LEMMA RepaySlots ==
  ASSUME LendingInv, NEW u \in Users, NEW o \in Obligations, NEW r \in Reserves, NEW n \in Asked,
         RepayObligationLiquidity(u, o, r, n)
  PROVE  \A p \in Obligations : SlotsStep(p)
  <1> DEFINE y == Accrued(reserve[r])
             old == obligation[o]
             b == AccrueBorrow(old.borrows[r], y.cumulative)
             res == CalculateRepay(n, b.amount)
             opened == [old EXCEPT !.borrows = [old.borrows EXCEPT ![r] = b]]
             mid == TakeBorrow(opened, r, res.settle)
             new == MarkStale(mid)
  <1>1. /\ reserve[r] # NoReserve /\ CanAccrue(reserve[r])
        /\ old # NoObligation /\ old.borrows[r] # NoEntry
    BY DEF RepayObligationLiquidity
  <1>2. obligation' = [obligation EXCEPT ![o] = new]
    BY DEF RepayObligationLiquidity
  <1>3. TypeOK /\ y \in ReserveState /\ old \in ObligationState
    BY <1>1, AccruedReserve, ExistingObligation DEF LendingInv
  <1> HIDE DEF y, old
  <1>4. y.cumulative \in Nat /\ old.borrows[r] \in Borrow
    BY <1>1, <1>3, ReserveFields, ObligationFields
  <1>5. b \in Borrow
    BY <1>4, AccrueBorrowType
  <1> HIDE DEF b
  <1>6. b.amount \in Nat /\ b # NoEntry
    BY <1>5, NoneAssumption DEF Borrow
  <1>7. res.settle \in Nat /\ res.settle <= b.amount
    BY <1>6, RepayType
  <1> HIDE DEF res
  <1>8. /\ opened \in ObligationState /\ opened.deposits = old.deposits /\ opened.borrows[r] = b
        /\ \A q \in Reserves \ {r} : opened.borrows[q] = old.borrows[q]
    BY <1>3, <1>5, BorrowReplaced
  <1> HIDE DEF opened
  <1>9. /\ mid \in ObligationState /\ mid.deposits = opened.deposits
        /\ \A q \in Reserves \ {r} : mid.borrows[q] = opened.borrows[q]
    BY <1>6, <1>7, <1>8, TakeBorrowType
  <1> HIDE DEF mid
  <1>10. new \in ObligationState /\ new.deposits = mid.deposits /\ new.borrows = mid.borrows
    BY <1>9, MarkObligationType
  <1> HIDE DEF new
  <1>11. OneTouched(old, new, r, r)
    BY <1>1, <1>8, <1>9, <1>10 DEF OneTouched
  <1> QED
    BY <1>1, <1>2, <1>3, <1>11, AccountReplaced DEF old

LEMMA LiquidateSlots ==
  ASSUME LendingInv, NEW u \in Users, NEW o \in Obligations,
         NEW rr \in Reserves, NEW wr \in Reserves, NEW n \in Asked,
         CanLiquidate(o, rr, wr), LiquidateBooks(u, o, rr, wr, Liquidation(o, rr, wr, n))
  PROVE  \A p \in Obligations : SlotsStep(p)
  <1> DEFINE old == obligation[o]
             res == Liquidation(o, rr, wr, n)
             settled == TakeBorrow(old, rr, res.settle)
             mid == TakeDeposit(settled, wr, res.withdraw)
             new == MarkStale(mid)
  <1>1. /\ old # NoObligation /\ old \in ObligationState
        /\ old.borrows[rr] # NoEntry /\ old.deposits[wr] # NoEntry
        /\ res.settle \in Nat /\ res.settle <= old.borrows[rr].amount
        /\ res.withdraw \in Nat /\ res.withdraw <= old.deposits[wr].amount
    BY LiquidationTerms
  <1>2. TypeOK /\ obligation' = [obligation EXCEPT ![o] = new]
    BY DEF LiquidateBooks, LendingInv
  <1> HIDE DEF old, res
  <1>3. /\ settled \in ObligationState /\ settled.deposits = old.deposits
        /\ \A q \in Reserves \ {rr} : settled.borrows[q] = old.borrows[q]
    BY <1>1, TakeBorrowType
  <1> HIDE DEF settled
  <1>4. settled.deposits[wr] # NoEntry /\ res.withdraw <= settled.deposits[wr].amount
    BY <1>1, <1>3
  <1>5. /\ mid \in ObligationState /\ mid.borrows = settled.borrows
        /\ \A q \in Reserves \ {wr} : mid.deposits[q] = settled.deposits[q]
    BY <1>1, <1>3, <1>4, TakeDepositType
  <1> HIDE DEF mid
  <1>6. new \in ObligationState /\ new.deposits = mid.deposits /\ new.borrows = mid.borrows
    BY <1>5, MarkObligationType
  <1> HIDE DEF new
  <1>7. OneTouched(old, new, wr, rr)
    BY <1>1, <1>3, <1>5, <1>6 DEF OneTouched
  <1> QED
    BY <1>1, <1>2, <1>7, AccountReplaced DEF old

LEMMA InitSlots ==
  ASSUME LendingInv, NEW o \in Obligations, InitObligation(o)
  PROVE  \A p \in Obligations : SlotsStep(p)
  <1>1. /\ obligation'[o] = NewObligation /\ obligation[o] = NoObligation
        /\ \A p \in Obligations \ {o} : obligation'[p] = obligation[p]
    BY DEF InitObligation, LendingInv, TypeOK
  <1>2. Held(NewObligation.deposits) = {} /\ Held(NewObligation.borrows) = {}
    BY DEF Held, NewObligation
  <1>3. Filled(NewObligation.deposits) = 0 /\ Filled(NewObligation.borrows) = 0
    BY <1>2, FS_EmptySet DEF Filled
  <1>4. SlotsStep(o)
    BY <1>1, <1>3 DEF SlotsStep, Entries!slots, DepositCount, BorrowCount
  <1> QED
    BY <1>1, <1>4, ObligationLeft

LEMMA RefreshSlots ==
  ASSUME LendingInv, NEW o \in Obligations, RefreshObligation(o)
  PROVE  \A p \in Obligations : SlotsStep(p)
  <1> DEFINE valued == Valued(obligation[o], reserve)
             new == UpdateSlot(valued)
  <1>1. /\ obligation[o] # NoObligation /\ obligation' = [obligation EXCEPT ![o] = new]
        /\ obligation \in [Obligations -> ObligationState \cup {NoObligation}]
    BY DEF RefreshObligation, LendingInv, TypeOK
  <1>2. /\ valued \in ObligationState
        /\ Held(valued.deposits) = Held(obligation[o].deposits)
        /\ Held(valued.borrows) = Held(obligation[o].borrows)
    BY RefreshedObligation, WorthNeedsDeposits
  <1> HIDE DEF valued
  <1>3. slot \in Nat
    BY DEF LendingInv, TypeOK, ClockOK
  <1>4. new \in ObligationState /\ new.deposits = valued.deposits /\ new.borrows = valued.borrows
    BY <1>2, <1>3 DEF UpdateSlot, ObligationState
  <1> HIDE DEF new
  <1>5. obligation'[o] = new /\ \A p \in Obligations \ {o} : obligation'[p] = obligation[p]
    BY <1>1
  <1>6. SlotsStep(o)
    BY <1>1, <1>2, <1>4, <1>5, NoneAssumption
       DEF SlotsStep, Entries!slots, DepositCount, BorrowCount, Filled
  <1> QED
    BY <1>5, <1>6, ObligationLeft

(* Every step of the program does with the entries of every obligation what  *)
(* the abstract specification allows.                                        *)
LEMMA ProgramSlots ==
  ASSUME LendingInv, WorthIsDeposited, [Next]_vars
  PROVE  \A p \in Obligations : SlotsStep(p)
  <1>1. ASSUME obligation' = obligation PROVE \A p \in Obligations : SlotsStep(p)
    BY <1>1, ObligationLeft
  <1>2. ASSUME NEW r \in Reserves, ReserveStep(r) PROVE obligation' = obligation
    BY <1>2 DEF ReserveStep, RefreshReserve, RedeemFees, UpdateReserveConfig, MoveOracle,
         InitReserve, DepositReserveLiquidity, RedeemReserveCollateral, FlashLoan
  <1> SUFFICES ASSUME NEW o \in Obligations, ObligationStep(o) \/ \E u \in Users : AnyoneStep(u, o)
               PROVE  \A p \in Obligations : SlotsStep(p)
    BY <1>1, <1>2 DEF Next, AdvanceSlot, vars
  <1>3. ASSUME NEW r \in Reserves, NEW n \in Amounts, DepositObligationCollateral(o, r, n)
        PROVE  \A p \in Obligations : SlotsStep(p)
    <2>1. n \in Nat
      BY BoundsAssumption
    <2> QED
      BY <1>3, <2>1, DepositSlots DEF DepositObligationCollateral
  <1>4. ASSUME NEW r \in Reserves, NEW n \in Amounts, DepositLiquidityAndCollateral(o, r, n)
        PROVE  \A p \in Obligations : SlotsStep(p)
    <2>1. Minted(r, n) \in Nat
      BY <1>4, DepositedReserve DEF DepositLiquidityAndCollateral
    <2> QED
      BY <1>4, <2>1, DepositSlots DEF DepositLiquidityAndCollateral
  <1>5. ASSUME NEW r \in Reserves, NEW n \in Asked, WithdrawObligationCollateral(o, r, n)
        PROVE  \A p \in Obligations : SlotsStep(p)
    BY <1>5, WithdrawSlots DEF WithdrawObligationCollateral
  <1>6. ASSUME NEW r \in Reserves, NEW n \in Asked \cup {0}, WithdrawAndRedeem(o, r, n)
        PROVE  \A p \in Obligations : SlotsStep(p)
    BY <1>6, WithdrawSlots DEF WithdrawAndRedeem
  <1>7. ASSUME NEW u \in Users, NEW rr \in Reserves, NEW wr \in Reserves, NEW n \in Asked,
               LiquidateObligation(u, o, rr, wr, n) \/ LiquidateAndRedeem(u, o, rr, wr, n)
        PROVE  \A p \in Obligations : SlotsStep(p)
    BY <1>7, LiquidateSlots DEF LiquidateObligation, LiquidateAndRedeem
  <1>8. ASSUME ObligationStep(o) PROVE \A p \in Obligations : SlotsStep(p)
    BY <1>3, <1>4, <1>5, <1>6, <1>8, InitSlots, RefreshSlots, BorrowSlots DEF ObligationStep
  <1>9. ASSUME NEW u \in Users, AnyoneStep(u, o) PROVE \A p \in Obligations : SlotsStep(p)
    BY <1>7, <1>9, RepaySlots DEF AnyoneStep
  <1> QED
    BY <1>8, <1>9

(* Every obligation of the program implements the abstract specification of  *)
(* its entries: whatever instructions come and from whom, an entry is added  *)
(* only within the limit on both kinds together, and a borrow only to an     *)
(* obligation that has a deposit (find_or_add_collateral_to_deposits,        *)
(* find_or_add_liquidity_to_borrows, withdraw and repay of obligation.rs as  *)
(* processor.rs calls them).  The program looks for a deposited value, not   *)
(* for a deposit; that the one implies the other needs the obligation to be  *)
(* fresh.                                                                    *)
THEOREM ObligationsImplementSlots ==
  ASSUME NEW o \in Obligations PROVE Spec => Entries(o)!Spec
  <1>1. Init => Entries(o)!Init
    BY DEF Init, Entries!Init, DepositCount, BorrowCount
  <1>2. Init => WorthIsDeposited
    BY DEF Init, WorthIsDeposited, FreshObligation
  <1>3. LendingInv /\ WorthIsDeposited /\ [Next]_vars => [Entries(o)!Next]_(Entries(o)!slots)
    BY ProgramSlots DEF SlotsStep
  <1>4. LendingInv /\ LendingInv' /\ WorthIsDeposited /\ [Next]_vars => WorthIsDeposited'
    BY WorthStep
  <1> QED
    BY <1>1, <1>2, <1>3, <1>4, LendingInit, LendingStep, PTL DEF Spec, Entries!Spec

(* The invariant of the abstract specification: the limit on entries alone   *)
(* does not make them fit; that a borrow needs a deposit does, as long as it *)
(* is remembered when the deposit goes.                                      *)
LEMMA SlotsInductive ==
  ASSUME NEW o \in Obligations, Entries(o)!SlotsInv, [Entries(o)!Next]_(Entries(o)!slots)
  PROVE  Entries(o)!SlotsInv'
  <1> DEFINE d == DepositCount(o)
             b == BorrowCount(o)
  <1>1. /\ d \in Nat /\ b \in Nat /\ d + b <= MaxObligationReserves /\ b < MaxObligationReserves
        /\ MaxObligationReserves \in Nat
    BY BoundsAssumption DEF Entries!SlotsInv
  <1>2. \/ d' = d /\ b' = b
        \/ d + b < MaxObligationReserves /\ d' = d + 1 /\ b' = b
        \/ d > 0 /\ d' = d - 1 /\ b' = b
        \/ d > 0 /\ d + b < MaxObligationReserves /\ b' = b + 1 /\ d' = d
        \/ b > 0 /\ b' = b - 1 /\ d' = d
        \/ d > 0 /\ d' = d - 1 /\ b > 0 /\ b' = b - 1
    BY DEF Entries!Next, Entries!slots, Entries!HasRoom, Entries!AddDeposit,
         Entries!RemoveDeposit, Entries!AddBorrow, Entries!RemoveBorrow, Entries!RemoveBoth
  <1> HIDE DEF d, b
  <1>3. d' \in Nat /\ b' \in Nat /\ d' + b' <= MaxObligationReserves /\ b' < MaxObligationReserves
    BY <1>1, <1>2
  <1> QED
    BY <1>3 DEF Entries!SlotsInv, d, b

(* Whatever mixture of deposits and borrows the invariant allows fits the    *)
(* area: each deposit saves 24 bytes, and without deposits one borrow is     *)
(* missing.                                                                  *)
LEMMA InvariantFits ==
  ASSUME NEW o \in Obligations, Entries(o)!SlotsInv
  PROVE  Entries(o)!EntriesFit
  <1> DEFINE d == DepositCount(o)
             b == BorrowCount(o)
  <1>1. /\ d \in Nat /\ b \in Nat /\ d + b <= MaxObligationReserves /\ b < MaxObligationReserves
        /\ MaxObligationReserves \in Nat
    BY BoundsAssumption DEF Entries!SlotsInv
  <1> HIDE DEF d, b
  <1>2. 88 * d + 112 * b <= 88 + 112 * (MaxObligationReserves - 1)
    <2>1. CASE d = 0
      BY <1>1, <2>1
    <2>2. CASE d > 0
      BY <1>1, <2>2
    <2> QED
      BY <1>1, <2>1, <2>2
  <1> QED
    BY <1>2 DEF Entries!EntriesFit, Entries!FlatLen, Entries!OBLIGATION_COLLATERAL_LEN,
         Entries!OBLIGATION_LIQUIDITY_LEN, d, b

(* For every limit on the entries, no sequence of instructions of the        *)
(* program, from anyone and on any reserves, makes an obligation whose       *)
(* entries do not fit its account, so that the pack of an obligation never   *)
(* panics (obligation.rs pack_into_slice, find_or_add_*; the borrow of       *)
(* processor.rs).                                                            *)
THEOREM EntriesAlwaysFit ==
  ASSUME NEW o \in Obligations PROVE Spec => []Entries(o)!EntriesFit
  <1>1. Entries(o)!Init => Entries(o)!SlotsInv
    BY BoundsAssumption DEF Entries!Init, Entries!SlotsInv
  <1>2. Entries(o)!SlotsInv /\ [Entries(o)!Next]_(Entries(o)!slots) => Entries(o)!SlotsInv'
    BY SlotsInductive
  <1>3. Entries(o)!SlotsInv => Entries(o)!EntriesFit
    BY InvariantFits
  <1>4. Spec => Entries(o)!Spec
    BY ObligationsImplementSlots
  <1> QED
    BY <1>1, <1>2, <1>3, <1>4, PTL DEF Entries!Spec
-----------------------------------------------------------------------------
(* What a collateral token stands for.  First, how an instruction moves the  *)
(* total supply of a reserve.                                                *)

LEMMA IntMonotone ==
  ASSUME NEW a \in Nat, NEW b \in Int, NEW c \in Int, b <= c
  PROVE  b * a \in Int /\ c * a \in Int /\ b * a <= c * a
  <1> DEFINE d == c - b
  <1>1. d \in Nat /\ c = b + d
    BY SMT
  <1> HIDE DEF d
  <1>2. d * a \in Nat /\ (b + d) * a = b * a + d * a /\ b * a \in Int
    BY <1>1, SMT
  <1> QED
    BY <1>1, <1>2

LEMMA MulCancels ==
  ASSUME NEW w \in Nat, w > 0, NEW a \in Nat, NEW b \in Nat, w * a <= w * b
  PROVE  a <= b
  <1>1. SUFFICES ASSUME b + 1 <= a PROVE FALSE
    OBVIOUS
  <1>2. w * (b + 1) <= w * a
    BY <1>1, MulMonotone
  <1>3. w * (b + 1) = w * b + w /\ w * b \in Nat /\ w * a \in Nat
    BY SMT
  <1> QED
    BY <1>2, <1>3

LEMMA FromIntAdds ==
  ASSUME NEW a \in Nat, NEW b \in Nat
  PROVE  FromInt(a + b) = FromInt(a) + FromInt(b)
  BY WadType, SMT DEF FromInt

(* The total supply of y, that has e tokens more and d tokens less than x.   *)
LEMMA TotalMoves ==
  ASSUME NEW x \in ReserveState, NEW y \in ReserveState, NEW d \in Nat, NEW e \in Nat,
         y.available + d = x.available + e
  PROVE  /\ TotalSupply(x) \in Int /\ TotalSupply(y) \in Int
         /\ FromInt(d) \in Nat /\ FromInt(e) \in Nat
         /\ x.borrowed \in Nat /\ x.fees \in Nat
         /\ TotalSupply(y) = TotalSupply(x) + FromInt(e) - FromInt(d)
                              + (y.borrowed - x.borrowed) - (y.fees - x.fees)
  <1>1. /\ x.available \in Nat /\ x.borrowed \in Nat /\ x.fees \in Nat
        /\ y.available \in Nat /\ y.borrowed \in Nat /\ y.fees \in Nat
    BY ReserveFields
  <1>2. /\ FromInt(x.available) \in Nat /\ FromInt(y.available) \in Nat
        /\ FromInt(d) \in Nat /\ FromInt(e) \in Nat
    BY <1>1, FromIntType
  <1>3. FromInt(y.available) + FromInt(d) = FromInt(x.available) + FromInt(e)
    <2>1. FromInt(y.available + d) = FromInt(y.available) + FromInt(d)
      BY <1>1, FromIntAdds
    <2>2. FromInt(x.available + e) = FromInt(x.available) + FromInt(e)
      BY <1>1, FromIntAdds
    <2> QED
      BY <2>1, <2>2
  <1>4. /\ TotalSupply(x) = FromInt(x.available) + x.borrowed - x.fees
        /\ TotalSupply(y) = FromInt(y.available) + y.borrowed - y.fees
    BY DEF TotalSupply
  <1> QED
    BY <1>1, <1>2, <1>3, <1>4

LEMMA MarkedTotal ==
  ASSUME NEW x \in ReserveState
  PROVE  /\ MarkStale(x) \in ReserveState /\ MarkStale(x).supply = x.supply
         /\ TotalSupply(MarkStale(x)) = TotalSupply(x)
  <1> DEFINE y == MarkStale(x)
  <1>1. /\ y \in ReserveState /\ y.supply = x.supply /\ y.available = x.available
        /\ y.borrowed = x.borrowed /\ y.fees = x.fees
    BY MarkStaleType
  <1> HIDE DEF y
  <1> QED
    BY <1>1 DEF TotalSupply, y

(* A loan raises it by the part of a token that is owed and not paid out.    *)
LEMMA BorrowTotal ==
  ASSUME NEW x \in ReserveState, NEW borrow \in Nat, Floor(borrow) <= x.available
  PROVE  LET y == BorrowReserve(x, borrow)
         IN  /\ y \in ReserveState /\ y.supply = x.supply
             /\ TotalSupply(y) = TotalSupply(x) + (borrow - FromInt(Floor(borrow)))
             /\ TotalSupply(y) >= TotalSupply(x)
  <1> DEFINE y == BorrowReserve(x, borrow)
             d == Floor(borrow)
  <1>1. /\ y \in ReserveState /\ y.available = x.available - d /\ y.supply = x.supply
        /\ y.borrowed = x.borrowed + borrow /\ y.fees = x.fees
    BY BorrowReserveType
  <1>2. d \in Nat /\ FromInt(d) <= borrow /\ x.available \in Nat
    BY RoundingTypes, ReserveFields
  <1> HIDE DEF y, d
  <1>3. y.available + d = x.available + 0
    BY <1>1, <1>2
  <1>4. /\ TotalSupply(x) \in Int /\ TotalSupply(y) \in Int /\ FromInt(d) \in Nat
        /\ FromInt(0) \in Nat /\ x.borrowed \in Nat /\ x.fees \in Nat
        /\ TotalSupply(y) = TotalSupply(x) + FromInt(0) - FromInt(d)
                             + (y.borrowed - x.borrowed) - (y.fees - x.fees)
    BY <1>1, <1>2, <1>3, TotalMoves
  <1>5. FromInt(0) = 0
    BY WadType DEF FromInt
  <1> QED
    BY <1>1, <1>2, <1>4, <1>5 DEF y, d

(* A repayment lowers it by no more than what is settled and not repaid.     *)
LEMMA RepayTotal ==
  ASSUME NEW x \in ReserveState, NEW repay \in Nat, NEW settle \in Nat
  PROVE  LET y == RepayReserve(x, repay, settle)
         IN  /\ y \in ReserveState /\ y.supply = x.supply
             /\ TotalSupply(y) = TotalSupply(x) + FromInt(repay) - MinOf(settle, x.borrowed)
             /\ TotalSupply(y) >= TotalSupply(x) + FromInt(repay) - settle
  <1> DEFINE y == RepayReserve(x, repay, settle)
             m == MinOf(settle, x.borrowed)
  <1>1. /\ y \in ReserveState /\ y.available = x.available + repay /\ y.supply = x.supply
        /\ y.borrowed = x.borrowed - m /\ y.fees = x.fees
    BY RepayReserveType
  <1>2. m \in Nat /\ m <= settle /\ x.available \in Nat
    BY MinMaxTypes, ReserveFields
  <1> HIDE DEF y, m
  <1>3. y.available + 0 = x.available + repay
    BY <1>1, <1>2
  <1>4. /\ TotalSupply(x) \in Int /\ TotalSupply(y) \in Int /\ FromInt(0) \in Nat
        /\ FromInt(repay) \in Nat /\ x.borrowed \in Nat /\ x.fees \in Nat
        /\ TotalSupply(y) = TotalSupply(x) + FromInt(repay) - FromInt(0)
                             + (y.borrowed - x.borrowed) - (y.fees - x.fees)
    BY <1>1, <1>3, TotalMoves
  <1>5. FromInt(0) = 0
    BY WadType DEF FromInt
  <1> QED
    BY <1>1, <1>2, <1>4, <1>5 DEF y, m

LEMMA DepositTotal ==
  ASSUME NEW x \in ReserveState, HasSupply(x), NEW n \in Nat
  PROVE  TotalSupply(DepositLiquidity(x, n)) = TotalSupply(x) + FromInt(n)
  <1> DEFINE y == DepositLiquidity(x, n)
  <1>1. /\ y \in ReserveState /\ y.available = x.available + n
        /\ y.borrowed = x.borrowed /\ y.fees = x.fees /\ x.available \in Nat
    BY DepositType, ReserveFields
  <1> HIDE DEF y
  <1>2. y.available + 0 = x.available + n
    BY <1>1
  <1>3. /\ TotalSupply(x) \in Int /\ FromInt(0) \in Nat /\ FromInt(n) \in Nat
        /\ x.borrowed \in Nat /\ x.fees \in Nat
        /\ TotalSupply(y) = TotalSupply(x) + FromInt(n) - FromInt(0)
                             + (y.borrowed - x.borrowed) - (y.fees - x.fees)
    BY <1>1, <1>2, TotalMoves
  <1>4. FromInt(0) = 0
    BY WadType DEF FromInt
  <1> QED
    BY <1>1, <1>3, <1>4 DEF y

LEMMA RedeemTotal ==
  ASSUME NEW x \in ReserveState, HasSupply(x), NEW n \in Nat,
         NEW res \in RedeemCollateral(x, n)
  PROVE  TotalSupply(res.reserve) = TotalSupply(x) - FromInt(res.liquidity)
  <1> DEFINE y == res.reserve
             d == res.liquidity
  <1>1. /\ y \in ReserveState /\ d \in Nat /\ y.available = x.available - d
        /\ y.borrowed = x.borrowed /\ y.fees = x.fees /\ x.available \in Nat
    BY RedeemType, ReserveFields
  <1> HIDE DEF y, d
  <1>2. y.available + d = x.available + 0
    BY <1>1, ReserveFields
  <1>3. /\ TotalSupply(x) \in Int /\ FromInt(d) \in Nat
        /\ x.borrowed \in Nat /\ x.fees \in Nat
        /\ TotalSupply(y) = TotalSupply(x) + FromInt(0) - FromInt(d)
                             + (y.borrowed - x.borrowed) - (y.fees - x.fees)
    BY <1>1, <1>2, TotalMoves
  <1>4. FromInt(0) = 0
    BY WadType DEF FromInt
  <1> QED
    BY <1>1, <1>3, <1>4 DEF y, d

(* What is minted for a deposit, rounded down thrice, stands for no more     *)
(* than was deposited.                                                       *)
LEMMA MintBound ==
  ASSUME NEW t \in Nat, NEW s \in Nat, NEW n \in Nat, NEW w \in Nat, w > 0,
         NEW rate \in Nat, t * rate <= (s * w) * w,
         NEW a \in Nat, w * a <= (n * w) * rate,
         NEW m \in Nat, w * m <= a
  PROVE  t * m <= (n * w) * s
  <1>1. a <= n * rate
    <2>1. (n * w) * rate = w * (n * rate) /\ n * rate \in Nat
      BY SMT
    <2> QED
      BY <2>1, MulCancels
  <1>2. w * m \in Nat /\ n * rate \in Nat /\ w * m <= n * rate /\ t * rate \in Nat
        /\ (s * w) * w \in Nat
    BY <1>1, SMT
  <1>3. t * (w * m) <= t * (n * rate)
    BY <1>2, MulMonotone
  <1>4. n * (t * rate) <= n * ((s * w) * w)
    BY <1>2, MulMonotone
  <1>5. /\ t * (w * m) = w * (t * m) /\ t * (n * rate) = n * (t * rate)
        /\ n * ((s * w) * w) = w * ((n * w) * s)
        /\ t * m \in Nat /\ (n * w) * s \in Nat
        /\ w * (t * m) \in Nat /\ n * (t * rate) \in Nat /\ w * ((n * w) * s) \in Nat
    BY SMT
  <1>6. w * (t * m) <= w * ((n * w) * s)
    BY <1>3, <1>4, <1>5
  <1> QED
    BY <1>5, <1>6, MulCancels

LEMMA MintedFairly ==
  ASSUME NEW x \in ReserveState, HasSupply(x), x.supply > 0, NEW n \in Nat
  PROVE  TotalSupply(x) * LiquidityToCollateral(x, n) <= FromInt(n) * x.supply
  <1> DEFINE t == TotalSupply(x)
             s == x.supply
             rate == ExchangeRate(x)
             a == TryMul(FromInt(n), rate)
             m == LiquidityToCollateral(x, n)
  <1>1. t \in Nat /\ s \in Nat /\ rate \in Nat /\ FromInt(n) \in Nat /\ Wad \in Nat /\ Wad > 0
    BY TotalSupplyType, ReserveFields, ExchangeRateType, FromIntType, WadType
  <1>2. m \in Nat
    BY DepositType
  <1>3. CASE t = 0
    <2>1. t * m = 0 /\ FromInt(n) * s \in Nat
      BY <1>1, <1>2, <1>3, SMT
    <2> QED
      BY <2>1
  <1>4. CASE t # 0
    <2>1. rate = ((s * Wad) * Wad) \div t
      BY <1>4 DEF ExchangeRate, TryDiv, FromInt
    <2>2. (s * Wad) * Wad \in Nat /\ (n * Wad) * rate \in Nat /\ t > 0
      BY <1>1, <1>4, SMT
    <2>3. t * rate <= (s * Wad) * Wad
      BY <1>1, <2>1, <2>2, DivBounds
    <2>4. a = ((n * Wad) * rate) \div Wad /\ m = a \div Wad
      BY DEF TryMul, FromInt, LiquidityToCollateral, Floor
    <2> HIDE DEF t, s, rate
    <2>5. a \in Nat /\ Wad * a <= (n * Wad) * rate
      BY <1>1, <2>2, <2>4, DivBounds
    <2> HIDE DEF a
    <2>6. Wad * m <= a
      BY <1>1, <2>4, <2>5, DivBounds
    <2> HIDE DEF m
    <2>7. t * m <= (n * Wad) * s
      BY <1>1, <1>2, <2>3, <2>5, <2>6, MintBound
    <2> QED
      BY <2>7 DEF FromInt, t, s, m
  <1> QED
    BY <1>3, <1>4

(* What is paid for n of s collateral tokens is their part of the total t,   *)
(* but for one part in the rate, and one unit, for each token.               *)
LEMMA RedeemBound ==
  ASSUME NEW t \in Nat, NEW s \in Nat, NEW n \in Nat, NEW w \in Nat, n <= s,
         NEW rate \in Nat, rate > 0, (s * w) * w < t * rate + t,
         NEW k \in Nat, t < rate * k + rate,
         NEW paid \in Nat, rate * paid <= (n * w) * w
  PROVE  paid * s <= n * t + (k + 1) * s
  <1> DEFINE p == (n * w) * w
             q == (s * w) * w
             c == rate * k + rate
             z == t * rate + t
  <1>1. p \in Nat /\ q \in Nat /\ c \in Nat /\ z \in Nat /\ rate * paid \in Nat
    BY SMT
  <1>2. s * p = n * q
    BY SMT
  <1>3. n * z = rate * (n * t) + n * t /\ s * c = rate * ((k + 1) * s)
    BY SMT
  <1>4. /\ n * t \in Nat /\ (k + 1) * s \in Nat /\ paid * s \in Nat
        /\ rate * (n * t) \in Nat /\ rate * ((k + 1) * s) \in Nat
        /\ s * (rate * paid) = rate * (paid * s) /\ rate * (paid * s) \in Nat
        /\ rate * (n * t + (k + 1) * s) = rate * (n * t) + rate * ((k + 1) * s)
    BY SMT
  <1>5. q <= z /\ t <= c /\ rate * paid <= p
    BY <1>1
  <1> HIDE DEF p, q, c, z
  <1>6. s * (rate * paid) <= s * p
    BY <1>1, <1>5, MulMonotone
  <1>7. n * q <= n * z /\ n * q \in Nat
    BY <1>1, <1>5, MulMonotone
  <1>8. n * t <= n * c /\ n * c \in Nat
    BY <1>1, <1>5, MulMonotone
  <1>9. n * c <= s * c
    <2>1. c * n <= c * s
      BY <1>1, MulMonotone
    <2> QED
      BY <1>1, <2>1, MulCommutes
  <1>10. rate * (paid * s) <= rate * (n * t + (k + 1) * s)
    BY <1>2, <1>3, <1>4, <1>6, <1>7, <1>8, <1>9
  <1>11. n * t + (k + 1) * s \in Nat
    BY <1>4
  <1> QED
    BY <1>4, <1>10, <1>11, MulCancels

LEMMA RedeemedFairly ==
  ASSUME NEW x \in ReserveState, HasSupply(x), TotalSupply(x) # 0, ExchangeRate(x) # 0,
         NEW n \in Nat, n <= x.supply, n > 0
  PROVE  LET t == TotalSupply(x)
             k == t \div ExchangeRate(x)
         IN  /\ t \in Nat /\ k \in Nat
             /\ FromInt(CollateralToLiquidity(x, n)) * x.supply <= n * t + (k + 1) * x.supply
  <1> DEFINE t == TotalSupply(x)
             s == x.supply
             rate == ExchangeRate(x)
             k == t \div rate
             a == CollateralValue(x, n)
             paid == FromInt(CollateralToLiquidity(x, n))
  <1>1. /\ t \in Nat /\ t > 0 /\ s \in Nat /\ s # 0 /\ rate \in Nat /\ rate > 0
        /\ Wad \in Nat /\ Wad > 0
    BY TotalSupplyType, ReserveFields, ExchangeRateType, WadType
  <1>2. rate = ((s * Wad) * Wad) \div t
    BY <1>1 DEF ExchangeRate, TryDiv, FromInt
  <1>3. (s * Wad) * Wad \in Nat /\ (n * Wad) * Wad \in Nat
    BY <1>1, SMT
  <1>4. (s * Wad) * Wad < t * rate + t
    BY <1>1, <1>2, <1>3, DivBounds
  <1>5. a = ((n * Wad) * Wad) \div rate
    BY DEF CollateralValue, TryDiv, FromInt
  <1> HIDE DEF t, s, rate
  <1>6. a \in Nat /\ rate * a <= (n * Wad) * Wad
    BY <1>1, <1>3, <1>5, DivBounds
  <1> HIDE DEF a
  <1>7. Floor(a) \in Nat /\ FromInt(Floor(a)) <= a /\ paid = FromInt(Floor(a))
    BY <1>6, RoundingTypes DEF CollateralToLiquidity, a
  <1>8. paid \in Nat /\ paid <= a
    BY <1>7, FromIntType
  <1> HIDE DEF paid
  <1>9. rate * paid <= (n * Wad) * Wad
    <2>1. rate * paid <= rate * a /\ rate * paid \in Nat /\ rate * a \in Nat
      BY <1>1, <1>6, <1>8, MulMonotone
    <2> QED
      BY <1>3, <1>6, <2>1
  <1>10. k \in Nat /\ t < rate * k + rate
    BY <1>1, DivBounds
  <1> HIDE DEF k
  <1>11. n <= s
    BY DEF s
  <1>12. paid * s <= n * t + (k + 1) * s
    BY <1>1, <1>4, <1>8, <1>9, <1>10, <1>11, RedeemBound
  <1> QED
    BY <1>1, <1>10, <1>12 DEF t, k, rate, s, paid
-----------------------------------------------------------------------------
(* Lenders lose only dust. *)

LEMMA WrittenOffType ==
  ASSUME NEW r \in Reserves
  PROVE  /\ WrittenOff(r) \in Nat
         /\ SettlesDust(r) => WrittenOff(r) = FromInt(LIQUIDATION_CLOSE_AMOUNT)
  BY FromIntType DEF WrittenOff, LIQUIDATION_CLOSE_AMOUNT

(* The collateral is as before and the total no less, but for what is        *)
(* written off.                                                              *)
LEMMA KeptRaised ==
  ASSUME NEW r \in Reserves, NEW x \in ReserveState, reserve[r] = x,
         NEW y \in ReserveState, reserve'[r] = y, y.supply = x.supply,
         TotalSupply(y) + WrittenOff(r) >= TotalSupply(x)
  PROVE  LendersKeep(r)
  <1>1. /\ TotalSupply(x) \in Int /\ TotalSupply(y) + WrittenOff(r) \in Int /\ x.supply \in Nat
    BY TotalSupplyType, WrittenOffType, ReserveFields
  <1>2. TotalSupply(x) * x.supply <= (TotalSupply(y) + WrittenOff(r)) * x.supply
    BY <1>1, IntMonotone
  <1>3. SharesKept(x, y, WrittenOff(r))
    BY <1>2 DEF SharesKept
  <1> QED
    BY <1>1, <1>3 DEF LendersKeep

LEMMA KeptSame ==
  ASSUME TypeOK, NEW r \in Reserves, reserve'[r] = reserve[r]
  PROVE  LendersKeep(r)
  <1>1. CASE reserve[r] = NoReserve
    BY <1>1 DEF LendersKeep
  <1>2. CASE reserve[r] # NoReserve
    <2>1. reserve[r] \in ReserveState
      BY <1>2 DEF TypeOK
    <2>2. TotalSupply(reserve[r]) + WrittenOff(r) >= TotalSupply(reserve[r])
      BY <2>1, TotalSupplyType, WrittenOffType
    <2> QED
      BY <2>1, <2>2, KeptRaised
  <1> QED
    BY <1>1, <1>2

(* A step that moves one reserve. *)
LEMMA OneKept ==
  ASSUME TypeOK, NEW r \in Reserves, NEW y, reserve' = [reserve EXCEPT ![r] = y],
         LendersKeep(r)
  PROVE  \A q \in Reserves : LendersKeep(q)
  <1>1. ASSUME NEW q \in Reserves \ {r} PROVE reserve'[q] = reserve[q]
    BY DEF TypeOK
  <1> QED
    BY <1>1, KeptSame

LEMMA RaisedAll ==
  ASSUME TypeOK, NEW r \in Reserves, reserve[r] # NoReserve, NEW y \in ReserveState,
         reserve' = [reserve EXCEPT ![r] = y], y.supply = reserve[r].supply,
         TotalSupply(y) >= TotalSupply(reserve[r])
  PROVE  \A q \in Reserves : LendersKeep(q)
  <1>1. reserve[r] \in ReserveState /\ reserve'[r] = y
    BY DEF TypeOK
  <1>2. TotalSupply(y) + WrittenOff(r) >= TotalSupply(reserve[r])
    BY <1>1, TotalSupplyType, WrittenOffType
  <1>3. LendersKeep(r)
    BY <1>1, <1>2, KeptRaised
  <1> QED
    BY <1>3, OneKept

(* Collateral is minted for a deposit into the reserve z, which stands for   *)
(* what r is after its interest.                                             *)
LEMMA KeptMinted ==
  ASSUME TypeOK, NEW r \in Reserves, reserve[r] \in ReserveState, HasSupply(reserve[r]),
         NEW z \in ReserveState, HasSupply(z), z.supply = reserve[r].supply,
         TotalSupply(z) >= TotalSupply(reserve[r]), NEW n \in Nat,
         reserve'[r] = MarkStale(DepositLiquidity(z, n))
  PROVE  LendersKeep(r)
  <1> DEFINE x == reserve[r]
             t == TotalSupply(x)
             tz == TotalSupply(z)
             s == x.supply
             m == LiquidityToCollateral(z, n)
             d == FromInt(n)
             y == MarkStale(DepositLiquidity(z, n))
             w == WrittenOff(r)
  <1> SUFFICES ASSUME s > 0 PROVE LendersKeep(r)
    BY DEF LendersKeep
  <1>1. /\ t \in Nat /\ tz \in Nat /\ tz >= t /\ s \in Nat /\ d \in Nat /\ w \in Nat
    BY TotalSupplyType, ReserveFields, FromIntType, WrittenOffType
  <1>2. /\ m \in Nat /\ DepositLiquidity(z, n) \in ReserveState
        /\ DepositLiquidity(z, n).supply = z.supply + m
    BY DepositType
  <1>3. TotalSupply(DepositLiquidity(z, n)) = tz + d
    BY DepositTotal
  <1>4. y.supply = s + m /\ TotalSupply(y) = tz + d
    BY <1>2, <1>3, MarkedTotal
  <1>5. tz * m <= d * s
    BY MintedFairly
  <1>6. reserve'[r] = y /\ reserve[r] = x
    OBVIOUS
  <1> HIDE DEF t, tz, s, m, d, y, w
  <1>7. t * (s + m) <= (tz + d + w) * s
    <2>1. t * (s + m) <= tz * (s + m)
      <3>1. (s + m) * t <= (s + m) * tz
        BY <1>1, <1>2, MulMonotone
      <3> QED
        BY <1>1, <1>2, <3>1, MulCommutes
    <2>2. /\ tz * (s + m) = tz * s + tz * m /\ (tz + d + w) * s = tz * s + d * s + w * s
          /\ tz * s \in Nat /\ tz * m \in Nat /\ d * s \in Nat /\ w * s \in Nat
          /\ t * (s + m) \in Nat
      BY <1>1, <1>2, SMT
    <2> QED
      BY <1>5, <2>1, <2>2
  <1>8. SharesKept(x, y, w)
    BY <1>4, <1>7 DEF SharesKept, t, s
  <1>9. y.supply >= s
    BY <1>1, <1>2, <1>4
  <1> QED
    BY <1>6, <1>8, <1>9 DEF LendersKeep, s, w

(* Collateral is redeemed from z. *)
LEMMA KeptRedeemed ==
  ASSUME TypeOK, NEW r \in Reserves, reserve[r] \in ReserveState,
         NEW z \in ReserveState, z \in Redeemable(r), HasSupply(z), z.supply = reserve[r].supply,
         TotalSupply(z) + WrittenOff(r) >= TotalSupply(reserve[r]), NEW n \in Nat,
         NEW res \in RedeemCollateral(z, n), reserve'[r] = MarkStale(res.reserve)
  PROVE  LendersKeep(r)
  <1> DEFINE x == reserve[r]
             t == TotalSupply(z)
             s == x.supply
             d == FromInt(res.liquidity)
             k == t \div ExchangeRate(z)
             y == MarkStale(res.reserve)
             w == WrittenOff(r)
  <1>0. reserve'[r] = y /\ reserve[r] = x
    OBVIOUS
  <1>1. /\ t \in Nat /\ TotalSupply(x) \in Int /\ s \in Nat /\ w \in Nat
    BY TotalSupplyType, ReserveFields, WrittenOffType
  <1>2. /\ res.reserve \in ReserveState /\ res.reserve.supply = s - n
        /\ res.liquidity \in Nat /\ res.liquidity = CollateralToLiquidity(z, n)
        /\ ExchangeRate(z) # 0 /\ n <= s
    BY RedeemType
  <1>3. TotalSupply(res.reserve) = t - d
    BY RedeemTotal
  <1>4. y \in ReserveState /\ y.supply = s - n /\ TotalSupply(y) = t - d
    BY <1>2, <1>3, MarkedTotal
  <1>5. d \in Nat
    BY <1>2, FromIntType
  <1>6. CASE n = 0
    <2>1. d = 0
      <3>1. FromInt(0) = 0 /\ (0 * Wad) = 0 /\ 0 \div Wad = 0
        BY WadType DEF FromInt
      <3>2. ExchangeRate(z) \in Nat /\ ExchangeRate(z) > 0
        BY <1>2, ExchangeRateType
      <3>3. 0 \div ExchangeRate(z) = 0
        BY <3>2, SMT
      <3>4. CollateralToLiquidity(z, 0) = 0
        BY <3>1, <3>3 DEF CollateralToLiquidity, CollateralValue, TryDiv, Floor
      <3> QED
        BY <1>2, <1>6, <3>1, <3>4
    <2>2. y.supply = s /\ TotalSupply(y) + w >= TotalSupply(x)
      BY <1>1, <1>4, <1>6, <2>1
    <2> QED
      BY <1>0, <1>4, <2>2, KeptRaised
  <1>7. CASE n > 0
    <2>1. SharesKept(x, z, w)
      <3>1. TotalSupply(x) * s <= (t + w) * s
        BY <1>1, IntMonotone
      <3> QED
        BY <3>1 DEF SharesKept
    <2>2. ASSUME t # 0 PROVE SharesKept(z, y, k + 1)
      <3>1. t \in Nat /\ k \in Nat /\ d * s <= n * t + (k + 1) * s
        BY <1>2, <1>7, <2>2, RedeemedFairly
      <3> HIDE DEF t, s, d, k, y
      <3>2. /\ t * (s - n) = t * s - n * t /\ (t - d + (k + 1)) * s = t * s - d * s + (k + 1) * s
            /\ t * s \in Nat /\ n * t \in Nat /\ d * s \in Nat /\ (k + 1) * s \in Nat
        BY <1>1, <1>5, <3>1, SMT
      <3>3. t * (s - n) <= (t - d + (k + 1)) * s
        BY <3>1, <3>2
      <3> QED
        BY <1>4, <3>3 DEF SharesKept, t, s
    <2>3. ~(y.supply >= s)
      BY <1>1, <1>4, <1>7
    <2> HIDE DEF y
    <2> QED
      BY <1>0, <2>1, <2>2, <2>3 DEF LendersKeep, s, t, k, w
  <1> QED
    BY <1>6, <1>7

(* Steps that move one reserve and no collateral. *)
LEMMA ReserveKept ==
  ASSUME LendingInv, NEW r \in Reserves,
         RefreshReserve(r) \/ RedeemFees(r) \/ UpdateReserveConfig(r)
  PROVE  \A q \in Reserves : LendersKeep(q)
  <1> DEFINE x == reserve[r]
  <1>0. TypeOK /\ SlotsPast /\ slot \in Nat /\ oracle \in [Reserves -> Feeds]
    BY DEF LendingInv, TypeOK, ClockOK
  <1>1. x # NoReserve
    BY DEF RefreshReserve, RedeemFees, UpdateReserveConfig, FreshReserve
  <1>2. x \in ReserveState
    BY <1>0, <1>1, ExistingReserve
  <1>3. CASE RefreshReserve(r)
    <2> DEFINE z == [x EXCEPT !.price = GetPrice(oracle[r])]
               y == Accrued(z)
    <2>1. reserve' = [reserve EXCEPT ![r] = y] /\ CanAccrue(x) /\ GetPrice(oracle[r]) # NoPrice
      BY <1>3 DEF RefreshReserve
    <2>2. GetPrice(oracle[r]) \in Nat
      BY <1>0, <2>1, FeedsAssumption DEF GetPrice
    <2>3. /\ z \in ReserveState /\ z.slot = x.slot /\ z.available = x.available
          /\ z.borrowed = x.borrowed /\ z.fees = x.fees /\ z.supply = x.supply
      BY <1>2, <2>2 DEF ReserveState
    <2> HIDE DEF z
    <2>4. (slot > z.slot => HasSupply(z)) /\ TotalSupply(z) = TotalSupply(x)
      BY <2>1, <2>3 DEF CanAccrue, HasSupply, TotalSupply
    <2>5. y \in ReserveState /\ y.supply = z.supply /\ TotalSupply(y) >= TotalSupply(z)
      BY <1>0, <2>3, <2>4, AccruedType
    <2> HIDE DEF y
    <2>6. y.supply = x.supply /\ TotalSupply(y) >= TotalSupply(x)
      BY <2>3, <2>4, <2>5
    <2> QED
      BY <1>0, <1>1, <2>1, <2>5, <2>6, RaisedAll
  <1>4. CASE RedeemFees(r)
    <2> DEFINE paid == CalculateRedeemFees(x)
               z == [x EXCEPT !.available = x.available - paid, !.fees = x.fees - FromInt(paid)]
               y == MarkStale(z)
    <2>1. reserve' = [reserve EXCEPT ![r] = y]
      BY <1>4 DEF RedeemFees
    <2>2. paid \in Nat /\ paid <= x.available /\ FromInt(paid) <= x.fees /\ FromInt(paid) \in Nat
      BY <1>2, RedeemFeesType, FromIntType
    <2> HIDE DEF paid
    <2>3. x.available - paid \in Nat /\ x.fees - FromInt(paid) \in Nat /\ x.available \in Nat
      BY <1>2, <2>2, ReserveFields
    <2>4. /\ z \in ReserveState /\ z.supply = x.supply /\ z.borrowed = x.borrowed
          /\ z.available = x.available - paid /\ z.fees = x.fees - FromInt(paid)
      BY <1>2, <2>3 DEF ReserveState
    <2> HIDE DEF z
    <2>5. z.available + paid = x.available + 0
      BY <2>2, <2>3, <2>4
    <2>6. /\ TotalSupply(x) \in Int /\ x.borrowed \in Nat /\ x.fees \in Nat
          /\ TotalSupply(z) = TotalSupply(x) + FromInt(0) - FromInt(paid)
                               + (z.borrowed - x.borrowed) - (z.fees - x.fees)
      BY <1>2, <2>2, <2>4, <2>5, TotalMoves
    <2>7. FromInt(0) = 0
      BY WadType DEF FromInt
    <2>8. TotalSupply(z) = TotalSupply(x)
      BY <2>2, <2>4, <2>6, <2>7
    <2>9. y \in ReserveState /\ y.supply = x.supply /\ TotalSupply(y) = TotalSupply(x)
      BY <2>4, <2>8, MarkedTotal
    <2> HIDE DEF y
    <2>10. TotalSupply(y) >= TotalSupply(x)
      BY <2>6, <2>9
    <2> QED
      BY <1>0, <1>1, <2>1, <2>9, <2>10, RaisedAll
  <1>5. CASE UpdateReserveConfig(r)
    <2>1. PICK c \in Configs : reserve' = [reserve EXCEPT ![r].config = c]
      BY <1>5 DEF UpdateReserveConfig
    <2> DEFINE y == [x EXCEPT !.config = c]
    <2>2. reserve' = [reserve EXCEPT ![r] = y]
      BY <2>1
    <2>3. /\ y \in ReserveState /\ y.supply = x.supply /\ y.available = x.available
          /\ y.borrowed = x.borrowed /\ y.fees = x.fees
      BY <1>2 DEF ReserveState
    <2> HIDE DEF y
    <2>4. TotalSupply(y) = TotalSupply(x) /\ TotalSupply(x) \in Int
      BY <1>2, <2>3, TotalSupplyType DEF TotalSupply
    <2>5. TotalSupply(y) >= TotalSupply(x)
      BY <2>4
    <2> QED
      BY <1>0, <1>1, <2>2, <2>3, <2>5, RaisedAll
  <1> QED
    BY <1>3, <1>4, <1>5

LEMMA InitKept ==
  ASSUME LendingInv, NEW u \in Users, NEW r \in Reserves, InitReserve(u, r)
  PROVE  \A q \in Reserves : LendersKeep(q)
  <1>1. TypeOK /\ reserve[r] = NoReserve
    BY DEF LendingInv, InitReserve
  <1>2. PICK y : reserve' = [reserve EXCEPT ![r] = y]
    BY DEF InitReserve
  <1>3. LendersKeep(r)
    BY <1>1 DEF LendersKeep
  <1> QED
    BY <1>1, <1>2, <1>3, OneKept

LEMMA FlashKept ==
  ASSUME LendingInv, NEW u \in Users, NEW r \in Reserves, NEW n \in Asked, FlashLoan(u, r, n)
  PROVE  \A q \in Reserves : LendersKeep(q)
  <1> DEFINE x == reserve[r]
             loan == IF n = MAX THEN x.available ELSE n
             z == BorrowReserve(x, FromInt(loan))
             y == RepayReserve(z, loan, FromInt(loan))
  <1>0. TypeOK /\ SlotsPast
    BY DEF LendingInv
  <1>1. x # NoReserve /\ loan <= x.available /\ reserve' = [reserve EXCEPT ![r] = y]
    BY DEF FlashLoan
  <1>2. x \in ReserveState
    BY <1>0, <1>1, ExistingReserve
  <1>3. loan \in Nat
    BY <1>2, ReserveFields, BoundsAssumption DEF Asked
  <1> HIDE DEF loan
  <1>4. FromInt(loan) \in Nat /\ Floor(FromInt(loan)) = loan
    BY <1>3, FromIntType
  <1>5. Floor(FromInt(loan)) <= x.available
    BY <1>1, <1>4
  <1>6. /\ z \in ReserveState /\ z.supply = x.supply
        /\ TotalSupply(z) = TotalSupply(x) + (FromInt(loan) - FromInt(Floor(FromInt(loan))))
    BY <1>2, <1>4, <1>5, BorrowTotal
  <1> HIDE DEF z
  <1>7. /\ y \in ReserveState /\ y.supply = z.supply
        /\ TotalSupply(y) >= TotalSupply(z) + FromInt(loan) - FromInt(loan)
    BY <1>3, <1>4, <1>6, RepayTotal
  <1> HIDE DEF y
  <1>8. TotalSupply(x) \in Int /\ TotalSupply(z) \in Int /\ TotalSupply(y) \in Int
    BY <1>2, <1>6, <1>7, TotalSupplyType
  <1>9. TotalSupply(y) >= TotalSupply(x) /\ y.supply = x.supply
    <2>1. TotalSupply(z) = TotalSupply(x) + (FromInt(loan) - FromInt(loan))
      BY <1>4, <1>6
    <2> QED
      BY <1>4, <1>6, <1>7, <1>8, <2>1
  <1> QED
    BY <1>0, <1>1, <1>7, <1>9, RaisedAll

(* Deposits and redemptions. *)
LEMMA DepositKept ==
  ASSUME LendingInv, NEW r \in Reserves, NEW n \in Amounts, CanDeposit(r, n),
         reserve' = [reserve EXCEPT ![r] = Deposited(r, n)]
  PROVE  \A q \in Reserves : LendersKeep(q)
  <1> DEFINE z == Accrued(reserve[r])
  <1>0. TypeOK /\ SlotsPast /\ n \in Nat /\ slot \in Nat
    BY BoundsAssumption DEF LendingInv, TypeOK, ClockOK
  <1>1. reserve[r] # NoReserve /\ HasSupply(reserve[r])
    BY DEF CanDeposit
  <1>2. reserve[r] \in ReserveState
    BY <1>0, <1>1, ExistingReserve
  <1>3. /\ z \in ReserveState /\ HasSupply(z) /\ z.supply = reserve[r].supply
        /\ TotalSupply(z) >= TotalSupply(reserve[r])
    BY <1>0, <1>1, <1>2, AccruedType
  <1>4. reserve'[r] = MarkStale(DepositLiquidity(z, n))
    BY <1>0 DEF Deposited, TypeOK
  <1> HIDE DEF z
  <1>5. LendersKeep(r)
    BY <1>0, <1>1, <1>2, <1>3, <1>4, KeptMinted
  <1> QED
    BY <1>0, <1>5, OneKept

LEMMA RedeemableAccrued ==
  ASSUME NEW r \in Reserves
  PROVE  Accrued(reserve[r]) \in Redeemable(r)
  BY DEF Redeemable

LEMMA RedeemableLiquidated ==
  ASSUME NEW r \in Reserves, NEW o \in Obligations, CanLiquidate(o, r, r), NEW n \in Asked
  PROVE  Accrued(Liquidated(o, r, Liquidation(o, r, r, n))[r]) \in Redeemable(r)
  BY DEF Redeemable

LEMMA RedeemKept ==
  ASSUME LendingInv, NEW u \in Users, NEW r \in Reserves, NEW n \in Amounts,
         RedeemReserveCollateral(u, r, n)
  PROVE  \A q \in Reserves : LendersKeep(q)
  <1> DEFINE z == Accrued(reserve[r])
  <1>0. TypeOK /\ SlotsPast /\ n \in Nat /\ slot \in Nat
    BY BoundsAssumption DEF LendingInv, TypeOK, ClockOK
  <1>1. reserve[r] # NoReserve /\ HasSupply(reserve[r])
    BY DEF RedeemReserveCollateral
  <1>2. PICK res \in RedeemCollateral(z, n) :
          reserve' = [reserve EXCEPT ![r] = MarkStale(res.reserve)]
    BY DEF RedeemReserveCollateral
  <1>3. reserve[r] \in ReserveState
    BY <1>0, <1>1, ExistingReserve
  <1>4. /\ z \in ReserveState /\ HasSupply(z) /\ z.supply = reserve[r].supply
        /\ TotalSupply(z) >= TotalSupply(reserve[r])
    BY <1>0, <1>1, <1>3, AccruedType
  <1>5. z \in Redeemable(r)
    BY RedeemableAccrued
  <1>6. reserve'[r] = MarkStale(res.reserve)
    BY <1>0, <1>2 DEF TypeOK
  <1> HIDE DEF z
  <1>7. TotalSupply(z) + WrittenOff(r) >= TotalSupply(reserve[r])
    BY <1>3, <1>4, TotalSupplyType, WrittenOffType
  <1>8. LendersKeep(r)
    BY <1>0, <1>2, <1>3, <1>4, <1>5, <1>6, <1>7, KeptRedeemed
  <1> QED
    BY <1>0, <1>2, <1>8, OneKept

(* A reserve that is fresh has its interest. *)
LEMMA FreshAccrued ==
  ASSUME LendingInv, NEW r \in Reserves, FreshReserve(r)
  PROVE  reserve[r] \in ReserveState /\ Accrued(reserve[r]) = reserve[r]
  <1> DEFINE x == reserve[r]
  <1>1. /\ x \in ReserveState /\ x.slot <= slot /\ slot \in Nat
    BY ExistingReserve DEF LendingInv, FreshReserve, TypeOK, ClockOK
  <1>2. x.stale = FALSE /\ x.slot = slot /\ ~(slot > x.slot)
    BY <1>1, ReserveFields DEF FreshReserve, IsStale
  <1> HIDE DEF x
  <1>3. Accrued(x) = UpdateSlot(x)
    BY <1>2, Zenon DEF Accrued
  <1>4. UpdateSlot(x) = x
    BY <1>1, <1>2 DEF ReserveState, UpdateSlot
  <1> QED
    BY <1>1, <1>3, <1>4 DEF x

LEMMA WithdrawKept ==
  ASSUME LendingInv, NEW o \in Obligations, NEW r \in Reserves, NEW n \in Asked \cup {0},
         WithdrawAndRedeem(o, r, n)
  PROVE  \A q \in Reserves : LendersKeep(q)
  <1> DEFINE z == reserve[r]
  <1>0. TypeOK
    BY DEF LendingInv
  <1>1. CanWithdraw(o, r) /\ HasSupply(z) /\ FreshReserve(r)
    BY DEF WithdrawAndRedeem, CanWithdraw
  <1>2. PICK taken \in WithdrawAmount(obligation[o], r, reserve[r].config.ltv, n) :
          /\ obligation' = [obligation EXCEPT ![o] = MarkStale(TakeDeposit(obligation[o], r, taken))]
          /\ \E res \in RedeemCollateral(z, taken) :
               reserve' = [reserve EXCEPT ![r] = MarkStale(res.reserve)]
    BY DEF WithdrawAndRedeem
  <1>3. PICK res \in RedeemCollateral(z, taken) : reserve' = [reserve EXCEPT ![r] = MarkStale(res.reserve)]
    BY <1>2
  <1>4. taken \in Nat
    BY <1>1, <1>2, WithdrawnObligation
  <1>5. z \in ReserveState /\ z \in Redeemable(r)
    BY <1>1, FreshAccrued, RedeemableAccrued
  <1>6. reserve'[r] = MarkStale(res.reserve)
    BY <1>0, <1>3 DEF TypeOK
  <1>7. TotalSupply(z) + WrittenOff(r) >= TotalSupply(reserve[r])
    BY <1>5, TotalSupplyType, WrittenOffType
  <1>8. LendersKeep(r)
    BY <1>0, <1>1, <1>3, <1>4, <1>5, <1>6, <1>7, KeptRedeemed
  <1> QED
    BY <1>0, <1>3, <1>8, OneKept

(* Interest that is accrued beside a deposit of collateral; loans and        *)
(* repayments.                                                               *)
LEMMA PledgeKept ==
  ASSUME LendingInv, NEW o \in Obligations, NEW r \in Reserves, NEW n \in Amounts,
         DepositObligationCollateral(o, r, n)
  PROVE  \A q \in Reserves : LendersKeep(q)
  <1> DEFINE x == reserve[r]
             z == Accrued(x)
             y == MarkStale(z)
  <1>0. TypeOK /\ SlotsPast /\ slot \in Nat
    BY DEF LendingInv, TypeOK, ClockOK
  <1>1. x # NoReserve /\ CanAccrue(x) /\ reserve' = [reserve EXCEPT ![r] = y]
    BY DEF DepositObligationCollateral
  <1>2. x \in ReserveState
    BY <1>0, <1>1, ExistingReserve
  <1>3. z \in ReserveState /\ z.supply = x.supply /\ TotalSupply(z) >= TotalSupply(x)
    BY <1>0, <1>1, <1>2, AccruedType DEF CanAccrue
  <1> HIDE DEF z
  <1>4. y \in ReserveState /\ y.supply = z.supply /\ TotalSupply(y) = TotalSupply(z)
    BY <1>3, MarkedTotal
  <1> HIDE DEF y
  <1>5. y.supply = x.supply /\ TotalSupply(y) >= TotalSupply(x)
    BY <1>3, <1>4
  <1> QED
    BY <1>0, <1>1, <1>4, <1>5, RaisedAll

LEMMA BorrowKept ==
  ASSUME LendingInv, NEW o \in Obligations, NEW r \in Reserves, NEW n \in Asked,
         BorrowObligationLiquidity(o, r, n)
  PROVE  \A q \in Reserves : LendersKeep(q)
  <1> DEFINE x == reserve[r]
             ob == obligation[o]
             most == ob.allowedBorrowValue - ob.borrowedValue
  <1>0. TypeOK /\ SlotsPast
    BY DEF LendingInv
  <1>1. /\ FreshReserve(r) /\ FreshObligation(o) /\ ob.allowedBorrowValue > ob.borrowedValue
    BY DEF BorrowObligationLiquidity
  <1>2. PICK res \in CalculateBorrow(x, n, most, Capacity(x)) :
          /\ Floor(res.borrow) <= x.available
          /\ reserve' = [reserve EXCEPT ![r] = MarkStale(BorrowReserve(x, res.borrow))]
    BY DEF BorrowObligationLiquidity
  <1>3. x # NoReserve /\ ob # NoObligation
    BY <1>1 DEF FreshReserve, FreshObligation
  <1>4. x \in ReserveState /\ ob \in ObligationState
    BY <1>0, <1>3, ExistingReserve, ExistingObligation
  <1>5. most \in Nat
    BY <1>1, <1>4, ObligationFields
  <1>6. Capacity(x) \in Nat
    <2>1. FromInt(x.config.borrowLimit) \in Nat /\ x.borrowed \in Nat
      BY <1>4, ReserveFields, ConfigType, FromIntType
    <2> QED
      BY <2>1 DEF Capacity, MaxOf
  <1>7. res.borrow \in Nat
    BY <1>2, <1>4, <1>5, <1>6, BorrowType
  <1> DEFINE z == BorrowReserve(x, res.borrow)
             y == MarkStale(z)
  <1>8. z \in ReserveState /\ z.supply = x.supply /\ TotalSupply(z) >= TotalSupply(x)
    BY <1>2, <1>4, <1>7, BorrowTotal
  <1>9. reserve' = [reserve EXCEPT ![r] = y]
    BY <1>2
  <1> HIDE DEF z
  <1>10. y \in ReserveState /\ y.supply = z.supply /\ TotalSupply(y) = TotalSupply(z)
    BY <1>8, MarkedTotal
  <1> HIDE DEF y
  <1>11. y.supply = x.supply /\ TotalSupply(y) >= TotalSupply(x)
    BY <1>8, <1>10
  <1> QED
    BY <1>0, <1>3, <1>9, <1>10, <1>11, RaisedAll

LEMMA RepayKept ==
  ASSUME LendingInv, NEW u \in Users, NEW o \in Obligations, NEW r \in Reserves, NEW n \in Asked,
         RepayObligationLiquidity(u, o, r, n)
  PROVE  \A q \in Reserves : LendersKeep(q)
  <1> DEFINE x == reserve[r]
             z == Accrued(x)
             b == AccrueBorrow(obligation[o].borrows[r], z.cumulative)
             res == CalculateRepay(n, b.amount)
             v == RepayReserve(z, res.repay, res.settle)
             y == MarkStale(v)
  <1>0. TypeOK /\ SlotsPast /\ slot \in Nat
    BY DEF LendingInv, TypeOK, ClockOK
  <1>1. /\ x # NoReserve /\ CanAccrue(x) /\ reserve' = [reserve EXCEPT ![r] = y]
        /\ obligation[o] # NoObligation /\ obligation[o].borrows[r] # NoEntry
    BY DEF RepayObligationLiquidity
  <1>2. x \in ReserveState /\ obligation[o] \in ObligationState
    BY <1>0, <1>1, ExistingReserve, ExistingObligation
  <1>3. z \in ReserveState /\ z.supply = x.supply /\ TotalSupply(z) >= TotalSupply(x)
    BY <1>0, <1>1, <1>2, AccruedType DEF CanAccrue
  <1> HIDE DEF z
  <1>4. obligation[o].borrows[r] \in Borrow /\ z.cumulative \in Nat /\ z.cumulative > 0
    BY <1>1, <1>2, <1>3, ObligationFields, ReserveFields
  <1>5. b \in Borrow
    BY <1>4, AccrueBorrowType
  <1> HIDE DEF b
  <1>6. b.amount \in Nat
    BY <1>5 DEF Borrow
  <1>7. res.settle \in Nat /\ res.repay \in Nat /\ res.settle <= FromInt(res.repay)
    BY <1>6, RepayType
  <1> HIDE DEF res
  <1>8. /\ v \in ReserveState /\ v.supply = z.supply
        /\ TotalSupply(v) >= TotalSupply(z) + FromInt(res.repay) - res.settle
    BY <1>3, <1>7, RepayTotal
  <1> HIDE DEF v
  <1>9. y \in ReserveState /\ y.supply = v.supply /\ TotalSupply(y) = TotalSupply(v)
    BY <1>8, MarkedTotal
  <1> HIDE DEF y
  <1>10. /\ TotalSupply(x) \in Int /\ TotalSupply(z) \in Int /\ TotalSupply(v) \in Int
         /\ FromInt(res.repay) \in Nat
    BY <1>2, <1>3, <1>7, <1>8, TotalSupplyType, FromIntType
  <1>11. y.supply = x.supply /\ TotalSupply(y) >= TotalSupply(x)
    BY <1>3, <1>7, <1>8, <1>9, <1>10
  <1> QED
    BY <1>0, <1>1, <1>9, <1>11, RaisedAll

(* A liquidation lowers the total of the reserve repaid only by settling a   *)
(* debt that is dust.                                                        *)
LEMMA LiquidatedTotal ==
  ASSUME LendingInv, NEW u \in Users, NEW o \in Obligations, NEW rr \in Reserves,
         NEW wr \in Reserves, NEW n \in Asked, CanLiquidate(o, rr, wr),
         NEW res, res = Liquidation(o, rr, wr, n), LiquidateBooks(u, o, rr, wr, res)
  PROVE  LET y == Liquidated(o, rr, res)[rr]
         IN  /\ y \in ReserveState /\ y.supply = reserve[rr].supply
             /\ TotalSupply(y) + WrittenOff(rr) >= TotalSupply(reserve[rr])
  <1> DEFINE old == obligation[o]
             amount == old.borrows[rr].amount
             settled == TakeBorrow(old, rr, res.settle)
             mid == TakeDeposit(settled, wr, res.withdraw)
             new == MarkStale(mid)
             x == reserve[rr]
             v == RepayReserve(x, res.repay, res.settle)
             y == MarkStale(v)
  <1>1. /\ old # NoObligation /\ old \in ObligationState
        /\ x # NoReserve /\ x \in ReserveState
        /\ old.borrows[rr] # NoEntry /\ old.deposits[wr] # NoEntry
        /\ res.settle \in Nat /\ res.settle <= amount /\ res.repay \in Nat
        /\ res.withdraw \in Nat /\ res.withdraw <= old.deposits[wr].amount
        /\ (IsDust(amount) /\ res.settle = amount) \/ res.settle <= FromInt(res.repay)
    BY LiquidationTerms
  <1>2. obligation'[o] = new
    BY DEF LiquidateBooks, LendingInv, TypeOK
  <1>3. Liquidated(o, rr, res)[rr] = y
    BY DEF Liquidated, LendingInv, TypeOK
  <1>4. /\ v \in ReserveState /\ v.supply = x.supply
        /\ TotalSupply(v) >= TotalSupply(x) + FromInt(res.repay) - res.settle
    BY <1>1, RepayTotal
  <1> HIDE DEF v
  <1>5. y \in ReserveState /\ y.supply = x.supply /\ TotalSupply(y) = TotalSupply(v)
    BY <1>4, MarkedTotal
  <1> HIDE DEF y
  <1>6. /\ TotalSupply(x) \in Int /\ TotalSupply(v) \in Int /\ TotalSupply(y) \in Int
        /\ FromInt(res.repay) \in Nat /\ WrittenOff(rr) \in Nat
    BY <1>1, <1>4, <1>5, TotalSupplyType, FromIntType, WrittenOffType
  <1>7. CASE res.settle <= FromInt(res.repay)
    <2>1. TotalSupply(y) + WrittenOff(rr) >= TotalSupply(x)
      BY <1>1, <1>4, <1>5, <1>6, <1>7
    <2> QED
      BY <1>3, <1>5, <2>1 DEF x
  <1>8. CASE IsDust(amount) /\ res.settle = amount
    <2>1. settled \in ObligationState /\ settled.deposits = old.deposits
      BY <1>1, TakeBorrowType
    <2>2. settled.borrows[rr] = NoEntry
      <3>1. old.borrows \in [Reserves -> Borrow \cup {NoEntry}]
        BY <1>1 DEF ObligationState
      <3>2. settled.borrows = [old.borrows EXCEPT ![rr] = NoEntry]
        BY <1>1, <1>8 DEF TakeBorrow, ObligationState
      <3> QED
        BY <3>1, <3>2
    <2> HIDE DEF settled
    <2>3. settled.deposits[wr] # NoEntry /\ res.withdraw <= settled.deposits[wr].amount
      BY <1>1, <2>1
    <2>4. mid \in ObligationState /\ mid.borrows = settled.borrows
      BY <1>1, <2>1, <2>3, TakeDepositType
    <2> HIDE DEF mid
    <2>5. new.borrows = mid.borrows
      BY <2>4, MarkObligationType
    <2>6. obligation'[o].borrows[rr] = NoEntry
      BY <1>2, <2>2, <2>4, <2>5
    <2>7. SettlesDust(rr)
      BY <1>1, <1>8, <2>6 DEF SettlesDust, IsDust, amount, old
    <2>8. res.settle < WrittenOff(rr)
      BY <1>8, <2>7, WrittenOffType DEF IsDust
    <2>9. TotalSupply(y) + WrittenOff(rr) >= TotalSupply(x)
      BY <1>1, <1>4, <1>5, <1>6, <2>8
    <2> QED
      BY <1>3, <1>5, <2>9 DEF x
  <1> QED
    BY <1>1, <1>7, <1>8

LEMMA LiquidateKept ==
  ASSUME LendingInv, NEW u \in Users, NEW o \in Obligations,
         NEW rr \in Reserves, NEW wr \in Reserves, NEW n \in Asked,
         LiquidateObligation(u, o, rr, wr, n)
  PROVE  \A q \in Reserves : LendersKeep(q)
  <1> DEFINE res == Liquidation(o, rr, wr, n)
             y == MarkStale(RepayReserve(reserve[rr], res.repay, res.settle))
  <1>0. TypeOK
    BY DEF LendingInv
  <1>1. CanLiquidate(o, rr, wr) /\ LiquidateBooks(u, o, rr, wr, res) /\ reserve' = Liquidated(o, rr, res)
    BY DEF LiquidateObligation
  <1>2. reserve' = [reserve EXCEPT ![rr] = y]
    BY <1>1 DEF Liquidated
  <1>3. reserve[rr] \in ReserveState
    BY <1>1, LiquidationTerms
  <1> HIDE DEF res, y
  <1>4. /\ reserve'[rr] \in ReserveState /\ reserve'[rr].supply = reserve[rr].supply
        /\ TotalSupply(reserve'[rr]) + WrittenOff(rr) >= TotalSupply(reserve[rr])
    BY <1>1, LiquidatedTotal DEF res
  <1>5. LendersKeep(rr)
    BY <1>3, <1>4, KeptRaised
  <1> QED
    BY <1>0, <1>2, <1>5, OneKept

LEMMA LiquidateRedeemKept ==
  ASSUME LendingInv, NEW u \in Users, NEW o \in Obligations,
         NEW rr \in Reserves, NEW wr \in Reserves, NEW n \in Asked,
         LiquidateAndRedeem(u, o, rr, wr, n)
  PROVE  \A q \in Reserves : LendersKeep(q)
  <1> DEFINE res == Liquidation(o, rr, wr, n)
             repaid == Liquidated(o, rr, res)
             x == repaid[wr]
             z == Accrued(x)
  <1>0. TypeOK /\ SlotsPast /\ slot \in Nat
        /\ reserve \in [Reserves -> ReserveState \cup {NoReserve}]
    BY DEF LendingInv, TypeOK, ClockOK
  <1>1. /\ CanLiquidate(o, rr, wr) /\ LiquidateBooks(u, o, rr, wr, res) /\ HasSupply(x)
        /\ FreshReserve(wr)
    BY DEF LiquidateAndRedeem, CanLiquidate
  <1>2. PICK out \in RedeemCollateral(z, res.withdraw) :
          reserve' = [repaid EXCEPT ![wr] = MarkStale(out.reserve)]
    BY DEF LiquidateAndRedeem
  <1>3. /\ reserve[rr] \in ReserveState /\ res.withdraw \in Nat
    BY <1>1, LiquidationTerms
  <1>4. /\ repaid[rr] \in ReserveState /\ repaid[rr].supply = reserve[rr].supply
        /\ TotalSupply(repaid[rr]) + WrittenOff(rr) >= TotalSupply(reserve[rr])
    BY <1>1, LiquidatedTotal
  <1>5. /\ DOMAIN repaid = Reserves
        /\ \A q \in Reserves \ {rr} : repaid[q] = reserve[q]
    BY <1>0 DEF Liquidated
  <1>6. z \in Redeemable(wr)
    <2>1. CASE wr = rr
      BY <1>1, <2>1, RedeemableLiquidated
    <2>2. CASE wr # rr
      BY <1>5, <2>2, RedeemableAccrued
    <2> QED
      BY <2>1, <2>2
  <1>7. reserve[wr] \in ReserveState
    BY <1>1, FreshAccrued
  <1> HIDE DEF res, repaid
  <1>8. /\ x \in ReserveState /\ x.supply = reserve[wr].supply
        /\ TotalSupply(x) + WrittenOff(wr) >= TotalSupply(reserve[wr])
    <2>1. CASE wr = rr
      BY <1>4, <2>1
    <2>2. CASE wr # rr
      BY <1>5, <1>7, <2>2, TotalSupplyType, WrittenOffType
    <2> QED
      BY <2>1, <2>2
  <1> HIDE DEF x
  <1>9. /\ z \in ReserveState /\ HasSupply(z) /\ z.supply = x.supply
        /\ TotalSupply(z) >= TotalSupply(x)
    BY <1>0, <1>1, <1>8, AccruedType
  <1> HIDE DEF z
  <1>10. TotalSupply(z) + WrittenOff(wr) >= TotalSupply(reserve[wr]) /\ z.supply = reserve[wr].supply
    BY <1>7, <1>8, <1>9, TotalSupplyType, WrittenOffType
  <1>11. /\ reserve'[wr] = MarkStale(out.reserve)
         /\ \A q \in Reserves \ {wr} : reserve'[q] = repaid[q]
    BY <1>2, <1>5
  <1>12. LendersKeep(wr)
    BY <1>0, <1>2, <1>3, <1>6, <1>7, <1>9, <1>10, <1>11, KeptRedeemed
  <1>13. ASSUME NEW q \in Reserves \ {wr} PROVE LendersKeep(q)
    <2>1. CASE q = rr
      <3>1. /\ reserve'[rr] \in ReserveState /\ reserve'[rr].supply = reserve[rr].supply
            /\ TotalSupply(reserve'[rr]) + WrittenOff(rr) >= TotalSupply(reserve[rr])
        BY <1>4, <1>11, <1>13, <2>1
      <3> QED
        BY <1>3, <2>1, <3>1, KeptRaised
    <2>2. CASE q # rr
      <3>1. reserve'[q] = reserve[q]
        BY <1>5, <1>11, <1>13, <2>2
      <3> QED
        BY <1>0, <3>1, KeptSame
    <2> QED
      BY <2>1, <2>2
  <1> QED
    BY <1>12, <1>13

LEMMA ProgramKeeps ==
  ASSUME LendingInv, [Next]_vars
  PROVE  \A q \in Reserves : LendersKeep(q)
  <1>1. ASSUME reserve' = reserve PROVE \A q \in Reserves : LendersKeep(q)
    BY <1>1, KeptSame DEF LendingInv
  <1>2. ASSUME NEW r \in Reserves, ReserveStep(r) PROVE \A q \in Reserves : LendersKeep(q)
    <2>1. CASE MoveOracle(r)
      BY <1>1, <2>1 DEF MoveOracle
    <2>2. ASSUME NEW u \in Users, NEW n \in Amounts, DepositReserveLiquidity(u, r, n)
          PROVE  \A q \in Reserves : LendersKeep(q)
      BY <2>2, DepositKept DEF DepositReserveLiquidity
    <2> QED
      BY <1>2, <2>1, <2>2, ReserveKept, InitKept, RedeemKept, FlashKept DEF ReserveStep
  <1>3. ASSUME NEW o \in Obligations, ObligationStep(o) PROVE \A q \in Reserves : LendersKeep(q)
    <2>1. CASE InitObligation(o) \/ RefreshObligation(o)
      BY <1>1, <2>1 DEF InitObligation, RefreshObligation
    <2>2. ASSUME NEW r \in Reserves, NEW n \in Amounts, DepositLiquidityAndCollateral(o, r, n)
          PROVE  \A q \in Reserves : LendersKeep(q)
      BY <2>2, DepositKept DEF DepositLiquidityAndCollateral
    <2>3. ASSUME NEW r \in Reserves, NEW n \in Asked, WithdrawObligationCollateral(o, r, n)
          PROVE  \A q \in Reserves : LendersKeep(q)
      BY <1>1, <2>3 DEF WithdrawObligationCollateral
    <2> QED
      BY <1>3, <2>1, <2>2, <2>3, PledgeKept, WithdrawKept, BorrowKept DEF ObligationStep
  <1>4. ASSUME NEW o \in Obligations, NEW u \in Users, AnyoneStep(u, o)
        PROVE  \A q \in Reserves : LendersKeep(q)
    BY <1>4, RepayKept, LiquidateKept, LiquidateRedeemKept DEF AnyoneStep
  <1>5. CASE AdvanceSlot \/ UNCHANGED vars
    BY <1>1, <1>5 DEF AdvanceSlot, vars
  <1> QED
    BY <1>2, <1>3, <1>4, <1>5 DEF Next

(* Whatever instructions come and from whom, for all amounts, rates and      *)
(* configurations, a step of the program leaves what a collateral token      *)
(* stands for as it was or raises it, but for debts below                    *)
(* LIQUIDATION_CLOSE_AMOUNT that a liquidation writes off and for one part   *)
(* in the exchange rate when collateral is redeemed (accrue_interest,        *)
(* deposit_liquidity, redeem_collateral, borrow, repay, redeem_fees and      *)
(* calculate_liquidation of reserve.rs as processor.rs calls them).          *)
THEOREM LendersAreKept == Spec => LendersLoseOnlyDust
  <1>1. Init => LendingInv
    BY LendingInit
  <1>2. LendingInv /\ [Next]_vars => LendingInv'
    BY LendingStep
  <1>3. LendingInv /\ [Next]_vars => [\A r \in Reserves : LendersKeep(r)]_vars
    BY ProgramKeeps
  <1> QED
    BY <1>1, <1>2, <1>3, PTL DEF Spec, LendersLoseOnlyDust
-----------------------------------------------------------------------------
(* Debts on the books.  An obligation accrues what it owes from the rate at  *)
(* which it was last brought up to date, a reserve what it has lent from     *)
(* accrual to accrual, and both round down.  To compare them without the     *)
(* roundings of the moment, a debt is measured in shares: its amount over    *)
(* its rate, in parts of M, for every M.                                     *)

LEMMA SumScaled ==
  ASSUME NEW D, IsFiniteSet(D), NEW e \in [D -> Nat], NEW f \in [D -> Nat], NEW k \in Nat,
         \A a \in D : k * e[a] <= f[a]
  PROVE  k * SumFunction(e) <= SumFunction(f)
  <1>1. PICK g : /\ g = [s \in SUBSET D |-> IF s = {} THEN 0 ELSE f[First(s)] + g[Rest(s)]]
                 /\ SumFunction(f) = g[D]
    BY PartialSums
  <1>2. PICK h : /\ h = [s \in SUBSET D |-> IF s = {} THEN 0 ELSE e[First(s)] + h[Rest(s)]]
                 /\ SumFunction(e) = h[D]
    BY PartialSums
  <1> DEFINE Fine(s) == g[s] \in Nat /\ h[s] \in Nat /\ k * h[s] <= g[s]
             Reached == {n \in Nat : \A s \in SUBSET D : Cardinality(s) <= n => Fine(s)}
  <1>3. 0 \in Reached
    <2>1. ASSUME NEW s \in SUBSET D, Cardinality(s) <= 0 PROVE s = {}
      BY <2>1, RestSmaller
    <2>2. g[{}] = 0 /\ h[{}] = 0 /\ k * 0 = 0
      BY <1>1, <1>2
    <2>3. Fine({})
      BY <2>2
    <2> HIDE DEF Fine
    <2> QED
      BY <2>1, <2>3
  <1>4. ASSUME NEW n \in Nat, n \in Reached PROVE n + 1 \in Reached
    <2>1. ASSUME NEW s \in SUBSET D, Cardinality(s) <= n + 1 PROVE Fine(s)
      <3>1. CASE s = {}
        <4>1. g[s] = 0 /\ h[s] = 0 /\ k * 0 = 0
          BY <3>1, <1>1, <1>2
        <4> QED
          BY <4>1
      <3>2. CASE s # {}
        <4> DEFINE a == First(s)
                   t == Rest(s)
        <4>1. a \in D /\ t \in SUBSET D /\ Cardinality(t) <= n
          BY <3>2, <2>1, RestSmaller
        <4>2. Fine(t)
          BY <4>1, <1>4
        <4>3. g[s] = f[a] + g[t] /\ h[s] = e[a] + h[t]
          BY <1>1, <1>2, <3>2
        <4> HIDE DEF a, t
        <4>4. e[a] \in Nat /\ f[a] \in Nat /\ k * e[a] <= f[a]
          BY <4>1
        <4>5. k * (e[a] + h[t]) = k * e[a] + k * h[t] /\ k * e[a] \in Nat /\ k * h[t] \in Nat
          BY <4>2, <4>4, SMT
        <4> QED
          BY <4>2, <4>3, <4>4, <4>5
      <3> QED
        BY <3>1, <3>2
    <2> QED
      BY <2>1
  <1>5. Cardinality(D) \in Nat
    BY FS_CardinalityType
  <1>6. Cardinality(D) \in Reached
    <2> HIDE DEF Reached
    <2> QED
      BY <1>3, <1>4, <1>5, SetInduction
  <1>7. Fine(D)
    BY <1>5, <1>6
  <1> QED
    BY <1>1, <1>2, <1>7

(* The entry of o for r, and its share. *)
EntryOf(obs, o, r) == IF obs[o] = NoObligation THEN NoEntry ELSE obs[o].borrows[r]
EntryShare(b, M) == IF b = NoEntry THEN 0 ELSE (M * b.amount) \div b.cumulative
Shares(obs, M, r) == SumFunction([o \in Obligations |-> EntryShare(EntryOf(obs, o, r), M)])

Accounts == [Obligations -> ObligationState \cup {NoObligation}]

LEMMA ShareType ==
  ASSUME NEW b \in Borrow \cup {NoEntry}, NEW M \in Nat, NEW k \in Nat
  PROVE  /\ EntryShare(b, M) \in Nat
         /\ k * EntryShare(b, M) <= EntryShare(b, k * M)
  <1>1. CASE b = NoEntry
    BY <1>1 DEF EntryShare
  <1>2. CASE b # NoEntry
    <2> DEFINE a == b.amount
               c == b.cumulative
               q == (M * a) \div c
    <2>1. a \in Nat /\ c \in Nat /\ c > 0
      BY <1>2 DEF Borrow
    <2>2. EntryShare(b, M) = q /\ EntryShare(b, k * M) = ((k * M) * a) \div c
      BY <1>2 DEF EntryShare
    <2> HIDE DEF a, c
    <2>3. M * a \in Nat /\ k * M \in Nat /\ (k * M) * a \in Nat /\ (k * M) * a = k * (M * a)
      BY <2>1, SMT
    <2>4. q \in Nat /\ c * q <= M * a
      BY <2>1, <2>3, DivBounds
    <2> HIDE DEF q
    <2>5. c * q \in Nat /\ k * (c * q) <= k * (M * a)
      BY <2>1, <2>3, <2>4, MulMonotone, MulCommutes
    <2>6. k * (c * q) = c * (k * q) /\ k * q \in Nat
      BY <2>1, <2>4, SMT
    <2>7. ((k * M) * a) \div c >= k * q
      BY <2>1, <2>3, <2>5, <2>6, DivAtLeast
    <2>8. ((k * M) * a) \div c \in Nat
      BY <2>1, <2>3, DivBounds
    <2> QED
      BY <2>2, <2>4, <2>6, <2>7, <2>8
  <1> QED
    BY <1>1, <1>2

LEMMA EntryType ==
  ASSUME NEW obs \in Accounts, NEW o \in Obligations, NEW r \in Reserves
  PROVE  EntryOf(obs, o, r) \in Borrow \cup {NoEntry}
  BY ObligationFields DEF Accounts, EntryOf

LEMMA SharesType ==
  ASSUME NEW obs \in Accounts, NEW M \in Nat, NEW k \in Nat, NEW r \in Reserves
  PROVE  /\ Shares(obs, M, r) \in Nat /\ Shares(obs, k * M, r) \in Nat
         /\ k * Shares(obs, M, r) <= Shares(obs, k * M, r)
  <1> DEFINE e == [o \in Obligations |-> EntryShare(EntryOf(obs, o, r), M)]
             f == [o \in Obligations |-> EntryShare(EntryOf(obs, o, r), k * M)]
  <1>1. k * M \in Nat
    BY MulCommutes
  <1>2. ASSUME NEW o \in Obligations
        PROVE  /\ EntryShare(EntryOf(obs, o, r), M) \in Nat
               /\ EntryShare(EntryOf(obs, o, r), k * M) \in Nat
               /\ k * EntryShare(EntryOf(obs, o, r), M) <= EntryShare(EntryOf(obs, o, r), k * M)
    BY <1>1, EntryType, ShareType
  <1>3. e \in [Obligations -> Nat] /\ f \in [Obligations -> Nat] /\ \A o \in Obligations : k * e[o] <= f[o]
    BY <1>2
  <1>4. Shares(obs, M, r) = SumFunction(e) /\ Shares(obs, k * M, r) = SumFunction(f)
    BY DEF Shares
  <1> HIDE DEF e, f
  <1> QED
    BY <1>3, <1>4, PartiesAssumption, SumIsNat, SumScaled

(* The entries for r of all obligations but o are the same. *)
OthersSame(obs, new, o, r) ==
  \A p \in Obligations \ {o} : EntryOf(new, p, r) = EntryOf(obs, p, r)

LEMMA SharesMove ==
  ASSUME NEW obs \in Accounts, NEW new \in Accounts, NEW M \in Nat, NEW r \in Reserves,
         NEW o \in Obligations, OthersSame(obs, new, o, r)
  PROVE  Shares(new, M, r) =
           Shares(obs, M, r) + (EntryShare(EntryOf(new, o, r), M) - EntryShare(EntryOf(obs, o, r), M))
  <1> DEFINE e == [p \in Obligations |-> EntryShare(EntryOf(obs, p, r), M)]
             f == [p \in Obligations |-> EntryShare(EntryOf(new, p, r), M)]
  <1>1. \A p \in Obligations : /\ EntryShare(EntryOf(obs, p, r), M) \in Nat
                               /\ EntryShare(EntryOf(new, p, r), M) \in Nat
    BY EntryType, ShareType
  <1>2. e \in [Obligations -> Nat] /\ f \in [Obligations -> Nat]
    BY <1>1
  <1>3. \A p \in Obligations \ {o} : e[p] = f[p]
    BY DEF OthersSame
  <1>4. /\ Shares(obs, M, r) = SumFunction(e) /\ Shares(new, M, r) = SumFunction(f)
        /\ e[o] = EntryShare(EntryOf(obs, o, r), M) /\ f[o] = EntryShare(EntryOf(new, o, r), M)
    BY DEF Shares
  <1> HIDE DEF e, f
  <1>5. SumFunction(f) = SumFunction(e) + (f[o] - e[o])
    BY <1>2, <1>3, PartiesAssumption, SumUpdated
  <1> QED
    BY <1>4, <1>5

(* What the books of the reserve x hold of debt, with a unit in the last     *)
(* place for each slot up to its last accrual, at the rate of x.             *)
Slack(x) == x.borrowed * Wad + x.slot * x.cumulative

Booked(obs, r, x) ==
  \A M \in Nat : Shares(obs, M, r) * (x.cumulative * Wad) <= M * Slack(x)

(* No entry is ahead of its reserve. *)
Behind(obs, r, x) ==
  \A o \in Obligations :
    EntryOf(obs, o, r) # NoEntry => EntryOf(obs, o, r).cumulative <= x.cumulative

DebtOK(obs, r, x) == x.cumulative >= Wad /\ Behind(obs, r, x) /\ Booked(obs, r, x)

(* Interest is accrued, or none is due. *)
Grown(x, y) ==
  /\ y.cumulative >= x.cumulative /\ y.slot >= x.slot
  /\ x.slot = y.slot => y.cumulative = x.cumulative
  /\ Slack(x) * y.cumulative <= Slack(y) * x.cumulative

LEMMA SlackType ==
  ASSUME NEW x \in ReserveState
  PROVE  Slack(x) \in Nat
  BY ReserveFields, WadType, SMT DEF Slack

LEMMA GrownSame ==
  ASSUME NEW x \in ReserveState, NEW y \in ReserveState,
         y.borrowed = x.borrowed, y.slot = x.slot, y.cumulative = x.cumulative
  PROVE  Grown(x, y)
  <1>1. Slack(y) = Slack(x) /\ Slack(x) \in Nat /\ x.cumulative \in Nat /\ x.slot \in Nat
    BY SlackType, ReserveFields DEF Slack
  <1>2. Slack(x) * x.cumulative \in Nat
    BY <1>1, MulCommutes
  <1> QED
    BY <1>1, <1>2 DEF Grown

(* The books lose less than a unit when both round down.                     *)
LEMMA GrowthBound ==
  ASSUME NEW w \in Nat, w > 0, NEW p \in Nat, p >= w,
         NEW b \in Nat, NEW c \in Nat, c >= w, NEW s \in Nat, NEW e \in Nat, e >= 1,
         NEW b2 \in Nat, NEW c2 \in Nat, c2 >= c, b * p < w * b2 + w, w * c2 <= c * p
  PROVE  (b * w + s * c) * c2 <= (b2 * w + (s + e) * c2) * c
  <1>1. b * (w * c2) <= b * (c * p)
    BY MulMonotone, MulCommutes
  <1>2. c * (b * p) <= c * (w * b2 + w)
    <2>1. b * p \in Nat /\ w * b2 + w \in Nat /\ b * p <= w * b2 + w
      BY MulCommutes
    <2> QED
      BY <2>1, MulMonotone
  <1>3. b * (c * p) = c * (b * p) /\ c * (w * b2 + w) = c * (w * b2) + w * c
    BY SMT
  <1>4. b * (w * c2) <= c * (w * b2) + w * c
    <2>1. b * (w * c2) \in Nat /\ c * (b * p) \in Nat /\ c * (w * b2) \in Nat /\ w * c \in Nat
      BY SMT
    <2> QED
      BY <1>1, <1>2, <1>3, <2>1
  <1>5. w * c <= c2 * c
    <2>1. c * w <= c * c2
      BY MulMonotone
    <2> QED
      BY <2>1, MulCommutes
  <1>6. c2 * c <= e * (c2 * c)
    <2>1. c2 * c \in Nat
      BY MulCommutes
    <2>2. (c2 * c) * 1 <= (c2 * c) * e
      BY <2>1, MulMonotone
    <2>3. (c2 * c) * 1 = c2 * c /\ (c2 * c) * e = e * (c2 * c)
      BY <2>1, MulCommutes
    <2> QED
      BY <2>2, <2>3
  <1>7. /\ (b * w + s * c) * c2 = b * (w * c2) + s * (c2 * c)
        /\ (b2 * w + (s + e) * c2) * c = c * (w * b2) + s * (c2 * c) + e * (c2 * c)
    BY SMT
  <1>8. /\ b * (w * c2) \in Nat /\ s * (c2 * c) \in Nat /\ c * (w * b2) \in Nat
        /\ w * c \in Nat /\ c2 * c \in Nat /\ e * (c2 * c) \in Nat
    BY SMT
  <1> QED
    BY <1>4, <1>5, <1>6, <1>7, <1>8

LEMMA CompoundDebt ==
  ASSUME NEW x \in ReserveState, HasSupply(x), NEW elapsed \in Nat
  PROVE  LET y == CompoundInterest(x, elapsed)
         IN  /\ y.slot = x.slot
             /\ \E p \in Nat : /\ p >= Wad /\ y.borrowed = TryMul(x.borrowed, p)
                               /\ y.cumulative = TryMul(x.cumulative, p)
  <1> DEFINE p == TryPow(Wad + CurrentBorrowRate(x) \div SlotsPerYear, elapsed)
             debt == TryMul(x.borrowed, p) - x.borrowed
             taken == TryMul(debt, FromPercent(x.config.takeRate))
             y == CompoundInterest(x, elapsed)
  <1>1. CurrentBorrowRate(x) \div SlotsPerYear \in Nat
    BY BorrowRateType, SlotsPerYearAssumption, DivBounds
  <1>2. Wad + CurrentBorrowRate(x) \div SlotsPerYear \in Growth
    BY <1>1, WadType DEF Growth
  <1>3. p \in Nat /\ p >= Wad
    BY <1>2, PowGrows DEF Growth
  <1>4. y = [x EXCEPT !.cumulative = TryMul(x.cumulative, p),
                      !.fees = x.fees + taken, !.borrowed = x.borrowed + debt]
    BY DEF CompoundInterest
  <1>5. y \in ReserveState
    BY CompoundType
  <1> HIDE DEF p
  <1>6. x.borrowed \in Nat /\ TryMul(x.borrowed, p) \in Nat
    BY <1>3, ReserveFields, TryMulType
  <1>7. x.borrowed + debt = TryMul(x.borrowed, p)
    BY <1>6
  <1> HIDE DEF debt, taken, y
  <1>8. y.slot = x.slot /\ y.borrowed = x.borrowed + debt /\ y.cumulative = TryMul(x.cumulative, p)
    BY <1>4 DEF ReserveState
  <1> QED
    BY <1>3, <1>7, <1>8 DEF y

LEMMA AccruedGrows ==
  ASSUME slot \in Nat, NEW x \in ReserveState, x.slot <= slot, slot > x.slot => HasSupply(x),
         x.cumulative >= Wad
  PROVE  Accrued(x) \in ReserveState /\ Grown(x, Accrued(x))
  <1> DEFINE y == Accrued(x)
  <1>0. y \in ReserveState /\ y.slot = slot
    BY AccruedType
  <1>1. /\ x.slot \in Nat /\ x.borrowed \in Nat /\ x.cumulative \in Nat /\ x.cumulative > 0
        /\ y.borrowed \in Nat /\ y.cumulative \in Nat
    BY <1>0, ReserveFields
  <1>2. CASE x.slot = slot
    <2>0. ~(slot > x.slot)
      BY <1>1, <1>2
    <2>1. y = UpdateSlot(x)
      BY <2>0, Zenon DEF Accrued
    <2> HIDE DEF y
    <2>2. y.borrowed = x.borrowed /\ y.cumulative = x.cumulative
      BY <2>1 DEF UpdateSlot, ReserveState
    <2> QED
      BY <1>0, <1>2, <2>2, GrownSame DEF y
  <1>3. CASE x.slot < slot
    <2> DEFINE e == slot - x.slot
               z == CompoundInterest(x, e)
    <2>1. e \in Nat /\ e >= 1 /\ slot > x.slot
      BY <1>1, <1>3
    <2>2. y = UpdateSlot(z) /\ z \in ReserveState
      BY <2>1, CompoundType DEF Accrued
    <2>3. PICK p \in Nat : /\ p >= Wad /\ z.borrowed = TryMul(x.borrowed, p)
                           /\ z.cumulative = TryMul(x.cumulative, p)
      BY <2>1, CompoundDebt
    <2> HIDE DEF z, y
    <2>4. y.borrowed = z.borrowed /\ y.cumulative = z.cumulative
      BY <2>2 DEF UpdateSlot, ReserveState
    <2> DEFINE b == x.borrowed
               c == x.cumulative
               b2 == y.borrowed
               c2 == y.cumulative
    <2>5. b2 = (b * p) \div Wad /\ c2 = (c * p) \div Wad
      BY <2>3, <2>4 DEF TryMul
    <2>6. c2 >= c
      BY <1>1, <2>3, <2>4, TryMulType
    <2>7. b \in Nat /\ c \in Nat /\ b2 \in Nat /\ c2 \in Nat /\ c >= Wad /\ c > 0
      BY <1>1
    <2>8. y.slot = x.slot + e
      BY <1>0, <1>1, <2>1 DEF y
    <2> HIDE DEF b, c, b2, c2, e
    <2>9. b * p \in Nat /\ c * p \in Nat
      BY <2>7, MulCommutes
    <2>10. b * p < Wad * b2 + Wad
      BY <2>5, <2>9, WadType, DivBounds
    <2>11. Wad * c2 <= c * p
      BY <2>5, <2>9, WadType, DivBounds
    <2>12. (b * Wad + x.slot * c) * c2 <= (b2 * Wad + (x.slot + e) * c2) * c
      BY <1>1, <2>1, <2>3, <2>6, <2>7, <2>10, <2>11, WadType, GrowthBound
    <2>13. Slack(x) = b * Wad + x.slot * c /\ Slack(y) = b2 * Wad + (x.slot + e) * c2
      BY <2>8 DEF Slack, b, c, b2, c2
    <2>14. y.slot >= x.slot /\ x.slot # y.slot
      BY <1>1, <2>1, <2>8
    <2>15. Grown(x, y)
      BY <2>6, <2>12, <2>13, <2>14 DEF Grown, c, c2
    <2> QED
      BY <1>0, <2>15 DEF y
  <1> QED
    BY <1>1, <1>2, <1>3

LEMMA GrownKeeps ==
  ASSUME NEW obs \in Accounts, NEW new \in Accounts, NEW r \in Reserves,
         \A o \in Obligations : EntryOf(new, o, r) = EntryOf(obs, o, r),
         NEW x \in ReserveState, NEW y \in ReserveState, DebtOK(obs, r, x), Grown(x, y)
  PROVE  DebtOK(new, r, y)
  <1>1. /\ x.cumulative \in Nat /\ x.cumulative > 0 /\ y.cumulative \in Nat
        /\ Slack(x) \in Nat /\ Slack(y) \in Nat /\ Wad \in Nat
    BY ReserveFields, SlackType, WadType
  <1>2. y.cumulative >= Wad
    BY <1>1 DEF DebtOK, Grown
  <1>3. ASSUME NEW o \in Obligations, EntryOf(new, o, r) # NoEntry
        PROVE  EntryOf(new, o, r).cumulative <= y.cumulative
    <2> DEFINE b == EntryOf(obs, o, r)
    <2>1. b \in Borrow
      BY <1>3, EntryType
    <2>2. b.cumulative \in Nat /\ b.cumulative <= x.cumulative
      BY <1>3, <2>1 DEF Borrow, DebtOK, Behind
    <2> QED
      BY <1>1, <2>2 DEF Grown
  <1>4. ASSUME NEW M \in Nat
        PROVE  Shares(new, M, r) * (y.cumulative * Wad) <= M * Slack(y)
    <2> DEFINE s == Shares(obs, M, r)
               c == x.cumulative
               d == y.cumulative
    <2>0. Shares(new, M, r) = s
      BY DEF Shares
    <2>1. s \in Nat /\ s * (c * Wad) <= M * Slack(x)
      BY <1>4, SharesType DEF DebtOK, Booked
    <2>2. Slack(x) * d <= Slack(y) * c
      BY DEF Grown
    <2>3. c \in Nat /\ c > 0 /\ d \in Nat
      BY <1>1
    <2> HIDE DEF s, c, d
    <2>4. s * (c * Wad) \in Nat /\ M * Slack(x) \in Nat /\ Slack(x) * d \in Nat /\ Slack(y) * c \in Nat
      BY <1>1, <2>1, <2>3, SMT
    <2>5. d * (s * (c * Wad)) <= d * (M * Slack(x))
      BY <2>1, <2>3, <2>4, MulMonotone
    <2>6. M * (Slack(x) * d) <= M * (Slack(y) * c)
      BY <2>2, <2>4, MulMonotone
    <2>7. /\ d * (s * (c * Wad)) = c * (s * (d * Wad))
          /\ d * (M * Slack(x)) = M * (Slack(x) * d)
          /\ M * (Slack(y) * c) = c * (M * Slack(y))
          /\ s * (d * Wad) \in Nat /\ M * Slack(y) \in Nat
      BY <1>1, <2>1, <2>3, SMT
    <2>8. /\ c * (s * (d * Wad)) \in Nat /\ M * (Slack(x) * d) \in Nat
          /\ c * (M * Slack(y)) \in Nat
      BY <2>3, <2>4, <2>7, MulCommutes
    <2>9. c * (s * (d * Wad)) <= c * (M * Slack(y))
      BY <2>5, <2>6, <2>7, <2>8
    <2>10. s * (d * Wad) <= M * Slack(y)
      BY <2>3, <2>7, <2>9, MulCancels
    <2> QED
      BY <2>0, <2>10 DEF d
  <1> QED
    BY <1>2, <1>3, <1>4 DEF DebtOK, Behind, Booked

(* The entry b becomes d, and the reserve x becomes y at the same rate: the  *)
(* books move at least as much as the share.                                 *)
Settles(b, d, x, y) ==
  \A M \in Nat : EntryShare(d, x.cumulative * M) + M * x.borrowed
                   <= EntryShare(b, x.cumulative * M) + M * y.borrowed

LEMMA EntryMoves ==
  ASSUME NEW obs \in Accounts, NEW new \in Accounts, NEW r \in Reserves, NEW o \in Obligations,
         OthersSame(obs, new, o, r), NEW x \in ReserveState, NEW y \in ReserveState,
         DebtOK(obs, r, x), y.cumulative = x.cumulative, y.slot = x.slot,
         EntryOf(new, o, r) # NoEntry => EntryOf(new, o, r).cumulative <= x.cumulative,
         Settles(EntryOf(obs, o, r), EntryOf(new, o, r), x, y)
  PROVE  DebtOK(new, r, y)
  <1>1. /\ x.cumulative \in Nat /\ x.cumulative > 0 /\ x.borrowed \in Nat /\ y.borrowed \in Nat
        /\ x.slot \in Nat /\ Slack(x) \in Nat /\ Slack(y) \in Nat /\ Wad \in Nat
    BY ReserveFields, SlackType, WadType
  <1>2. Behind(new, r, y)
    BY DEF Behind, OthersSame, DebtOK
  <1>3. Slack(y) + x.borrowed * Wad = Slack(x) + y.borrowed * Wad
    <2>1. Slack(y) = y.borrowed * Wad + x.slot * x.cumulative
      BY DEF Slack
    <2>2. Slack(x) = x.borrowed * Wad + x.slot * x.cumulative
      BY DEF Slack
    <2>3. x.borrowed * Wad \in Nat /\ y.borrowed * Wad \in Nat /\ x.slot * x.cumulative \in Nat
      BY <1>1, MulCommutes
    <2> QED
      BY <2>1, <2>2, <2>3
  <1>4. ASSUME NEW M \in Nat
        PROVE  Shares(new, M, r) * (x.cumulative * Wad) <= M * Slack(y)
    <2> DEFINE c == x.cumulative
               w == Wad
               n == c * M
               old == Shares(obs, n, r)
               now == Shares(new, n, r)
               s == Shares(new, M, r)
               b == EntryShare(EntryOf(obs, o, r), n)
               d == EntryShare(EntryOf(new, o, r), n)
               k == c * w
               X == x.borrowed
               Y == y.borrowed
               P == Slack(x)
               Q == Slack(y)
    <2>0. c \in Nat /\ c > 0 /\ w \in Nat /\ X \in Nat /\ Y \in Nat /\ P \in Nat /\ Q \in Nat
      BY <1>1
    <2>1. n \in Nat /\ k \in Nat
      BY <2>0, <1>4, MulCommutes
    <2>2. old \in Nat /\ old * k <= n * P
      <3>1. old \in Nat
        BY <2>1, SharesType
      <3>2. Booked(obs, r, x)
        BY DEF DebtOK
      <3> QED
        BY <2>1, <3>1, <3>2 DEF Booked
    <2>3. s \in Nat /\ now \in Nat /\ c * s <= now
      BY <1>4, <2>0, SharesType
    <2>4. b \in Nat /\ d \in Nat
      BY <2>1, EntryType, ShareType
    <2>5. now = old + (d - b)
      BY <2>1, SharesMove
    <2>6. d + M * X <= b + M * Y
      BY <1>4 DEF Settles
    <2>7. Q + X * w = P + Y * w
      BY <1>3
    <2> HIDE DEF c, w, old, now, s, b, d, X, Y, P, Q
    <2>8. M * X \in Nat /\ M * Y \in Nat
      BY <2>0, <1>4, MulCommutes
    <2>9. now + M * X <= old + M * Y
      BY <2>2, <2>3, <2>4, <2>5, <2>6, <2>8
    <2> HIDE DEF n, k
    <2>10. k * (now + M * X) <= k * (old + M * Y)
      <3>1. now + M * X \in Nat /\ old + M * Y \in Nat
        BY <2>2, <2>3, <2>8
      <3> QED
        BY <2>1, <2>9, <3>1, MulMonotone
    <2>11. /\ k * (now + M * X) = k * now + k * (M * X)
           /\ k * (old + M * Y) = old * k + k * (M * Y)
      BY <2>1, <2>2, <2>3, <2>8, SMT
    <2>12. /\ k * now \in Nat /\ k * (M * X) \in Nat /\ k * (M * Y) \in Nat
           /\ old * k \in Nat /\ n * P \in Nat /\ n * Q \in Nat
      BY <2>0, <2>1, <2>2, <2>3, <2>8, MulCommutes
    <2>13. k * now + k * (M * X) <= n * P + k * (M * Y)
      BY <2>2, <2>10, <2>11, <2>12
    <2>14. n * Q + k * (M * X) = n * P + k * (M * Y)
      <3>1. k * (M * X) = n * (X * w) /\ k * (M * Y) = n * (Y * w)
        BY <2>0, <1>4, SMT DEF k, n
      <3>2. X * w \in Nat /\ Y * w \in Nat
        BY <2>0, MulCommutes
      <3>3. n * (Q + X * w) = n * Q + n * (X * w) /\ n * (P + Y * w) = n * P + n * (Y * w)
        BY <2>0, <2>1, <3>2, SMT
      <3> QED
        BY <2>7, <3>1, <3>3
    <2>15. k * now <= n * Q
      BY <2>12, <2>13, <2>14
    <2>16. k * (c * s) <= k * now
      BY <2>0, <2>1, <2>3, MulMonotone, MulCommutes
    <2>17. /\ k * (c * s) = c * (s * k) /\ s * k \in Nat /\ n * Q = c * (M * Q) /\ M * Q \in Nat
           /\ k * (c * s) \in Nat
      BY <2>0, <2>1, <2>3, <1>4, SMT DEF n
    <2>18. c * (s * k) <= c * (M * Q)
      BY <2>12, <2>15, <2>16, <2>17
    <2>19. s * k <= M * Q
      BY <2>0, <2>17, <2>18, MulCancels
    <2> QED
      BY <2>19 DEF s, k, c, w, Q
  <1> QED
    BY <1>2, <1>4 DEF DebtOK, Booked

(* The entry d is b less what is settled. *)
Reduced(b, d, settle) ==
  IF b.amount = settle THEN d = NoEntry
  ELSE d \in Borrow /\ d.amount = b.amount - settle /\ d.cumulative = b.cumulative

LEMMA ReducedShare ==
  ASSUME NEW b \in Borrow, NEW d, NEW settle \in Nat, settle <= b.amount, Reduced(b, d, settle),
         NEW c \in Nat, b.cumulative <= c, NEW M \in Nat
  PROVE  EntryShare(d, c * M) + M * settle <= EntryShare(b, c * M)
  <1> DEFINE a == b.amount
             e == b.cumulative
             left == a - settle
             q == ((c * M) * left) \div e
  <1>1. a \in Nat /\ e \in Nat /\ e > 0 /\ left \in Nat /\ b # NoEntry
    BY NoneAssumption DEF Borrow
  <1>2. EntryShare(b, c * M) = ((c * M) * a) \div e
    BY <1>1 DEF EntryShare
  <1> HIDE DEF a, e
  <1>3. c * M \in Nat /\ (c * M) * left \in Nat /\ (c * M) * a \in Nat /\ M * settle \in Nat
    BY <1>1, SMT
  <1>4. q \in Nat /\ e * q <= (c * M) * left
    BY <1>1, <1>3, DivBounds
  <1>5. EntryShare(d, c * M) = q
    <2>1. CASE a = settle
      <3>1. d = NoEntry
        BY <2>1 DEF Reduced, a
      <3>2. left = 0 /\ (c * M) * 0 = 0
        BY <1>1, <1>3, <2>1
      <3>3. 0 \div e = 0
        BY <1>1
      <3> QED
        BY <3>1, <3>2, <3>3 DEF EntryShare
    <2>2. CASE a # settle
      <3>1. d # NoEntry /\ d.amount = left /\ d.cumulative = e
        BY <2>2, NoneAssumption DEF Reduced, a, e
      <3> QED
        BY <3>1 DEF EntryShare
    <2> QED
      BY <2>1, <2>2
  <1> HIDE DEF q
  <1>6. a = left + settle
    BY <1>1
  <1> HIDE DEF left
  <1>7. (c * M) * a = (c * M) * left + c * (M * settle)
    BY <1>1, <1>6, SMT
  <1>8. e * (M * settle) <= c * (M * settle)
    <2>1. (M * settle) * e <= (M * settle) * c
      BY <1>1, <1>3, MulMonotone DEF e
    <2> QED
      BY <1>1, <1>3, <2>1, MulCommutes
  <1>9. e * (q + M * settle) = e * q + e * (M * settle)
    BY <1>1, <1>3, <1>4, SMT
  <1>10. e * q \in Nat /\ e * (M * settle) \in Nat /\ c * (M * settle) \in Nat /\ q + M * settle \in Nat
    BY <1>1, <1>3, <1>4, MulCommutes
  <1>11. e * (q + M * settle) <= (c * M) * a
    BY <1>3, <1>4, <1>7, <1>8, <1>9, <1>10
  <1>12. ((c * M) * a) \div e >= q + M * settle
    BY <1>1, <1>3, <1>10, <1>11, DivAtLeast
  <1>13. ((c * M) * a) \div e \in Nat
    BY <1>1, <1>3, DivBounds
  <1> QED
    BY <1>2, <1>5, <1>10, <1>12, <1>13

LEMMA AccruedShare ==
  ASSUME NEW b \in Borrow, NEW c \in Nat, b.cumulative <= c, NEW N \in Nat
  PROVE  /\ AccrueBorrow(b, c) \in Borrow /\ AccrueBorrow(b, c).cumulative = c
         /\ EntryShare(AccrueBorrow(b, c), N) <= EntryShare(b, N)
         /\ AccrueBorrow(b, c).amount <= EntryShare(b, c)
  <1> DEFINE a == b.amount
             e == b.cumulative
             d == AccrueBorrow(b, c)
             f == d.amount
  <1>1. a \in Nat /\ e \in Nat /\ e > 0 /\ b # NoEntry /\ c > 0
    BY NoneAssumption DEF Borrow
  <1>2. d \in Borrow
    BY AccrueBorrowType
  <1>3. f \in Nat /\ d # NoEntry
    BY <1>2, NoneAssumption DEF Borrow
  <1>4. d.cumulative = c /\ f * e <= a * c
    <2>1. CASE e = c
      <3>1. d = b
        BY <1>1, <2>1 DEF AccrueBorrow
      <3>2. a * c \in Nat
        BY <1>1, MulCommutes
      <3> QED
        BY <2>1, <3>1, <3>2 DEF Borrow
    <2>2. CASE e < c
      <3> DEFINE t == TryDiv(c, e)
                 g == TryMul(a, t)
      <3>1. ~(c <= e)
        BY <1>1, <2>2
      <3>2. d = [b EXCEPT !.amount = g, !.cumulative = c]
        BY <3>1 DEF AccrueBorrow
      <3>3. t \in Nat /\ g \in Nat
        BY <1>1, TryDivType, TryMulType
      <3>4. c * Wad \in Nat /\ a * t \in Nat
        BY <1>1, <3>3, WadType, MulCommutes
      <3>5. e * t <= c * Wad
        BY <1>1, <3>4, DivBounds DEF TryDiv
      <3>6. Wad * g <= a * t
        <4> HIDE DEF t
        <4> QED
          BY <1>1, <3>4, WadType, DivBounds DEF TryMul
      <3> HIDE DEF t, g, d
      <3>7. f = g /\ d.cumulative = c
        BY <3>2 DEF Borrow
      <3>8. e * (Wad * g) <= e * (a * t)
        BY <1>1, <3>3, <3>4, <3>6, WadType, MulMonotone, MulCommutes
      <3>9. a * (e * t) <= a * (c * Wad)
        BY <1>1, <3>3, <3>4, <3>5, MulMonotone, MulCommutes
      <3>10. /\ e * (Wad * g) = Wad * (g * e) /\ e * (a * t) = a * (e * t)
             /\ a * (c * Wad) = Wad * (a * c) /\ g * e \in Nat /\ a * c \in Nat
        BY <1>1, <3>3, WadType, SMT
      <3>11. /\ Wad * (g * e) \in Nat /\ a * (e * t) \in Nat /\ Wad * (a * c) \in Nat
        BY <1>1, <3>3, <3>10, WadType, SMT
      <3>12. Wad * (g * e) <= Wad * (a * c)
        BY <3>8, <3>9, <3>10, <3>11
      <3> QED
        BY <3>7, <3>10, <3>12, WadType, MulCancels
    <2> QED
      BY <1>1, <2>1, <2>2
  <1>5. EntryShare(b, N) = (N * a) \div e /\ EntryShare(b, c) = (c * a) \div e
    BY <1>1 DEF EntryShare
  <1>6. EntryShare(d, N) = (N * f) \div c
    BY <1>3, <1>4 DEF EntryShare
  <1> DEFINE q == (N * f) \div c
  <1> HIDE DEF a, e, d, f
  <1>7. N * f \in Nat /\ N * a \in Nat /\ c * a \in Nat /\ f * e \in Nat /\ a * c \in Nat
    BY <1>1, <1>3, MulCommutes
  <1>8. q \in Nat /\ c * q <= N * f
    BY <1>1, <1>7, DivBounds
  <1> HIDE DEF q
  <1>9. e * q <= N * a
    <2>1. e * (c * q) <= e * (N * f)
      BY <1>1, <1>7, <1>8, MulMonotone, MulCommutes
    <2>2. N * (f * e) <= N * (a * c)
      BY <1>4, <1>7, MulMonotone
    <2>3. /\ e * (c * q) = c * (e * q) /\ e * (N * f) = N * (f * e)
          /\ N * (a * c) = c * (N * a) /\ e * q \in Nat
      BY <1>1, <1>3, <1>8, SMT
    <2>4. c * (e * q) \in Nat /\ N * (f * e) \in Nat /\ c * (N * a) \in Nat
      BY <1>7, <2>3, MulCommutes
    <2>5. c * (e * q) <= c * (N * a)
      BY <2>1, <2>2, <2>3, <2>4
    <2> QED
      BY <1>1, <1>7, <2>3, <2>5, MulCancels
  <1>10. (N * a) \div e >= q
    BY <1>1, <1>7, <1>8, <1>9, DivAtLeast
  <1>11. (c * a) \div e >= f
    <2>1. e * f <= c * a
      BY <1>1, <1>3, <1>4, MulCommutes
    <2> QED
      BY <1>1, <1>3, <1>7, <2>1, DivAtLeast
  <1>12. (N * a) \div e \in Nat /\ (c * a) \div e \in Nat
    BY <1>1, <1>7, DivBounds
  <1> QED
    BY <1>2, <1>3, <1>4, <1>5, <1>6, <1>8, <1>10, <1>11, <1>12 DEF q, f, d

LEMMA TakenSettles ==
  ASSUME NEW b \in Borrow, NEW d, NEW settle \in Nat, settle <= b.amount, Reduced(b, d, settle),
         NEW x \in ReserveState, NEW y \in ReserveState, b.cumulative <= x.cumulative,
         y.borrowed = x.borrowed - MinOf(settle, x.borrowed)
  PROVE  Settles(b, d, x, y)
  <1>1. x.cumulative \in Nat /\ x.borrowed \in Nat /\ y.borrowed \in Nat
    BY ReserveFields
  <1>2. x.borrowed <= y.borrowed + settle
    <2> DEFINE m == MinOf(settle, x.borrowed)
    <2>1. m \in Nat /\ m <= settle
      BY <1>1, MinMaxTypes
    <2> HIDE DEF m
    <2> QED
      BY <1>1, <2>1 DEF m
  <1>3. d \in Borrow \cup {NoEntry}
    BY DEF Reduced
  <1>4. ASSUME NEW M \in Nat
        PROVE  EntryShare(d, x.cumulative * M) + M * x.borrowed
                 <= EntryShare(b, x.cumulative * M) + M * y.borrowed
    <2>1. EntryShare(d, x.cumulative * M) + M * settle <= EntryShare(b, x.cumulative * M)
      BY <1>1, ReducedShare
    <2>2. x.cumulative * M \in Nat
      BY <1>1, MulCommutes
    <2>3. EntryShare(d, x.cumulative * M) \in Nat /\ EntryShare(b, x.cumulative * M) \in Nat
      BY <1>3, <2>2, ShareType
    <2>4. M * x.borrowed <= M * (y.borrowed + settle)
      BY <1>1, <1>2, MulMonotone
    <2>5. /\ M * (y.borrowed + settle) = M * y.borrowed + M * settle
          /\ M * y.borrowed \in Nat /\ M * settle \in Nat /\ M * x.borrowed \in Nat
      BY <1>1, SMT
    <2> QED
      BY <2>1, <2>3, <2>4, <2>5
  <1> QED
    BY <1>4 DEF Settles

LEMMA DrawnSettles ==
  ASSUME NEW b \in Borrow \cup {NoEntry}, NEW d \in Borrow, NEW n \in Nat,
         NEW x \in ReserveState, NEW y \in ReserveState,
         b # NoEntry => b.cumulative = x.cumulative, d.cumulative = x.cumulative,
         d.amount = AmountOf(b) + n, y.borrowed = x.borrowed + n
  PROVE  Settles(b, d, x, y)
  <1> DEFINE c == x.cumulative
             a == AmountOf(b)
  <1>1. c \in Nat /\ c > 0 /\ x.borrowed \in Nat
    BY ReserveFields
  <1>2. a \in Nat
    BY DEF AmountOf, Borrow
  <1>3. d # NoEntry
    BY NoneAssumption
  <1>4. ASSUME NEW M \in Nat, NEW k \in Nat PROVE ((c * M) * k) \div c = M * k
    <2>1. (c * M) * k = c * (M * k) /\ (c * M) * k \in Nat /\ M * k \in Nat
      BY <1>1, SMT
    <2> DEFINE q == ((c * M) * k) \div c
    <2>2. q \in Nat
      BY <1>1, <2>1, DivBounds
    <2>3. (c * M) * k <= c * (M * k) /\ c * (M * k) <= (c * M) * k
      BY <2>1
    <2>4. q >= M * k
      BY <1>1, <2>1, <2>3, DivAtLeast
    <2>5. q <= M * k
      BY <1>1, <2>1, <2>3, DivAtMost
    <2> QED
      BY <2>1, <2>2, <2>4, <2>5
  <1>5. ASSUME NEW M \in Nat
        PROVE  EntryShare(d, c * M) + M * x.borrowed <= EntryShare(b, c * M) + M * y.borrowed
    <2>1. EntryShare(d, c * M) = M * (a + n)
      <3>1. EntryShare(d, c * M) = ((c * M) * (a + n)) \div c
        BY <1>3 DEF EntryShare
      <3>2. a + n \in Nat
        BY <1>2
      <3> QED
        BY <1>4, <3>1, <3>2
    <2>2. EntryShare(b, c * M) = M * a
      <3>1. CASE b = NoEntry
        BY <3>1 DEF EntryShare, AmountOf
      <3>2. CASE b # NoEntry
        <4>1. EntryShare(b, c * M) = ((c * M) * a) \div c
          BY <3>2 DEF EntryShare, AmountOf
        <4> QED
          BY <1>2, <1>4, <4>1
      <3> QED
        BY <3>1, <3>2
    <2> HIDE DEF a, c
    <2>3. /\ M * (a + n) = M * a + M * n /\ M * (x.borrowed + n) = M * x.borrowed + M * n
          /\ M * a \in Nat /\ M * n \in Nat /\ M * x.borrowed \in Nat
      BY <1>1, <1>2, SMT
    <2> QED
      BY <2>1, <2>2, <2>3
  <1> QED
    BY <1>5 DEF Settles

LEMMA SettlesFrom ==
  ASSUME NEW b \in Borrow, NEW e \in Borrow, NEW d \in Borrow \cup {NoEntry},
         \A N \in Nat : EntryShare(e, N) <= EntryShare(b, N),
         NEW x \in ReserveState, NEW y \in ReserveState, Settles(e, d, x, y)
  PROVE  Settles(b, d, x, y)
  <1>1. x.cumulative \in Nat /\ x.borrowed \in Nat /\ y.borrowed \in Nat
    BY ReserveFields
  <1>2. ASSUME NEW M \in Nat
        PROVE  EntryShare(d, x.cumulative * M) + M * x.borrowed
                 <= EntryShare(b, x.cumulative * M) + M * y.borrowed
    <2> DEFINE N == x.cumulative * M
    <2>1. N \in Nat /\ M * x.borrowed \in Nat /\ M * y.borrowed \in Nat
      BY <1>1, MulCommutes
    <2>2. EntryShare(d, N) \in Nat /\ EntryShare(b, N) \in Nat /\ EntryShare(e, N) \in Nat
      BY <2>1, ShareType
    <2>3. EntryShare(d, N) + M * x.borrowed <= EntryShare(e, N) + M * y.borrowed
      BY DEF Settles
    <2>4. EntryShare(e, N) <= EntryShare(b, N)
      BY <2>1
    <2> HIDE DEF N
    <2> QED
      BY <2>1, <2>2, <2>3, <2>4 DEF N
  <1> QED
    BY <1>2 DEF Settles

(* An entry of the reserve x that is not ahead of it. *)
LEMMA NoMoreShare ==
  ASSUME NEW b \in Borrow, NEW d \in Borrow, NEW x \in ReserveState,
         \A N \in Nat : EntryShare(d, N) <= EntryShare(b, N)
  PROVE  Settles(b, d, x, x)
  <1>1. x.cumulative \in Nat /\ x.borrowed \in Nat
    BY ReserveFields
  <1>2. ASSUME NEW M \in Nat
        PROVE  EntryShare(d, x.cumulative * M) + M * x.borrowed
                 <= EntryShare(b, x.cumulative * M) + M * x.borrowed
    <2>1. x.cumulative * M \in Nat /\ M * x.borrowed \in Nat
      BY <1>1, MulCommutes
    <2>2. /\ EntryShare(d, x.cumulative * M) \in Nat /\ EntryShare(b, x.cumulative * M) \in Nat
          /\ EntryShare(d, x.cumulative * M) <= EntryShare(b, x.cumulative * M)
      BY <2>1, ShareType
    <2> QED
      BY <2>1, <2>2
  <1> QED
    BY <1>2 DEF Settles
-----------------------------------------------------------------------------
(* What a step does to the debts.  Of a reserve that is yet to be created    *)
(* nothing is owed.                                                          *)

DebtInv(r) ==
  IF reserve[r] = NoReserve THEN \A o \in Obligations : EntryOf(obligation, o, r) = NoEntry
  ELSE DebtOK(obligation, r, reserve[r])

(* A reserve's rate moves only with its slot. *)
RateKept(x, y) == y.slot >= x.slot /\ (y.slot = x.slot => y.cumulative = x.cumulative)

DebtStep(r) ==
  /\ DebtInv(r)'
  /\ reserve[r] # NoReserve => reserve'[r] # NoReserve /\ RateKept(reserve[r], reserve'[r])

EntriesSame(r) == \A o \in Obligations : EntryOf(obligation', o, r) = EntryOf(obligation, o, r)

LEMMA GrownAlike ==
  ASSUME NEW x \in ReserveState, NEW y \in ReserveState, Grown(x, y),
         NEW u, u.borrowed = x.borrowed, u.slot = x.slot, u.cumulative = x.cumulative,
         NEW v, v.borrowed = y.borrowed, v.slot = y.slot, v.cumulative = y.cumulative
  PROVE  Grown(u, v)
  <1>1. Slack(u) = Slack(x) /\ Slack(v) = Slack(y)
    BY DEF Slack
  <1> QED
    BY <1>1 DEF Grown

LEMMA GrownStep ==
  ASSUME TypeOK, TypeOK', NEW r \in Reserves, DebtInv(r), reserve[r] # NoReserve,
         NEW y \in ReserveState, reserve'[r] = y, Grown(reserve[r], y), EntriesSame(r)
  PROVE  DebtStep(r)
  <1>1. obligation \in Accounts /\ obligation' \in Accounts /\ reserve[r] \in ReserveState
    BY DEF TypeOK, Accounts
  <1>2. y # NoReserve
    BY NoneAssumption
  <1>3. DebtOK(obligation, r, reserve[r])
    BY DEF DebtInv
  <1>4. DebtOK(obligation', r, y)
    BY <1>1, <1>3, GrownKeeps DEF EntriesSame
  <1>5. DebtInv(r)'
    BY <1>2, <1>4 DEF DebtInv
  <1> QED
    BY <1>2, <1>5 DEF DebtStep, Grown, RateKept

LEMMA EntryStep ==
  ASSUME TypeOK, TypeOK', NEW r \in Reserves, DebtInv(r), reserve[r] # NoReserve,
         NEW x \in ReserveState, Grown(reserve[r], x),
         NEW y \in ReserveState, reserve'[r] = y, y.cumulative = x.cumulative, y.slot = x.slot,
         NEW o \in Obligations, OthersSame(obligation, obligation', o, r),
         EntryOf(obligation', o, r) # NoEntry => EntryOf(obligation', o, r).cumulative <= x.cumulative,
         Settles(EntryOf(obligation, o, r), EntryOf(obligation', o, r), x, y)
  PROVE  DebtStep(r)
  <1>1. obligation \in Accounts /\ obligation' \in Accounts /\ reserve[r] \in ReserveState
    BY DEF TypeOK, Accounts
  <1>2. y # NoReserve
    BY NoneAssumption
  <1>3. DebtOK(obligation, r, reserve[r])
    BY DEF DebtInv
  <1>4. DebtOK(obligation, r, x)
    BY <1>1, <1>3, GrownKeeps
  <1>5. DebtOK(obligation', r, y)
    BY <1>1, <1>4, EntryMoves
  <1>6. DebtInv(r)'
    BY <1>2, <1>5 DEF DebtInv
  <1>7. RateKept(reserve[r], y)
    BY DEF Grown, RateKept
  <1> QED
    BY <1>2, <1>6, <1>7 DEF DebtStep

LEMMA SameStep ==
  ASSUME TypeOK, TypeOK', NEW r \in Reserves, DebtInv(r), reserve'[r] = reserve[r], EntriesSame(r)
  PROVE  DebtStep(r)
  <1>1. CASE reserve[r] = NoReserve
    BY <1>1 DEF DebtStep, DebtInv, EntriesSame
  <1>2. CASE reserve[r] # NoReserve
    <2>1. reserve[r] \in ReserveState
      BY <1>2 DEF TypeOK
    <2>2. Grown(reserve[r], reserve[r])
      BY <2>1, GrownSame
    <2> QED
      BY <1>2, <2>1, <2>2, GrownStep
  <1> QED
    BY <1>1, <1>2

(* A step that moves one reserve and no debt. *)
LEMMA OneGrows ==
  ASSUME TypeOK, TypeOK', \A q \in Reserves : DebtInv(q), \A q \in Reserves : EntriesSame(q),
         NEW r \in Reserves, reserve[r] # NoReserve, NEW y \in ReserveState,
         reserve' = [reserve EXCEPT ![r] = y], Grown(reserve[r], y)
  PROVE  \A q \in Reserves : DebtStep(q)
  <1>1. reserve'[r] = y /\ \A q \in Reserves \ {r} : reserve'[q] = reserve[q]
    BY DEF TypeOK
  <1>2. DebtStep(r)
    BY <1>1, GrownStep
  <1> QED
    BY <1>1, <1>2, SameStep

LEMMA NoneGrows ==
  ASSUME TypeOK, TypeOK', \A q \in Reserves : DebtInv(q), \A q \in Reserves : EntriesSame(q),
         reserve' = reserve
  PROVE  \A q \in Reserves : DebtStep(q)
  BY SameStep

(* The account of o is replaced. *)
LEMMA BorrowsLeft ==
  ASSUME TypeOK, NEW o \in Obligations, NEW new \in ObligationState,
         obligation' = [obligation EXCEPT ![o] = new],
         \A q \in Reserves : new.borrows[q] = EntryOf(obligation, o, q)
  PROVE  \A q \in Reserves : EntriesSame(q)
  <1>1. obligation'[o] = new /\ \A p \in Obligations \ {o} : obligation'[p] = obligation[p]
    BY DEF TypeOK
  <1>2. new # NoObligation
    BY NoneAssumption
  <1> QED
    BY <1>1, <1>2 DEF EntriesSame, EntryOf

LEMMA OneBorrow ==
  ASSUME TypeOK, NEW o \in Obligations, NEW new \in ObligationState, obligation[o] # NoObligation,
         obligation' = [obligation EXCEPT ![o] = new], NEW r \in Reserves,
         \A q \in Reserves \ {r} : new.borrows[q] = obligation[o].borrows[q]
  PROVE  /\ \A q \in Reserves \ {r} : EntriesSame(q)
         /\ OthersSame(obligation, obligation', o, r)
         /\ EntryOf(obligation', o, r) = new.borrows[r]
         /\ EntryOf(obligation, o, r) = obligation[o].borrows[r]
  <1>1. obligation'[o] = new /\ \A p \in Obligations \ {o} : obligation'[p] = obligation[p]
    BY DEF TypeOK
  <1>2. new # NoObligation
    BY NoneAssumption
  <1> QED
    BY <1>1, <1>2 DEF EntriesSame, EntryOf, OthersSame

LEMMA EntriesLeft ==
  ASSUME obligation' = obligation
  PROVE  \A q \in Reserves : EntriesSame(q)
  BY DEF EntriesSame

(* Everything the steps below rely on. *)
DebtsInv == LendingInv /\ \A q \in Reserves : DebtInv(q)

(* A reserve with its interest. *)
LEMMA InterestGrows ==
  ASSUME DebtsInv, NEW r \in Reserves, reserve[r] # NoReserve, CanAccrue(reserve[r])
  PROVE  /\ Accrued(reserve[r]) \in ReserveState /\ Grown(reserve[r], Accrued(reserve[r]))
         /\ HasSupply(reserve[r]) => HasSupply(Accrued(reserve[r]))
  <1>1. TypeOK /\ SlotsPast /\ slot \in Nat /\ LendingInv
    BY DEF DebtsInv, LendingInv, TypeOK, ClockOK
  <1>2. reserve[r] \in ReserveState /\ reserve[r].slot <= slot
    BY <1>1, ExistingReserve
  <1>3. reserve[r].cumulative >= Wad
    BY DEF DebtsInv, DebtInv, DebtOK
  <1>4. slot > reserve[r].slot => HasSupply(reserve[r])
    BY DEF CanAccrue
  <1>5. Accrued(reserve[r]) \in ReserveState /\ Grown(reserve[r], Accrued(reserve[r]))
    BY <1>1, <1>2, <1>3, <1>4, AccruedGrows
  <1>6. HasSupply(reserve[r]) => HasSupply(Accrued(reserve[r]))
    BY <1>1, AccruedReserve
  <1> QED
    BY <1>5, <1>6

LEMMA ReserveDebts ==
  ASSUME DebtsInv, LendingInv', NEW r \in Reserves,
         RefreshReserve(r) \/ RedeemFees(r) \/ UpdateReserveConfig(r)
  PROVE  \A q \in Reserves : DebtStep(q)
  <1> DEFINE x == reserve[r]
  <1>0. /\ TypeOK /\ TypeOK' /\ SlotsPast /\ slot \in Nat /\ oracle \in [Reserves -> Feeds]
        /\ \A q \in Reserves : DebtInv(q)
    BY DEF DebtsInv, LendingInv, TypeOK, ClockOK
  <1>1. x # NoReserve /\ obligation' = obligation
    BY DEF RefreshReserve, RedeemFees, UpdateReserveConfig, FreshReserve
  <1>2. x \in ReserveState /\ x.slot <= slot /\ x.cumulative >= Wad
    BY <1>0, <1>1, ExistingReserve DEF DebtInv, DebtOK
  <1>3. \A q \in Reserves : EntriesSame(q)
    BY <1>1, EntriesLeft
  <1>4. CASE RefreshReserve(r)
    <2> DEFINE z == [x EXCEPT !.price = GetPrice(oracle[r])]
               y == Accrued(z)
    <2>1. reserve' = [reserve EXCEPT ![r] = y] /\ CanAccrue(x) /\ GetPrice(oracle[r]) # NoPrice
      BY <1>4 DEF RefreshReserve
    <2>2. GetPrice(oracle[r]) \in Nat
      BY <1>0, <2>1, FeedsAssumption DEF GetPrice
    <2>3. /\ z \in ReserveState /\ z.slot = x.slot /\ z.available = x.available
          /\ z.borrowed = x.borrowed /\ z.fees = x.fees /\ z.cumulative = x.cumulative
      BY <1>2, <2>2 DEF ReserveState
    <2> HIDE DEF z
    <2>4. (slot > z.slot => HasSupply(z)) /\ z.slot <= slot /\ z.cumulative >= Wad
      BY <1>2, <2>1, <2>3 DEF CanAccrue, HasSupply
    <2>5. y \in ReserveState /\ Grown(z, y)
      BY <1>0, <2>3, <2>4, AccruedGrows
    <2> HIDE DEF y
    <2>6. Grown(x, y)
      BY <2>3, <2>5, GrownAlike
    <2> QED
      BY <1>0, <1>1, <1>3, <2>1, <2>5, <2>6, OneGrows
  <1>5. CASE RedeemFees(r)
    <2> DEFINE paid == CalculateRedeemFees(x)
               z == [x EXCEPT !.available = x.available - paid, !.fees = x.fees - FromInt(paid)]
               y == MarkStale(z)
    <2>1. reserve' = [reserve EXCEPT ![r] = y]
      BY <1>5 DEF RedeemFees
    <2>2. paid \in Nat /\ paid <= x.available /\ FromInt(paid) <= x.fees /\ FromInt(paid) \in Nat
      BY <1>2, RedeemFeesType, FromIntType
    <2> HIDE DEF paid
    <2>3. x.available - paid \in Nat /\ x.fees - FromInt(paid) \in Nat
      BY <1>2, <2>2, ReserveFields
    <2>4. /\ z \in ReserveState /\ z.borrowed = x.borrowed
          /\ z.slot = x.slot /\ z.cumulative = x.cumulative
      BY <1>2, <2>3 DEF ReserveState
    <2> HIDE DEF z
    <2>5. /\ y \in ReserveState /\ y.borrowed = z.borrowed
          /\ y.slot = z.slot /\ y.cumulative = z.cumulative
      BY <2>4, MarkStaleType
    <2> HIDE DEF y
    <2>6. Grown(x, y)
      BY <1>2, <2>4, <2>5, GrownSame
    <2> QED
      BY <1>0, <1>1, <1>3, <2>1, <2>5, <2>6, OneGrows
  <1>6. CASE UpdateReserveConfig(r)
    <2>1. PICK c \in Configs : reserve' = [reserve EXCEPT ![r].config = c]
      BY <1>6 DEF UpdateReserveConfig
    <2> DEFINE y == [x EXCEPT !.config = c]
    <2>2. reserve' = [reserve EXCEPT ![r] = y]
      BY <2>1
    <2>3. /\ y \in ReserveState /\ y.borrowed = x.borrowed
          /\ y.slot = x.slot /\ y.cumulative = x.cumulative
      BY <1>2 DEF ReserveState
    <2> HIDE DEF y
    <2>4. Grown(x, y)
      BY <1>2, <2>3, GrownSame
    <2> QED
      BY <1>0, <1>1, <1>3, <2>2, <2>3, <2>4, OneGrows
  <1> QED
    BY <1>4, <1>5, <1>6

LEMMA InitDebts ==
  ASSUME DebtsInv, LendingInv', NEW u \in Users, NEW r \in Reserves, InitReserve(u, r)
  PROVE  \A q \in Reserves : DebtStep(q)
  <1>0. TypeOK /\ TypeOK' /\ slot \in Nat /\ (\A q \in Reserves : DebtInv(q))
        /\ oracle \in [Reserves -> Feeds]
    BY DEF DebtsInv, LendingInv, TypeOK, ClockOK
  <1>1. reserve[r] = NoReserve /\ obligation' = obligation /\ GetPrice(oracle[r]) # NoPrice
    BY DEF InitReserve
  <1>2. PICK n \in Amounts : reserve' = [reserve EXCEPT ![r] = DepositLiquidity(NewReserve(r), n)]
    BY DEF InitReserve
  <1> DEFINE x == NewReserve(r)
             y == DepositLiquidity(x, n)
  <1>3. /\ x \in ReserveState /\ HasSupply(x) /\ x.cumulative = Wad /\ x.slot = slot
        /\ x.borrowed = 0
    <2>1. GetPrice(oracle[r]) \in Nat
      BY <1>0, <1>1, FeedsAssumption DEF GetPrice
    <2>2. InitialConfig[r] \in Configs /\ Wad \in Nat \ {0}
      BY ConfigAssumption, WadType
    <2>3. x \in ReserveState
      BY <1>0, <2>1, <2>2 DEF NewReserve, ReserveState
    <2>4. x.available = 0 /\ x.borrowed = 0 /\ x.fees = 0 /\ x.cumulative = Wad /\ x.slot = slot
      BY DEF NewReserve
    <2> HIDE DEF x
    <2>5. HasSupply(x)
      BY <2>4, FromIntType DEF HasSupply
    <2> QED
      BY <2>3, <2>4, <2>5
  <1>4. n \in Nat
    BY BoundsAssumption
  <1> HIDE DEF x
  <1>5. y \in ReserveState /\ y.cumulative = Wad
    BY <1>3, <1>4, DepositType
  <1>6. reserve'[r] = y /\ \A q \in Reserves \ {r} : reserve'[q] = reserve[q]
    BY <1>0, <1>2 DEF TypeOK, x
  <1> HIDE DEF y
  <1>7. y # NoReserve
    BY <1>5, NoneAssumption
  <1>8. \A o \in Obligations : EntryOf(obligation', o, r) = NoEntry
    BY <1>0, <1>1 DEF DebtInv
  <1>9. ASSUME NEW M \in Nat
        PROVE  Shares(obligation', M, r) * (y.cumulative * Wad) <= M * Slack(y)
    <2> DEFINE f == [o \in Obligations |-> EntryShare(EntryOf(obligation', o, r), M)]
    <2>1. f \in [Obligations -> Nat] /\ \A o \in Obligations : f[o] = 0
      BY <1>8 DEF EntryShare
    <2>2. Shares(obligation', M, r) = SumFunction(f)
      BY DEF Shares
    <2> HIDE DEF f
    <2>3. SumFunction(f) = 0
      BY <2>1, PartiesAssumption, SumOfZeros
    <2>4. Slack(y) \in Nat /\ Wad \in Nat
      BY <1>5, SlackType, WadType
    <2>5. M * Slack(y) \in Nat /\ y.cumulative * Wad \in Nat
      BY <1>5, <2>4, MulCommutes
    <2> QED
      BY <2>2, <2>3, <2>5
  <1>10. DebtOK(obligation', r, y)
    BY <1>5, <1>8, <1>9, WadType DEF DebtOK, Behind, Booked
  <1>11. DebtStep(r)
    BY <1>1, <1>6, <1>7, <1>10 DEF DebtStep, DebtInv
  <1>12. \A q \in Reserves \ {r} : DebtStep(q)
    BY <1>0, <1>1, <1>6, EntriesLeft, SameStep
  <1> QED
    BY <1>11, <1>12

LEMMA FlashDebts ==
  ASSUME DebtsInv, LendingInv', NEW u \in Users, NEW r \in Reserves, NEW n \in Asked,
         FlashLoan(u, r, n)
  PROVE  \A q \in Reserves : DebtStep(q)
  <1> DEFINE x == reserve[r]
             loan == IF n = MAX THEN x.available ELSE n
             w == FromInt(loan)
             z == BorrowReserve(x, w)
             y == RepayReserve(z, loan, w)
  <1>0. TypeOK /\ TypeOK' /\ SlotsPast /\ (\A q \in Reserves : DebtInv(q))
    BY DEF DebtsInv, LendingInv
  <1>1. /\ x # NoReserve /\ loan <= x.available /\ reserve' = [reserve EXCEPT ![r] = y]
        /\ obligation' = obligation
    BY DEF FlashLoan
  <1>2. x \in ReserveState
    BY <1>0, <1>1, ExistingReserve
  <1>3. loan \in Nat
    BY <1>2, ReserveFields, BoundsAssumption DEF Asked
  <1> HIDE DEF loan
  <1>4. w \in Nat /\ Floor(w) = loan
    BY <1>3, FromIntType
  <1>5. Floor(w) <= x.available
    BY <1>1, <1>4
  <1> HIDE DEF w
  <1>6. /\ z \in ReserveState /\ z.borrowed = x.borrowed + w
        /\ z.slot = x.slot /\ z.cumulative = x.cumulative
    BY <1>2, <1>4, <1>5, BorrowReserveType
  <1> HIDE DEF z
  <1>7. /\ y \in ReserveState /\ y.borrowed = z.borrowed - MinOf(w, z.borrowed)
        /\ y.slot = z.slot /\ y.cumulative = z.cumulative
    BY <1>3, <1>4, <1>6, RepayReserveType
  <1> HIDE DEF y
  <1>8. y.borrowed = x.borrowed
    <2>1. x.borrowed \in Nat
      BY <1>2, ReserveFields
    <2> QED
      BY <1>4, <1>6, <1>7, <2>1 DEF MinOf
  <1>9. Grown(x, y)
    BY <1>2, <1>6, <1>7, <1>8, GrownSame
  <1> QED
    BY <1>0, <1>1, <1>7, <1>9, EntriesLeft, OneGrows

LEMMA DepositDebts ==
  ASSUME DebtsInv, LendingInv', NEW r \in Reserves, NEW n \in Amounts, CanDeposit(r, n),
         reserve' = [reserve EXCEPT ![r] = Deposited(r, n)], \A q \in Reserves : EntriesSame(q)
  PROVE  \A q \in Reserves : DebtStep(q)
  <1> DEFINE z == Accrued(reserve[r])
             v == DepositLiquidity(z, n)
             y == MarkStale(v)
  <1>0. TypeOK /\ TypeOK' /\ n \in Nat /\ (\A q \in Reserves : DebtInv(q))
    BY BoundsAssumption DEF DebtsInv, LendingInv
  <1>1. reserve[r] # NoReserve /\ HasSupply(reserve[r]) /\ CanAccrue(reserve[r])
    BY DEF CanDeposit, CanAccrue
  <1>2. z \in ReserveState /\ Grown(reserve[r], z) /\ HasSupply(z)
    BY <1>1, InterestGrows
  <1>3. reserve' = [reserve EXCEPT ![r] = y]
    BY DEF Deposited
  <1>4. reserve[r] \in ReserveState
    BY <1>0, <1>1 DEF TypeOK
  <1> HIDE DEF z
  <1>5. v \in ReserveState /\ v.borrowed = z.borrowed /\ v.slot = z.slot /\ v.cumulative = z.cumulative
    BY <1>0, <1>2, DepositType
  <1> HIDE DEF v
  <1>6. y \in ReserveState /\ y.borrowed = v.borrowed /\ y.slot = v.slot /\ y.cumulative = v.cumulative
    BY <1>5, MarkStaleType
  <1> HIDE DEF y
  <1>7. Grown(reserve[r], y)
    BY <1>2, <1>4, <1>5, <1>6, GrownAlike
  <1> QED
    BY <1>0, <1>1, <1>3, <1>6, <1>7, OneGrows

LEMMA RedeemDebts ==
  ASSUME DebtsInv, LendingInv', NEW u \in Users, NEW r \in Reserves, NEW n \in Amounts,
         RedeemReserveCollateral(u, r, n)
  PROVE  \A q \in Reserves : DebtStep(q)
  <1> DEFINE z == Accrued(reserve[r])
  <1>0. TypeOK /\ TypeOK' /\ n \in Nat /\ (\A q \in Reserves : DebtInv(q))
    BY BoundsAssumption DEF DebtsInv, LendingInv
  <1>1. /\ reserve[r] # NoReserve /\ HasSupply(reserve[r]) /\ CanAccrue(reserve[r])
        /\ obligation' = obligation
    BY DEF RedeemReserveCollateral, CanAccrue
  <1>2. PICK res \in RedeemCollateral(z, n) :
          reserve' = [reserve EXCEPT ![r] = MarkStale(res.reserve)]
    BY DEF RedeemReserveCollateral
  <1>3. z \in ReserveState /\ Grown(reserve[r], z) /\ HasSupply(z)
    BY <1>1, InterestGrows
  <1>4. reserve[r] \in ReserveState
    BY <1>0, <1>1 DEF TypeOK
  <1> HIDE DEF z
  <1> DEFINE v == res.reserve
             y == MarkStale(v)
  <1>5. v \in ReserveState /\ v.borrowed = z.borrowed /\ v.slot = z.slot /\ v.cumulative = z.cumulative
    BY <1>0, <1>2, <1>3, RedeemType
  <1>6. reserve' = [reserve EXCEPT ![r] = y]
    BY <1>2
  <1> HIDE DEF v
  <1>7. y \in ReserveState /\ y.borrowed = v.borrowed /\ y.slot = v.slot /\ y.cumulative = v.cumulative
    BY <1>5, MarkStaleType
  <1> HIDE DEF y
  <1>8. Grown(reserve[r], y)
    BY <1>3, <1>4, <1>5, <1>7, GrownAlike
  <1> QED
    BY <1>0, <1>1, <1>6, <1>7, <1>8, EntriesLeft, OneGrows

(* The entries of o are what they were. *)
LEMMA DepositsMoved ==
  ASSUME TypeOK, NEW o \in Obligations, obligation[o] # NoObligation,
         NEW mid \in ObligationState, mid.borrows = obligation[o].borrows,
         obligation' = [obligation EXCEPT ![o] = MarkStale(mid)]
  PROVE  \A q \in Reserves : EntriesSame(q)
  <1> DEFINE new == MarkStale(mid)
  <1>1. new \in ObligationState /\ new.borrows = mid.borrows
    BY MarkObligationType
  <1>2. obligation' = [obligation EXCEPT ![o] = new]
    OBVIOUS
  <1> HIDE DEF new
  <1>3. \A q \in Reserves : new.borrows[q] = EntryOf(obligation, o, q)
    BY <1>1 DEF EntryOf
  <1> QED
    BY <1>1, <1>2, <1>3, BorrowsLeft

LEMMA OpenDebts ==
  ASSUME DebtsInv, LendingInv', NEW o \in Obligations, InitObligation(o)
  PROVE  \A q \in Reserves : DebtStep(q)
  <1>0. TypeOK /\ TypeOK' /\ slot \in Nat /\ (\A q \in Reserves : DebtInv(q))
    BY DEF DebtsInv, LendingInv, TypeOK, ClockOK
  <1>1. /\ obligation[o] = NoObligation /\ reserve' = reserve
        /\ obligation' = [obligation EXCEPT ![o] = NewObligation]
    BY DEF InitObligation
  <1>2. NewObligation \in ObligationState
    BY <1>0 DEF NewObligation, ObligationState
  <1>3. \A q \in Reserves : NewObligation.borrows[q] = EntryOf(obligation, o, q)
    BY <1>1 DEF NewObligation, EntryOf
  <1>4. \A q \in Reserves : EntriesSame(q)
    BY <1>0, <1>1, <1>2, <1>3, BorrowsLeft
  <1> QED
    BY <1>0, <1>1, <1>4, NoneGrows

LEMMA PledgeDebts ==
  ASSUME DebtsInv, LendingInv', NEW o \in Obligations, NEW r \in Reserves, NEW n \in Amounts,
         DepositObligationCollateral(o, r, n)
  PROVE  \A q \in Reserves : DebtStep(q)
  <1> DEFINE x == reserve[r]
             z == Accrued(x)
             y == MarkStale(z)
             mid == AddDeposit(obligation[o], r, n)
  <1>0. TypeOK /\ TypeOK' /\ n \in Nat /\ (\A q \in Reserves : DebtInv(q))
    BY BoundsAssumption DEF DebtsInv, LendingInv
  <1>1. /\ x # NoReserve /\ CanAccrue(x) /\ reserve' = [reserve EXCEPT ![r] = y]
        /\ obligation[o] # NoObligation /\ obligation' = [obligation EXCEPT ![o] = MarkStale(mid)]
    BY DEF DepositObligationCollateral
  <1>2. z \in ReserveState /\ Grown(x, z)
    BY <1>1, InterestGrows
  <1>3. x \in ReserveState /\ obligation[o] \in ObligationState
    BY <1>0, <1>1 DEF TypeOK
  <1> HIDE DEF z
  <1>4. y \in ReserveState /\ y.borrowed = z.borrowed /\ y.slot = z.slot /\ y.cumulative = z.cumulative
    BY <1>2, MarkStaleType
  <1> HIDE DEF y
  <1>5. Grown(x, y)
    BY <1>2, <1>3, <1>4, GrownAlike
  <1>6. mid \in ObligationState /\ mid.borrows = obligation[o].borrows
    BY <1>0, <1>3, AddDepositType
  <1> HIDE DEF mid
  <1>7. \A q \in Reserves : EntriesSame(q)
    BY <1>0, <1>1, <1>6, DepositsMoved
  <1> QED
    BY <1>0, <1>1, <1>4, <1>5, <1>7, OneGrows

LEMMA DepositBothDebts ==
  ASSUME DebtsInv, LendingInv', NEW o \in Obligations, NEW r \in Reserves, NEW n \in Amounts,
         DepositLiquidityAndCollateral(o, r, n)
  PROVE  \A q \in Reserves : DebtStep(q)
  <1> DEFINE mid == AddDeposit(obligation[o], r, Minted(r, n))
  <1>0. TypeOK /\ LendingInv
    BY DEF DebtsInv, LendingInv
  <1>1. /\ CanDeposit(r, n) /\ reserve' = [reserve EXCEPT ![r] = Deposited(r, n)]
        /\ obligation[o] # NoObligation /\ obligation' = [obligation EXCEPT ![o] = MarkStale(mid)]
    BY DEF DepositLiquidityAndCollateral
  <1>2. Minted(r, n) \in Nat /\ obligation[o] \in ObligationState
    BY <1>0, <1>1, DepositedReserve DEF TypeOK
  <1>3. mid \in ObligationState /\ mid.borrows = obligation[o].borrows
    BY <1>2, AddDepositType
  <1> HIDE DEF mid
  <1>4. \A q \in Reserves : EntriesSame(q)
    BY <1>0, <1>1, <1>3, DepositsMoved
  <1> QED
    BY <1>1, <1>4, DepositDebts

LEMMA WithdrawnEntries ==
  ASSUME DebtsInv, NEW o \in Obligations, NEW r \in Reserves, NEW n \in Asked \cup {0},
         CanWithdraw(o, r),
         NEW taken \in WithdrawAmount(obligation[o], r, reserve[r].config.ltv, n),
         obligation' = [obligation EXCEPT ![o] = MarkStale(TakeDeposit(obligation[o], r, taken))]
  PROVE  taken \in Nat /\ \A q \in Reserves : EntriesSame(q)
  <1> DEFINE old == obligation[o]
             mid == TakeDeposit(old, r, taken)
  <1>1. old # NoObligation /\ old.deposits[r] # NoEntry /\ reserve[r] # NoReserve
    BY DEF CanWithdraw, FreshObligation, FreshReserve
  <1>2. TypeOK /\ old \in ObligationState /\ reserve[r] \in ReserveState
    BY <1>1, ExistingObligation, ExistingReserve DEF DebtsInv, LendingInv
  <1>3. reserve[r].config.ltv \in Nat
    BY <1>2, ReserveFields, ConfigType
  <1>4. taken \in Nat /\ taken <= old.deposits[r].amount
    BY <1>1, <1>2, <1>3, WithdrawType
  <1>5. mid \in ObligationState /\ mid.borrows = old.borrows
    BY <1>1, <1>2, <1>4, TakeDepositType
  <1>6. obligation' = [obligation EXCEPT ![o] = MarkStale(mid)]
    OBVIOUS
  <1> HIDE DEF mid
  <1> QED
    BY <1>1, <1>2, <1>4, <1>5, <1>6, DepositsMoved

LEMMA WithdrawDebts ==
  ASSUME DebtsInv, LendingInv', NEW o \in Obligations, NEW r \in Reserves, NEW n \in Asked,
         WithdrawObligationCollateral(o, r, n)
  PROVE  \A q \in Reserves : DebtStep(q)
  <1>0. TypeOK /\ TypeOK' /\ (\A q \in Reserves : DebtInv(q))
    BY DEF DebtsInv, LendingInv
  <1>1. CanWithdraw(o, r) /\ reserve' = reserve /\ n \in Asked \cup {0}
    BY DEF WithdrawObligationCollateral
  <1>2. PICK taken \in WithdrawAmount(obligation[o], r, reserve[r].config.ltv, n) :
          obligation' = [obligation EXCEPT ![o] = MarkStale(TakeDeposit(obligation[o], r, taken))]
    BY DEF WithdrawObligationCollateral
  <1>3. \A q \in Reserves : EntriesSame(q)
    BY <1>1, <1>2, WithdrawnEntries
  <1> QED
    BY <1>0, <1>1, <1>3, NoneGrows

LEMMA WithdrawRedeemDebts ==
  ASSUME DebtsInv, LendingInv', NEW o \in Obligations, NEW r \in Reserves, NEW n \in Asked \cup {0},
         WithdrawAndRedeem(o, r, n)
  PROVE  \A q \in Reserves : DebtStep(q)
  <1> DEFINE z == reserve[r]
  <1>0. TypeOK /\ TypeOK' /\ (\A q \in Reserves : DebtInv(q))
    BY DEF DebtsInv, LendingInv
  <1>1. CanWithdraw(o, r) /\ HasSupply(z) /\ z # NoReserve
    BY DEF WithdrawAndRedeem, CanWithdraw, FreshReserve
  <1>2. PICK taken \in WithdrawAmount(obligation[o], r, reserve[r].config.ltv, n) :
          /\ obligation' = [obligation EXCEPT ![o] = MarkStale(TakeDeposit(obligation[o], r, taken))]
          /\ \E res \in RedeemCollateral(z, taken) :
               reserve' = [reserve EXCEPT ![r] = MarkStale(res.reserve)]
    BY DEF WithdrawAndRedeem
  <1>3. PICK res \in RedeemCollateral(z, taken) : reserve' = [reserve EXCEPT ![r] = MarkStale(res.reserve)]
    BY <1>2
  <1>4. taken \in Nat /\ \A q \in Reserves : EntriesSame(q)
    BY <1>1, <1>2, WithdrawnEntries
  <1>5. z \in ReserveState
    BY <1>0, <1>1 DEF TypeOK
  <1> DEFINE v == res.reserve
             y == MarkStale(v)
  <1>6. v \in ReserveState /\ v.borrowed = z.borrowed /\ v.slot = z.slot /\ v.cumulative = z.cumulative
    BY <1>1, <1>3, <1>4, <1>5, RedeemType
  <1>7. reserve' = [reserve EXCEPT ![r] = y]
    BY <1>3
  <1> HIDE DEF v
  <1>8. y \in ReserveState /\ y.borrowed = v.borrowed /\ y.slot = v.slot /\ y.cumulative = v.cumulative
    BY <1>6, MarkStaleType
  <1> HIDE DEF y
  <1>9. Grown(z, y)
    BY <1>5, <1>6, <1>8, GrownSame
  <1> QED
    BY <1>0, <1>1, <1>4, <1>7, <1>8, <1>9, OneGrows

(* A share does not depend on the value. *)
LEMMA ShareAlike ==
  ASSUME NEW b \in Borrow, NEW d \in Borrow, b.amount = d.amount, b.cumulative = d.cumulative,
         NEW N \in Nat
  PROVE  EntryShare(b, N) = EntryShare(d, N)
  BY NoneAssumption DEF EntryShare

LEMMA RefreshDebts ==
  ASSUME DebtsInv, LendingInv', NEW o \in Obligations, RefreshObligation(o)
  PROVE  \A q \in Reserves : DebtStep(q)
  <1> DEFINE old == obligation[o]
             valued == Valued(old, reserve)
             new == UpdateSlot(valued)
  <1>0. /\ TypeOK /\ TypeOK' /\ slot \in Nat /\ LendingInv /\ (\A q \in Reserves : DebtInv(q))
        /\ obligation \in [Obligations -> ObligationState \cup {NoObligation}]
    BY DEF DebtsInv, LendingInv, TypeOK, ClockOK
  <1>1. /\ old # NoObligation /\ obligation' = [obligation EXCEPT ![o] = new]
        /\ reserve' = reserve /\ \A q \in Held(old.borrows) : reserve[q] # NoReserve
    BY DEF RefreshObligation, FreshReserve
  <1>2. valued \in ObligationState /\ old \in ObligationState
        /\ Held(valued.borrows) = Held(old.borrows)
    BY <1>0, <1>1, RefreshedObligation, WorthNeedsDeposits
  <1>3. ASSUME NEW q \in Reserves, old.borrows[q] # NoEntry
        PROVE  /\ reserve[q] # NoReserve /\ reserve[q] \in ReserveState
               /\ old.borrows[q] \in Borrow /\ old.borrows[q].cumulative <= reserve[q].cumulative
               /\ valued.borrows[q] \in Borrow
               /\ valued.borrows[q].cumulative = reserve[q].cumulative
               /\ \A N \in Nat : EntryShare(valued.borrows[q], N) <= EntryShare(old.borrows[q], N)
    <2> DEFINE b == old.borrows[q]
               c == reserve[q].cumulative
               a == AccrueBorrow(b, c)
               d == valued.borrows[q]
    <2>1. reserve[q] # NoReserve
      BY <1>1, <1>3 DEF Held
    <2>2. reserve[q] \in ReserveState /\ b \in Borrow
      BY <1>0, <1>2, <1>3, <2>1, ObligationFields DEF TypeOK
    <2>3. c \in Nat
      BY <2>2, ReserveFields
    <2>4. b.cumulative <= c
      <3>1. EntryOf(obligation, o, q) = b
        BY <1>1 DEF EntryOf
      <3>2. Behind(obligation, q, reserve[q])
        BY <1>0, <2>1 DEF DebtInv, DebtOK
      <3> QED
        BY <1>3, <3>1, <3>2 DEF Behind
    <2>5. d \in Borrow /\ d.amount = a.amount /\ d.cumulative = a.cumulative
      BY <1>2, <1>3, <2>2, ValuedBorrow
    <2> HIDE DEF b, c, d
    <2>6. a \in Borrow /\ a.cumulative = c /\ \A N \in Nat : EntryShare(a, N) <= EntryShare(b, N)
      BY <2>2, <2>3, <2>4, AccruedShare
    <2> HIDE DEF a
    <2>7. \A N \in Nat : EntryShare(d, N) <= EntryShare(b, N)
      BY <2>5, <2>6, ShareAlike
    <2> QED
      BY <2>1, <2>2, <2>4, <2>5, <2>6, <2>7 DEF b, c, d
  <1>4. ASSUME NEW q \in Reserves, old.borrows[q] = NoEntry PROVE valued.borrows[q] = NoEntry
    BY <1>2, <1>4 DEF Held
  <1> HIDE DEF valued
  <1>5. new \in ObligationState /\ new.borrows = valued.borrows /\ new # NoObligation
    BY <1>0, <1>2, NoneAssumption DEF UpdateSlot, ObligationState
  <1> HIDE DEF new
  <1>6. obligation'[o] = new /\ \A p \in Obligations \ {o} : obligation'[p] = obligation[p]
    BY <1>0, <1>1
  <1>7. ASSUME NEW q \in Reserves PROVE DebtStep(q)
    <2>1. /\ EntryOf(obligation, o, q) = old.borrows[q]
          /\ EntryOf(obligation', o, q) = valued.borrows[q]
          /\ OthersSame(obligation, obligation', o, q)
      BY <1>1, <1>5, <1>6 DEF EntryOf, OthersSame
    <2>2. CASE old.borrows[q] = NoEntry
      <3>1. EntriesSame(q)
        BY <1>4, <2>1, <2>2 DEF EntriesSame, OthersSame
      <3> QED
        BY <1>0, <1>1, <3>1, SameStep
    <2>3. CASE old.borrows[q] # NoEntry
      <3> DEFINE x == reserve[q]
                 b == old.borrows[q]
                 d == valued.borrows[q]
      <3>1. /\ x # NoReserve /\ x \in ReserveState /\ b \in Borrow /\ d \in Borrow
            /\ d.cumulative = x.cumulative
            /\ \A N \in Nat : EntryShare(d, N) <= EntryShare(b, N)
        BY <1>3, <2>3
      <3>2. Grown(x, x) /\ reserve'[q] = x
        BY <1>1, <3>1, GrownSame
      <3>3. x.cumulative \in Nat
        BY <3>1, ReserveFields
      <3> HIDE DEF b, d
      <3>4. Settles(b, d, x, x)
        BY <3>1, NoMoreShare
      <3>5. Settles(EntryOf(obligation, o, q), EntryOf(obligation', o, q), x, x)
        BY <2>1, <3>4 DEF b, d
      <3>6. EntryOf(obligation', o, q).cumulative <= x.cumulative
        BY <2>1, <3>1, <3>3 DEF d
      <3> QED
        BY <1>0, <2>1, <3>1, <3>2, <3>5, <3>6, EntryStep
    <2> QED
      BY <2>2, <2>3
  <1> QED
    BY <1>7

(* A step that moves the reserve r and the entry of o for r, and nothing     *)
(* else of debts.                                                            *)
LEMMA OneSettles ==
  ASSUME DebtsInv, LendingInv', NEW r \in Reserves, reserve[r] # NoReserve,
         NEW x \in ReserveState, Grown(reserve[r], x),
         NEW y \in ReserveState, reserve'[r] = y, y.cumulative = x.cumulative, y.slot = x.slot,
         NEW o \in Obligations, obligation[o] # NoObligation,
         NEW new \in ObligationState, obligation' = [obligation EXCEPT ![o] = new],
         \A q \in Reserves \ {r} : new.borrows[q] = obligation[o].borrows[q],
         new.borrows[r] # NoEntry => new.borrows[r].cumulative <= x.cumulative,
         Settles(obligation[o].borrows[r], new.borrows[r], x, y)
  PROVE  DebtStep(r) /\ \A q \in Reserves \ {r} : EntriesSame(q)
  <1>0. TypeOK /\ TypeOK' /\ DebtInv(r)
    BY DEF DebtsInv, LendingInv
  <1>1. /\ \A q \in Reserves \ {r} : EntriesSame(q)
        /\ OthersSame(obligation, obligation', o, r)
        /\ EntryOf(obligation', o, r) = new.borrows[r]
        /\ EntryOf(obligation, o, r) = obligation[o].borrows[r]
    BY <1>0, OneBorrow
  <1>2. Settles(EntryOf(obligation, o, r), EntryOf(obligation', o, r), x, y)
    BY <1>1
  <1>3. EntryOf(obligation', o, r) # NoEntry => EntryOf(obligation', o, r).cumulative <= x.cumulative
    BY <1>1
  <1>4. DebtStep(r)
    BY <1>0, <1>1, <1>2, <1>3, EntryStep
  <1> QED
    BY <1>1, <1>4

(* Nor does any other reserve move. *)
LEMMA OthersStay ==
  ASSUME DebtsInv, LendingInv', NEW r \in Reserves, DebtStep(r),
         \A q \in Reserves \ {r} : EntriesSame(q), NEW y, reserve' = [reserve EXCEPT ![r] = y]
  PROVE  \A q \in Reserves : DebtStep(q)
  <1>0. TypeOK /\ TypeOK' /\ (\A q \in Reserves : DebtInv(q))
    BY DEF DebtsInv, LendingInv
  <1>1. \A q \in Reserves \ {r} : reserve'[q] = reserve[q]
    BY <1>0 DEF TypeOK
  <1> QED
    BY <1>0, <1>1, SameStep

(* The rate of a borrow is the rate of its reserve while the obligation      *)
(* passes for fresh.                                                         *)
RatesMatch ==
  \A o \in Obligations : FreshObligation(o) =>
    \A r \in Held(obligation[o].borrows) :
      /\ reserve[r] # NoReserve /\ reserve[r].slot = slot
      /\ obligation[o].borrows[r].cumulative >= reserve[r].cumulative

LEMMA AddedBorrow ==
  ASSUME NEW ob \in ObligationState, NEW r \in Reserves, NEW cumulative \in Nat \ {0},
         NEW borrow \in Nat,
         ob.borrows[r] # NoEntry => ob.borrows[r].cumulative = cumulative
  PROVE  LET d == AddBorrow(ob, r, cumulative, borrow).borrows[r]
         IN  /\ d \in Borrow /\ d.cumulative = cumulative
             /\ d.amount = AmountOf(ob.borrows[r]) + borrow
  <1> DEFINE b == IF ob.borrows[r] = NoEntry
                  THEN [cumulative |-> cumulative, amount |-> borrow, value |-> 0]
                  ELSE [ob.borrows[r] EXCEPT !.amount = ob.borrows[r].amount + borrow]
  <1>1. ob.borrows[r] \in Borrow \cup {NoEntry}
    BY ObligationFields
  <1>2. ob.borrows[r] \in Borrow => ob.borrows[r].amount + borrow \in Nat
    BY DEF Borrow
  <1>3. b \in Borrow
    BY <1>1, <1>2 DEF Borrow
  <1>4. b.cumulative = cumulative /\ b.amount = AmountOf(ob.borrows[r]) + borrow
    BY <1>1, <1>2 DEF Borrow, AmountOf
  <1>5. AddBorrow(ob, r, cumulative, borrow) = [ob EXCEPT !.borrows = [ob.borrows EXCEPT ![r] = b]]
    BY DEF AddBorrow
  <1> HIDE DEF b
  <1>6. AddBorrow(ob, r, cumulative, borrow).borrows[r] = b
    BY <1>3, <1>5, BorrowReplaced
  <1> QED
    BY <1>3, <1>4, <1>6

LEMMA TakenBorrow ==
  ASSUME NEW ob \in ObligationState, NEW r \in Reserves, ob.borrows[r] # NoEntry,
         NEW settle \in Nat, settle <= ob.borrows[r].amount
  PROVE  Reduced(ob.borrows[r], TakeBorrow(ob, r, settle).borrows[r], settle)
  <1> DEFINE e == ob.borrows[r]
             b == IF e.amount = settle THEN NoEntry
                  ELSE [e EXCEPT !.amount = e.amount - settle]
  <1>1. e \in Borrow
    BY ObligationFields
  <1>2. e.amount - settle \in Nat
    BY <1>1 DEF Borrow
  <1>3. b \in Borrow \cup {NoEntry} /\ Reduced(e, b, settle)
    BY <1>1, <1>2 DEF Borrow, Reduced
  <1>4. TakeBorrow(ob, r, settle) = [ob EXCEPT !.borrows = [ob.borrows EXCEPT ![r] = b]]
    BY DEF TakeBorrow
  <1> HIDE DEF b
  <1>5. TakeBorrow(ob, r, settle).borrows[r] = b
    BY <1>3, <1>4, BorrowReplaced
  <1> QED
    BY <1>3, <1>5

LEMMA BorrowDebts ==
  ASSUME DebtsInv, LendingInv', RatesMatch, NEW o \in Obligations, NEW r \in Reserves,
         NEW n \in Asked, BorrowObligationLiquidity(o, r, n)
  PROVE  \A q \in Reserves : DebtStep(q)
  <1> DEFINE x == reserve[r]
             old == obligation[o]
             most == old.allowedBorrowValue - old.borrowedValue
  <1>0. TypeOK /\ SlotsPast /\ DebtInv(r)
    BY DEF DebtsInv, LendingInv
  <1>1. PICK res \in CalculateBorrow(x, n, most, Capacity(x)) :
          /\ Floor(res.borrow) <= x.available
          /\ reserve' = [reserve EXCEPT ![r] = MarkStale(BorrowReserve(x, res.borrow))]
          /\ obligation' = [obligation EXCEPT ![o] = Drawn(old, r, x.cumulative, res.borrow)]
    BY DEF BorrowObligationLiquidity
  <1>2. /\ x # NoReserve /\ old # NoObligation /\ FreshObligation(o)
        /\ old.allowedBorrowValue > old.borrowedValue
    BY DEF BorrowObligationLiquidity, FreshReserve, FreshObligation
  <1>3. x \in ReserveState /\ old \in ObligationState
    BY <1>0, <1>2, ExistingReserve, ExistingObligation
  <1>4. most \in Nat
    BY <1>2, <1>3, ObligationFields
  <1>5. Capacity(x) \in Nat
    <2>1. FromInt(x.config.borrowLimit) \in Nat /\ x.borrowed \in Nat
      BY <1>3, ReserveFields, ConfigType, FromIntType
    <2> QED
      BY <2>1 DEF Capacity, MaxOf
  <1>6. res.borrow \in Nat
    BY <1>1, <1>3, <1>4, <1>5, BorrowType
  <1>7. x.cumulative \in Nat \ {0} /\ old.borrows[r] \in Borrow \cup {NoEntry}
    BY <1>3, ReserveFields, ObligationFields
  <1>8. ASSUME old.borrows[r] # NoEntry PROVE old.borrows[r].cumulative = x.cumulative
    <2>1. old.borrows[r].cumulative >= x.cumulative
      BY <1>2, <1>8 DEF RatesMatch, Held
    <2>2. EntryOf(obligation, o, r) = old.borrows[r]
      BY <1>2 DEF EntryOf
    <2>3. old.borrows[r].cumulative <= x.cumulative
      BY <1>0, <1>2, <1>8, <2>2 DEF DebtInv, DebtOK, Behind
    <2>4. old.borrows[r].cumulative \in Nat
      BY <1>7, <1>8 DEF Borrow
    <2> QED
      BY <1>7, <2>1, <2>3, <2>4
  <1> DEFINE z == BorrowReserve(x, res.borrow)
             y == MarkStale(z)
             mid == AddBorrow(old, r, x.cumulative, res.borrow)
             new == MarkStale(mid)
  <1>9. reserve' = [reserve EXCEPT ![r] = y] /\ obligation' = [obligation EXCEPT ![o] = new]
    BY <1>1 DEF Drawn
  <1>10. /\ z \in ReserveState /\ z.borrowed = x.borrowed + res.borrow
         /\ z.slot = x.slot /\ z.cumulative = x.cumulative
    BY <1>1, <1>3, <1>6, BorrowReserveType
  <1> HIDE DEF z
  <1>11. y \in ReserveState /\ y.borrowed = z.borrowed /\ y.slot = z.slot /\ y.cumulative = z.cumulative
    BY <1>10, MarkStaleType
  <1> HIDE DEF y, x, old
  <1>12. /\ mid \in ObligationState /\ \A q \in Reserves \ {r} : mid.borrows[q] = old.borrows[q]
    BY <1>3, <1>6, <1>7, AddBorrowType
  <1>13. /\ mid.borrows[r] \in Borrow /\ mid.borrows[r].cumulative = x.cumulative
         /\ mid.borrows[r].amount = AmountOf(old.borrows[r]) + res.borrow
    BY <1>3, <1>6, <1>7, <1>8, AddedBorrow
  <1> HIDE DEF mid
  <1>14. new \in ObligationState /\ new.borrows = mid.borrows
    BY <1>12, MarkObligationType
  <1> HIDE DEF new
  <1>15. y.borrowed = x.borrowed + res.borrow /\ y.slot = x.slot /\ y.cumulative = x.cumulative
    BY <1>10, <1>11
  <1>16. Settles(old.borrows[r], mid.borrows[r], x, y)
    BY <1>3, <1>6, <1>7, <1>8, <1>11, <1>13, <1>15, DrawnSettles
  <1>17. Grown(reserve[r], x)
    BY <1>3, GrownSame DEF x
  <1>18. reserve'[r] = y
    BY <1>0, <1>9 DEF TypeOK
  <1>19. new.borrows[r].cumulative <= x.cumulative
    BY <1>7, <1>13, <1>14
  <1>20. DebtStep(r) /\ \A q \in Reserves \ {r} : EntriesSame(q)
    <2>1. /\ reserve[r] # NoReserve /\ obligation[o] # NoObligation
          /\ \A q \in Reserves \ {r} : new.borrows[q] = obligation[o].borrows[q]
          /\ Settles(obligation[o].borrows[r], new.borrows[r], x, y)
      BY <1>2, <1>12, <1>14, <1>16 DEF x, old
    <2> QED
      BY <1>3, <1>9, <1>11, <1>14, <1>15, <1>17, <1>18, <1>19, <2>1, OneSettles
  <1> QED
    BY <1>9, <1>20, OthersStay

LEMMA RepayDebts ==
  ASSUME DebtsInv, LendingInv', NEW u \in Users, NEW o \in Obligations, NEW r \in Reserves,
         NEW n \in Asked, RepayObligationLiquidity(u, o, r, n)
  PROVE  \A q \in Reserves : DebtStep(q)
  <1> DEFINE x == Accrued(reserve[r])
             old == obligation[o]
             e == old.borrows[r]
             b == AccrueBorrow(e, x.cumulative)
             res == CalculateRepay(n, b.amount)
             opened == [old EXCEPT !.borrows = [old.borrows EXCEPT ![r] = b]]
             mid == TakeBorrow(opened, r, res.settle)
             new == MarkStale(mid)
             v == RepayReserve(x, res.repay, res.settle)
             y == MarkStale(v)
  <1>0. TypeOK /\ DebtInv(r)
    BY DEF DebtsInv, LendingInv
  <1>1. /\ reserve[r] # NoReserve /\ CanAccrue(reserve[r]) /\ old # NoObligation /\ e # NoEntry
    BY DEF RepayObligationLiquidity
  <1>2. reserve' = [reserve EXCEPT ![r] = y] /\ obligation' = [obligation EXCEPT ![o] = new]
    BY DEF RepayObligationLiquidity
  <1>3. x \in ReserveState /\ Grown(reserve[r], x)
    BY <1>1, InterestGrows
  <1>4. old \in ObligationState /\ e \in Borrow /\ reserve[r] \in ReserveState
    BY <1>0, <1>1, ObligationFields DEF TypeOK
  <1>5. e.cumulative <= reserve[r].cumulative
    <2>1. EntryOf(obligation, o, r) = e
      BY <1>1 DEF EntryOf
    <2> QED
      BY <1>0, <1>1, <2>1 DEF DebtInv, DebtOK, Behind
  <1> HIDE DEF x, old, e
  <1>6. x.cumulative \in Nat /\ x.cumulative > 0 /\ e.cumulative <= x.cumulative
    <2>1. x.cumulative \in Nat /\ x.cumulative > 0 /\ reserve[r].cumulative \in Nat
      BY <1>3, <1>4, ReserveFields
    <2>2. e.cumulative \in Nat
      BY <1>4 DEF Borrow
    <2> QED
      BY <1>3, <1>5, <2>1, <2>2 DEF Grown
  <1>7. /\ b \in Borrow /\ b.cumulative = x.cumulative
        /\ \A N \in Nat : EntryShare(b, N) <= EntryShare(e, N)
    BY <1>4, <1>6, AccruedShare
  <1> HIDE DEF b
  <1>8. b.amount \in Nat /\ b # NoEntry
    BY <1>7, NoneAssumption DEF Borrow
  <1>9. res.settle \in Nat /\ res.settle <= b.amount /\ res.repay \in Nat
    BY <1>8, RepayType
  <1> HIDE DEF res
  <1>10. /\ opened \in ObligationState /\ opened.borrows[r] = b
         /\ \A q \in Reserves \ {r} : opened.borrows[q] = old.borrows[q]
    BY <1>4, <1>7, BorrowReplaced
  <1> HIDE DEF opened
  <1>11. /\ mid \in ObligationState
         /\ \A q \in Reserves \ {r} : mid.borrows[q] = opened.borrows[q]
    BY <1>8, <1>9, <1>10, TakeBorrowType
  <1>12. Reduced(b, mid.borrows[r], res.settle)
    BY <1>8, <1>9, <1>10, TakenBorrow
  <1> HIDE DEF mid
  <1>13. new \in ObligationState /\ new.borrows = mid.borrows
    BY <1>11, MarkObligationType
  <1> HIDE DEF new
  <1>14. /\ v \in ReserveState /\ v.borrowed = x.borrowed - MinOf(res.settle, x.borrowed)
         /\ v.slot = x.slot /\ v.cumulative = x.cumulative
    BY <1>3, <1>9, RepayReserveType
  <1> HIDE DEF v
  <1>15. y \in ReserveState /\ y.borrowed = v.borrowed /\ y.slot = v.slot /\ y.cumulative = v.cumulative
    BY <1>14, MarkStaleType
  <1> HIDE DEF y
  <1>16. /\ y.borrowed = x.borrowed - MinOf(res.settle, x.borrowed)
         /\ y.slot = x.slot /\ y.cumulative = x.cumulative
    BY <1>14, <1>15
  <1> DEFINE d == mid.borrows[r]
  <1>17. d \in Borrow \cup {NoEntry} /\ (d # NoEntry => d.cumulative = b.cumulative)
    BY <1>12 DEF Reduced
  <1>18. Reduced(b, d, res.settle)
    BY <1>12
  <1>19. b.cumulative <= x.cumulative
    BY <1>6, <1>7
  <1>20. new.borrows[r] = d
    BY <1>13
  <1> HIDE DEF d
  <1>21. Settles(b, d, x, y)
    BY <1>3, <1>7, <1>9, <1>15, <1>16, <1>18, <1>19, TakenSettles
  <1>22. Settles(e, d, x, y)
    BY <1>3, <1>4, <1>7, <1>15, <1>17, <1>21, SettlesFrom
  <1>23. reserve'[r] = y
    BY <1>0, <1>2 DEF TypeOK
  <1>24. DebtStep(r) /\ \A q \in Reserves \ {r} : EntriesSame(q)
    <2>1. /\ obligation[o] # NoObligation
          /\ \A q \in Reserves \ {r} : new.borrows[q] = obligation[o].borrows[q]
          /\ Settles(obligation[o].borrows[r], new.borrows[r], x, y)
      BY <1>1, <1>10, <1>11, <1>13, <1>20, <1>22 DEF old, e
    <2>2. new.borrows[r] # NoEntry => new.borrows[r].cumulative <= x.cumulative
      BY <1>17, <1>19, <1>20
    <2> QED
      BY <1>1, <1>2, <1>3, <1>13, <1>15, <1>16, <1>23, <2>1, <2>2, OneSettles
  <1> QED
    BY <1>2, <1>24, OthersStay

(* What a liquidation does to the reserve repaid and to the obligation. *)
LEMMA LiquidatedDebt ==
  ASSUME DebtsInv, LendingInv', NEW u \in Users, NEW o \in Obligations, NEW rr \in Reserves,
         NEW wr \in Reserves, NEW n \in Asked, CanLiquidate(o, rr, wr),
         NEW res, res = Liquidation(o, rr, wr, n), LiquidateBooks(u, o, rr, wr, res),
         NEW y \in ReserveState, reserve'[rr] = y,
         y.borrowed = reserve[rr].borrowed - MinOf(res.settle, reserve[rr].borrowed),
         y.slot = reserve[rr].slot, y.cumulative = reserve[rr].cumulative
  PROVE  DebtStep(rr) /\ \A q \in Reserves \ {rr} : EntriesSame(q)
  <1> DEFINE x == reserve[rr]
             old == obligation[o]
             b == old.borrows[rr]
             settled == TakeBorrow(old, rr, res.settle)
             mid == TakeDeposit(settled, wr, res.withdraw)
             new == MarkStale(mid)
  <1>0. TypeOK /\ DebtInv(rr) /\ LendingInv
    BY DEF DebtsInv, LendingInv
  <1>1. /\ old # NoObligation /\ old \in ObligationState /\ x # NoReserve /\ x \in ReserveState
        /\ b # NoEntry /\ old.deposits[wr] # NoEntry
        /\ res.settle \in Nat /\ res.settle <= b.amount
        /\ res.withdraw \in Nat /\ res.withdraw <= old.deposits[wr].amount
    BY <1>0, LiquidationTerms
  <1>2. obligation' = [obligation EXCEPT ![o] = new]
    BY DEF LiquidateBooks
  <1>3. b \in Borrow
    BY <1>1, ObligationFields
  <1>4. b.cumulative <= x.cumulative
    <2>1. EntryOf(obligation, o, rr) = b
      BY <1>1 DEF EntryOf
    <2> QED
      BY <1>0, <1>1, <2>1 DEF DebtInv, DebtOK, Behind
  <1>5. /\ settled \in ObligationState /\ settled.deposits = old.deposits
        /\ \A q \in Reserves \ {rr} : settled.borrows[q] = old.borrows[q]
    BY <1>1, TakeBorrowType
  <1>6. Reduced(b, settled.borrows[rr], res.settle)
    BY <1>1, TakenBorrow
  <1> HIDE DEF settled
  <1>7. settled.deposits[wr] # NoEntry /\ res.withdraw <= settled.deposits[wr].amount
    BY <1>1, <1>5
  <1>8. mid \in ObligationState /\ mid.borrows = settled.borrows
    BY <1>1, <1>5, <1>7, TakeDepositType
  <1> HIDE DEF mid
  <1>9. new \in ObligationState /\ new.borrows = mid.borrows
    BY <1>8, MarkObligationType
  <1> HIDE DEF new
  <1> DEFINE d == new.borrows[rr]
  <1>10. Reduced(b, d, res.settle)
    BY <1>6, <1>8, <1>9
  <1>11. d # NoEntry => d.cumulative = b.cumulative
    BY <1>10 DEF Reduced
  <1>12. /\ y.borrowed = x.borrowed - MinOf(res.settle, x.borrowed)
         /\ y.slot = x.slot /\ y.cumulative = x.cumulative
    OBVIOUS
  <1> HIDE DEF d, b, x
  <1>13. Settles(b, d, x, y)
    BY <1>1, <1>3, <1>4, <1>10, <1>12, TakenSettles
  <1>14. d # NoEntry => d.cumulative <= x.cumulative
    BY <1>4, <1>11
  <1>15. Grown(reserve[rr], x)
    BY <1>1, GrownSame DEF x
  <1>16. /\ reserve[rr] # NoReserve /\ obligation[o] # NoObligation
         /\ \A q \in Reserves \ {rr} : new.borrows[q] = obligation[o].borrows[q]
         /\ (new.borrows[rr] # NoEntry => new.borrows[rr].cumulative <= x.cumulative)
         /\ Settles(obligation[o].borrows[rr], new.borrows[rr], x, y)
    BY <1>1, <1>5, <1>8, <1>9, <1>13, <1>14 DEF x, b, d
  <1> QED
    BY <1>1, <1>2, <1>9, <1>12, <1>15, <1>16, OneSettles

(* Within the slot of its last accrual a reserve accrues nothing. *)
LEMMA AccruedIdle ==
  ASSUME slot \in Nat, NEW x \in ReserveState, x.slot = slot
  PROVE  /\ Accrued(x) \in ReserveState /\ Accrued(x).slot = x.slot
         /\ Accrued(x).borrowed = x.borrowed /\ Accrued(x).cumulative = x.cumulative
  <1>1. ~(slot > x.slot)
    OBVIOUS
  <1>2. Accrued(x) = UpdateSlot(x)
    BY <1>1, Zenon DEF Accrued
  <1> QED
    BY <1>2 DEF UpdateSlot, ReserveState

(* The reserve repaid, on the books of debt. *)
LEMMA RepaidDebt ==
  ASSUME LendingInv, NEW o \in Obligations, NEW rr \in Reserves, NEW wr \in Reserves,
         NEW n \in Asked, CanLiquidate(o, rr, wr), NEW res, res = Liquidation(o, rr, wr, n)
  PROVE  LET y == Liquidated(o, rr, res)[rr]
         IN  /\ y \in ReserveState
             /\ y.borrowed = reserve[rr].borrowed - MinOf(res.settle, reserve[rr].borrowed)
             /\ y.slot = reserve[rr].slot /\ y.cumulative = reserve[rr].cumulative
  <1> DEFINE x == reserve[rr]
             repay == res.repay
             settle == res.settle
             v == RepayReserve(x, repay, settle)
             y == MarkStale(v)
  <1>1. x \in ReserveState /\ settle \in Nat /\ repay \in Nat
    BY LiquidationTerms
  <1>2. Liquidated(o, rr, res)[rr] = y
    BY DEF Liquidated, LendingInv, TypeOK
  <1> HIDE DEF x, repay, settle
  <1>3. /\ v \in ReserveState /\ v.borrowed = x.borrowed - MinOf(settle, x.borrowed)
        /\ v.slot = x.slot /\ v.cumulative = x.cumulative
    BY <1>1, RepayReserveType
  <1> HIDE DEF v
  <1>4. y \in ReserveState /\ y.borrowed = v.borrowed /\ y.slot = v.slot /\ y.cumulative = v.cumulative
    BY <1>3, MarkStaleType
  <1> HIDE DEF y
  <1>5. /\ y.borrowed = x.borrowed - MinOf(settle, x.borrowed)
        /\ y.slot = x.slot /\ y.cumulative = x.cumulative
    BY <1>3, <1>4
  <1> QED
    BY <1>2, <1>4, <1>5 DEF x, settle

LEMMA LiquidateDebts ==
  ASSUME DebtsInv, LendingInv', NEW u \in Users, NEW o \in Obligations,
         NEW rr \in Reserves, NEW wr \in Reserves, NEW n \in Asked,
         LiquidateObligation(u, o, rr, wr, n)
  PROVE  \A q \in Reserves : DebtStep(q)
  <1> DEFINE res == Liquidation(o, rr, wr, n)
             y == Liquidated(o, rr, res)[rr]
             z == MarkStale(RepayReserve(reserve[rr], res.repay, res.settle))
  <1>0. LendingInv
    BY DEF DebtsInv
  <1>1. /\ CanLiquidate(o, rr, wr) /\ LiquidateBooks(u, o, rr, wr, res)
        /\ reserve' = Liquidated(o, rr, res)
    BY DEF LiquidateObligation
  <1>2. /\ y \in ReserveState /\ reserve'[rr] = y
        /\ y.borrowed = reserve[rr].borrowed - MinOf(res.settle, reserve[rr].borrowed)
        /\ y.slot = reserve[rr].slot /\ y.cumulative = reserve[rr].cumulative
    BY <1>0, <1>1, RepaidDebt
  <1>3. reserve' = [reserve EXCEPT ![rr] = z]
    BY <1>1 DEF Liquidated
  <1> HIDE DEF res, y, z
  <1>4. DebtStep(rr) /\ \A q \in Reserves \ {rr} : EntriesSame(q)
    BY <1>1, <1>2, LiquidatedDebt DEF res
  <1> QED
    BY <1>3, <1>4, OthersStay

LEMMA LiquidateRedeemDebts ==
  ASSUME DebtsInv, LendingInv', NEW u \in Users, NEW o \in Obligations,
         NEW rr \in Reserves, NEW wr \in Reserves, NEW n \in Asked,
         LiquidateAndRedeem(u, o, rr, wr, n)
  PROVE  \A q \in Reserves : DebtStep(q)
  <1> DEFINE res == Liquidation(o, rr, wr, n)
             repaid == Liquidated(o, rr, res)
             x == repaid[wr]
             z == Accrued(x)
  <1>0. /\ TypeOK /\ TypeOK' /\ SlotsPast /\ slot \in Nat /\ LendingInv
        /\ (\A q \in Reserves : DebtInv(q))
        /\ reserve \in [Reserves -> ReserveState \cup {NoReserve}]
    BY DEF DebtsInv, LendingInv, TypeOK, ClockOK
  <1>1. /\ CanLiquidate(o, rr, wr) /\ LiquidateBooks(u, o, rr, wr, res) /\ HasSupply(x)
        /\ FreshReserve(wr)
    BY DEF LiquidateAndRedeem, CanLiquidate
  <1>2. PICK out \in RedeemCollateral(z, res.withdraw) :
          reserve' = [repaid EXCEPT ![wr] = MarkStale(out.reserve)]
    BY DEF LiquidateAndRedeem
  <1>3. res.withdraw \in Nat
    BY <1>0, <1>1, LiquidationTerms
  <1>4. /\ repaid[rr] \in ReserveState
        /\ repaid[rr].borrowed = reserve[rr].borrowed - MinOf(res.settle, reserve[rr].borrowed)
        /\ repaid[rr].slot = reserve[rr].slot /\ repaid[rr].cumulative = reserve[rr].cumulative
    BY <1>0, <1>1, RepaidDebt
  <1>5. /\ DOMAIN repaid = Reserves
        /\ \A q \in Reserves \ {rr} : repaid[q] = reserve[q]
    BY <1>0 DEF Liquidated
  <1>6. reserve[wr] # NoReserve /\ reserve[wr] \in ReserveState /\ reserve[wr].slot = slot
    <2>1. reserve[wr] # NoReserve
      BY <1>1 DEF FreshReserve
    <2>2. reserve[wr] \in ReserveState /\ reserve[wr].slot <= slot
      BY <1>0, <2>1, ExistingReserve
    <2> QED
      BY <1>0, <1>1, <2>1, <2>2, ReserveFields DEF FreshReserve, IsStale
  <1> HIDE DEF repaid
  <1>7. x \in ReserveState /\ x.slot = slot
    BY <1>4, <1>5, <1>6
  <1> HIDE DEF x
  <1>8. z \in ReserveState /\ HasSupply(z)
    BY <1>0, <1>1, <1>7, AccruedType
  <1>9. z.slot = x.slot /\ z.borrowed = x.borrowed /\ z.cumulative = x.cumulative
    BY <1>0, <1>7, AccruedIdle
  <1> HIDE DEF z
  <1> DEFINE v == out.reserve
             y == MarkStale(v)
  <1>10. v \in ReserveState /\ v.borrowed = z.borrowed /\ v.slot = z.slot /\ v.cumulative = z.cumulative
    BY <1>2, <1>3, <1>8, RedeemType
  <1>11. reserve' = [repaid EXCEPT ![wr] = y]
    BY <1>2
  <1> HIDE DEF v
  <1>12. y \in ReserveState /\ y.borrowed = v.borrowed /\ y.slot = v.slot /\ y.cumulative = v.cumulative
    BY <1>10, MarkStaleType
  <1> HIDE DEF y
  <1>13. y.borrowed = x.borrowed /\ y.slot = x.slot /\ y.cumulative = x.cumulative
    BY <1>9, <1>10, <1>12
  <1>14. reserve'[wr] = y /\ \A q \in Reserves \ {wr} : reserve'[q] = repaid[q]
    BY <1>5, <1>11
  <1> DEFINE w == reserve'[rr]
  <1>15. /\ w \in ReserveState
         /\ w.borrowed = reserve[rr].borrowed - MinOf(res.settle, reserve[rr].borrowed)
         /\ w.slot = reserve[rr].slot /\ w.cumulative = reserve[rr].cumulative
    <2>1. CASE wr = rr
      BY <1>4, <1>12, <1>13, <1>14, <2>1 DEF x
    <2>2. CASE wr # rr
      BY <1>4, <1>14, <2>2
    <2> QED
      BY <2>1, <2>2
  <1>16. reserve'[rr] = w
    OBVIOUS
  <1> HIDE DEF w, res
  <1>17. DebtStep(rr) /\ \A q \in Reserves \ {rr} : EntriesSame(q)
    BY <1>1, <1>15, <1>16, LiquidatedDebt DEF res
  <1>18. ASSUME NEW q \in Reserves \ {rr} PROVE DebtStep(q)
    <2>1. DebtInv(q) /\ EntriesSame(q)
      BY <1>0, <1>17
    <2>2. CASE q = wr
      <3>1. x = reserve[wr]
        BY <1>5, <1>18, <2>2 DEF x
      <3>2. Grown(reserve[wr], y)
        BY <1>6, <1>12, <1>13, <3>1, GrownSame
      <3> QED
        BY <1>0, <1>6, <1>12, <1>14, <2>1, <2>2, <3>2, GrownStep
    <2>3. CASE q # wr
      <3>1. reserve'[q] = reserve[q]
        BY <1>5, <1>14, <1>18, <2>3
      <3> QED
        BY <1>0, <2>1, <3>1, SameStep
    <2> QED
      BY <2>2, <2>3
  <1> QED
    BY <1>17, <1>18

LEMMA DebtSteps ==
  ASSUME DebtsInv, LendingInv', RatesMatch, [Next]_vars
  PROVE  \A q \in Reserves : DebtStep(q)
  <1>0. TypeOK /\ TypeOK' /\ \A q \in Reserves : DebtInv(q)
    BY DEF DebtsInv, LendingInv
  <1>1. ASSUME reserve' = reserve, obligation' = obligation PROVE \A q \in Reserves : DebtStep(q)
    BY <1>0, <1>1, EntriesLeft, NoneGrows
  <1>2. ASSUME NEW r \in Reserves, ReserveStep(r) PROVE \A q \in Reserves : DebtStep(q)
    <2>1. CASE MoveOracle(r)
      BY <1>1, <2>1 DEF MoveOracle
    <2>2. ASSUME NEW u \in Users, NEW n \in Amounts, DepositReserveLiquidity(u, r, n)
          PROVE  \A q \in Reserves : DebtStep(q)
      BY <2>2, EntriesLeft, DepositDebts DEF DepositReserveLiquidity
    <2> QED
      BY <1>2, <2>1, <2>2, ReserveDebts, InitDebts, RedeemDebts, FlashDebts DEF ReserveStep
  <1>3. ASSUME NEW o \in Obligations, ObligationStep(o) PROVE \A q \in Reserves : DebtStep(q)
    BY <1>3, OpenDebts, RefreshDebts, PledgeDebts, DepositBothDebts, WithdrawDebts,
       WithdrawRedeemDebts, BorrowDebts DEF ObligationStep
  <1>4. ASSUME NEW o \in Obligations, NEW u \in Users, AnyoneStep(u, o)
        PROVE  \A q \in Reserves : DebtStep(q)
    BY <1>4, RepayDebts, LiquidateDebts, LiquidateRedeemDebts DEF AnyoneStep
  <1>5. CASE AdvanceSlot \/ UNCHANGED vars
    BY <1>1, <1>5 DEF AdvanceSlot, vars
  <1> QED
    BY <1>2, <1>3, <1>4, <1>5 DEF Next

LEMMA RatesStep ==
  ASSUME LendingInv, LendingInv', [Next]_vars, RatesMatch, \A q \in Reserves : DebtStep(q)
  PROVE  RatesMatch'
  <1>0. TypeOK /\ TypeOK' /\ SlotsPast /\ SlotsPast' /\ slot \in Nat
    BY DEF LendingInv, TypeOK, ClockOK
  <1>1. CASE AdvanceSlot
    BY <1>1, SlotTurns DEF RatesMatch
  <1>2. CASE WithinSlot
    <2>1. slot' = slot
      BY <1>2 DEF WithinSlot
    <2>2. ASSUME NEW o \in Obligations, FreshObligation(o)', NEW r \in Held(obligation'[o].borrows)
          PROVE  /\ reserve'[r] # NoReserve /\ reserve'[r].slot = slot
                 /\ obligation'[o].borrows[r].cumulative >= reserve'[r].cumulative
      <3>1. r \in Reserves
        BY DEF Held
      <3>2. CASE FreshObligation(o) /\ obligation'[o] = obligation[o]
        <4>1. /\ reserve[r] # NoReserve /\ reserve[r].slot = slot
              /\ obligation[o].borrows[r].cumulative >= reserve[r].cumulative
          BY <2>2, <3>1, <3>2 DEF RatesMatch, Held
        <4>2. reserve'[r] # NoReserve /\ RateKept(reserve[r], reserve'[r])
          BY <3>1, <4>1 DEF DebtStep
        <4>3. reserve'[r] \in ReserveState /\ reserve'[r].slot <= slot
          BY <1>0, <2>1, <3>1, <4>2 DEF TypeOK, SlotsPast
        <4>4. reserve'[r].slot \in Nat
          BY <4>3, ReserveFields
        <4>5. reserve'[r].slot = slot
          BY <1>0, <4>1, <4>2, <4>3, <4>4 DEF RateKept
        <4> QED
          BY <3>2, <4>1, <4>2, <4>5 DEF RateKept
      <3>3. CASE Revalued(o)
        <4>1. /\ reserve' = reserve /\ FreshReserve(r)
              /\ obligation'[o].borrows[r].cumulative >= reserve[r].cumulative
          BY <2>2, <3>3 DEF Revalued
        <4>2. reserve[r] # NoReserve /\ reserve[r] \in ReserveState /\ reserve[r].slot <= slot
          BY <1>0, <3>1, <4>1, ExistingReserve DEF FreshReserve
        <4>3. reserve[r].slot = slot
          BY <1>0, <4>1, <4>2, ReserveFields DEF FreshReserve, IsStale
        <4> QED
          BY <4>1, <4>2, <4>3
      <3> QED
        BY <1>2, <2>2, <3>2, <3>3, FreshBefore
    <2> QED
      BY <2>1, <2>2 DEF RatesMatch, Held
  <1> QED
    BY <1>1, <1>2, StepsMark

(* What an obligation owes is no more than its share, in parts of the rate. *)
LEMMA OwedShare ==
  ASSUME TypeOK, NEW r \in Reserves, reserve[r] # NoReserve, DebtInv(r), NEW o \in Obligations
  PROVE  /\ OwedBy(o, r) \in Nat
         /\ OwedBy(o, r) <= EntryShare(EntryOf(obligation, o, r), reserve[r].cumulative)
         /\ EntryShare(EntryOf(obligation, o, r), reserve[r].cumulative) \in Nat
  <1> DEFINE b == EntryOf(obligation, o, r)
             c == reserve[r].cumulative
  <1>1. reserve[r] \in ReserveState /\ obligation \in Accounts
    BY DEF TypeOK, Accounts
  <1>2. c \in Nat /\ b \in Borrow \cup {NoEntry}
    BY <1>1, ReserveFields, EntryType
  <1>3. EntryShare(b, c) \in Nat
    BY <1>2, ShareType
  <1>4. CASE b = NoEntry
    BY <1>3, <1>4 DEF OwedBy, EntryOf
  <1>5. CASE b # NoEntry
    <2>1. OwedBy(o, r) = AccrueBorrow(b, c).amount
      BY <1>5 DEF OwedBy, EntryOf
    <2>2. b \in Borrow /\ b.cumulative <= c
      BY <1>2, <1>5 DEF DebtInv, DebtOK, Behind
    <2> HIDE DEF b, c
    <2>3. AccrueBorrow(b, c) \in Borrow /\ AccrueBorrow(b, c).amount <= EntryShare(b, c)
      BY <1>2, <2>2, AccruedShare
    <2>4. AccrueBorrow(b, c).amount \in Nat
      BY <2>3 DEF Borrow
    <2> QED
      BY <1>3, <2>1, <2>3, <2>4 DEF b, c
  <1> QED
    BY <1>4, <1>5

LEMMA DebtsInvBooked ==
  ASSUME DebtsInv
  PROVE  DebtsBooked
  <1>0. TypeOK /\ \A q \in Reserves : DebtInv(q)
    BY DEF DebtsInv, LendingInv
  <1> SUFFICES ASSUME NEW r \in Reserves, reserve[r] # NoReserve
               PROVE  SumFunction([o \in Obligations |-> OwedBy(o, r)])
                        <= reserve[r].borrowed + TryMul(reserve[r].slot, reserve[r].cumulative)
    BY DEF DebtsBooked
  <1> DEFINE x == reserve[r]
             c == x.cumulative
             owed == [o \in Obligations |-> OwedBy(o, r)]
             share == [o \in Obligations |-> EntryShare(EntryOf(obligation, o, r), c)]
             s == SumFunction(share)
             q == TryMul(x.slot, c)
  <1>1. x \in ReserveState /\ DebtOK(obligation, r, x) /\ obligation \in Accounts
    BY <1>0 DEF TypeOK, DebtInv, Accounts
  <1>2. c \in Nat /\ c > 0 /\ x.slot \in Nat /\ x.borrowed \in Nat /\ Wad \in Nat /\ Wad > 0
    BY <1>1, ReserveFields, WadType
  <1>3. /\ owed \in [Obligations -> Nat] /\ share \in [Obligations -> Nat]
        /\ \A o \in Obligations : 1 * owed[o] <= share[o]
    BY <1>0, OwedShare
  <1>4. s = Shares(obligation, c, r) /\ s \in Nat /\ s * (c * Wad) <= c * Slack(x)
    <2>1. s = Shares(obligation, c, r)
      BY DEF Shares
    <2>2. s \in Nat
      BY <1>3, PartiesAssumption, SumIsNat
    <2> QED
      BY <1>1, <1>2, <2>1, <2>2 DEF DebtOK, Booked
  <1>5. SumFunction(owed) \in Nat /\ SumFunction(owed) <= s
    <2> HIDE DEF owed, share
    <2>1. SumFunction(owed) \in Nat
      BY <1>3, PartiesAssumption, SumIsNat
    <2>2. 1 * SumFunction(owed) <= SumFunction(share)
      BY <1>3, PartiesAssumption, SumScaled
    <2> QED
      BY <1>4, <2>1, <2>2
  <1>6. Slack(x) = x.borrowed * Wad + x.slot * c /\ Slack(x) \in Nat
    BY <1>1, SlackType DEF Slack
  <1>7. q = (x.slot * c) \div Wad /\ x.slot * c \in Nat
    BY <1>2, MulCommutes DEF TryMul
  <1>8. q \in Nat /\ x.slot * c < Wad * q + Wad
    BY <1>2, <1>7, DivBounds
  <1> HIDE DEF owed, share, s, q, c
  <1>9. s * Wad <= Slack(x)
    <2>1. s * (c * Wad) = c * (s * Wad) /\ s * Wad \in Nat
      BY <1>2, <1>4, SMT
    <2>2. c * (s * Wad) <= c * Slack(x)
      BY <1>4, <2>1
    <2> QED
      BY <1>2, <1>6, <2>1, <2>2, MulCancels
  <1>10. s <= x.borrowed + q
    <2> DEFINE t == x.borrowed + q
    <2>1. t \in Nat /\ t + 1 \in Nat
      BY <1>2, <1>8
    <2>2. Wad * (t + 1) = x.borrowed * Wad + (Wad * q + Wad)
      BY <1>2, <1>8, SMT
    <2> HIDE DEF t
    <2>3. x.borrowed * Wad \in Nat /\ Wad * q \in Nat /\ s * Wad \in Nat
      BY <1>2, <1>4, <1>8, MulCommutes
    <2>4. s * Wad < Wad * (t + 1)
      BY <1>2, <1>6, <1>7, <1>8, <1>9, <2>2, <2>3
    <2>5. SUFFICES ASSUME s >= t + 1 PROVE FALSE
      BY <1>4, <2>1 DEF t
    <2>6. Wad * (t + 1) <= Wad * s
      BY <1>2, <1>4, <2>1, <2>5, MulMonotone
    <2>7. Wad * s = s * Wad /\ Wad * (t + 1) \in Nat
      BY <1>2, <1>4, <2>1, MulCommutes
    <2> QED
      BY <2>3, <2>4, <2>6, <2>7
  <1>11. SumFunction(owed) <= x.borrowed + q
    BY <1>2, <1>4, <1>5, <1>8, <1>10
  <1> QED
    BY <1>11 DEF owed, q, c

(* In any market, for all amounts, rates and configurations and after any    *)
(* instructions, what the obligations owe a reserve is on its books, but for *)
(* one unit in the last place for each slot up to its last accrual, with     *)
(* interest (accrue_interest of reserve.rs and of obligation.rs, borrow,     *)
(* repay and calculate_liquidation as processor.rs calls them).  Interest    *)
(* alone can lose that much; that a borrow adds the same to both sides needs *)
(* the entry to be at the rate of its reserve, which it is while the         *)
(* obligation passes for fresh.                                              *)
THEOREM DebtsAreBooked == Spec => []DebtsBooked
  <1>1. Init => DebtsInv /\ RatesMatch
    <2> SUFFICES ASSUME Init PROVE DebtsInv /\ RatesMatch
      OBVIOUS
    <2>1. \A r \in Reserves : DebtInv(r)
      BY DEF Init, DebtInv, EntryOf
    <2>2. RatesMatch
      BY DEF Init, RatesMatch, FreshObligation
    <2> QED
      BY <2>1, <2>2, LendingInit DEF DebtsInv
  <1>2. DebtsInv /\ RatesMatch /\ [Next]_vars => DebtsInv' /\ RatesMatch'
    <2> SUFFICES ASSUME DebtsInv, RatesMatch, [Next]_vars PROVE DebtsInv' /\ RatesMatch'
      OBVIOUS
    <2>1. LendingInv /\ LendingInv'
      BY LendingStep DEF DebtsInv
    <2>2. \A r \in Reserves : DebtStep(r)
      BY <2>1, DebtSteps
    <2>3. RatesMatch'
      BY <2>1, <2>2, RatesStep
    <2> QED
      BY <2>1, <2>2, <2>3 DEF DebtsInv, DebtStep
  <1>3. DebtsInv => DebtsBooked
    BY DebtsInvBooked
  <1> QED
    BY <1>1, <1>2, <1>3, PTL DEF Spec
=============================================================================
