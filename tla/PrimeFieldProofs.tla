-------------------------- MODULE PrimeFieldProofs --------------------------
(***************************************************************************)
(* Every operation of PrimeField that folds over a finite domain returns   *)
(* an element of Fr, Fr is a field, sums and products modulo P may be      *)
(* taken in any order, what follows from this for sums, and that the       *)
(* coefficients of LagrangeCoeffs interpolate.                             *)
(*                                                                         *)
(* The folds are recursive functions on SUBSET S, so the first lemmas show *)
(* by a minimal counterexample that such a function exists and what its    *)
(* values are.  Induction takes its hypothesis as a set.                   *)
(***************************************************************************)
EXTENDS PrimeField, Integers, FiniteSetTheorems, FunctionTheorems,
        WellFoundedInduction, TLAPS

LEMMA FrFacts ==
  /\ 0 \in Fr /\ 1 \in Fr
  /\ \A a, b \in Nat : Plus(a, b) \in Fr /\ Times(a, b) \in Fr
  /\ Fr \subseteq Nat
BY PIsPrime DEF Fr, Plus, Times

\* What a fold with the operation op (a table) does at the set s.
Pick(s) == CHOOSE x \in s : TRUE
Fold(h, s, op, base, f) ==
    IF s = {} THEN base ELSE op[<<f[Pick(s)], h[s \ {Pick(s)}]>>]

HasFold(S, op, base, f) ==
    \E h \in [SUBSET S -> Fr] : \A s \in SUBSET S : h[s] = Fold(h, s, op, base, f)

\* The element a fold takes first, and what is left for it to do.
LEMMA PickOne ==
  ASSUME NEW S, IsFiniteSet(S), NEW s \in SUBSET S, s # {}
  PROVE  /\ Pick(s) \in S
         /\ s \ {Pick(s)} \in SUBSET S
         /\ Cardinality(s) \in Nat
         /\ Cardinality(s \ {Pick(s)}) \in Nat
         /\ Cardinality(s \ {Pick(s)}) = Cardinality(s) - 1
PROOF
<1>1. Pick(s) \in s
  BY DEF Pick
<1>2. IsFiniteSet(s) /\ IsFiniteSet(s \ {Pick(s)})
  BY FS_Subset, FS_RemoveElement
<1> QED
  BY <1>1, <1>2, FS_RemoveElement, FS_CardinalityType

\* A fold with values in Fr exists.
LEMMA FoldExists ==
  ASSUME NEW S, IsFiniteSet(S), NEW op \in [Fr \X Fr -> Fr], NEW base \in Fr,
         NEW f \in [S -> Fr]
  PROVE  HasFold(S, op, base, f)
PROOF
<1> DEFINE Upto(h, n) ==
             \A s \in SUBSET S : Cardinality(s) <= n => h[s] = Fold(h, s, op, base, f)
           Failing == {n \in Nat : ~ \E h \in [SUBSET S -> Fr] : Upto(h, n)}
<1>1. \A s \in SUBSET S : Cardinality(s) \in Nat /\ Cardinality(s) <= Cardinality(S)
  BY FS_Subset, FS_CardinalityType
<1>2. Cardinality(S) \in Nat
  BY FS_CardinalityType
<1>3. Cardinality({}) = 0
  BY FS_EmptySet
<1>4. \A s \in SUBSET S : Cardinality(s) = 0 => s = {}
  BY FS_Subset, FS_EmptySet
<1>5. \E h \in [SUBSET S -> Fr] : Upto(h, 0)
  <2> DEFINE h == [s \in SUBSET S |-> base]
  <2>1. h \in [SUBSET S -> Fr]
    OBVIOUS
  <2>2. ASSUME NEW s \in SUBSET S, Cardinality(s) <= 0
        PROVE  h[s] = Fold(h, s, op, base, f)
    <3>1. s = {}
      BY <1>1, <1>4, <2>2
    <3> QED
      BY <3>1 DEF Fold
  <2> QED
    BY <2>1, <2>2
<1>6. ASSUME NEW m \in Nat, \E h \in [SUBSET S -> Fr] : Upto(h, m)
      PROVE  \E h \in [SUBSET S -> Fr] : Upto(h, m + 1)
  <2> PICK h \in [SUBSET S -> Fr] : Upto(h, m)
    BY <1>6
  <2> DEFINE g == [s \in SUBSET S |->
                     IF Cardinality(s) <= m THEN h[s] ELSE Fold(h, s, op, base, f)]
  <2>1. \A s \in SUBSET S : Fold(h, s, op, base, f) \in Fr
    BY PickOne DEF Fold
  <2>2. g \in [SUBSET S -> Fr]
    BY <2>1
  <2>3. ASSUME NEW s \in SUBSET S, Cardinality(s) <= m + 1
        PROVE  g[s] = Fold(g, s, op, base, f)
    <3>1. g[s] = Fold(h, s, op, base, f)
      OBVIOUS
    <3>2. CASE s = {}
      BY <3>1, <3>2 DEF Fold
    <3>3. CASE s # {}
      <4>1. g[s \ {Pick(s)}] = h[s \ {Pick(s)}]
        <5>1. s \ {Pick(s)} \in SUBSET S /\ Cardinality(s \ {Pick(s)}) <= m
          BY <2>3, <3>3, PickOne
        <5> QED
          BY <5>1
      <4> HIDE DEF g
      <4> QED
        BY <3>1, <3>3, <4>1 DEF Fold
    <3> QED
      BY <3>2, <3>3
  <2> QED
    BY <2>2, <2>3
<1>7. Failing = {}
  <2> SUFFICES ASSUME Failing # {} PROVE FALSE
    OBVIOUS
  <2>1. PICK n \in Failing : \A m \in Failing : <<m, n>> \notin OpToRel(<, Nat)
    BY WFMin, NatLessThanWellFounded
  <2>2. n # 0 /\ n \in Nat
    BY <1>5
  <2>3. n - 1 \in Nat /\ (n - 1) + 1 = n /\ n - 1 < n
    BY <2>2
  <2>4. n - 1 \in Failing
    BY <1>6, <2>3
  <2>5. <<n - 1, n>> \in OpToRel(<, Nat)
    BY <2>2, <2>3, Zenon DEF OpToRel
  <2> QED
    BY <2>1, <2>4, <2>5
<1>8. PICK h \in [SUBSET S -> Fr] : Upto(h, Cardinality(S))
  BY <1>2, <1>7
<1> QED
  BY <1>1, <1>8 DEF HasFold

\* Induction over the subsets of a finite set, with a set for the hypothesis.
LEMMA SetInduction ==
  ASSUME NEW S, IsFiniteSet(S), NEW Good, {} \in Good,
         \A s \in SUBSET S : s # {} /\ s \ {Pick(s)} \in Good => s \in Good
  PROVE  S \in Good
PROOF
<1> DEFINE Bad == (SUBSET S) \ Good
<1> SUFFICES ASSUME S \notin Good PROVE FALSE
  OBVIOUS
<1>1. Bad \subseteq FiniteSubsetsOf(S) /\ Bad # {}
  BY FS_FiniteSubsetsOfFinite
<1>2. PICK s \in Bad : \A r \in Bad : <<r, s>> \notin StrictSubsetOrdering(S)
  <2>1. IsWellFoundedOn(StrictSubsetOrdering(S), FiniteSubsetsOf(S))
    BY FS_StrictSubsetOrderingWellFounded
  <2> HIDE DEF Bad
  <2> QED
    BY <1>1, <2>1, WFMin
<1>3. s # {} /\ s \in SUBSET S
  OBVIOUS
<1>4. Pick(s) \in s /\ s \ {Pick(s)} \in SUBSET S
  BY <1>3 DEF Pick
<1>5. s \ {Pick(s)} \in Bad
  BY <1>3, <1>4
<1>6. <<s \ {Pick(s)}, s>> \in StrictSubsetOrdering(S)
  BY <1>3, <1>4 DEF StrictSubsetOrdering
<1> QED
  BY <1>2, <1>5, <1>6

\* A sum modulo P is an element of Fr.
LEMMA SumInFr ==
  ASSUME NEW S, IsFiniteSet(S), NEW fun \in [S -> Fr]
  PROVE  Sum(fun) \in Fr
PROOF
<1> DEFINE op == [p \in Fr \X Fr |-> Plus(p[1], p[2])]
<1>1. \A a, b \in Fr : op[<<a, b>>] = Plus(a, b) /\ Plus(a, b) \in Fr
  BY FrFacts
<1>2. op \in [Fr \X Fr -> Fr] /\ 0 \in Fr
  BY FrFacts
<1> HIDE DEF op
<1>3. PICK h \in [SUBSET S -> Fr] : \A s \in SUBSET S : h[s] = Fold(h, s, op, 0, fun)
  <2>1. HasFold(S, op, 0, fun)
    BY <1>2, FoldExists
  <2> QED
    BY <2>1 DEF HasFold
<1> DEFINE Body(g) == [s \in SUBSET S |->
                         IF s = {} THEN 0
                         ELSE LET x == Pick(s) IN Plus(fun[x], g[s \ {x}])]
           iter == CHOOSE g : g = Body(g)
<1>4. Sum(fun) = iter[S]
  BY DEF Sum, FoldFunction, FoldFunctionOnSet, MapThenFoldSet, Pick
<1>5. \A s \in SUBSET S : s # {} =>
         fun[Pick(s)] \in Fr /\ s \ {Pick(s)} \in SUBSET S
  BY PickOne
<1>6. \A s \in SUBSET S : h[s] = Body(h)[s]
  BY <1>1, <1>3, <1>5 DEF Fold
<1>7. h = Body(h)
  BY <1>6
<1>8. iter = Body(iter)
  BY <1>7
<1> HIDE DEF iter
<1> DEFINE Good == {s \in SUBSET S : iter[s] \in Fr}
<1>9. {} \in Good
  BY <1>2, <1>8
<1>10. ASSUME NEW s \in SUBSET S, s # {}, s \ {Pick(s)} \in Good
       PROVE  s \in Good
  <2>1. iter[s] = Plus(fun[Pick(s)], iter[s \ {Pick(s)}])
    BY <1>8, <1>10
  <2> QED
    BY <1>1, <1>5, <1>10, <2>1
<1> HIDE DEF Good
<1>11. S \in Good
  BY <1>9, <1>10, SetInduction
<1> QED
  BY <1>4, <1>11 DEF Good

\* A product modulo P is an element of Fr.
LEMMA ProductInFr ==
  ASSUME NEW S, IsFiniteSet(S), NEW fun \in [S -> Fr]
  PROVE  Product(fun) \in Fr
PROOF
<1> DEFINE op == [p \in Fr \X Fr |-> Times(p[1], p[2])]
<1>1. \A a, b \in Fr : op[<<a, b>>] = Times(a, b) /\ Times(a, b) \in Fr
  BY FrFacts
<1>2. op \in [Fr \X Fr -> Fr] /\ 1 \in Fr
  BY FrFacts
<1> HIDE DEF op
<1>3. PICK h \in [SUBSET S -> Fr] : \A s \in SUBSET S : h[s] = Fold(h, s, op, 1, fun)
  <2>1. HasFold(S, op, 1, fun)
    BY <1>2, FoldExists
  <2> QED
    BY <2>1 DEF HasFold
<1> DEFINE Body(g) == [s \in SUBSET S |->
                         IF s = {} THEN 1
                         ELSE LET x == Pick(s) IN Times(fun[x], g[s \ {x}])]
           iter == CHOOSE g : g = Body(g)
<1>4. Product(fun) = iter[S]
  BY DEF Product, FoldFunction, FoldFunctionOnSet, MapThenFoldSet, Pick
<1>5. \A s \in SUBSET S : s # {} =>
         fun[Pick(s)] \in Fr /\ s \ {Pick(s)} \in SUBSET S
  BY PickOne
<1>6. \A s \in SUBSET S : h[s] = Body(h)[s]
  BY <1>1, <1>3, <1>5 DEF Fold
<1>7. h = Body(h)
  BY <1>6
<1>8. iter = Body(iter)
  BY <1>7
<1> HIDE DEF iter
<1> DEFINE Good == {s \in SUBSET S : iter[s] \in Fr}
<1>9. {} \in Good
  BY <1>2, <1>8
<1>10. ASSUME NEW s \in SUBSET S, s # {}, s \ {Pick(s)} \in Good
       PROVE  s \in Good
  <2>1. iter[s] = Times(fun[Pick(s)], iter[s \ {Pick(s)}])
    BY <1>8, <1>10
  <2> QED
    BY <1>1, <1>5, <1>10, <2>1
<1> HIDE DEF Good
<1>11. S \in Good
  BY <1>9, <1>10, SetInduction
<1> QED
  BY <1>4, <1>11 DEF Good

-----------------------------------------------------------------------------
\* The value of a polynomial, as Dkg::PolynomialValue computes it.
LEMMA PolynomialValueInFr ==
  ASSUME NEW t \in Nat, NEW pol \in [1..t -> Fr], NEW x \in Fr
  PROVE  PolynomialValue(pol, x) \in Fr
PROOF
<1>1. IsFiniteSet(1..t) /\ DOMAIN pol = 1..t
  BY FS_Interval
<1>2. ASSUME NEW k \in 1..t
      PROVE  Times(pol[k], Power(x, k - 1)) \in Fr
  <2>1. IsFiniteSet(1..(k - 1))
    BY FS_Interval
  <2>2. Power(x, k - 1) \in Fr
    BY <2>1, ProductInFr DEF Power
  <2> QED
    BY <2>2, FrFacts
<1> DEFINE terms == [k \in 1..t |-> Times(pol[k], Power(x, k - 1))]
<1>3. terms \in [1..t -> Fr]
  BY <1>2
<1>4. PolynomialValue(pol, x) = Sum(terms)
  BY <1>1 DEF PolynomialValue
<1> HIDE DEF terms
<1> QED
  BY <1>1, <1>3, <1>4, SumInFr

\* A Lagrange coefficient of distinct indices, as ThresholdUtils::LagrangeCoeffs
\* computes it, and the combination of shares it is used for.
LEMMA LagrangeCoeffInFr ==
  ASSUME NEW K \in SUBSET Fr, IsFiniteSet(K), NEW i \in K
  PROVE  LagrangeCoeff(K, i) \in Fr
PROOF
<1> DEFINE w == Product([j \in K |-> j])
           d == Product([j \in K \ {i} |-> Minus(j, i)])
<1>1. w \in Fr
  <2>1. [j \in K |-> j] \in [K -> Fr]
    OBVIOUS
  <2> QED
    BY <2>1, ProductInFr
<1>2. d \in Fr
  <2>1. \A j \in K : Minus(j, i) \in Fr
    BY PIsPrime DEF Fr, Minus
  <2>2. IsFiniteSet(K \ {i})
    BY FS_RemoveElement
  <2>3. [j \in K \ {i} |-> Minus(j, i)] \in [K \ {i} -> Fr]
    BY <2>1
  <2> QED
    BY <2>2, <2>3, ProductInFr
<1>3. \A a : Invert(a) \in Fr
  BY FrFacts DEF Invert
<1>4. LagrangeCoeff(K, i) = Times(w, Invert(Times(i, d)))
  BY DEF LagrangeCoeff
<1> HIDE DEF w, d
<1> QED
  BY <1>1, <1>2, <1>3, <1>4, FrFacts

LEMMA RecoverInFr ==
  ASSUME NEW K \in SUBSET Fr, IsFiniteSet(K), NEW shares \in [K -> Fr]
  PROVE  Recover(shares) \in Fr
PROOF
<1> DEFINE terms == [i \in K |-> Times(LagrangeCoeff(K, i), shares[i])]
<1>1. terms \in [K -> Fr]
  BY LagrangeCoeffInFr, FrFacts
<1>2. Recover(shares) = Sum(terms)
  BY DEF Recover
<1> HIDE DEF terms
<1> QED
  BY <1>1, <1>2, SumInFr

-----------------------------------------------------------------------------
(* Fr is a field: P is prime because there are no zero divisors.           *)

\* A multiple of P between -P and P is zero.
LEMMA MultipleBound ==
  ASSUME NEW d \in Int, NEW r \in Int, P * d = r, r < P, -P < r
  PROVE  r = 0
PROOF
<1>1. P \in Nat /\ P > 0
  BY PIsPrime
<1>2. CASE d >= 1
  <2>1. P * (d - 1) >= 0
    BY <1>1, <1>2
  <2>2. P * (d - 1) = P * d - P
    BY <1>1
  <2> QED
    BY <1>1, <2>1, <2>2
<1>3. CASE d <= -1
  <2>1. P * (-d - 1) >= 0
    BY <1>1, <1>3
  <2>2. P * (-d - 1) = -(P * d) - P
    BY <1>1
  <2> QED
    BY <1>1, <2>1, <2>2
<1>4. CASE d = 0
  BY <1>1, <1>4
<1> QED
  BY <1>2, <1>3, <1>4

\* Quotient and remainder.
LEMMA ModOf ==
  ASSUME NEW x \in Nat
  PROVE  /\ x % P \in Fr
         /\ x \div P \in Nat
         /\ x = P * (x \div P) + (x % P)
BY PIsPrime DEF Fr

\* The remainder is determined.
LEMMA ModUnique ==
  ASSUME NEW x \in Nat, NEW q \in Int, NEW r \in Fr, x = P * q + r
  PROVE  x % P = r
PROOF
<1> DEFINE m == x % P
           k == x \div P
<1>1. m \in Fr /\ k \in Nat /\ x = P * k + m
  BY ModOf
<1> HIDE DEF m, k
<1>2. P \in Nat /\ m \in Nat /\ r \in Nat /\ m < P /\ r < P
  BY <1>1, PIsPrime DEF Fr
<1>3. P * (q - k) = m - r
  <2>1. P * (q - k) = P * q - P * k
    BY <1>1, <1>2
  <2>2. P * q \in Int /\ P * k \in Int
    BY <1>1, <1>2
  <2> QED
    BY <1>1, <1>2, <2>1, <2>2
<1>4. m - r = 0
  <2>1. q - k \in Int /\ m - r \in Int /\ m - r < P /\ -P < m - r
    BY <1>1, <1>2
  <2> QED
    BY <1>3, <2>1, MultipleBound
<1> QED
  BY <1>2, <1>4 DEF m

\* Reduction before an operation changes nothing.
LEMMA ModPlus ==
  ASSUME NEW x \in Nat, NEW y \in Nat
  PROVE  ((x % P) + y) % P = (x + y) % P
PROOF
<1> DEFINE m == x % P
           k == x \div P
           r == (m + y) % P
           l == (m + y) \div P
<1>1. m \in Nat /\ k \in Nat /\ x = P * k + m
  BY ModOf, FrFacts
<1>2. r \in Fr /\ l \in Nat /\ m + y = P * l + r
  <2> HIDE DEF m, k
  <2>1. m + y \in Nat
    BY <1>1
  <2> QED
    BY <2>1, ModOf
<1> HIDE DEF m, k, r, l
<1>3. P \in Nat /\ r \in Nat
  BY <1>2, PIsPrime, FrFacts
<1>4. x + y = P * (k + l) + r
  <2>1. P * (k + l) = P * k + P * l /\ P * k \in Nat /\ P * l \in Nat
    BY <1>1, <1>2, <1>3
  <2> QED
    BY <1>1, <1>2, <1>3, <2>1
<1>5. (x + y) % P = r
  BY <1>1, <1>2, <1>4, ModUnique
<1> QED
  BY <1>5 DEF r, m

\* The same for a product.
LEMMA ModTimes ==
  ASSUME NEW x \in Nat, NEW y \in Nat
  PROVE  ((x % P) * y) % P = (x * y) % P
PROOF
<1> DEFINE m == x % P
           k == x \div P
           r == (m * y) % P
           l == (m * y) \div P
<1>1. m \in Nat /\ k \in Nat /\ x = P * k + m
  BY ModOf, FrFacts
<1>2. r \in Fr /\ l \in Nat /\ m * y = P * l + r
  <2> HIDE DEF m, k
  <2>1. m * y \in Nat
    BY <1>1
  <2> QED
    BY <2>1, ModOf
<1> HIDE DEF m, k, r, l
<1>3. P \in Nat /\ r \in Nat
  BY <1>2, PIsPrime, FrFacts
<1>4. x * y = P * (k * y + l) + r
  <2>1. x * y = (P * k) * y + m * y
    BY <1>1, <1>3
  <2>2. (P * k) * y = P * (k * y) /\ k * y \in Nat
    BY <1>1, <1>3
  <2>3. P * (k * y + l) = P * (k * y) + P * l
    BY <1>2, <1>3, <2>2
  <2>4. P * (k * y) \in Nat /\ P * l \in Nat
    BY <1>2, <1>3, <2>2
  <2> QED
    BY <1>2, <1>3, <2>1, <2>2, <2>3, <2>4
<1>5. (x * y) % P = r
  <2>1. k * y + l \in Int /\ x * y \in Nat
    BY <1>1, <1>2
  <2> QED
    BY <1>2, <1>4, <2>1, ModUnique
<1> QED
  BY <1>5 DEF r, m

-----------------------------------------------------------------------------
(* Fr is a field.                                                          *)

\* Plus and Times of a number and of its remainder are the same.
LEMMA PlusReduced ==
  ASSUME NEW x \in Nat, NEW y \in Nat
  PROVE  Plus(x % P, y) = Plus(x, y)
BY ModPlus DEF Plus

\* So for Times.
LEMMA TimesReduced ==
  ASSUME NEW x \in Nat, NEW y \in Nat
  PROVE  Times(x % P, y) = Times(x, y)
BY ModTimes DEF Times

\* Fr is a commutative ring.
LEMMA Commutes ==
  ASSUME NEW a \in Nat, NEW b \in Nat
  PROVE  Plus(a, b) = Plus(b, a) /\ Times(a, b) = Times(b, a)
PROOF
<1>1. a + b = b + a /\ a * b = b * a
  OBVIOUS
<1> QED
  BY <1>1 DEF Plus, Times

\* Addition is associative.
LEMMA PlusAssoc ==
  ASSUME NEW a \in Fr, NEW b \in Fr, NEW c \in Fr
  PROVE  Plus(Plus(a, b), c) = Plus(a, Plus(b, c))
PROOF
<1> DEFINE s == a + b
           u == b + c
<1>1. a \in Nat /\ b \in Nat /\ c \in Nat
  BY FrFacts
<1>2. s \in Nat /\ u \in Nat /\ Plus(a, b) = s % P /\ Plus(b, c) = u % P
  BY <1>1 DEF Plus
<1>3. s + c = u + a
  BY <1>1
<1> HIDE DEF s, u
<1>4. Plus(s % P, c) = Plus(s, c) /\ Plus(u % P, a) = Plus(u, a)
  BY <1>1, <1>2, PlusReduced
<1>5. Plus(s, c) = Plus(u, a)
  BY <1>3 DEF Plus
<1>6. Plus(b, c) \in Nat
  BY <1>1, FrFacts
<1>7. Plus(Plus(b, c), a) = Plus(a, Plus(b, c))
  BY <1>1, <1>6, Commutes
<1> QED
  BY <1>2, <1>4, <1>5, <1>7

\* Multiplication is associative.
LEMMA TimesAssoc ==
  ASSUME NEW a \in Fr, NEW b \in Fr, NEW c \in Fr
  PROVE  Times(Times(a, b), c) = Times(a, Times(b, c))
PROOF
<1> DEFINE s == a * b
           u == b * c
<1>1. a \in Nat /\ b \in Nat /\ c \in Nat
  BY FrFacts
<1>2. s \in Nat /\ u \in Nat /\ Times(a, b) = s % P /\ Times(b, c) = u % P
  BY <1>1 DEF Times
<1>3. s * c = u * a
  BY <1>1
<1> HIDE DEF s, u
<1>4. Times(s % P, c) = Times(s, c) /\ Times(u % P, a) = Times(u, a)
  BY <1>1, <1>2, TimesReduced
<1>5. Times(s, c) = Times(u, a)
  BY <1>3 DEF Times
<1>6. Times(b, c) \in Nat
  BY <1>1, FrFacts
<1>7. Times(Times(b, c), a) = Times(a, Times(b, c))
  BY <1>1, <1>6, Commutes
<1> QED
  BY <1>2, <1>4, <1>5, <1>7

\* Multiplication distributes over addition.
LEMMA Distributes ==
  ASSUME NEW a \in Fr, NEW b \in Fr, NEW c \in Fr
  PROVE  Times(a, Plus(b, c)) = Plus(Times(a, b), Times(a, c))
PROOF
<1> DEFINE s == b + c
           u == a * b
           v == a * c
<1>1. a \in Nat /\ b \in Nat /\ c \in Nat
  BY FrFacts
<1>2. s \in Nat /\ u \in Nat /\ v \in Nat
  BY <1>1
<1>3. Plus(b, c) = s % P /\ Times(a, b) = u % P /\ Times(a, c) = v % P
  BY DEF Plus, Times
<1>4. s * a = u + v
  BY <1>1
<1> HIDE DEF s, u, v
<1>5. s % P \in Nat /\ u % P \in Nat /\ v % P \in Nat
  BY <1>2, ModOf, FrFacts
<1>6. Times(a, s % P) = Times(s, a)
  BY <1>1, <1>2, <1>5, Commutes, TimesReduced
<1>7. Plus(u % P, v % P) = Plus(u, v % P)
  BY <1>2, <1>5, PlusReduced
<1>8. Plus(u, v % P) = Plus(v % P, u) /\ Plus(v % P, u) = Plus(v, u)
  BY <1>2, <1>5, Commutes, PlusReduced
<1>9. Plus(v, u) = Times(s, a)
  BY <1>2, <1>4 DEF Plus, Times
<1> QED
  BY <1>3, <1>6, <1>7, <1>8, <1>9

\* The laws together, as the proofs below cite them.
LEMMA Ring ==
  /\ 0 \in Fr /\ 1 \in Fr /\ 1 # 0
  /\ \A a, b \in Fr : Plus(a, b) \in Fr /\ Times(a, b) \in Fr
  /\ \A a, b \in Fr : Plus(a, b) = Plus(b, a) /\ Times(a, b) = Times(b, a)
  /\ \A a, b, c \in Fr :
         /\ Plus(Plus(a, b), c) = Plus(a, Plus(b, c))
         /\ Times(Times(a, b), c) = Times(a, Times(b, c))
         /\ Times(a, Plus(b, c)) = Plus(Times(a, b), Times(a, c))
PROOF
<1>1. \A a \in Fr : a \in Nat
  BY FrFacts
<1> QED
  BY <1>1, FrFacts, Commutes, PlusAssoc, TimesAssoc, Distributes

\* Zero and one.
LEMMA Units ==
  ASSUME NEW a \in Fr
  PROVE  /\ Plus(a, 0) = a /\ Plus(0, a) = a
         /\ Times(a, 1) = a /\ Times(1, a) = a
         /\ Times(a, 0) = 0 /\ Times(0, a) = 0
PROOF
<1>1. a \in Nat /\ a % P = a /\ 0 % P = 0
  BY PIsPrime DEF Fr
<1>2. a + 0 = a /\ 0 + a = a /\ a * 1 = a /\ 1 * a = a /\ a * 0 = 0 /\ 0 * a = 0
  BY <1>1
<1> QED
  BY <1>1, <1>2 DEF Plus, Times

\* Subtraction undoes addition.
LEMMA MinusFacts ==
  ASSUME NEW a \in Fr, NEW b \in Fr
  PROVE  /\ Minus(a, b) \in Fr
         /\ Plus(Minus(a, b), b) = a
         /\ Minus(a, b) = 0 => a = b
PROOF
<1>1. a \in Nat /\ b \in Nat /\ P \in Nat /\ a < P /\ b < P /\ P > 1 /\ b % P = b
  BY PIsPrime DEF Fr
<1> DEFINE d == a + (P - b)
<1>2. d \in Nat /\ Minus(a, b) = d % P
  BY <1>1 DEF Minus
<1>3. d + b = P * 1 + a
  BY <1>1
<1> HIDE DEF d
<1>4. Minus(a, b) \in Fr
  BY <1>2, ModOf
<1>5. Plus(d % P, b) = Plus(d, b)
  BY <1>1, <1>2, PlusReduced
<1>6. (d + b) % P = a
  <2>1. d + b \in Nat
    BY <1>1, <1>2
  <2> QED
    BY <1>3, <2>1, ModUnique
<1>7. Plus(Minus(a, b), b) = a
  BY <1>2, <1>5, <1>6 DEF Plus
<1> QED
  BY <1>4, <1>7, Units

\* Addition can be undone.
LEMMA PlusCancel ==
  ASSUME NEW a \in Fr, NEW b \in Fr, NEW c \in Fr, Plus(a, c) = Plus(b, c)
  PROVE  a = b
PROOF
<1> DEFINE n == Minus(0, c)
<1>1. n \in Fr /\ Plus(n, c) = 0
  BY MinusFacts, Ring
<1> HIDE DEF n
<1>2. Plus(c, n) = 0
  BY <1>1, Ring
<1>3. Plus(Plus(a, c), n) = Plus(a, 0) /\ Plus(Plus(b, c), n) = Plus(b, 0)
  BY <1>1, <1>2, Ring
<1> QED
  BY <1>3, Units

\* There are no zero divisors.
LEMMA NoZeroDivisors ==
  ASSUME NEW a \in NonZero, NEW b \in NonZero
  PROVE  Times(a, b) \in NonZero
PROOF
<1>1. a \in 1..(P - 1) /\ b \in 1..(P - 1)
  BY DEF NonZero
<1>2. (a * b) % P # 0
  BY <1>1, PIsPrime
<1>3. (a * b) % P \in 0..(P - 1)
  BY <1>1, PIsPrime
<1> QED
  BY <1>2, <1>3, PIsPrime DEF Times, NonZero

\* The scalars other than zero.
LEMMA NonZeroFacts ==
  /\ NonZero \subseteq Fr /\ 0 \notin NonZero /\ 1 \in NonZero
  /\ \A a \in Fr : a # 0 => a \in NonZero
BY PIsPrime DEF NonZero, Fr

\* So can multiplication by a scalar other than zero.
LEMMA TimesCancel ==
  ASSUME NEW a \in NonZero, NEW x \in Fr, NEW y \in Fr, Times(a, x) = Times(a, y)
  PROVE  x = y
PROOF
<1> DEFINE d == Minus(x, y)
<1>1. d \in Fr /\ Plus(d, y) = x /\ (d = 0 => x = y)
  BY MinusFacts
<1> HIDE DEF d
<1>2. a \in Fr
  BY NonZeroFacts
<1>3. Times(a, d) \in Fr /\ Times(a, y) \in Fr
  BY <1>1, <1>2, Ring
<1>4. Plus(Times(a, d), Times(a, y)) = Plus(0, Times(a, y))
  BY <1>1, <1>2, <1>3, Ring, Units
<1>5. Times(a, d) = 0
  BY <1>3, <1>4, PlusCancel, Ring
<1>6. d = 0
  BY <1>1, <1>5, NoZeroDivisors, NonZeroFacts
<1> QED
  BY <1>1, <1>6

\* Every scalar but zero has an inverse, since multiplication by it is one to
\* one on a finite set.
LEMMA InverseExists ==
  ASSUME NEW a \in NonZero
  PROVE  \E b \in NonZero : Times(a, b) = 1
PROOF
<1> DEFINE f == [x \in NonZero |-> Times(a, x)]
<1>1. f \in [NonZero -> NonZero]
  BY NoZeroDivisors
<1>2. \A x, y \in NonZero : f[x] = f[y] => x = y
  BY NonZeroFacts, TimesCancel
<1>3. IsFiniteSet(NonZero)
  BY PIsPrime, FS_Interval DEF NonZero
<1>4. f \in Injection(NonZero, NonZero)
  BY <1>1, <1>2, Fun_IsInj
<1>5. f \in Surjection(NonZero, NonZero)
  BY <1>3, <1>4, FS_Injection
<1>6. \E b \in NonZero : f[b] = 1
  BY <1>5, NonZeroFacts, Fun_SurjectionProperties
<1> QED
  BY <1>6

\* Invert computes the inverse.
LEMMA InvertFacts ==
  ASSUME NEW a \in NonZero
  PROVE  Invert(a) \in NonZero /\ Times(a, Invert(a)) = 1
PROOF
<1>1. \E b \in Fr : Times(a, b) = 1
  BY InverseExists, NonZeroFacts
<1>2. Invert(a) \in Fr /\ Times(a, Invert(a)) = 1
  BY <1>1 DEF Invert
<1>3. Invert(a) # 0
  BY <1>2, Units, NonZeroFacts
<1> QED
  BY <1>2, <1>3, NonZeroFacts

-----------------------------------------------------------------------------
(* Sums and products in any order.                                         *)

\* Induction over the subsets of a finite set, from all smaller ones.
LEMMA StrongSetInduction ==
  ASSUME NEW S, IsFiniteSet(S), NEW Good,
         \A s \in SUBSET S : (\A r \in SUBSET s : r # s => r \in Good) => s \in Good
  PROVE  \A s \in SUBSET S : s \in Good
PROOF
<1> DEFINE Bad == (SUBSET S) \ Good
<1> SUFFICES ASSUME Bad # {} PROVE FALSE
  OBVIOUS
<1>1. Bad \subseteq FiniteSubsetsOf(S)
  BY FS_FiniteSubsetsOfFinite
<1>2. PICK s \in Bad : \A r \in Bad : <<r, s>> \notin StrictSubsetOrdering(S)
  <2>1. IsWellFoundedOn(StrictSubsetOrdering(S), FiniteSubsetsOf(S))
    BY FS_StrictSubsetOrderingWellFounded
  <2> HIDE DEF Bad
  <2> QED
    BY <1>1, <2>1, WFMin
<1>3. ASSUME NEW r \in SUBSET s, r # s
      PROVE  r \in Good
  <2> SUFFICES ASSUME r \notin Good PROVE FALSE
    OBVIOUS
  <2>1. r \in Bad /\ s \in SUBSET S
    OBVIOUS
  <2>2. <<r, s>> \in StrictSubsetOrdering(S)
    BY <1>3, <2>1 DEF StrictSubsetOrdering
  <2> QED
    BY <1>2, <2>1, <2>2
<1> QED
  BY <1>3

\* Induction over numbers, with a set for the hypothesis.
LEMMA NatSetInduction ==
  ASSUME NEW Good, 0 \in Good, \A n \in Nat : n \in Good => n + 1 \in Good
  PROVE  \A n \in Nat : n \in Good
PROOF
<1> DEFINE Bad == Nat \ Good
<1> SUFFICES ASSUME Bad # {} PROVE FALSE
  OBVIOUS
<1>1. PICK n \in Bad : \A m \in Bad : <<m, n>> \notin OpToRel(<, Nat)
  <2>1. Bad \subseteq Nat
    OBVIOUS
  <2> HIDE DEF Bad
  <2> QED
    BY <2>1, WFMin, NatLessThanWellFounded
<1>2. n - 1 \in Nat /\ (n - 1) + 1 = n /\ n - 1 < n /\ n \in Nat
  <2>1. n \in Nat /\ n # 0
    OBVIOUS
  <2> QED
    BY <2>1
<1>3. n - 1 \in Bad
  BY <1>2
<1>4. <<n - 1, n>> \in OpToRel(<, Nat)
  BY <1>2, Zenon DEF OpToRel
<1> QED
  BY <1>1, <1>3, <1>4

-----------------------------------------------------------------------------
(* Folds in any order.                                                     *)

\* op is commutative and associative: the elements may be taken in any order.
AnyOrder(op) ==
    /\ op \in [Fr \X Fr -> Fr]
    /\ \A a, b, c \in Fr : op[<<a, op[<<b, c>>]>>] = op[<<b, op[<<a, c>>]>>]

\* h is what a fold of f over S goes through.
IsFold(h, S, op, base, f) ==
    /\ IsFiniteSet(S) /\ AnyOrder(op) /\ base \in Fr /\ f \in [S -> Fr]
    /\ h \in [SUBSET S -> Fr]
    /\ \A s \in SUBSET S : h[s] = Fold(h, s, op, base, f)

\* If the order does not matter, a fold may take any element first.
LEMMA FoldRemove ==
  ASSUME NEW S, NEW op, NEW base, NEW f, NEW h, IsFold(h, S, op, base, f)
  PROVE  \A s \in SUBSET S : \A m \in s : h[s] = op[<<f[m], h[s \ {m}]>>]
PROOF
<1> IsFiniteSet(S) /\ AnyOrder(op) /\ f \in [S -> Fr]
  BY DEF IsFold
<1> DEFINE Good == {s \in SUBSET S : \A m \in s : h[s] = op[<<f[m], h[s \ {m}]>>]}
<1>1. ASSUME NEW s \in SUBSET S, \A r \in SUBSET s : r # s => r \in Good,
             NEW m \in s
      PROVE  h[s] = op[<<f[m], h[s \ {m}]>>]
  <2> DEFINE p == Pick(s)
  <2>1. p \in s /\ h[s] = op[<<f[p], h[s \ {p}]>>]
    BY DEF Pick, Fold, IsFold
  <2>2. CASE m = p
    BY <2>1, <2>2
  <2>3. CASE m # p
    <3> DEFINE r == s \ {m, p}
    <3>1. s \ {p} \in Good /\ s \ {m} \in Good /\ m \in s \ {p} /\ p \in s \ {m}
      BY <1>1, <2>1, <2>3
    <3>2. (s \ {p}) \ {m} = r /\ (s \ {m}) \ {p} = r /\ r \in SUBSET S
      OBVIOUS
    <3> HIDE DEF p
    <3>3. /\ h[s \ {p}] = op[<<f[m], h[(s \ {p}) \ {m}]>>]
          /\ h[s \ {m}] = op[<<f[p], h[(s \ {m}) \ {p}]>>]
      BY <3>1
    <3> HIDE DEF r
    <3>4. f[m] \in Fr /\ f[p] \in Fr /\ h[r] \in Fr
      BY <2>1, <3>2 DEF IsFold
    <3>5. op[<<f[p], op[<<f[m], h[r]>>]>>] = op[<<f[m], op[<<f[p], h[r]>>]>>]
      BY <3>4 DEF AnyOrder
    <3> QED
      BY <2>1, <3>2, <3>3, <3>5
  <2> QED
    BY <2>2, <2>3
<1>2. \A s \in SUBSET S : (\A r \in SUBSET s : r # s => r \in Good) => s \in Good
  BY <1>1
<1>3. \A s \in SUBSET S : s \in Good
  <2> HIDE DEF Good
  <2> QED
    BY <1>2, StrongSetInduction
<1> QED
  BY <1>3

PlusTable == [p \in Fr \X Fr |-> Plus(p[1], p[2])]
TimesTable == [p \in Fr \X Fr |-> Times(p[1], p[2])]

\* Plus and Times may be taken in any order.
LEMMA Tables ==
  /\ AnyOrder(PlusTable) /\ AnyOrder(TimesTable)
  /\ \A a, b \in Fr : PlusTable[<<a, b>>] = Plus(a, b) /\ TimesTable[<<a, b>>] = Times(a, b)
PROOF
<1>1. \A a, b \in Fr : PlusTable[<<a, b>>] = Plus(a, b) /\ TimesTable[<<a, b>>] = Times(a, b)
  BY DEF PlusTable, TimesTable
<1>2. PlusTable \in [Fr \X Fr -> Fr] /\ TimesTable \in [Fr \X Fr -> Fr]
  BY Ring DEF PlusTable, TimesTable
<1>3. ASSUME NEW a \in Fr, NEW b \in Fr, NEW c \in Fr
      PROVE  Plus(a, Plus(b, c)) = Plus(b, Plus(a, c))
  <2>1. Plus(a, Plus(b, c)) = Plus(Plus(a, b), c) /\ Plus(b, Plus(a, c)) = Plus(Plus(b, a), c)
    BY Ring
  <2> QED
    BY <2>1, Ring
<1>4. ASSUME NEW a \in Fr, NEW b \in Fr, NEW c \in Fr
      PROVE  Times(a, Times(b, c)) = Times(b, Times(a, c))
  <2>1. /\ Times(a, Times(b, c)) = Times(Times(a, b), c)
        /\ Times(b, Times(a, c)) = Times(Times(b, a), c)
    BY Ring
  <2> QED
    BY <2>1, Ring
<1>5. \A b, c \in Fr : Plus(b, c) \in Fr /\ Times(b, c) \in Fr
  BY Ring
<1> HIDE DEF PlusTable, TimesTable
<1> QED
  BY <1>1, <1>2, <1>3, <1>4, <1>5 DEF AnyOrder

\* A sum is the fold of its values.
LEMMA SumIsFold ==
  ASSUME NEW S, NEW fun, NEW h, IsFold(h, S, PlusTable, 0, fun)
  PROVE  Sum(fun) = h[S]
PROOF
<1> DEFINE Body(g) == [s \in SUBSET S |->
                         IF s = {} THEN 0
                         ELSE LET x == Pick(s) IN Plus(fun[x], g[s \ {x}])]
           iter == CHOOSE g : g = Body(g)
<1> IsFiniteSet(S) /\ fun \in [S -> Fr]
  BY DEF IsFold
<1>1. Sum(fun) = iter[S]
  BY DEF Sum, FoldFunction, FoldFunctionOnSet, MapThenFoldSet, Pick
<1>2. h \in [SUBSET S -> Fr] /\ \A s \in SUBSET S : h[s] = Fold(h, s, PlusTable, 0, fun)
  BY DEF IsFold
<1>3. \A s \in SUBSET S : s # {} => Pick(s) \in S /\ s \ {Pick(s)} \in SUBSET S
  BY PickOne
<1>4. \A s \in SUBSET S : h[s] = Body(h)[s]
  <2>1. \A s \in SUBSET S : s # {} =>
            PlusTable[<<fun[Pick(s)], h[s \ {Pick(s)}]>>] = Plus(fun[Pick(s)], h[s \ {Pick(s)}])
    BY <1>2, <1>3, Tables
  <2> QED
    BY <1>2, <2>1 DEF Fold
<1>5. h = Body(h)
  BY <1>2, <1>4
<1>6. iter = Body(iter)
  BY <1>5
<1> HIDE DEF iter
<1> DEFINE Good == {s \in SUBSET S : iter[s] = h[s]}
<1>7. {} \in Good
  BY <1>5, <1>6
<1>8. ASSUME NEW s \in SUBSET S, s # {}, s \ {Pick(s)} \in Good
      PROVE  s \in Good
  <2>1. iter[s] = Plus(fun[Pick(s)], iter[s \ {Pick(s)}])
    BY <1>6, <1>8
  <2>2. h[s] = Plus(fun[Pick(s)], h[s \ {Pick(s)}])
    BY <1>5, <1>8
  <2> QED
    BY <1>8, <2>1, <2>2
<1>9. S \in Good
  <2> HIDE DEF Good
  <2> QED
    BY <1>7, <1>8, SetInduction
<1> QED
  BY <1>1, <1>9

\* And so is a product.
LEMMA ProductIsFold ==
  ASSUME NEW S, NEW fun, NEW h, IsFold(h, S, TimesTable, 1, fun)
  PROVE  Product(fun) = h[S]
PROOF
<1> DEFINE Body(g) == [s \in SUBSET S |->
                         IF s = {} THEN 1
                         ELSE LET x == Pick(s) IN Times(fun[x], g[s \ {x}])]
           iter == CHOOSE g : g = Body(g)
<1> IsFiniteSet(S) /\ fun \in [S -> Fr]
  BY DEF IsFold
<1>1. Product(fun) = iter[S]
  BY DEF Product, FoldFunction, FoldFunctionOnSet, MapThenFoldSet, Pick
<1>2. h \in [SUBSET S -> Fr] /\ \A s \in SUBSET S : h[s] = Fold(h, s, TimesTable, 1, fun)
  BY DEF IsFold
<1>3. \A s \in SUBSET S : s # {} => Pick(s) \in S /\ s \ {Pick(s)} \in SUBSET S
  BY PickOne
<1>4. \A s \in SUBSET S : h[s] = Body(h)[s]
  <2>1. \A s \in SUBSET S : s # {} =>
            TimesTable[<<fun[Pick(s)], h[s \ {Pick(s)}]>>] = Times(fun[Pick(s)], h[s \ {Pick(s)}])
    BY <1>2, <1>3, Tables
  <2> QED
    BY <1>2, <2>1 DEF Fold
<1>5. h = Body(h)
  BY <1>2, <1>4
<1>6. iter = Body(iter)
  BY <1>5
<1> HIDE DEF iter
<1> DEFINE Good == {s \in SUBSET S : iter[s] = h[s]}
<1>7. {} \in Good
  BY <1>5, <1>6
<1>8. ASSUME NEW s \in SUBSET S, s # {}, s \ {Pick(s)} \in Good
      PROVE  s \in Good
  <2>1. iter[s] = Times(fun[Pick(s)], iter[s \ {Pick(s)}])
    BY <1>6, <1>8
  <2>2. h[s] = Times(fun[Pick(s)], h[s \ {Pick(s)}])
    BY <1>5, <1>8
  <2> QED
    BY <1>8, <2>1, <2>2
<1>9. S \in Good
  <2> HIDE DEF Good
  <2> QED
    BY <1>7, <1>8, SetInduction
<1> QED
  BY <1>1, <1>9

\* A fold of fun on S is also one of what it is on a part of S.
LEMMA FoldOfPart ==
  ASSUME NEW S, NEW op, NEW base, NEW f, NEW h, IsFold(h, S, op, base, f), NEW r \in SUBSET S,
         NEW k, k = [s \in SUBSET r |-> h[s]], NEW g, g = [x \in r |-> f[x]]
  PROVE  IsFold(k, r, op, base, g)
PROOF
<1>1. k \in [SUBSET r -> Fr]
  BY DEF IsFold
<1>2. ASSUME NEW s \in SUBSET r
      PROVE  k[s] = Fold(k, s, op, base, g)
  <2>1. k[s] = Fold(h, s, op, base, f)
    BY DEF IsFold
  <2>2. CASE s = {}
    BY <2>1, <2>2 DEF Fold
  <2>3. CASE s # {}
    <3>1. Pick(s) \in r /\ s \ {Pick(s)} \in SUBSET r
      BY <2>3 DEF Pick
    <3>2. k[s \ {Pick(s)}] = h[s \ {Pick(s)}] /\ g[Pick(s)] = f[Pick(s)]
      BY <3>1
    <3> QED
      BY <2>1, <2>3, <3>2 DEF Fold
  <2> QED
    BY <2>2, <2>3
<1>3. IsFiniteSet(r) /\ AnyOrder(op) /\ base \in Fr /\ g \in [r -> Fr]
  BY FS_Subset DEF IsFold
<1> QED
  BY <1>1, <1>2, <1>3 DEF IsFold

-----------------------------------------------------------------------------
(* Sums and products.                                                      *)

\* Any term may be taken out first.
LEMMA SumRemove ==
  ASSUME NEW S, IsFiniteSet(S), NEW fun \in [S -> Fr]
  PROVE  /\ S = {} => Sum(fun) = 0
         /\ \A m \in S : /\ Sum([x \in S \ {m} |-> fun[x]]) \in Fr
                         /\ Sum(fun) = Plus(fun[m], Sum([x \in S \ {m} |-> fun[x]]))
PROOF
<1>1. HasFold(S, PlusTable, 0, fun)
  BY Tables, Ring, FoldExists DEF AnyOrder
<1>2. PICK h : IsFold(h, S, PlusTable, 0, fun)
  BY <1>1, Tables, Ring DEF HasFold, IsFold
<1>3. Sum(fun) = h[S]
  BY <1>2, SumIsFold
<1>4. S = {} => h[S] = 0
  BY <1>2 DEF IsFold, Fold
<1>5. ASSUME NEW m \in S
      PROVE  /\ Sum([x \in S \ {m} |-> fun[x]]) \in Fr
             /\ Sum(fun) = Plus(fun[m], Sum([x \in S \ {m} |-> fun[x]]))
  <2> DEFINE r == S \ {m}
             g == [x \in r |-> fun[x]]
             k == [s \in SUBSET r |-> h[s]]
  <2>1. r \in SUBSET S /\ IsFiniteSet(r) /\ g \in [r -> Fr]
    BY FS_RemoveElement
  <2>2. k[r] = h[r]
    OBVIOUS
  <2>3. IsFold(k, r, PlusTable, 0, g)
    <3>1. k = [s \in SUBSET r |-> h[s]] /\ g = [x \in r |-> fun[x]]
      OBVIOUS
    <3> HIDE DEF k, g, r
    <3> QED
      BY <1>2, <2>1, <3>1, FoldOfPart
  <2> HIDE DEF k, g
  <2>4. Sum(g) = h[r]
    BY <2>1, <2>2, <2>3, SumIsFold
  <2>5. h[S] = PlusTable[<<fun[m], h[r]>>]
    <3>1. \A s \in SUBSET S : \A x \in s : h[s] = PlusTable[<<fun[x], h[s \ {x}]>>]
      BY <1>2, FoldRemove
    <3> QED
      BY <3>1
  <2>6. h[r] \in Fr
    BY <1>2, <2>1 DEF IsFold
  <2>7. PlusTable[<<fun[m], h[r]>>] = Plus(fun[m], h[r])
    BY <2>6, Tables
  <2> QED
    BY <1>3, <2>4, <2>5, <2>6, <2>7 DEF g
<1> QED
  BY <1>3, <1>4, <1>5

\* Any factor may be taken out first.
LEMMA ProductRemove ==
  ASSUME NEW S, IsFiniteSet(S), NEW fun \in [S -> Fr]
  PROVE  /\ S = {} => Product(fun) = 1
         /\ \A m \in S : /\ Product([x \in S \ {m} |-> fun[x]]) \in Fr
                         /\ Product(fun) = Times(fun[m], Product([x \in S \ {m} |-> fun[x]]))
PROOF
<1>1. HasFold(S, TimesTable, 1, fun)
  BY Tables, Ring, FoldExists DEF AnyOrder
<1>2. PICK h : IsFold(h, S, TimesTable, 1, fun)
  BY <1>1, Tables, Ring DEF HasFold, IsFold
<1>3. Product(fun) = h[S]
  BY <1>2, ProductIsFold
<1>4. S = {} => h[S] = 1
  BY <1>2 DEF IsFold, Fold
<1>5. ASSUME NEW m \in S
      PROVE  /\ Product([x \in S \ {m} |-> fun[x]]) \in Fr
             /\ Product(fun) = Times(fun[m], Product([x \in S \ {m} |-> fun[x]]))
  <2> DEFINE r == S \ {m}
             g == [x \in r |-> fun[x]]
             k == [s \in SUBSET r |-> h[s]]
  <2>1. r \in SUBSET S /\ IsFiniteSet(r) /\ g \in [r -> Fr]
    BY FS_RemoveElement
  <2>2. k[r] = h[r]
    OBVIOUS
  <2>3. IsFold(k, r, TimesTable, 1, g)
    <3>1. k = [s \in SUBSET r |-> h[s]] /\ g = [x \in r |-> fun[x]]
      OBVIOUS
    <3> HIDE DEF k, g, r
    <3> QED
      BY <1>2, <2>1, <3>1, FoldOfPart
  <2> HIDE DEF k, g
  <2>4. Product(g) = h[r]
    BY <2>1, <2>2, <2>3, ProductIsFold
  <2>5. h[S] = TimesTable[<<fun[m], h[r]>>]
    <3>1. \A s \in SUBSET S : \A x \in s : h[s] = TimesTable[<<fun[x], h[s \ {x}]>>]
      BY <1>2, FoldRemove
    <3> QED
      BY <3>1
  <2>6. h[r] \in Fr
    BY <1>2, <2>1 DEF IsFold
  <2>7. TimesTable[<<fun[m], h[r]>>] = Times(fun[m], h[r])
    BY <2>6, Tables
  <2> QED
    BY <1>3, <2>4, <2>5, <2>6, <2>7 DEF g
<1> QED
  BY <1>3, <1>4, <1>5

-----------------------------------------------------------------------------
(* Sums of sums and of multiples.                                          *)

\* The sum and the product of a part of the values.
SumOn(fun, s) == Sum(Restrict(fun, s))
ProductOn(fun, s) == Product(Restrict(fun, s))

\* The sum of a part and that of the part without one of its elements.
LEMMA SumParts ==
  ASSUME NEW S, IsFiniteSet(S), NEW fun \in [S -> Fr]
  PROVE  /\ Sum(fun) = SumOn(fun, S) /\ SumOn(fun, {}) = 0
         /\ \A s \in SUBSET S :
                /\ SumOn(fun, s) \in Fr
                /\ \A m \in s : /\ SumOn(fun, s \ {m}) \in Fr
                                /\ SumOn(fun, s) = Plus(fun[m], SumOn(fun, s \ {m}))
PROOF
<1>1. Restrict(fun, S) = fun
  BY DEF Restrict
<1>2. ASSUME NEW s \in SUBSET S
      PROVE  IsFiniteSet(s) /\ Restrict(fun, s) \in [s -> Fr]
  BY FS_Subset DEF Restrict
<1>3. SumOn(fun, {}) = 0
  BY <1>2, SumRemove DEF SumOn
<1>4. ASSUME NEW s \in SUBSET S
      PROVE  SumOn(fun, s) \in Fr
  BY <1>2, SumInFr DEF SumOn
<1>5. ASSUME NEW s \in SUBSET S, NEW m \in s
      PROVE  SumOn(fun, s) = Plus(fun[m], SumOn(fun, s \ {m}))
  <2> DEFINE g == Restrict(fun, s)
  <2>1. IsFiniteSet(s) /\ g \in [s -> Fr]
    BY <1>2
  <2>2. g[m] = fun[m] /\ [x \in s \ {m} |-> g[x]] = Restrict(fun, s \ {m})
    BY DEF Restrict
  <2> HIDE DEF g
  <2>3. Sum(g) = Plus(g[m], Sum([x \in s \ {m} |-> g[x]]))
    BY <2>1, SumRemove
  <2> QED
    BY <2>2, <2>3 DEF SumOn, g
<1> QED
  BY <1>1, <1>3, <1>4, <1>5 DEF SumOn

\* The same for products.
LEMMA ProductParts ==
  ASSUME NEW S, IsFiniteSet(S), NEW fun \in [S -> Fr]
  PROVE  /\ Product(fun) = ProductOn(fun, S) /\ ProductOn(fun, {}) = 1
         /\ \A s \in SUBSET S :
                /\ ProductOn(fun, s) \in Fr
                /\ \A m \in s : /\ ProductOn(fun, s \ {m}) \in Fr
                                /\ ProductOn(fun, s) = Times(fun[m], ProductOn(fun, s \ {m}))
PROOF
<1>1. Restrict(fun, S) = fun
  BY DEF Restrict
<1>2. ASSUME NEW s \in SUBSET S
      PROVE  IsFiniteSet(s) /\ Restrict(fun, s) \in [s -> Fr]
  BY FS_Subset DEF Restrict
<1>3. ProductOn(fun, {}) = 1
  BY <1>2, ProductRemove DEF ProductOn
<1>4. ASSUME NEW s \in SUBSET S
      PROVE  ProductOn(fun, s) \in Fr
  BY <1>2, ProductInFr DEF ProductOn
<1>5. ASSUME NEW s \in SUBSET S, NEW m \in s
      PROVE  ProductOn(fun, s) = Times(fun[m], ProductOn(fun, s \ {m}))
  <2> DEFINE g == Restrict(fun, s)
  <2>1. IsFiniteSet(s) /\ g \in [s -> Fr]
    BY <1>2
  <2>2. g[m] = fun[m] /\ [x \in s \ {m} |-> g[x]] = Restrict(fun, s \ {m})
    BY DEF Restrict
  <2> HIDE DEF g
  <2>3. Product(g) = Times(g[m], Product([x \in s \ {m} |-> g[x]]))
    BY <2>1, ProductRemove
  <2> QED
    BY <2>2, <2>3 DEF ProductOn, g
<1> QED
  BY <1>1, <1>3, <1>4, <1>5 DEF ProductOn

\* Four terms, summed in two ways.
LEMMA PlusPairs ==
  ASSUME NEW a \in Fr, NEW b \in Fr, NEW c \in Fr, NEW d \in Fr
  PROVE  Plus(Plus(a, b), Plus(c, d)) = Plus(Plus(a, c), Plus(b, d))
PROOF
<1>1. Plus(c, d) \in Fr /\ Plus(b, d) \in Fr
  BY Ring
<1>2. /\ Plus(Plus(a, b), Plus(c, d)) = Plus(a, Plus(b, Plus(c, d)))
      /\ Plus(Plus(a, c), Plus(b, d)) = Plus(a, Plus(c, Plus(b, d)))
  BY <1>1, PlusAssoc
<1>3. Plus(b, Plus(c, d)) = Plus(Plus(b, c), d) /\ Plus(c, Plus(b, d)) = Plus(Plus(c, b), d)
  BY PlusAssoc
<1>4. Plus(b, c) = Plus(c, b)
  BY Ring
<1> QED
  BY <1>2, <1>3, <1>4

\* Two sums are added term by term.
LEMMA SumPlus ==
  ASSUME NEW S, IsFiniteSet(S), NEW f \in [S -> Fr], NEW g \in [S -> Fr],
         NEW h \in [S -> Fr], \A x \in S : h[x] = Plus(f[x], g[x])
  PROVE  Sum(h) = Plus(Sum(f), Sum(g))
PROOF
<1> DEFINE Good == {s \in SUBSET S : SumOn(h, s) = Plus(SumOn(f, s), SumOn(g, s))}
<1>1. {} \in Good
  <2>1. Plus(0, 0) = 0
    BY Units, Ring
  <2>2. SumOn(f, {}) = 0 /\ SumOn(g, {}) = 0 /\ SumOn(h, {}) = 0
    BY SumParts
  <2> QED
    BY <2>1, <2>2
<1>2. ASSUME NEW s \in SUBSET S, s # {}, s \ {Pick(s)} \in Good
      PROVE  s \in Good
  <2> DEFINE p == Pick(s)
             a == SumOn(f, s \ {p})
             b == SumOn(g, s \ {p})
  <2>1. p \in s
    BY <1>2 DEF Pick
  <2> HIDE DEF p
  <2>2. /\ SumOn(f, s) = Plus(f[p], a) /\ SumOn(g, s) = Plus(g[p], b)
        /\ SumOn(h, s) = Plus(h[p], SumOn(h, s \ {p}))
        /\ a \in Fr /\ b \in Fr
    BY <2>1, SumParts
  <2>3. SumOn(h, s \ {p}) = Plus(a, b)
    BY <1>2 DEF p
  <2>4. h[p] = Plus(f[p], g[p]) /\ f[p] \in Fr /\ g[p] \in Fr
    BY <2>1
  <2> HIDE DEF a, b
  <2>5. Plus(Plus(f[p], g[p]), Plus(a, b)) = Plus(Plus(f[p], a), Plus(g[p], b))
    BY <2>2, <2>4, PlusPairs
  <2> QED
    BY <2>2, <2>3, <2>4, <2>5
<1>3. S \in Good
  <2> HIDE DEF Good
  <2> QED
    BY <1>1, <1>2, SetInduction
<1> QED
  BY <1>3, SumParts

\* A common factor is taken out.
LEMMA SumTimes ==
  ASSUME NEW S, IsFiniteSet(S), NEW c \in Fr, NEW f \in [S -> Fr],
         NEW h \in [S -> Fr], \A x \in S : h[x] = Times(c, f[x])
  PROVE  Sum(h) = Times(c, Sum(f))
PROOF
<1> DEFINE Good == {s \in SUBSET S : SumOn(h, s) = Times(c, SumOn(f, s))}
<1>1. {} \in Good
  BY SumParts, Units
<1>2. ASSUME NEW s \in SUBSET S, s # {}, s \ {Pick(s)} \in Good
      PROVE  s \in Good
  <2> DEFINE p == Pick(s)
             a == SumOn(f, s \ {p})
  <2>1. p \in s
    BY <1>2 DEF Pick
  <2> HIDE DEF p
  <2>2. /\ SumOn(f, s) = Plus(f[p], a) /\ a \in Fr
        /\ SumOn(h, s) = Plus(h[p], SumOn(h, s \ {p}))
    BY <2>1, SumParts
  <2>3. SumOn(h, s \ {p}) = Times(c, a)
    BY <1>2 DEF p
  <2>4. h[p] = Times(c, f[p]) /\ f[p] \in Fr
    BY <2>1
  <2>5. Times(c, Plus(f[p], a)) = Plus(Times(c, f[p]), Times(c, a))
    BY <2>2, <2>4, Distributes
  <2> QED
    BY <2>2, <2>3, <2>4, <2>5
<1>3. S \in Good
  <2> HIDE DEF Good
  <2> QED
    BY <1>1, <1>2, SetInduction
<1> QED
  BY <1>3, SumParts

\* If all terms but one are zero, it is the sum.
LEMMA SumZeros ==
  ASSUME NEW S, IsFiniteSet(S), NEW f \in [S -> Fr], \A x \in S : f[x] = 0
  PROVE  Sum(f) = 0
PROOF
<1>1. 0 \in Fr /\ \A x \in S : f[x] = Times(0, f[x])
  BY Units, Ring
<1>2. Sum(f) = Times(0, Sum(f))
  BY <1>1, SumTimes
<1> QED
  BY <1>2, SumInFr, Units

\* A sum with one term that may differ from zero is that term.
LEMMA SumSingle ==
  ASSUME NEW S, IsFiniteSet(S), NEW f \in [S -> Fr], NEW m \in S,
         \A x \in S \ {m} : f[x] = 0
  PROVE  Sum(f) = f[m]
PROOF
<1> DEFINE g == [x \in S \ {m} |-> f[x]]
<1>1. IsFiniteSet(S \ {m}) /\ g \in [S \ {m} -> Fr] /\ \A x \in S \ {m} : g[x] = 0
  BY FS_RemoveElement
<1>2. Sum(f) = Plus(f[m], Sum(g))
  BY SumRemove
<1> HIDE DEF g
<1>3. Sum(g) = 0
  BY <1>1, SumZeros
<1> QED
  BY <1>2, <1>3, Units

\* G and H hold the sums of the rows and of the columns of the table F, and C
\* is the table by columns.
RowsAndColumns(A, B, F, C, G, H) ==
    /\ IsFiniteSet(A) /\ IsFiniteSet(B)
    /\ F \in [A -> [B -> Fr]] /\ C \in [B -> [A -> Fr]]
    /\ \A a \in A, b \in B : C[b][a] = F[a][b]
    /\ G \in [A -> Fr] /\ \A a \in A : G[a] = Sum(F[a])
    /\ H \in [B -> Fr] /\ \A b \in B : H[b] = Sum(C[b])

\* A double sum may be taken in either order.
LEMMA SumSwap ==
  ASSUME NEW A, NEW B, NEW F, NEW C, NEW G, NEW H, RowsAndColumns(A, B, F, C, G, H)
  PROVE  Sum(G) = Sum(H)
PROOF
<1> DEFINE Row(s) == [b \in B |-> SumOn(C[b], s)]
           Good == {s \in SUBSET A : SumOn(G, s) = Sum(Row(s))}
<1>1. IsFiniteSet(A) /\ IsFiniteSet(B)
  BY DEF RowsAndColumns
<1>2. /\ F \in [A -> [B -> Fr]] /\ C \in [B -> [A -> Fr]]
      /\ G \in [A -> Fr] /\ H \in [B -> Fr]
  BY DEF RowsAndColumns
<1>3. \A b \in B : C[b] \in [A -> Fr]
  BY <1>2
<1>4. ASSUME NEW b \in B
      PROVE  /\ SumOn(C[b], {}) = 0 /\ SumOn(C[b], A) = Sum(C[b])
             /\ \A s \in SUBSET A :
                    /\ SumOn(C[b], s) \in Fr
                    /\ \A p \in s : SumOn(C[b], s) = Plus(C[b][p], SumOn(C[b], s \ {p}))
  <2> DEFINE c == C[b]
  <2>1. c \in [A -> Fr]
    BY <1>3
  <2> HIDE DEF c
  <2>2. /\ SumOn(c, {}) = 0 /\ SumOn(c, A) = Sum(c)
        /\ \A s \in SUBSET A :
               /\ SumOn(c, s) \in Fr
               /\ \A p \in s : SumOn(c, s) = Plus(c[p], SumOn(c, s \ {p}))
    BY <1>1, <2>1, SumParts
  <2> QED
    BY <2>2 DEF c
<1>5. \A s \in SUBSET A : Row(s) \in [B -> Fr]
  BY <1>4
<1>6. \A s \in SUBSET A, b \in B : Row(s)[b] = SumOn(C[b], s)
  OBVIOUS
<1> HIDE DEF Row
<1>7. {} \in Good
  <2>1. \A b \in B : Row({})[b] = 0
    BY <1>4, <1>6
  <2>2. Sum(Row({})) = 0
    BY <1>1, <1>5, <2>1, SumZeros
  <2> QED
    BY <1>1, <1>2, <2>2, SumParts
<1>8. ASSUME NEW s \in SUBSET A, s # {}, s \ {Pick(s)} \in Good
      PROVE  s \in Good
  <2> DEFINE p == Pick(s)
             r == s \ {p}
             f == F[p]
             new == Row(s)
             old == Row(r)
  <2>1. p \in s /\ p \in A /\ r \in SUBSET A
    BY <1>8 DEF Pick
  <2>2. SumOn(G, r) = Sum(old)
    BY <1>8
  <2> HIDE DEF p
  <2>3. \A b \in B : C[b][p] = f[b]
    BY <2>1 DEF RowsAndColumns
  <2>4. \A b \in B : new[b] = Plus(f[b], old[b])
    BY <1>4, <1>6, <2>1, <2>3
  <2>5. SumOn(G, s) = Plus(G[p], SumOn(G, r))
    <3> HIDE DEF Good, f, new, old
    <3>1. G \in [A -> Fr]
      BY <1>2
    <3>2. SumOn(G, s) = Plus(G[p], SumOn(G, s \ {p}))
      BY <1>1, <2>1, <3>1, SumParts
    <3> QED
      BY <3>2
  <2>6. new \in [B -> Fr] /\ old \in [B -> Fr] /\ f \in [B -> Fr]
    BY <1>2, <1>5, <2>1
  <2>7. G[p] = Sum(f)
    BY <2>1 DEF RowsAndColumns
  <2>8. SumOn(G, s) = Sum(new)
    <3> HIDE DEF r, f, new, old
    <3>1. Sum(new) = Plus(Sum(f), Sum(old))
      BY <1>1, <2>4, <2>6, SumPlus
    <3> QED
      BY <2>2, <2>5, <2>7, <3>1
  <2> QED
    BY <2>8
<1>9. A \in Good
  <2> HIDE DEF Good
  <2> QED
    BY <1>1, <1>7, <1>8, SetInduction
<1>10. Row(A) = H
  <2>1. \A b \in B : Row(A)[b] = Sum(C[b])
    BY <1>4, <1>6
  <2>2. \A b \in B : H[b] = Sum(C[b])
    BY DEF RowsAndColumns
  <2> QED
    BY <1>2, <1>5, <2>1, <2>2
<1>11. SumOn(G, A) = Sum(Row(A))
  BY <1>9
<1> QED
  BY <1>1, <1>2, <1>10, <1>11, SumParts

\* A product of scalars other than zero is not zero.
LEMMA ProductNonZero ==
  ASSUME NEW S, IsFiniteSet(S), NEW f \in [S -> NonZero]
  PROVE  Product(f) \in NonZero
PROOF
<1> DEFINE Good == {s \in SUBSET S : ProductOn(f, s) \in NonZero}
<1>1. f \in [S -> Fr]
  BY NonZeroFacts
<1>2. {} \in Good
  BY <1>1, ProductParts, NonZeroFacts
<1>3. ASSUME NEW s \in SUBSET S, s # {}, s \ {Pick(s)} \in Good
      PROVE  s \in Good
  <2>1. Pick(s) \in s
    BY <1>3 DEF Pick
  <2>2. ProductOn(f, s) = Times(f[Pick(s)], ProductOn(f, s \ {Pick(s)}))
    BY <1>1, <2>1, ProductParts
  <2> QED
    BY <1>3, <2>1, <2>2, NoZeroDivisors
<1>4. S \in Good
  <2> HIDE DEF Good
  <2> QED
    BY <1>2, <1>3, SetInduction
<1> QED
  BY <1>1, <1>4, ProductParts

-----------------------------------------------------------------------------
(* The first t indices.                                                    *)

\* A nonempty set of indices has a least and a largest member.
LEMMA LeastIndex ==
  ASSUME NEW K \in SUBSET Nat, K # {}
  PROVE  \E m \in K : \A k \in K : m <= k
PROOF
<1>1. PICK n \in K : \A k \in K : <<k, n>> \notin OpToRel(<, Nat)
  BY WFMin, NatLessThanWellFounded
<1>2. ASSUME NEW k \in K
      PROVE  n <= k
  <2> SUFFICES ASSUME k < n PROVE FALSE
    OBVIOUS
  <2>1. k \in Nat /\ n \in Nat
    OBVIOUS
  <2>2. <<k, n>> \in OpToRel(<, Nat)
    BY <2>1, Zenon DEF OpToRel
  <2> QED
    BY <1>1, <2>2
<1> QED
  BY <1>2

\* The largest one, if the set is finite.
LEMMA LargestIndex ==
  ASSUME NEW K \in SUBSET Nat, IsFiniteSet(K), K # {}
  PROVE  \E m \in K : \A k \in K : k <= m
PROOF
<1> DEFINE Good == {s \in SUBSET K : s # {} => \E m \in s : \A k \in s : k <= m}
<1>1. {} \in Good
  OBVIOUS
<1>2. ASSUME NEW s \in SUBSET K, s # {}, s \ {Pick(s)} \in Good
      PROVE  s \in Good
  <2> DEFINE p == Pick(s)
             r == s \ {p}
  <2>1. p \in s /\ s = r \cup {p} /\ s \subseteq Nat
    BY <1>2 DEF Pick
  <2>2. r # {} => \E m \in r : \A k \in r : k <= m
    BY <1>2
  <2> HIDE DEF p, r
  <2>3. CASE r = {}
    BY <2>1, <2>3
  <2>4. CASE r # {}
    <3>1. PICK m \in r : \A k \in r : k <= m
      BY <2>2, <2>4
    <3>2. CASE p <= m
      BY <2>1, <3>1, <3>2
    <3>3. CASE ~(p <= m)
      <4>1. \A k \in s : k <= p
        BY <2>1, <3>1, <3>3
      <4> QED
        BY <2>1, <4>1
    <3> QED
      BY <3>2, <3>3
  <2> QED
    BY <2>3, <2>4
<1>3. K \in Good
  <2> HIDE DEF Good
  <2> QED
    BY <1>1, <1>2, SetInduction
<1> QED
  BY <1>3

\* Of at least t indices, the list that is handed to LagrangeCoeffs names
\* exactly t, because each further one comes after them.
LEMMA LowestHasT ==
  ASSUME NEW S \in SUBSET Nat, IsFiniteSet(S), NEW t \in Nat, t > 0, Cardinality(S) >= t
  PROVE  Cardinality(Lowest(t, S)) = t
PROOF
<1> DEFINE Good == {K \in SUBSET S : Cardinality(K) >= t => Cardinality(Lowest(t, K)) = t}
<1>1. ASSUME NEW K \in SUBSET S, \A J \in SUBSET K : J # K => J \in Good,
             Cardinality(K) >= t
      PROVE  Cardinality(Lowest(t, K)) = t
  <2>1. K \in SUBSET Nat /\ IsFiniteSet(K) /\ Cardinality(K) \in Nat
    BY FS_Subset, FS_CardinalityType
  <2>2. CASE Cardinality(K) = t
    <3>1. ASSUME NEW i \in K
          PROVE  Cardinality({j \in K : j < i}) < t
      <4>1. {j \in K : j < i} \subseteq K \ {i}
        BY <2>1
      <4>2. IsFiniteSet(K \ {i}) /\ Cardinality(K \ {i}) = t - 1
        BY <2>1, <2>2, FS_RemoveElement
      <4>3. /\ Cardinality({j \in K : j < i}) <= Cardinality(K \ {i})
            /\ Cardinality({j \in K : j < i}) \in Nat
        BY <4>1, <4>2, FS_Subset, FS_CardinalityType
      <4> QED
        BY <4>2, <4>3
    <3>2. Lowest(t, K) = K
      BY <3>1 DEF Lowest
    <3> QED
      BY <2>2, <3>2
  <2>3. CASE Cardinality(K) > t
    <3>1. K # {}
      BY <2>1, <2>3, FS_EmptySet
    <3>2. PICK m \in K : \A k \in K : k <= m
      BY <2>1, <3>1, LargestIndex
    <3> DEFINE J == K \ {m}
    <3>3. J \in SUBSET K /\ J # K /\ Cardinality(J) = Cardinality(K) - 1
      BY <2>1, FS_RemoveElement
    <3>4. {j \in K : j < m} = J
      <4>1. \A j \in K : j < m <=> j # m
        BY <2>1, <3>2
      <4> QED
        BY <4>1
    <3>5. m \notin Lowest(t, K)
      <4>1. ~(Cardinality(J) < t)
        BY <2>1, <2>3, <3>3
      <4> QED
        BY <3>4, <4>1, Zenon DEF Lowest
    <3>6. \A i \in J : {j \in K : j < i} = {j \in J : j < i}
      BY <2>1, <3>2
    <3>7. Lowest(t, K) = Lowest(t, J)
      BY <3>5, <3>6 DEF Lowest
    <3>8. Cardinality(J) >= t /\ J \in Good
      BY <1>1, <2>1, <2>3, <3>3
    <3> QED
      BY <3>7, <3>8
  <2> QED
    BY <1>1, <2>1, <2>2, <2>3
<1>2. S \in Good
  <2>1. \A K \in SUBSET S : (\A J \in SUBSET K : J # K => J \in Good) => K \in Good
    BY <1>1
  <2> HIDE DEF Good
  <2> QED
    BY <2>1, StrongSetInduction
<1> QED
  BY <1>2

-----------------------------------------------------------------------------
(***************************************************************************)
(* Lagrange interpolation at zero, for the coefficients that               *)
(* ThresholdUtils::LagrangeCoeffs computes.                                *)
(*                                                                         *)
(* Let L(K, i) be the coefficient of i in the set K of indices and call    *)
(* the sum over i in K of i^k L(K, i) the k-th moment of K.  From          *)
(*     i L(K, i) + m L(K \ {m}, i) = m L(K, i)                             *)
(* the moments of K follow from those of K \ {m}: the moment 0 is 1, those *)
(* from 1 to |K| - 1 are 0.  A polynomial of |K| coefficients is a sum of  *)
(* powers, so that its values at K interpolate to its constant term.       *)
(***************************************************************************)

-----------------------------------------------------------------------------
(* The coefficients.                                                       *)

\* The product of the indices in s, and that of the distances from i in K.
IndexProduct(s) == Product([j \in s |-> j])
Distances(K, i) == Product([j \in K \ {i} |-> Minus(j, i)])

\* An index may be taken out of the product.
LEMMA IndexProductRemove ==
  ASSUME NEW K \in SUBSET NonZero, IsFiniteSet(K)
  PROVE  /\ IndexProduct(K) \in NonZero
         /\ \A m \in K : IndexProduct(K) = Times(m, IndexProduct(K \ {m}))
         /\ K = {} => IndexProduct(K) = 1
PROOF
<1> DEFINE f == [j \in K |-> j]
<1>1. f \in [K -> NonZero] /\ f \in [K -> Fr]
  BY NonZeroFacts
<1>2. \A m \in K : f[m] = m /\ [x \in K \ {m} |-> f[x]] = [j \in K \ {m} |-> j]
  OBVIOUS
<1>3. IndexProduct(K) = Product(f)
  BY DEF IndexProduct
<1> HIDE DEF f
<1>4. Product(f) \in NonZero
  BY <1>1, ProductNonZero
<1>5. ASSUME NEW m \in K
      PROVE  IndexProduct(K) = Times(m, IndexProduct(K \ {m}))
  <2>1. Product(f) = Times(f[m], Product([x \in K \ {m} |-> f[x]]))
    BY <1>1, ProductRemove
  <2> QED
    BY <1>2, <1>3, <2>1 DEF IndexProduct
<1>6. K = {} => Product(f) = 1
  BY <1>1, ProductRemove
<1> QED
  BY <1>3, <1>4, <1>5, <1>6

\* So may a distance.
LEMMA DistancesRemove ==
  ASSUME NEW K \in SUBSET NonZero, IsFiniteSet(K), NEW i \in K
  PROVE  /\ Distances(K, i) \in NonZero
         /\ \A m \in K \ {i} : /\ Distances(K, i) = Times(Minus(m, i), Distances(K \ {m}, i))
                               /\ Minus(m, i) \in NonZero
         /\ K = {i} => Distances(K, i) = 1
PROOF
<1> DEFINE S == K \ {i}
           f == [j \in S |-> Minus(j, i)]
<1>1. \A j \in S : Minus(j, i) \in NonZero
  BY MinusFacts, NonZeroFacts
<1>2. IsFiniteSet(S) /\ f \in [S -> NonZero] /\ f \in [S -> Fr]
  BY <1>1, FS_RemoveElement, NonZeroFacts
<1>3. ASSUME NEW m \in S
      PROVE  f[m] = Minus(m, i) /\ [x \in S \ {m} |-> f[x]] = [j \in (K \ {m}) \ {i} |-> Minus(j, i)]
  <2>1. S \ {m} = (K \ {m}) \ {i}
    OBVIOUS
  <2>2. \A x \in S \ {m} : f[x] = Minus(x, i)
    OBVIOUS
  <2> HIDE DEF f, S
  <2>3. [x \in S \ {m} |-> f[x]] = [x \in S \ {m} |-> Minus(x, i)]
    BY <2>2
  <2> QED
    BY <2>1, <2>3 DEF f
<1>4. Distances(K, i) = Product(f)
  BY DEF Distances
<1>5. K = {i} => S = {}
  OBVIOUS
<1> HIDE DEF f
<1>6. Product(f) \in NonZero
  BY <1>2, ProductNonZero
<1>7. ASSUME NEW m \in S
      PROVE  Distances(K, i) = Times(Minus(m, i), Distances(K \ {m}, i))
  <2> HIDE DEF S
  <2>1. Product(f) = Times(f[m], Product([x \in S \ {m} |-> f[x]]))
    BY <1>2, ProductRemove
  <2> QED
    BY <1>3, <1>4, <2>1 DEF Distances
<1>8. S = {} => Product(f) = 1
  <2> HIDE DEF S
  <2> QED
    BY <1>2, ProductRemove
<1> QED
  BY <1>1, <1>4, <1>5, <1>6, <1>7, <1>8

\* A times its inverse cancels: the quotient w / (i * d) of w = i * p.
LEMMA Quotient ==
  ASSUME NEW i \in NonZero, NEW d \in NonZero, NEW p \in NonZero
  PROVE  LET q == Times(Times(i, p), Invert(Times(i, d)))
         IN  q \in NonZero /\ Times(q, d) = p
PROOF
<1> DEFINE v == Times(i, d)
           w == Times(i, p)
           n == Invert(v)
           q == Times(w, n)
<1>1. v \in NonZero /\ w \in NonZero
  BY NoZeroDivisors
<1> HIDE DEF v, w
<1>2. n \in NonZero /\ Times(v, n) = 1
  BY <1>1, InvertFacts
<1> HIDE DEF n
<1>3. q \in NonZero
  BY <1>1, <1>2, NoZeroDivisors
<1>4. /\ i \in Fr /\ d \in Fr /\ p \in Fr /\ v \in Fr /\ w \in Fr /\ n \in Fr /\ q \in Fr
      /\ q \in Nat /\ i \in Nat /\ n \in Nat /\ v \in Nat
  BY <1>1, <1>2, <1>3, NonZeroFacts, FrFacts
<1>5. Times(q, v) = w
  <2>1. Times(q, v) = Times(w, Times(n, v))
    BY <1>4, TimesAssoc
  <2>2. Times(n, v) = 1
    BY <1>2, <1>4, Commutes
  <2> QED
    BY <1>4, <2>1, <2>2, Units
<1> HIDE DEF q
<1>6. Times(q, v) = Times(i, Times(q, d))
  <2>1. Times(q, v) = Times(Times(q, i), d)
    BY <1>4, TimesAssoc DEF v
  <2>2. Times(q, i) = Times(i, q)
    BY <1>4, Commutes
  <2>3. Times(Times(i, q), d) = Times(i, Times(q, d))
    BY <1>4, TimesAssoc
  <2> QED
    BY <2>1, <2>2, <2>3
<1>7. Times(q, d) \in Fr
  BY <1>4, FrFacts
<1>8. Times(i, Times(q, d)) = Times(i, p)
  BY <1>5, <1>6 DEF w
<1>9. Times(q, d) = p
  BY <1>4, <1>7, <1>8, TimesCancel
<1> QED
  BY <1>3, <1>9 DEF q, n, v, w

\* What a Lagrange coefficient is: the product of the other indices divided by
\* that of their distances.
LEMMA LagrangeCoeffFacts ==
  ASSUME NEW K \in SUBSET NonZero, IsFiniteSet(K), NEW i \in K
  PROVE  /\ LagrangeCoeff(K, i) \in NonZero
         /\ Times(LagrangeCoeff(K, i), Distances(K, i)) = IndexProduct(K \ {i})
PROOF
<1>1. Distances(K, i) \in NonZero
  BY DistancesRemove
<1>2. K \ {i} \in SUBSET NonZero /\ IsFiniteSet(K \ {i})
  BY FS_RemoveElement
<1>3. IndexProduct(K \ {i}) \in NonZero
  BY <1>2, IndexProductRemove
<1>4. IndexProduct(K) = Times(i, IndexProduct(K \ {i}))
  BY IndexProductRemove
<1>5. LagrangeCoeff(K, i) = Times(IndexProduct(K), Invert(Times(i, Distances(K, i))))
  BY DEF LagrangeCoeff, IndexProduct, Distances
<1> QED
  BY <1>1, <1>3, <1>4, <1>5, Quotient

\* (a * b) * c = b * (a * c)
LEMMA TimesRotate ==
  ASSUME NEW a \in Fr, NEW b \in Fr, NEW c \in Fr
  PROVE  Times(Times(a, b), c) = Times(b, Times(a, c))
PROOF
<1>1. a \in Nat /\ b \in Nat
  BY FrFacts
<1>2. Times(a, b) = Times(b, a)
  BY <1>1, Commutes
<1>3. Times(Times(b, a), c) = Times(b, Times(a, c))
  BY TimesAssoc
<1> QED
  BY <1>2, <1>3

\* The coefficients of K and of K without m:  i L(K, i) + m L(K \ {m}, i) = m L(K, i).
LEMMA CoefficientStep ==
  ASSUME NEW i \in NonZero, NEW m \in NonZero, NEW e \in Fr, Plus(e, i) = m,
         NEW l \in Fr, NEW l1 \in Fr, NEW d1 \in NonZero, NEW w1 \in Fr,
         Times(l, Times(e, d1)) = Times(m, w1), Times(l1, d1) = w1
  PROVE  Plus(Times(i, l), Times(m, l1)) = Times(m, l)
PROOF
<1>1. i \in Fr /\ m \in Fr /\ d1 \in Fr
  BY NonZeroFacts
<1>2. Times(l, e) \in Fr /\ Times(m, l1) \in Fr /\ Times(l, i) \in Fr /\ Times(i, l) \in Fr
  BY <1>1, FrFacts
<1>3. Times(Times(l, e), d1) = Times(Times(m, l1), d1)
  <2>1. Times(Times(l, e), d1) = Times(l, Times(e, d1))
    BY <1>1, TimesAssoc
  <2>2. Times(Times(m, l1), d1) = Times(m, Times(l1, d1))
    BY <1>1, TimesAssoc
  <2> QED
    BY <2>1, <2>2
<1>4. \A a, b \in Fr : Times(a, b) = Times(b, a) /\ Plus(a, b) = Plus(b, a)
  BY Commutes, FrFacts
<1>5. Times(l, e) = Times(m, l1)
  <2>1. Times(d1, Times(l, e)) = Times(d1, Times(m, l1))
    BY <1>1, <1>2, <1>3, <1>4
  <2> QED
    BY <1>2, <2>1, TimesCancel
<1>6. Times(l, m) = Plus(Times(l, e), Times(l, i))
  BY <1>1, Distributes
<1> QED
  BY <1>1, <1>2, <1>4, <1>5, <1>6

\* The last lemma for the coefficients that LagrangeCoeffs computes.
LEMMA CoefficientsOfLess ==
  ASSUME NEW K \in SUBSET NonZero, IsFiniteSet(K), NEW m \in K, NEW i \in K \ {m}
  PROVE  Plus(Times(i, LagrangeCoeff(K, i)), Times(m, LagrangeCoeff(K \ {m}, i)))
             = Times(m, LagrangeCoeff(K, i))
PROOF
<1> DEFINE J == K \ {m}
           l == LagrangeCoeff(K, i)
           l1 == LagrangeCoeff(J, i)
           e == Minus(m, i)
           d1 == Distances(J, i)
           w1 == IndexProduct(J \ {i})
<1>1. J \in SUBSET NonZero /\ IsFiniteSet(J) /\ i \in J /\ m \in K \ {i}
  BY FS_RemoveElement
<1>2. (K \ {i}) \ {m} = J \ {i} /\ K \ {i} \in SUBSET NonZero /\ IsFiniteSet(K \ {i})
  BY FS_RemoveElement
<1> HIDE DEF J
<1>3. l \in NonZero /\ Times(l, Distances(K, i)) = IndexProduct(K \ {i})
  BY LagrangeCoeffFacts
<1>4. l1 \in NonZero /\ Times(l1, d1) = w1
  BY <1>1, LagrangeCoeffFacts
<1>5. Distances(K, i) = Times(e, d1)
  BY <1>1, DistancesRemove DEF J
<1>6. d1 \in NonZero
  BY <1>1, DistancesRemove
<1>7. IndexProduct(K \ {i}) = Times(m, IndexProduct((K \ {i}) \ {m}))
  <2> DEFINE R == K \ {i}
  <2>1. m \in R /\ R \in SUBSET NonZero /\ IsFiniteSet(R)
    BY <1>1, <1>2
  <2> HIDE DEF R
  <2>2. IndexProduct(R) = Times(m, IndexProduct(R \ {m}))
    BY <2>1, IndexProductRemove
  <2> QED
    BY <2>2 DEF R
<1>8. w1 \in NonZero
  <2>1. J \ {i} \in SUBSET NonZero /\ IsFiniteSet(J \ {i})
    BY <1>1, FS_RemoveElement
  <2> QED
    BY <2>1, IndexProductRemove
<1>9. e \in Fr /\ Plus(e, i) = m
  BY <1>1, NonZeroFacts, MinusFacts
<1>10. Times(l, Times(e, d1)) = Times(m, w1)
  BY <1>2, <1>3, <1>5, <1>7
<1>11. l \in Fr /\ l1 \in Fr /\ w1 \in Fr /\ i \in NonZero /\ m \in NonZero
  BY <1>3, <1>4, <1>8, NonZeroFacts
<1> HIDE DEF l, l1, e, d1, w1
<1>12. Plus(Times(i, l), Times(m, l1)) = Times(m, l)
  BY <1>4, <1>6, <1>9, <1>10, <1>11, CoefficientStep
<1> QED
  BY <1>12 DEF l, l1, J

-----------------------------------------------------------------------------
(* The moments.                                                            *)

\* Powers of a scalar.
LEMMA PowerFacts ==
  ASSUME NEW x \in Fr, NEW k \in Nat
  PROVE  /\ Power(x, k) \in Fr
         /\ Power(x, 0) = 1
         /\ Power(x, k + 1) = Times(x, Power(x, k))
PROOF
<1> DEFINE f == [j \in 1..(k + 1) |-> x]
           e == [j \in 1..0 |-> x]
<1>1. IsFiniteSet(1..k) /\ IsFiniteSet(1..(k + 1)) /\ IsFiniteSet(1..0)
  BY FS_Interval
<1>2. Power(x, k) \in Fr
  <2>1. [j \in 1..k |-> x] \in [1..k -> Fr]
    OBVIOUS
  <2> QED
    BY <1>1, <2>1, ProductInFr DEF Power
<1>3. Power(x, 0) = 1
  <2>1. e \in [1..0 -> Fr] /\ 1..0 = {}
    OBVIOUS
  <2>2. Power(x, 0) = Product(e)
    BY DEF Power
  <2> HIDE DEF e
  <2> QED
    BY <1>1, <2>1, <2>2, ProductRemove
<1>4. Power(x, k + 1) = Times(x, Power(x, k))
  <2>1. (1..(k + 1)) \ {k + 1} = 1..k /\ k + 1 \in 1..(k + 1)
    OBVIOUS
  <2>2. [j \in 1..k |-> f[j]] = [j \in 1..k |-> x] /\ f[k + 1] = x
    BY <2>1
  <2>3. f \in [1..(k + 1) -> Fr] /\ Power(x, k + 1) = Product(f)
    BY DEF Power
  <2> DEFINE S == 1..(k + 1)
             m == k + 1
  <2>4. m \in S /\ IsFiniteSet(S) /\ f \in [S -> Fr] /\ S \ {m} = 1..k
    BY <1>1, <2>1, <2>3
  <2> HIDE DEF f, S, m
  <2>5. Product(f) = Times(f[m], Product([j \in S \ {m} |-> f[j]]))
    BY <2>4, ProductRemove
  <2>6. f[m] = x
    BY <2>2 DEF m
  <2> QED
    BY <2>2, <2>3, <2>4, <2>5, <2>6 DEF Power
<1> QED
  BY <1>2, <1>3, <1>4

\* What Recover makes of the k-th powers of the indices.
Moment(K, k) == Sum([i \in K |-> Times(Power(i, k), LagrangeCoeff(K, i))])

\* One term of the next lemma.
LEMMA MomentTerm ==
  ASSUME NEW q \in Fr, NEW i \in Fr, NEW m \in Fr, NEW l \in Fr, NEW l1 \in Fr,
         Plus(Times(i, l), Times(m, l1)) = Times(m, l)
  PROVE  Times(m, Times(q, l)) = Plus(Times(Times(i, q), l), Times(m, Times(q, l1)))
PROOF
<1>1. Times(i, l) \in Fr /\ Times(m, l1) \in Fr
  BY FrFacts
<1>2. Times(q, Times(m, l)) = Plus(Times(q, Times(i, l)), Times(q, Times(m, l1)))
  BY <1>1, Distributes
<1>3. \A a \in Fr, b \in Fr : Times(q, Times(a, b)) = Times(a, Times(q, b))
  <2> TAKE a \in Fr, b \in Fr
  <2>1. Times(Times(a, q), b) = Times(q, Times(a, b)) /\ Times(Times(a, q), b) = Times(a, Times(q, b))
    BY TimesRotate, TimesAssoc
  <2> QED
    BY <2>1
<1>4. Times(Times(i, q), l) = Times(i, Times(q, l))
  BY TimesAssoc
<1> QED
  BY <1>2, <1>3, <1>4

\* A moment is an element of Fr.
LEMMA MomentInFr ==
  ASSUME NEW K \in SUBSET NonZero, IsFiniteSet(K), NEW k \in Nat
  PROVE  /\ [i \in K |-> Times(Power(i, k), LagrangeCoeff(K, i))] \in [K -> Fr]
         /\ Moment(K, k) \in Fr
PROOF
<1> DEFINE f == [i \in K |-> Times(Power(i, k), LagrangeCoeff(K, i))]
<1>1. \A i \in K : Power(i, k) \in Fr /\ LagrangeCoeff(K, i) \in Fr
  BY NonZeroFacts, PowerFacts, LagrangeCoeffFacts
<1>2. \A i \in K : Times(Power(i, k), LagrangeCoeff(K, i)) \in Fr
  BY <1>1, FrFacts
<1>3. f \in [K -> Fr] /\ Moment(K, k) = Sum(f)
  BY <1>2 DEF Moment
<1> HIDE DEF f
<1>4. Sum(f) \in Fr
  BY <1>3, SumInFr
<1> QED
  BY <1>3, <1>4 DEF f

\* The moments of K, from those of K without m.
LEMMA MomentStep ==
  ASSUME NEW K \in SUBSET NonZero, IsFiniteSet(K), NEW k \in Nat, NEW m \in K
  PROVE  Times(m, Moment(K, k)) = Plus(Moment(K, k + 1), Times(m, Moment(K \ {m}, k)))
PROOF
<1> DEFINE J == K \ {m}
           f == [i \in K |-> Times(Power(i, k), LagrangeCoeff(K, i))]
           g == [i \in K |-> Times(Power(i, k + 1), LagrangeCoeff(K, i))]
           r == [i \in J |-> Times(Power(i, k), LagrangeCoeff(J, i))]
           mf == [i \in K |-> Times(m, f[i])]
           fm == [i \in J |-> mf[i]]
           gm == [i \in J |-> g[i]]
           mr == [i \in J |-> Times(m, r[i])]
<1>1. m \in Fr /\ J \in SUBSET NonZero /\ IsFiniteSet(J) /\ k + 1 \in Nat
  BY NonZeroFacts, FS_RemoveElement
<1>2. f \in [K -> Fr] /\ g \in [K -> Fr] /\ r \in [J -> Fr]
  <2> HIDE DEF J
  <2> QED
    BY <1>1, MomentInFr
<1>3. Moment(K, k) = Sum(f) /\ Moment(K, k + 1) = Sum(g) /\ Moment(J, k) = Sum(r)
  BY DEF Moment
<1>4. ASSUME NEW i \in J
      PROVE  Times(m, f[i]) = Plus(g[i], Times(m, r[i]))
  <2> DEFINE q == Power(i, k)
             l == LagrangeCoeff(K, i)
             l1 == LagrangeCoeff(J, i)
  <2>1. Plus(Times(i, l), Times(m, l1)) = Times(m, l)
    BY CoefficientsOfLess
  <2>2. q \in Fr /\ Power(i, k + 1) = Times(i, q) /\ i \in Fr
    BY NonZeroFacts, PowerFacts
  <2>3. l \in Fr
    BY LagrangeCoeffFacts, NonZeroFacts
  <2>4. l1 \in Fr
    <3> HIDE DEF J
    <3> QED
      BY <1>1, LagrangeCoeffFacts, NonZeroFacts
  <2>5. f[i] = Times(q, l) /\ g[i] = Times(Power(i, k + 1), l) /\ r[i] = Times(q, l1)
    OBVIOUS
  <2> HIDE DEF q, l, l1, f, g, r
  <2>6. Times(m, Times(q, l)) = Plus(Times(Times(i, q), l), Times(m, Times(q, l1)))
    BY <1>1, <2>1, <2>2, <2>3, <2>4, MomentTerm
  <2> QED
    BY <2>2, <2>5, <2>6
<1>5. Times(m, f[m]) = g[m]
  <2> DEFINE q == Power(m, k)
             l == LagrangeCoeff(K, m)
  <2>1. q \in Fr /\ Power(m, k + 1) = Times(m, q) /\ l \in Fr
    BY <1>1, PowerFacts, LagrangeCoeffFacts, NonZeroFacts
  <2>2. f[m] = Times(q, l) /\ g[m] = Times(Power(m, k + 1), l)
    OBVIOUS
  <2> HIDE DEF q, l, f, g
  <2>3. Times(Times(m, q), l) = Times(m, Times(q, l))
    BY <1>1, <2>1, TimesAssoc
  <2> QED
    BY <2>1, <2>2, <2>3
<1> HIDE DEF f, g, r
<1>6. /\ mf \in [K -> Fr] /\ fm \in [J -> Fr] /\ gm \in [J -> Fr] /\ mr \in [J -> Fr]
      /\ \A i \in K : mf[i] = Times(m, f[i])
      /\ \A i \in J : fm[i] = Plus(gm[i], mr[i])
      /\ \A i \in J : mr[i] = Times(m, r[i])
  <2>1. \A i \in K : Times(m, f[i]) \in Fr
    BY <1>1, <1>2, FrFacts
  <2>2. \A i \in J : Times(m, r[i]) \in Fr
    BY <1>1, <1>2, FrFacts
  <2> QED
    BY <1>2, <1>4, <2>1, <2>2
<1>7. mf[m] = g[m]
  BY <1>5
<1>8. fm = [i \in K \ {m} |-> mf[i]] /\ gm = [i \in K \ {m} |-> g[i]]
  OBVIOUS
<1> HIDE DEF mf, fm, gm, mr, J
<1>9. Sum(mf) = Times(m, Sum(f))
  BY <1>1, <1>2, <1>6, SumTimes
<1>10. Sum(mr) = Times(m, Sum(r))
  BY <1>1, <1>2, <1>6, SumTimes
<1>11. Sum(fm) = Plus(Sum(gm), Sum(mr))
  BY <1>1, <1>6, SumPlus
<1>12. Sum(mf) = Plus(mf[m], Sum(fm)) /\ Sum(g) = Plus(g[m], Sum(gm))
  BY <1>2, <1>6, <1>8, SumRemove
<1>13. g[m] \in Fr /\ Sum(gm) \in Fr /\ Sum(mr) \in Fr
  BY <1>1, <1>2, <1>6, SumInFr
<1>14. Plus(g[m], Plus(Sum(gm), Sum(mr))) = Plus(Plus(g[m], Sum(gm)), Sum(mr))
  BY <1>13, PlusAssoc
<1> QED
  BY <1>3, <1>7, <1>9, <1>10, <1>11, <1>12, <1>14 DEF J

\* The coefficients of one index alone and of the sum over K.
LEMMA MomentOfOne ==
  ASSUME NEW m \in NonZero
  PROVE  Moment({m}, 0) = 1
PROOF
<1> DEFINE f == [i \in {m} |-> Times(Power(i, 0), LagrangeCoeff({m}, i))]
<1>1. {m} \in SUBSET NonZero /\ IsFiniteSet({m}) /\ {m} \ {m} = {} /\ m \in {m}
  BY FS_Singleton
<1>2. LagrangeCoeff({m}, m) \in NonZero /\ Times(LagrangeCoeff({m}, m), Distances({m}, m)) = IndexProduct({m} \ {m})
  BY <1>1, LagrangeCoeffFacts
<1>3. Distances({m}, m) = 1
  BY <1>1, DistancesRemove
<1>4. IndexProduct({m} \ {m}) = 1
  <2>1. {} \in SUBSET NonZero /\ IsFiniteSet({})
    BY FS_EmptySet
  <2> QED
    BY <1>1, <2>1, IndexProductRemove
<1>5. LagrangeCoeff({m}, m) = 1
  BY <1>2, <1>3, <1>4, Units, NonZeroFacts
<1>6. Power(m, 0) = 1
  BY PowerFacts, NonZeroFacts
<1>7. f[m] = 1
  BY <1>5, <1>6, Units, Ring
<1>8. f \in [{m} -> Fr] /\ Moment({m}, 0) = Sum(f) /\ \A x \in {m} \ {m} : f[x] = 0
  BY <1>7, Ring DEF Moment
<1> HIDE DEF f
<1>9. Sum(f) = f[m]
  BY <1>1, <1>8, SumSingle
<1> QED
  BY <1>7, <1>8, <1>9

\* The sum of the coefficients is 1.
LEMMA MomentZero ==
  ASSUME NEW S \in SUBSET NonZero, IsFiniteSet(S), S # {}
  PROVE  Moment(S, 0) = 1
PROOF
<1> DEFINE Good == {s \in SUBSET S : s # {} => Moment(s, 0) = 1}
<1>1. ASSUME NEW K \in SUBSET S, \A r \in SUBSET K : r # K => r \in Good
      PROVE  K \in Good
  <2> SUFFICES ASSUME K # {} PROVE Moment(K, 0) = 1
    OBVIOUS
  <2>1. PICK m \in K : TRUE
    OBVIOUS
  <2>2. K \in SUBSET NonZero /\ IsFiniteSet(K) /\ m \in NonZero
    BY FS_Subset
  <2>3. CASE K = {m}
    BY <2>2, <2>3, MomentOfOne
  <2>4. CASE K # {m}
    <3>1. PICK n \in K : n # m
      BY <2>4
    <3>2. Moment(K \ {m}, 0) = 1 /\ Moment(K \ {n}, 0) = 1
      <4>1. K \ {m} \in SUBSET K /\ K \ {m} # K /\ K \ {m} # {}
        BY <3>1
      <4>2. K \ {n} \in SUBSET K /\ K \ {n} # K /\ K \ {n} # {}
        BY <3>1
      <4> QED
        BY <1>1, <4>1, <4>2
    <3> DEFINE s == Moment(K, 0)
               u == Moment(K, 1)
               e == Minus(m, n)
    <3>3. s \in Fr /\ u \in Fr
      BY <2>2, MomentInFr
    <3>4. m \in Fr /\ n \in Fr
      BY <2>2, NonZeroFacts
    <3>5. Times(m, s) = Plus(u, m)
      <4>1. Times(m, s) = Plus(Moment(K, 0 + 1), Times(m, Moment(K \ {m}, 0)))
        BY <2>2, MomentStep
      <4> QED
        BY <3>2, <3>4, <4>1, Units
    <3>6. Times(n, s) = Plus(u, n)
      <4>1. Times(n, s) = Plus(Moment(K, 0 + 1), Times(n, Moment(K \ {n}, 0)))
        BY <2>2, MomentStep
      <4> QED
        BY <3>2, <3>4, <4>1, Units
    <3> HIDE DEF s, u
    <3>7. e \in NonZero /\ Plus(e, n) = m
      BY <3>1, <3>4, MinusFacts, NonZeroFacts
    <3>8. e \in Fr
      BY <3>7, NonZeroFacts
    <3> HIDE DEF e
    <3>9. Plus(Times(e, s), Times(n, s)) = Plus(Plus(u, e), n)
      <4>1. \A a \in Fr, b \in Fr : Times(a, b) = Times(b, a)
        BY Ring
      <4>2. Times(s, m) = Plus(Times(s, e), Times(s, n))
        BY <3>3, <3>4, <3>7, <3>8, Distributes
      <4>3. Plus(Plus(u, e), n) = Plus(u, Plus(e, n))
        BY <3>3, <3>4, <3>8, PlusAssoc
      <4> QED
        BY <3>3, <3>4, <3>5, <3>7, <3>8, <4>1, <4>2, <4>3
    <3>10. Plus(Times(e, s), Times(n, s)) = Plus(e, Times(n, s))
      <4>1. Plus(u, e) = Plus(e, u)
        BY <3>3, <3>8, Ring
      <4>2. Plus(Plus(e, u), n) = Plus(e, Plus(u, n))
        BY <3>3, <3>4, <3>8, PlusAssoc
      <4> QED
        BY <3>6, <3>9, <4>1, <4>2
    <3>11. Times(e, s) \in Fr /\ Times(n, s) \in Fr
      BY <3>3, <3>4, <3>8, Ring
    <3>12. Times(e, s) = e
      BY <3>8, <3>10, <3>11, PlusCancel
    <3>13. Times(e, s) = Times(e, 1)
      BY <3>8, <3>12, Units
    <3>14. s = 1
      BY <3>3, <3>7, <3>13, TimesCancel, Ring
    <3> QED
      BY <3>14 DEF s
  <2> QED
    BY <2>3, <2>4
<1>2. S \in Good
  <2> HIDE DEF Good
  <2> QED
    BY <1>1, StrongSetInduction
<1> QED
  BY <1>2

-----------------------------------------------------------------------------
(* Interpolation.                                                          *)

\* The moments from 1 up to the number of indices less one are zero.
LEMMA MomentsVanish ==
  ASSUME NEW S \in SUBSET NonZero, IsFiniteSet(S)
  PROVE  \A k \in Nat : k >= 1 /\ k < Cardinality(S) => Moment(S, k) = 0
PROOF
<1> DEFINE Good == {k \in Nat : \A s \in SUBSET S :
                       k >= 1 /\ k < Cardinality(s) => Moment(s, k) = 0}
<1>1. 0 \in Good
  OBVIOUS
<1>2. ASSUME NEW k \in Nat, k \in Good, NEW s \in SUBSET S, k + 1 < Cardinality(s)
      PROVE  Moment(s, k + 1) = 0
  <2>1. s \in SUBSET NonZero /\ IsFiniteSet(s)
    BY FS_Subset
  <2>2. Cardinality(s) \in Nat
    BY <2>1, FS_CardinalityType
  <2>3. s # {}
    BY <1>2, <2>2, FS_EmptySet
  <2>4. PICK m \in s : TRUE
    BY <2>3
  <2> DEFINE r == s \ {m}
             u == Moment(s, k + 1)
  <2>5. r \in SUBSET S /\ r \in SUBSET NonZero /\ IsFiniteSet(r) /\ Cardinality(r) = Cardinality(s) - 1
    BY <2>1, FS_RemoveElement
  <2>6. k < Cardinality(s) /\ k < Cardinality(r) /\ r # {}
    <3>1. k < Cardinality(s) /\ k < Cardinality(r) /\ Cardinality(r) > 0
      BY <1>2, <2>2, <2>5
    <3> QED
      BY <3>1, FS_EmptySet
  <2>7. Times(m, Moment(s, k)) = Plus(u, Times(m, Moment(r, k)))
    BY <2>1, <2>4, MomentStep
  <2>8. Moment(s, k) = Moment(r, k)
    <3>1. CASE k = 0
      BY <2>1, <2>3, <2>5, <2>6, <3>1, MomentZero
    <3>2. CASE k # 0
      BY <1>2, <2>5, <2>6, <3>2
    <3> QED
      BY <3>1, <3>2
  <2>9. u \in Fr /\ Times(m, Moment(s, k)) \in Fr
    <3>1. Moment(s, k) \in Fr /\ u \in Fr
      BY <2>1, MomentInFr
    <3> QED
      BY <2>1, <3>1, FrFacts, NonZeroFacts
  <2> HIDE DEF u, r
  <2>10. Plus(0, Times(m, Moment(s, k))) = Plus(u, Times(m, Moment(s, k)))
    BY <2>7, <2>8, <2>9, Units
  <2>11. u = 0
    BY <2>9, <2>10, PlusCancel, Ring
  <2> QED
    BY <2>11 DEF u
<1>3. \A k \in Nat : k \in Good => k + 1 \in Good
  BY <1>2
<1>4. \A k \in Nat : k \in Good
  <2> HIDE DEF Good
  <2> QED
    BY <1>1, <1>3, NatSetInduction
<1> QED
  BY <1>4

\* (h * p) * (q * l) = (l * h) * (p * q)
LEMMA TimesPairs ==
  ASSUME NEW h \in Fr, NEW p \in Fr, NEW q \in Fr, NEW l \in Fr
  PROVE  Times(Times(h, p), Times(q, l)) = Times(Times(l, h), Times(p, q))
PROOF
<1>1. \A a \in Fr, b \in Fr : Times(a, b) = Times(b, a) /\ Times(a, b) \in Fr
  BY Ring
<1>2. Times(Times(h, p), Times(q, l)) = Times(Times(q, l), Times(h, p))
  BY <1>1
<1>3. Times(Times(l, q), Times(h, p)) = Times(l, Times(q, Times(h, p)))
  BY <1>1, TimesAssoc
<1>4. Times(q, Times(h, p)) = Times(h, Times(p, q))
  <2>1. Times(q, Times(h, p)) = Times(Times(h, p), q) /\ Times(Times(h, p), q) = Times(h, Times(p, q))
    BY <1>1, TimesAssoc
  <2> QED
    BY <2>1
<1>5. Times(Times(l, h), Times(p, q)) = Times(l, Times(h, Times(p, q)))
  BY <1>1, TimesAssoc
<1> QED
  BY <1>1, <1>2, <1>3, <1>4, <1>5

\* Lagrange interpolation at zero: the values at t indices of a polynomial of t
\* coefficients, combined with the coefficients that LagrangeCoeffs computes,
\* give its constant term, also when all of them are multiplied by a scalar.
THEOREM Interpolation ==
  ASSUME NEW t \in Nat, t >= 1, NEW pol \in [1..t -> Fr], NEW h \in Fr,
         NEW K \in SUBSET NonZero, IsFiniteSet(K), Cardinality(K) = t
  PROVE  Recover([i \in K |-> Times(h, PolynomialValue(pol, i))]) = Times(h, pol[1])
PROOF
<1> DEFINE A == 1..t
           F == [k \in A |-> [i \in K |->
                   Times(Times(h, pol[k]), Times(Power(i, k - 1), LagrangeCoeff(K, i)))]]
           G == [k \in A |-> Sum(F[k])]
           C == [i \in K |-> [k \in A |-> F[k][i]]]
           H == [i \in K |-> Times(LagrangeCoeff(K, i), Times(h, PolynomialValue(pol, i)))]
<1>1. IsFiniteSet(A) /\ 1 \in A /\ pol \in [A -> Fr]
  BY FS_Interval
<1>2. \A i \in K : i \in Fr /\ LagrangeCoeff(K, i) \in Fr
  BY LagrangeCoeffFacts, NonZeroFacts
<1>3. \A k \in A : k - 1 \in Nat /\ \A i \in K : Power(i, k - 1) \in Fr
  BY <1>2, PowerFacts
<1>4. \A k \in A : pol[k] \in Fr /\ Times(h, pol[k]) \in Fr
  BY <1>1, FrFacts
<1>5. \A k \in A, i \in K : Times(Times(h, pol[k]), Times(Power(i, k - 1), LagrangeCoeff(K, i))) \in Fr
  BY <1>2, <1>3, <1>4, FrFacts
<1>6. F \in [A -> [K -> Fr]]
  <2> HIDE DEF A
  <2> QED
    BY <1>5
<1>7. ASSUME NEW k \in A
      PROVE  G[k] = Times(Times(h, pol[k]), Moment(K, k - 1))
  <2> DEFINE f == [i \in K |-> Times(Power(i, k - 1), LagrangeCoeff(K, i))]
             g == [i \in K |-> Times(Times(h, pol[k]), Times(Power(i, k - 1), LagrangeCoeff(K, i)))]
             c == Times(h, pol[k])
  <2>1. f \in [K -> Fr] /\ Moment(K, k - 1) = Sum(f)
    BY <1>3, MomentInFr DEF Moment
  <2>2. g \in [K -> Fr] /\ \A i \in K : g[i] = Times(c, f[i])
    <3> HIDE DEF A
    <3> QED
      BY <1>5
  <2>3. G[k] = Sum(g)
    OBVIOUS
  <2>4. c \in Fr
    BY <1>4
  <2> HIDE DEF f, g, c, G
  <2>5. Sum(g) = Times(c, Sum(f))
    BY <2>1, <2>2, <2>4, SumTimes
  <2> QED
    BY <2>1, <2>3, <2>5 DEF c
<1>8. G[1] = Times(h, pol[1])
  <2>1. K # {}
    BY FS_EmptySet
  <2>2. Moment(K, 0) = 1
    BY <2>1, MomentZero
  <2>3. 1 - 1 = 0
    OBVIOUS
  <2> HIDE DEF G, A
  <2> QED
    BY <1>1, <1>4, <1>7, <2>2, <2>3, Units
<1>9. \A k \in A \ {1} : G[k] = 0
  <2> TAKE k \in A \ {1}
  <2>1. k - 1 \in Nat /\ k - 1 >= 1 /\ k - 1 < Cardinality(K)
    OBVIOUS
  <2>2. Moment(K, k - 1) = 0
    BY <2>1, MomentsVanish
  <2> HIDE DEF G, A
  <2> QED
    BY <1>4, <1>7, <2>2, Units
<1>10. G \in [A -> Fr]
  <2>1. \A k \in A : Moment(K, k - 1) \in Fr
    BY <1>3, MomentInFr
  <2>2. \A k \in A : G[k] \in Fr
    <3> HIDE DEF G, A
    <3> QED
      BY <1>4, <1>7, <2>1, FrFacts
  <2> QED
    BY <2>2
<1>11. Sum(G) = Times(h, pol[1])
  <2> HIDE DEF G, A
  <2> QED
    BY <1>1, <1>8, <1>9, <1>10, SumSingle
<1>12. \A i \in K : PolynomialValue(pol, i) \in Fr /\ Times(h, PolynomialValue(pol, i)) \in Fr
  BY <1>2, PolynomialValueInFr, FrFacts
<1>13. H \in [K -> Fr]
  BY <1>2, <1>12, FrFacts
<1>14. ASSUME NEW i \in K
       PROVE  H[i] = Sum(C[i])
  <2> DEFINE f == [k \in A |-> Times(pol[k], Power(i, k - 1))]
             g == [k \in A |-> F[k][i]]
             l == LagrangeCoeff(K, i)
             c == Times(l, h)
  <2>1. PolynomialValue(pol, i) = Sum(f)
    BY DEF PolynomialValue
  <2>2. l \in Fr /\ c \in Fr
    BY <1>2, FrFacts
  <2>3. f \in [A -> Fr]
    <3> HIDE DEF A
    <3> QED
      BY <1>3, <1>4, FrFacts
  <2>4. \A k \in A : g[k] = Times(c, f[k])
    <3> TAKE k \in A
    <3>1. g[k] = Times(Times(h, pol[k]), Times(Power(i, k - 1), l)) /\ f[k] = Times(pol[k], Power(i, k - 1))
      OBVIOUS
    <3> HIDE DEF g, f, l, A
    <3>2. Times(Times(h, pol[k]), Times(Power(i, k - 1), l)) = Times(Times(l, h), Times(pol[k], Power(i, k - 1)))
      BY <1>3, <1>4, <2>2, TimesPairs
    <3> QED
      BY <3>1, <3>2
  <2>5. g \in [A -> Fr]
    <3> HIDE DEF F, A
    <3> QED
      BY <1>6
  <2>6. H[i] = Times(l, Times(h, PolynomialValue(pol, i)))
    OBVIOUS
  <2> HIDE DEF f, g, l, A, H, F
  <2>7. Sum(g) = Times(c, Sum(f))
    <3> HIDE DEF c
    <3> QED
      BY <1>1, <2>2, <2>3, <2>4, <2>5, SumTimes
  <2>8. Sum(f) \in Fr
    BY <1>1, <2>3, SumInFr
  <2>9. Times(Times(l, h), Sum(f)) = Times(l, Times(h, Sum(f)))
    BY <2>2, <2>8, TimesAssoc
  <2> QED
    BY <2>1, <2>6, <2>7, <2>9 DEF g
<1>15. /\ \A k \in A : G[k] = Sum(F[k])
       /\ C \in [K -> [A -> Fr]]
       /\ \A k \in A, i \in K : C[i][k] = F[k][i]
  <2> HIDE DEF A, F
  <2> QED
    BY <1>6
<1>16. Recover([i \in K |-> Times(h, PolynomialValue(pol, i))]) = Sum(H)
  BY DEF Recover
<1>17. Sum(G) = Sum(H)
  <2> HIDE DEF A, F, G, H, C
  <2>1. RowsAndColumns(A, K, F, C, G, H)
    BY <1>1, <1>6, <1>10, <1>13, <1>14, <1>15 DEF RowsAndColumns
  <2> QED
    BY <2>1, SumSwap
<1> QED
  BY <1>11, <1>16, <1>17

\* A share that differs changes what is put together.
THEOREM OneShareChangesTheResult ==
  ASSUME NEW K \in SUBSET NonZero, IsFiniteSet(K), NEW b \in K,
         NEW f \in [K -> Fr], NEW g \in [K -> Fr], f[b] # g[b],
         \A i \in K \ {b} : f[i] = g[i]
  PROVE  Recover(f) # Recover(g)
PROOF
<1> DEFINE l(i) == LagrangeCoeff(K, i)
           F == [i \in K |-> Times(l(i), f[i])]
           G == [i \in K |-> Times(l(i), g[i])]
           FR == [i \in K \ {b} |-> F[i]]
           GR == [i \in K \ {b} |-> G[i]]
<1>1. \A i \in K : l(i) \in NonZero /\ l(i) \in Fr
  BY LagrangeCoeffFacts, NonZeroFacts
<1>2. F \in [K -> Fr] /\ G \in [K -> Fr]
  <2> HIDE DEF l
  <2> QED
    BY <1>1, FrFacts
<1>3. Recover(f) = Sum(F) /\ Recover(g) = Sum(G)
  BY DEF Recover
<1>4. FR = GR
  OBVIOUS
<1>5. F[b] # G[b]
  <2>1. F[b] = Times(l(b), f[b]) /\ G[b] = Times(l(b), g[b]) /\ f[b] \in Fr /\ g[b] \in Fr
    OBVIOUS
  <2> HIDE DEF l, F, G
  <2> QED
    BY <1>1, <2>1, TimesCancel
<1> HIDE DEF F, G
<1>6. Sum(F) = Plus(F[b], Sum(FR)) /\ Sum(G) = Plus(G[b], Sum(GR)) /\ Sum(FR) \in Fr
  BY <1>2, SumRemove
<1>7. F[b] \in Fr /\ G[b] \in Fr
  BY <1>2
<1> HIDE DEF FR, GR
<1> QED
  BY <1>3, <1>4, <1>5, <1>6, <1>7, PlusCancel

\* What is put together is linear in the shares.
LEMMA RecoverLinear ==
  ASSUME NEW K \in SUBSET NonZero, IsFiniteSet(K), NEW a \in Fr,
         NEW f \in [K -> Fr], NEW g \in [K -> Fr], NEW h \in [K -> Fr],
         \A i \in K : h[i] = Plus(g[i], Times(a, f[i]))
  PROVE  Recover(h) = Plus(Recover(g), Times(a, Recover(f)))
PROOF
<1> DEFINE l(i) == LagrangeCoeff(K, i)
           F == [i \in K |-> Times(l(i), f[i])]
           G == [i \in K |-> Times(l(i), g[i])]
           H == [i \in K |-> Times(l(i), h[i])]
           M == [i \in K |-> Times(a, F[i])]
<1>1. \A i \in K : l(i) \in Fr
  BY LagrangeCoeffFacts, NonZeroFacts
<1>2. F \in [K -> Fr] /\ G \in [K -> Fr] /\ H \in [K -> Fr]
  <2> HIDE DEF l
  <2> QED
    BY <1>1, FrFacts
<1>3. M \in [K -> Fr]
  <2> HIDE DEF F
  <2> QED
    BY <1>2, FrFacts
<1>4. ASSUME NEW i \in K PROVE H[i] = Plus(G[i], M[i])
  <2>1. f[i] \in Fr /\ g[i] \in Fr /\ l(i) \in Fr /\ Times(a, f[i]) \in Fr
    BY <1>1, Ring
  <2>2. F[i] = Times(l(i), f[i]) /\ G[i] = Times(l(i), g[i]) /\ M[i] = Times(a, F[i])
    OBVIOUS
  <2>3. H[i] = Times(l(i), Plus(g[i], Times(a, f[i])))
    OBVIOUS
  <2> HIDE DEF l, F, G, H, M
  <2>4. H[i] = Plus(Times(l(i), g[i]), Times(l(i), Times(a, f[i])))
    BY <2>1, <2>3, Ring
  <2>5. Times(l(i), Times(a, f[i])) = Times(a, Times(l(i), f[i]))
    <3>1. Times(l(i), Times(a, f[i])) = Times(Times(l(i), a), f[i])
      BY <2>1, Ring
    <3>2. Times(Times(l(i), a), f[i]) = Times(Times(a, l(i)), f[i])
      BY <2>1, Ring
    <3> QED
      BY <2>1, <3>1, <3>2, Ring
  <2> QED
    BY <2>2, <2>4, <2>5
<1>5. Recover(f) = Sum(F) /\ Recover(g) = Sum(G) /\ Recover(h) = Sum(H)
  BY DEF Recover
<1>6. \A i \in K : M[i] = Times(a, F[i])
  OBVIOUS
<1> HIDE DEF F, G, H, M
<1>7. Sum(M) = Times(a, Sum(F))
  BY <1>2, <1>3, <1>6, SumTimes
<1>8. Sum(H) = Plus(Sum(G), Sum(M))
  BY <1>2, <1>3, <1>4, SumPlus
<1> QED
  BY <1>5, <1>7, <1>8

\* pol adds up the coefficients D[k] of the polynomials c, and v holds the values
\* of the polynomials c at x.
AddedUp(S, t, c, D, pol, x, v) ==
    /\ c \in [S -> [1..t -> Fr]]
    /\ D = [k \in 1..t |-> [i \in S |-> c[i][k]]]
    /\ pol = [k \in 1..t |-> Sum(D[k])]
    /\ v = [i \in S |-> PolynomialValue(c[i], x)]

\* The value of a sum of polynomials is the sum of their values.
LEMMA PolynomialSum ==
  ASSUME NEW S, IsFiniteSet(S), NEW t \in Nat, NEW x \in Fr,
         NEW c, NEW D, NEW pol, NEW v, AddedUp(S, t, c, D, pol, x, v)
  PROVE  /\ pol \in [1..t -> Fr]
         /\ PolynomialValue(pol, x) = Sum(v)
PROOF
<1> DEFINE A == 1..t
           q(k) == Power(x, k - 1)
           F == [k \in A |-> [i \in S |-> Times(c[i][k], q(k))]]
           C == [i \in S |-> [k \in A |-> Times(c[i][k], q(k))]]
           G == [k \in A |-> Times(pol[k], q(k))]
<1>1. IsFiniteSet(A)
  BY FS_Interval
<1>2. \A k \in A : q(k) \in Fr
  <2> TAKE k \in A
  <2>1. k - 1 \in Nat
    OBVIOUS
  <2> QED
    BY <2>1, PowerFacts
<1>3. c \in [S -> [A -> Fr]]
  BY DEF AddedUp
<1>4. \A k \in A : D[k] \in [S -> Fr] /\ \A i \in S : D[k][i] = c[i][k]
  BY DEF AddedUp
<1>5. pol \in [A -> Fr] /\ \A k \in A : pol[k] = Sum(D[k])
  <2>1. \A k \in A : Sum(D[k]) \in Fr
    <3> HIDE DEF A
    <3> QED
      BY <1>4, SumInFr
  <2> QED
    BY <2>1 DEF AddedUp
<1>6. \A i \in S, k \in A : c[i][k] \in Fr /\ Times(c[i][k], q(k)) \in Fr
  <2> HIDE DEF A, q
  <2> QED
    BY <1>2, <1>3, FrFacts
<1>7. F \in [A -> [S -> Fr]] /\ C \in [S -> [A -> Fr]] /\ \A k \in A, i \in S : C[i][k] = F[k][i]
  <2> HIDE DEF A, q
  <2> QED
    BY <1>6
<1>8. G \in [A -> Fr]
  <2> HIDE DEF A, q
  <2> QED
    BY <1>2, <1>5, FrFacts
<1>9. ASSUME NEW k \in A
      PROVE  G[k] = Sum(F[k])
  <2> DEFINE f == F[k]
             d == D[k]
             p == q(k)
  <2>1. f \in [S -> Fr] /\ d \in [S -> Fr] /\ p \in Fr /\ Sum(d) \in Fr
    <3> HIDE DEF A, F, q
    <3> QED
      BY <1>2, <1>4, <1>5, <1>7
  <2>2. \A i \in S : f[i] = Times(p, d[i])
    <3> TAKE i \in S
    <3>1. f[i] = Times(c[i][k], p) /\ d[i] = c[i][k] /\ c[i][k] \in Fr
      BY <1>4, <1>6
    <3> HIDE DEF f, d, p
    <3> QED
      BY <2>1, <3>1, FrFacts, Commutes
  <2>3. G[k] = Times(Sum(d), p)
    BY <1>5
  <2> HIDE DEF f, d, p, G
  <2>4. Sum(f) = Times(p, Sum(d))
    BY <2>1, <2>2, SumTimes
  <2>5. Times(p, Sum(d)) = Times(Sum(d), p)
    BY <2>1, FrFacts, Commutes
  <2> QED
    BY <2>3, <2>4, <2>5 DEF f
<1>10. ASSUME NEW i \in S
       PROVE  v[i] = Sum(C[i]) /\ v[i] \in Fr
  <2>1. DOMAIN c[i] = A /\ c[i] \in [1..t -> Fr]
    BY <1>3
  <2>2. v[i] = PolynomialValue(c[i], x)
    BY DEF AddedUp
  <2>3. PolynomialValue(c[i], x) \in Fr
    BY <2>1, PolynomialValueInFr
  <2>4. PolynomialValue(c[i], x) = Sum(C[i])
    BY <2>1 DEF PolynomialValue
  <2> QED
    BY <2>2, <2>3, <2>4
<1>11. v \in [S -> Fr]
  BY <1>10 DEF AddedUp
<1>12. PolynomialValue(pol, x) = Sum(G)
  <2>1. DOMAIN pol = A
    BY <1>5
  <2> QED
    BY <2>1 DEF PolynomialValue
<1>13. Sum(G) = Sum(v)
  <2> HIDE DEF A, F, G, C
  <2>1. RowsAndColumns(A, S, F, C, G, v)
    BY <1>1, <1>7, <1>8, <1>9, <1>10, <1>11 DEF RowsAndColumns
  <2> QED
    BY <2>1, SumSwap
<1> QED
  BY <1>5, <1>12, <1>13

=============================================================================
