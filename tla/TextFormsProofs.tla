---------------------------- MODULE TextFormsProofs ----------------------------
(***************************************************************************)
(* Proofs about TextForms: the two copies of the search for a point of the *)
(* curve agree, the invariant IInv is inductive, and the safety properties *)
(* of the run follow from it.                                              *)
(***************************************************************************)
EXTENDS TextForms, SequenceTheorems, NaturalsInduction, WellFoundedInduction, TLAPS

-----------------------------------------------------------------------------
(* Remainders.                                                             *)

LEMMA Remainder ==
  ASSUME NEW m \in Nat, m > 0, NEW x \in Nat
  PROVE  x % m \in 0..(m - 1) /\ x \div m \in Nat /\ x = m * (x \div m) + (x % m)
OBVIOUS

\* A multiple of m between -m and m is zero.
LEMMA SmallMultiple ==
  ASSUME NEW m \in Nat, m > 0, NEW d \in Int, NEW r \in Int, m * d = r, r < m, -m < r
  PROVE  r = 0
PROOF
<1>1. CASE d >= 1
  <2>1. m * (d - 1) >= 0
    BY <1>1
  <2>2. m * (d - 1) = m * d - m
    OBVIOUS
  <2> QED
    BY <2>1, <2>2
<1>2. CASE d <= -1
  <2>1. m * (-d - 1) >= 0
    BY <1>2
  <2>2. m * (-d - 1) = -(m * d) - m
    OBVIOUS
  <2> QED
    BY <2>1, <2>2
<1>3. CASE d = 0
  BY <1>3
<1> QED
  BY <1>1, <1>2, <1>3

LEMMA RemainderIs ==
  ASSUME NEW m \in Nat, m > 0, NEW x \in Nat, NEW q \in Int, NEW r \in 0..(m - 1),
         x = m * q + r
  PROVE  x % m = r
PROOF
<1> DEFINE s == x % m
           k == x \div m
<1>1. s \in 0..(m - 1) /\ k \in Nat /\ x = m * k + s
  BY Remainder
<1> HIDE DEF s, k
<1>2. m * (q - k) = s - r
  <2>1. m * (q - k) = m * q - m * k
    BY <1>1
  <2>2. m * q \in Int /\ m * k \in Int
    BY <1>1
  <2> QED
    BY <1>1, <2>1, <2>2
<1>3. q - k \in Int /\ s - r \in Int /\ s - r < m /\ -m < s - r
  BY <1>1
<1>4. s - r = 0
  BY <1>2, <1>3, SmallMultiple
<1> QED
  BY <1>1, <1>4 DEF s

LEMMA RemainderPlus ==
  ASSUME NEW m \in Nat, m > 0, NEW x \in Nat, NEW y \in Nat
  PROVE  ((x % m) + y) % m = (x + y) % m
PROOF
<1> DEFINE s == x % m
           k == x \div m
           r == (s + y) % m
           l == (s + y) \div m
<1>1. s \in 0..(m - 1) /\ k \in Nat /\ x = m * k + s
  BY Remainder
<1>2. r \in 0..(m - 1) /\ l \in Nat /\ s + y = m * l + r
  <2> HIDE DEF s, k
  <2>1. s + y \in Nat
    BY <1>1
  <2> QED
    BY <2>1, Remainder
<1> HIDE DEF s, k, r, l
<1>3. x + y = m * (k + l) + r
  <2>1. m * (k + l) = m * k + m * l /\ m * k \in Nat /\ m * l \in Nat
    BY <1>1, <1>2
  <2> QED
    BY <1>1, <1>2, <2>1
<1>4. (x + y) % m = r
  <2>1. x + y \in Nat /\ k + l \in Int
    BY <1>1, <1>2
  <2> QED
    BY <1>2, <1>3, <2>1, RemainderIs
<1> QED
  BY <1>4 DEF r, s

\* The elements of Fq, and the numbers that are typed for them.
LEMMA FieldFacts ==
  /\ Q \in Nat /\ Q > 0 /\ R \in Nat /\ R > 0 /\ R <= Q
  /\ Fq \subseteq Nat /\ Fq \subseteq Numbers /\ Numbers \subseteq Nat
  /\ \A v \in Nat : v % Q \in Fq
  /\ \A v \in Fq : v % Q = v
  /\ \A v \in 0..(R - 1) : v % R = v /\ v \in Fq
PROOF
<1>1. Q \in Nat /\ Q > 0 /\ R \in Nat /\ R > 0 /\ R <= Q
  BY TextConstants
<1>2. Fq \subseteq Nat /\ Fq \subseteq Numbers /\ Numbers \subseteq Nat
  BY <1>1 DEF Fq, Numbers
<1>3. \A v \in Nat : v % Q \in Fq
  BY <1>1, Remainder DEF Fq
<1>4. \A v \in Fq : v % Q = v
  BY <1>1 DEF Fq
<1>5. \A v \in 0..(R - 1) : v % R = v /\ v \in Fq
  BY <1>1 DEF Fq
<1> QED
  BY <1>1, <1>2, <1>3, <1>4, <1>5

-----------------------------------------------------------------------------
(* The search for a point of the curve.                                    *)

LEMMA LeastOf ==
  ASSUME NEW K \in SUBSET Nat, K # {}
  PROVE  \E m \in K : \A k \in K : m <= k
PROOF
<1>1. PICK n \in K : \A k \in K : <<k, n>> \notin OpToRel(<, Nat)
  BY WFMin, NatLessThanWellFounded
<1>2. ASSUME NEW k \in K PROVE n <= k
  <2> SUFFICES ASSUME k < n PROVE FALSE
    OBVIOUS
  <2>1. k \in Nat /\ n \in Nat
    OBVIOUS
  <2>2. <<k, n>> \in OpToRel(<, Nat)
    BY <2>1, Zenon DEF OpToRel
  <2> QED
    BY <1>1, <2>2
<1> QED
  BY <1>2

\* Induction over numbers, with a set for the hypothesis.
LEMMA CountInduction ==
  ASSUME NEW Good, 0 \in Good, \A n \in Nat : n \in Good => n + 1 \in Good
  PROVE  \A n \in Nat : n \in Good
PROOF
<1> DEFINE Bad == Nat \ Good
<1> SUFFICES ASSUME Bad # {} PROVE FALSE
  OBVIOUS
<1>1. PICK n \in Bad : \A m \in Bad : n <= m
  <2>1. Bad \in SUBSET Nat
    OBVIOUS
  <2> HIDE DEF Bad
  <2> QED
    BY <2>1, LeastOf
<1>2. n \in Nat /\ n # 0
  OBVIOUS
<1>3. n - 1 \in Nat /\ (n - 1) + 1 = n /\ ~(n <= n - 1)
  BY <1>2
<1>4. n - 1 \in Bad
  BY <1>3
<1> QED
  BY <1>1, <1>3, <1>4

\* Of x, x + 1, ... the one after k steps is the first with a root.
First(x, k) ==
    /\ Roots((x + k) % Q) # {}
    /\ \A j \in Nat : j < k => Roots((x + j) % Q) = {}

LEMMA SomeFirst ==
  ASSUME NEW x \in Fq
  PROVE  \E k \in Nat : k < Q /\ First(x, k)
PROOF
<1>1. PICK z \in Fq : Roots(z) # {}
  BY PrimeOrder DEF CurvePoints
<1>2. x \in Nat /\ z \in Nat /\ x < Q /\ z < Q /\ Q \in Nat /\ Q > 0
  BY FieldFacts DEF Fq
<1>3. \E k \in Nat : k < Q /\ (x + k) % Q = z
  <2>1. CASE x <= z
    <3>1. z - x \in Nat /\ z - x < Q /\ x + (z - x) = z
      BY <1>2, <2>1
    <3> QED
      BY <3>1, FieldFacts
  <2>2. CASE ~(x <= z)
    <3>1. /\ z + Q - x \in Nat /\ z + Q - x < Q /\ x + (z + Q - x) = Q * 1 + z
          /\ x + (z + Q - x) \in Nat /\ z \in 0..(Q - 1)
      BY <1>2, <2>2
    <3>2. (x + (z + Q - x)) % Q = z
      BY <1>2, <3>1, RemainderIs
    <3> QED
      BY <3>1, <3>2
  <2> QED
    BY <2>1, <2>2
<1> DEFINE K == {k \in Nat : Roots((x + k) % Q) # {}}
<1>4. PICK k \in Nat : k < Q /\ k \in K
  BY <1>1, <1>3
<1>5. PICK m \in K : \A j \in K : m <= j
  <2>1. K \in SUBSET Nat /\ K # {}
    BY <1>4
  <2> HIDE DEF K
  <2> QED
    BY <2>1, LeastOf
<1>6. m \in Nat /\ m < Q
  <2>1. m \in Nat /\ m <= k
    BY <1>4, <1>5
  <2> QED
    BY <1>2, <1>4, <2>1
<1>7. First(x, m)
  BY <1>5, <1>6 DEF First
<1> QED
  BY <1>6, <1>7

LEMMA OneFirst ==
  ASSUME NEW x \in Fq, NEW k \in Nat, NEW l \in Nat, First(x, k), First(x, l)
  PROVE  k = l
BY DEF First

\* One step of the loop.
LEMMA FirstStep ==
  ASSUME NEW x \in Fq
  PROVE  /\ (x + 1) % Q \in Fq
         /\ First(x, 0) <=> Roots(x) # {}
         /\ \A k \in Nat : /\ (((x + 1) % Q) + k) % Q = (x + (k + 1)) % Q
                           /\ First(x, k + 1) <=> Roots(x) = {} /\ First((x + 1) % Q, k)
PROOF
<1>1. x \in Nat /\ (x + 1) % Q \in Fq /\ (x + 0) % Q = x /\ Q \in Nat /\ Q > 0
  BY FieldFacts
<1>2. First(x, 0) <=> Roots(x) # {}
  BY <1>1 DEF First
<1>3. \A k \in Nat : (((x + 1) % Q) + k) % Q = (x + (k + 1)) % Q
  <2> TAKE k \in Nat
  <2>1. (((x + 1) % Q) + k) % Q = ((x + 1) + k) % Q
    <3>1. PICK z \in Nat : z = x + 1
      BY <1>1
    <3>2. ((z % Q) + k) % Q = (z + k) % Q
      BY <1>1, RemainderPlus
    <3> QED
      BY <3>1, <3>2
  <2>2. (x + 1) + k = x + (k + 1)
    BY <1>1
  <2> QED
    BY <2>1, <2>2
<1>4. ASSUME NEW k \in Nat
      PROVE  First(x, k + 1) <=> Roots(x) = {} /\ First((x + 1) % Q, k)
  <2>1. ASSUME First(x, k + 1) PROVE Roots(x) = {} /\ First((x + 1) % Q, k)
    <3>1. Roots(x) = {}
      BY <1>1, <2>1 DEF First
    <3>2. ASSUME NEW j \in Nat, j < k PROVE Roots((((x + 1) % Q) + j) % Q) = {}
      <4>1. j + 1 \in Nat /\ j + 1 < k + 1
        BY <3>2
      <4> QED
        BY <1>3, <2>1, <4>1 DEF First
    <3> QED
      BY <1>3, <2>1, <3>1, <3>2 DEF First
  <2>2. ASSUME Roots(x) = {}, First((x + 1) % Q, k) PROVE First(x, k + 1)
    <3>1. Roots((x + (k + 1)) % Q) # {}
      BY <1>3, <2>2 DEF First
    <3>2. ASSUME NEW j \in Nat, j < k + 1 PROVE Roots((x + j) % Q) = {}
      <4>1. CASE j = 0
        BY <1>1, <2>2, <4>1
      <4>2. CASE j # 0
        <5>1. j - 1 \in Nat /\ j - 1 < k /\ (j - 1) + 1 = j
          BY <3>2, <4>2
        <5>2. Roots((((x + 1) % Q) + (j - 1)) % Q) = {}
          BY <2>2, <5>1 DEF First
        <5> QED
          BY <1>3, <5>1, <5>2
      <4> QED
        BY <4>1, <4>2
    <3> QED
      BY <3>1, <3>2 DEF First
  <2> QED
    BY <2>1, <2>2
<1> QED
  BY <1>1, <1>2, <1>3, <1>4

\* What both loops are about: the number of steps, and the point there.
Steps(x) == CHOOSE k \in Nat : First(x, k)
Found(x, k) == <<(x + k) % Q, LargerRoot((x + k) % Q)>>

LEMMA StepsFacts ==
  ASSUME NEW x \in Fq
  PROVE  /\ Steps(x) \in Nat /\ Steps(x) < Q /\ First(x, Steps(x))
         /\ Roots(x) # {} => Steps(x) = 0
         /\ Roots(x) = {} => Steps(x) = Steps((x + 1) % Q) + 1
PROOF
<1>1. \A z \in Fq : Steps(z) \in Nat /\ Steps(z) < Q /\ First(z, Steps(z))
  <2> TAKE z \in Fq
  <2>1. PICK k \in Nat : k < Q /\ First(z, k)
    BY SomeFirst
  <2>2. Steps(z) \in Nat /\ First(z, Steps(z))
    BY <2>1 DEF Steps
  <2> QED
    BY <2>1, <2>2, OneFirst
<1>2. ASSUME Roots(x) # {} PROVE Steps(x) = 0
  BY <1>1, <1>2, FirstStep, OneFirst
<1>3. ASSUME Roots(x) = {} PROVE Steps(x) = Steps((x + 1) % Q) + 1
  <2>1. PICK k \in Nat : k = Steps((x + 1) % Q)
    BY <1>1, FirstStep
  <2>2. First((x + 1) % Q, k)
    BY <1>1, <2>1, FirstStep
  <2>3. First(x, k + 1) /\ k + 1 \in Nat
    BY <1>3, <2>2, FirstStep
  <2> QED
    BY <1>1, <2>1, <2>3, OneFirst
<1> QED
  BY <1>1, <1>2, <1>3

\* HashtoG1's loop ends where the search does.
LEMMA PointFromIs ==
  ASSUME NEW x \in Fq
  PROVE  PointFrom[x] = Found(x, Steps(x))
PROOF
<1> DEFINE Loop(f) == [z \in Fq |-> IF Roots(z) # {} THEN <<z, LargerRoot(z)>> ELSE f[(z + 1) % Q]]
           g == [z \in Fq |-> Found(z, Steps(z))]
<1>1. g = Loop(g)
  <2>1. ASSUME NEW z \in Fq
        PROVE  Found(z, Steps(z)) =
                   IF Roots(z) # {} THEN <<z, LargerRoot(z)>> ELSE g[(z + 1) % Q]
    <3>1. CASE Roots(z) # {}
      <4>1. Steps(z) = 0 /\ (z + 0) % Q = z
        BY <3>1, StepsFacts, FieldFacts
      <4> QED
        BY <3>1, <4>1 DEF Found
    <3>2. CASE Roots(z) = {}
      <4>1. (z + 1) % Q \in Fq
        BY FirstStep
      <4>2. PICK k \in Nat : k = Steps((z + 1) % Q)
        BY <4>1, StepsFacts
      <4>3. Steps(z) = k + 1 /\ (((z + 1) % Q) + k) % Q = (z + (k + 1)) % Q
        BY <3>2, <4>2, StepsFacts, FirstStep
      <4>4. Found(z, Steps(z)) = Found((z + 1) % Q, Steps((z + 1) % Q))
        BY <4>2, <4>3 DEF Found
      <4> QED
        BY <3>2, <4>1, <4>4
    <3> QED
      BY <3>1, <3>2
  <2> QED
    BY <2>1
<1>2. PointFrom = Loop(PointFrom)
  <2>1. \E f : f = Loop(f)
    BY <1>1
  <2> QED
    BY <2>1, Zenon DEF PointFrom
<1> DEFINE Good == {k \in Nat : \A z \in Fq : Steps(z) = k => PointFrom[z] = Found(z, k)}
<1>3. 0 \in Good
  <2> SUFFICES ASSUME NEW z \in Fq, Steps(z) = 0 PROVE PointFrom[z] = Found(z, 0)
    OBVIOUS
  <2>1. Roots(z) # {} /\ (z + 0) % Q = z
    BY StepsFacts, FieldFacts DEF First
  <2> QED
    BY <1>2, <2>1 DEF Found
<1>4. ASSUME NEW k \in Nat, k \in Good PROVE k + 1 \in Good
  <2> SUFFICES ASSUME NEW z \in Fq, Steps(z) = k + 1 PROVE PointFrom[z] = Found(z, k + 1)
    OBVIOUS
  <2>1. Roots(z) = {} /\ (z + 1) % Q \in Fq
    BY StepsFacts, FirstStep
  <2>2. Steps((z + 1) % Q) = k
    BY <2>1, StepsFacts
  <2>3. PointFrom[(z + 1) % Q] = Found((z + 1) % Q, k)
    BY <1>4, <2>1, <2>2
  <2>4. PointFrom[z] = PointFrom[(z + 1) % Q]
    BY <1>2, <2>1
  <2>5. (((z + 1) % Q) + k) % Q = (z + (k + 1)) % Q
    BY FirstStep
  <2> QED
    BY <2>3, <2>4, <2>5 DEF Found
<1> HIDE DEF Good
<1>5. \A k \in Nat : k \in Good
  BY <1>3, <1>4, CountInduction
<1> QED
  BY <1>5, StepsFacts DEF Good

\* So does that of HashtoG1withHint, which has counted its steps.
LEMMA CountedFromIs ==
  ASSUME NEW x \in Fq
  PROVE  CountedFrom[<<x, 0>>] = [point |-> Found(x, Steps(x)), counter |-> Steps(x)]
PROOF
<1> DEFINE Loop(f) == [at \in Fq \X Nat |->
                  IF Roots(at[1]) # {}
                  THEN [point |-> <<at[1], LargerRoot(at[1])>>, counter |-> at[2]]
                  ELSE f[<<(at[1] + 1) % Q, at[2] + 1>>]]
           g == [at \in Fq \X Nat |->
                  [point |-> Found(at[1], Steps(at[1])), counter |-> at[2] + Steps(at[1])]]
<1>1. g = Loop(g)
  <2>1. ASSUME NEW z \in Fq, NEW c \in Nat
        PROVE  [point |-> Found(z, Steps(z)), counter |-> c + Steps(z)] =
                   IF Roots(z) # {} THEN [point |-> <<z, LargerRoot(z)>>, counter |-> c]
                   ELSE g[<<(z + 1) % Q, c + 1>>]
    <3>1. CASE Roots(z) # {}
      <4>1. Steps(z) = 0 /\ (z + 0) % Q = z
        BY <3>1, StepsFacts, FieldFacts
      <4> QED
        BY <3>1, <4>1 DEF Found
    <3>2. CASE Roots(z) = {}
      <4>1. (z + 1) % Q \in Fq
        BY FirstStep
      <4>2. PICK k \in Nat : k = Steps((z + 1) % Q)
        BY <4>1, StepsFacts
      <4>3. Steps(z) = k + 1 /\ (((z + 1) % Q) + k) % Q = (z + (k + 1)) % Q
        BY <3>2, <4>2, StepsFacts, FirstStep
      <4>4. Found(z, Steps(z)) = Found((z + 1) % Q, Steps((z + 1) % Q))
        BY <4>2, <4>3 DEF Found
      <4>5. c + Steps(z) = (c + 1) + Steps((z + 1) % Q)
        BY <4>2, <4>3
      <4> QED
        BY <3>2, <4>1, <4>4, <4>5
    <3> QED
      BY <3>1, <3>2
  <2> QED
    BY <2>1
<1>2. CountedFrom = Loop(CountedFrom)
  <2>1. \E f : f = Loop(f)
    BY <1>1
  <2> QED
    BY <2>1, Zenon DEF CountedFrom
<1>3. ASSUME NEW z \in Fq, NEW c \in Nat
      PROVE  CountedFrom[<<z, c>>] =
                 IF Roots(z) # {} THEN [point |-> <<z, LargerRoot(z)>>, counter |-> c]
                 ELSE CountedFrom[<<(z + 1) % Q, c + 1>>]
  <2> DEFINE at == <<z, c>>
  <2>1. at \in Fq \X Nat /\ at[1] = z /\ at[2] = c
    OBVIOUS
  <2> HIDE DEF at
  <2>2. Loop(CountedFrom)[at] =
            IF Roots(at[1]) # {} THEN [point |-> <<at[1], LargerRoot(at[1])>>, counter |-> at[2]]
            ELSE CountedFrom[<<(at[1] + 1) % Q, at[2] + 1>>]
    BY <2>1
  <2> HIDE DEF Loop
  <2>3. CountedFrom[at] = Loop(CountedFrom)[at]
    BY <1>2
  <2> QED
    BY <2>1, <2>2, <2>3 DEF at
<1> HIDE DEF g, Loop
<1> DEFINE Good == {k \in Nat : \A z \in Fq, c \in Nat : Steps(z) = k =>
                       CountedFrom[<<z, c>>] = [point |-> Found(z, k), counter |-> c + k]}
<1>4. 0 \in Good
  <2> SUFFICES ASSUME NEW z \in Fq, NEW c \in Nat, Steps(z) = 0
               PROVE  CountedFrom[<<z, c>>] = [point |-> Found(z, 0), counter |-> c + 0]
    OBVIOUS
  <2>1. Roots(z) # {} /\ (z + 0) % Q = z /\ c + 0 = c
    BY StepsFacts, FieldFacts DEF First
  <2>2. Found(z, 0) = <<z, LargerRoot(z)>>
    BY <2>1 DEF Found
  <2>3. CountedFrom[<<z, c>>] = [point |-> <<z, LargerRoot(z)>>, counter |-> c]
    BY <1>3, <2>1
  <2> QED
    BY <2>1, <2>2, <2>3
<1>5. ASSUME NEW k \in Nat, k \in Good PROVE k + 1 \in Good
  <2> SUFFICES ASSUME NEW z \in Fq, NEW c \in Nat, Steps(z) = k + 1
               PROVE  CountedFrom[<<z, c>>] = [point |-> Found(z, k + 1), counter |-> c + (k + 1)]
    OBVIOUS
  <2>1. Roots(z) = {} /\ (z + 1) % Q \in Fq
    BY StepsFacts, FirstStep
  <2>2. Steps((z + 1) % Q) = k
    BY <2>1, StepsFacts
  <2>3. CountedFrom[<<(z + 1) % Q, c + 1>>] =
            [point |-> Found((z + 1) % Q, k), counter |-> (c + 1) + k]
    BY <1>5, <2>1, <2>2
  <2>4. CountedFrom[<<z, c>>] = CountedFrom[<<(z + 1) % Q, c + 1>>]
    BY <1>3, <2>1
  <2>5. (((z + 1) % Q) + k) % Q = (z + (k + 1)) % Q /\ (c + 1) + k = c + (k + 1)
    BY FirstStep
  <2> QED
    BY <2>3, <2>4, <2>5 DEF Found
<1> HIDE DEF Good
<1>6. \A k \in Nat : k \in Good
  BY <1>4, <1>5, CountInduction
<1>7. PICK k \in Nat : k = Steps(x)
  BY StepsFacts
<1>8. CountedFrom[<<x, 0>>] = [point |-> Found(x, k), counter |-> 0 + k]
  BY <1>6, <1>7 DEF Good
<1> QED
  BY <1>7, <1>8

-----------------------------------------------------------------------------
(* The larger root and the hint.                                           *)

\* With y, the number Q - y is a root too, and one of the two is not less than
\* half of Q: there is no root 0.
LEMMA OtherRoot ==
  ASSUME NEW x \in Fq, NEW y \in Roots(x)
  PROVE  y \in 1..(Q - 1) /\ Q - y \in Roots(x)
PROOF
<1>1. y \in Fq /\ y \in Nat /\ (y * y) % Q = Rhs(x) /\ Q \in Nat /\ Q > 0
  BY FieldFacts DEF Roots
<1>2. y # 0
  <2>1. 0 % Q = 0 /\ Rhs(x) # 0
    BY <1>1, PrimeOrder, FieldFacts DEF Fq
  <2> QED
    BY <1>1, <2>1
<1>3. y \in 1..(Q - 1) /\ Q - y \in Fq
  BY <1>1, <1>2 DEF Fq
<1>4. ((Q - y) * (Q - y)) % Q = (y * y) % Q
  <2>1. PICK r \in 0..(Q - 1), k \in Nat : y * y = Q * k + r /\ (y * y) % Q = r
    <3>1. y * y \in Nat
      BY <1>1
    <3> QED
      BY <1>1, <3>1, Remainder
  <2>2. (Q - y) * (Q - y) = Q * (Q - 2 * y + k) + r
    <3>1. (Q - y) * (Q - y) = Q * (Q - 2 * y) + y * y
      BY <1>1
    <3>2. Q * (Q - 2 * y + k) = Q * (Q - 2 * y) + Q * k
      BY <1>1
    <3>3. /\ Q * (Q - 2 * y) \in Int /\ Q * k \in Int
      BY <1>1
    <3> QED
      BY <2>1, <3>1, <3>2, <3>3
  <2>3. (Q - y) * (Q - y) \in Nat
    <3>1. Q - y \in Nat
      BY <1>1, <1>3
    <3> QED
      BY <3>1
  <2>4. Q - 2 * y + k \in Int
    BY <1>1
  <2> HIDE DEF Rhs
  <2> QED
    BY <1>1, <2>1, <2>2, <2>3, <2>4, RemainderIs
<1> QED
  BY <1>1, <1>3, <1>4 DEF Roots

LEMMA LargerRootFacts ==
  ASSUME NEW x \in Fq, Roots(x) # {}
  PROVE  LargerRoot(x) \in Roots(x) /\ LargerRoot(x) \in Fq /\ 2 * LargerRoot(x) >= Q
PROOF
<1> DEFINE K == {y \in Fq : Q - y \in Roots(x)}
<1>1. \A y \in Roots(x) : y \in Nat /\ y < Q /\ y > 0 /\ y \in Fq /\ Q - y \in Roots(x)
  BY OtherRoot, FieldFacts DEF Roots, Fq
<1>2. Q \in Nat
  BY FieldFacts
<1>3. \A y \in Roots(x) : Q - (Q - y) = y /\ Q - y \in Fq
  BY <1>1, <1>2 DEF Fq
<1>4. K # {} /\ K \in SUBSET Nat
  BY <1>1, <1>3, FieldFacts
<1>5. PICK m \in K : \A k \in K : m <= k
  <2> HIDE DEF K
  <2> QED
    BY <1>4, LeastOf
<1>6. Q - m \in Roots(x) /\ m \in Nat
  BY <1>4
<1>7. \A z \in Roots(x) : z <= Q - m
  <2> TAKE z \in Roots(x)
  <2>1. Q - z \in K /\ z \in Nat
    BY <1>1, <1>3
  <2>2. m <= Q - z
    BY <1>5, <2>1
  <2> QED
    BY <1>2, <1>6, <2>1, <2>2
<1>8. /\ LargerRoot(x) \in Roots(x)
      /\ \A z \in Roots(x) : z <= LargerRoot(x)
  <2> HIDE DEF K
  <2> QED
    BY <1>6, <1>7, Zenon DEF LargerRoot
<1>9. PICK y \in Roots(x) : y = LargerRoot(x)
  BY <1>8
<1>10. Q - y <= y
  BY <1>1, <1>8, <1>9
<1>11. 2 * y >= Q
  BY <1>1, <1>2, <1>10
<1> QED
  BY <1>1, <1>9, <1>11

LEMMA DigitsAre == \A v \in Fq : NumDigits[v] \in 1..MaxComponentLen
BY TextConstants

\* What fieldElementToString prints.
LEMMA PaddedFacts ==
  ASSUME NEW v \in Fq
  PROVE  /\ fieldElementToString(v) \in [value : {v}, digits : 1..(MaxComponentLen + 1)]
         /\ HasItsDigits(fieldElementToString(v))
         /\ fieldElementToString(v).digits % 2 = 0
         /\ NumDigits[v] % 2 = 0 => isStringNumber(fieldElementToString(v))
PROOF
<1>1. PICK d \in 1..MaxComponentLen : d = NumDigits[v]
  BY DigitsAre
<1>2. MaxComponentLen \in Nat /\ d \in Nat
  BY TextConstants
<1>3. d % 2 = 0 \/ (d + 1) % 2 = 0
  BY <1>2
<1> QED
  BY <1>1, <1>2, <1>3 DEF fieldElementToString, Typed, HasItsDigits, isStringNumber

\* The point of the hash, and the hint from which it is found again.
LEMMA HintFacts ==
  ASSUME NEW h \in Hashes
  PROVE  \E k \in Fq, y \in Fq :
             /\ HintOf(h) = <<fieldElementToString(y), fieldElementToString(k)>>
             /\ HashtoG1(h) = <<(HashToFq(h) + k) % Q, y>>
             /\ (HashToFq(h) + k) % Q \in Fq
             /\ y \in Roots((HashToFq(h) + k) % Q)
             /\ 2 * y >= Q
PROOF
<1>1. PICK x \in Fq : x = HashToFq(h)
  BY FieldFacts, TextConstants DEF HashToFq
<1>2. PICK k \in Nat : k = Steps(x)
  BY StepsFacts
<1>3. k \in Fq /\ First(x, k)
  BY <1>2, StepsFacts, FieldFacts DEF Fq
<1>4. PICK z \in Fq : z = (x + k) % Q
  <2>1. x + k \in Nat
    BY FieldFacts
  <2> QED
    BY <2>1, FieldFacts
<1>5. Roots(z) # {}
  BY <1>3, <1>4 DEF First
<1>6. PICK y \in Fq : y = LargerRoot(z) /\ y \in Roots(z) /\ 2 * y >= Q
  BY <1>5, LargerRootFacts
<1>7. Found(x, k) = <<z, y>>
  BY <1>4, <1>6 DEF Found
<1>8. HashtoG1(h) = <<z, y>>
  BY <1>1, <1>2, <1>7, PointFromIs DEF HashtoG1
<1>9. HashtoG1withHint(h) = [point |-> <<z, y>>, counter |-> k]
  BY <1>1, <1>2, <1>7, CountedFromIs DEF HashtoG1withHint
<1>10. HintOf(h) = <<fieldElementToString(y), fieldElementToString(k)>>
  BY <1>9 DEF HintOf
<1> QED
  BY <1>1, <1>3, <1>4, <1>6, <1>8, <1>10

-----------------------------------------------------------------------------
(* Objects and texts: these facts are about one object or text, whatever   *)
(* the state.                                                              *)

LEMMA KindFacts ==
  /\ \A kind \in Kinds : \A class \in kind : KindOf(class) = kind
  /\ PublicKeys \in Kinds /\ PrivateKeys \in Kinds /\ Signatures \in Kinds
  /\ {"Ciphertext"} \in Kinds /\ PublicKeys # PrivateKeys
  /\ Signatures # PrivateKeys /\ {"Ciphertext"} # PrivateKeys
  /\ \A kind \in Kinds : \A class \in kind :
         /\ class \in PublicKeys <=> kind = PublicKeys
         /\ class \in PrivateKeys <=> kind = PrivateKeys
         /\ class \in Signatures <=> kind = Signatures
         /\ class = "Ciphertext" <=> kind = {"Ciphertext"}
         /\ class = "Ciphertext" <=> "Ciphertext" \in kind
         /\ \/ kind = PublicKeys \/ kind = PrivateKeys
            \/ kind = Signatures \/ kind = {"Ciphertext"}
PROOF
<1>1. \A kind, other \in Kinds : \A class \in kind : class \in other => kind = other
  BY DEF Kinds, PublicKeys, PrivateKeys, Signatures
<1>2. \A kind \in Kinds : \A class \in kind : KindOf(class) = kind
  BY <1>1, Zenon DEF KindOf
<1>3. /\ PublicKeys \in Kinds /\ PrivateKeys \in Kinds /\ Signatures \in Kinds
      /\ {"Ciphertext"} \in Kinds
      /\ Kinds = {PublicKeys, PrivateKeys, Signatures, {"Ciphertext"}}
  BY DEF Kinds
<1>4. /\ PublicKeys # PrivateKeys /\ Signatures # PrivateKeys
      /\ {"Ciphertext"} # PrivateKeys
  BY DEF Signatures, PublicKeys, PrivateKeys
<1> HIDE DEF Kinds
<1> QED
  BY <1>1, <1>2, <1>3, <1>4

\* The four kinds of objects that the library makes.
LEMMA MadeFacts ==
  ASSUME NEW o, NEW h, Made(o, h)
  PROVE  /\ o.class \in Classes
         /\ \E kind \in Kinds : o.class \in kind
         /\ o.class \in PublicKeys =>
                o.coords \in Twist /\ o.coords \in [1..4 -> Fq] /\ o.data = <<>>
         /\ o.class \in PrivateKeys =>
                o.data = <<>> /\ \E k \in 1..(R - 1) : o.coords = <<k>>
         /\ o.class = "Ciphertext" =>
                o.coords \in [1..6 -> Fq] /\ o.data \in Seq(Nat) /\ o.data # <<>>
         /\ o.class \in Signatures =>
                /\ o.data = <<>> /\ o.coords \in CurvePoints
                /\ h \in Hashes /\ o.hint = HintOf(h)
         /\ h # None => o.class \in Signatures
PROOF
<1>1. CASE o \in Computed /\ h = None
  <2>1. o.class \notin Signatures
    BY <1>1 DEF Computed, PublicKeys, PrivateKeys, Signatures
  <2>2. CASE o \in [class : PublicKeys, coords : Twist, hint : {<<>>}, data : {<<>>}]
    <3>1. o.class \in PublicKeys /\ o.coords \in Twist /\ o.data = <<>>
      BY <2>2
    <3>2. o.class \notin PrivateKeys /\ o.class # "Ciphertext"
      BY <3>1 DEF PublicKeys, PrivateKeys
    <3> QED
      BY <1>1, <2>1, <3>1, <3>2, TextConstants DEF Classes, Kinds
  <2>3. CASE o \in [class : PrivateKeys, coords : {<<k>> : k \in 1..(R - 1)},
                    hint : {<<>>}, data : {<<>>}]
    <3>1. /\ o.class \in PrivateKeys /\ o.data = <<>>
          /\ \E k \in 1..(R - 1) : o.coords = <<k>>
      BY <2>3
    <3>2. o.class \notin PublicKeys /\ o.class # "Ciphertext"
      BY <3>1 DEF PublicKeys, PrivateKeys
    <3> QED
      BY <1>1, <2>1, <3>1, <3>2 DEF Classes, Kinds
  <2>4. CASE o \in [class : {"Ciphertext"}, coords : Coordinates, hint : {<<>>}, data : AesData]
    <3>1. o.class = "Ciphertext" /\ o.coords \in Coordinates /\ o.data \in AesData
      BY <2>4
    <3>2. o.class \notin PublicKeys /\ o.class \notin PrivateKeys
      BY <3>1 DEF PublicKeys, PrivateKeys
    <3> QED
      BY <1>1, <2>1, <3>1, <3>2, TextConstants DEF Classes, Kinds
  <2> QED
    BY <1>1, <2>2, <2>3, <2>4 DEF Computed
<1>2. CASE /\ h \in Hashes
           /\ \E point \in CurvePoints : o = Object("BLSSigShare", point, HintOf(h), <<>>)
  <2>1. PICK point \in CurvePoints : o = Object("BLSSigShare", point, HintOf(h), <<>>)
    BY <1>2
  <2>2. /\ o.class = "BLSSigShare" /\ o.coords \in CurvePoints
        /\ o.hint = HintOf(h) /\ o.data = <<>>
    BY <2>1 DEF Object
  <2>3. /\ o.class \in Signatures /\ o.class \notin PublicKeys
        /\ o.class \notin PrivateKeys /\ o.class # "Ciphertext"
    BY <2>2 DEF PublicKeys, PrivateKeys, Signatures
  <2> QED
    BY <1>2, <2>2, <2>3 DEF Classes, Kinds
<1> QED
  BY <1>1, <1>2 DEF Made

LEMMA PrintedFacts ==
  ASSUME NEW v \in Fq
  PROVE  /\ fieldElementToString(v) \in Tokens
         /\ fieldElementToString(v).value = v
         /\ HasItsDigits(fieldElementToString(v))
PROOF
<1>1. fieldElementToString(v) \in [value : {v}, digits : 1..(MaxComponentLen + 1)]
  BY PaddedFacts
<1>2. 1..(MaxComponentLen + 1) \subseteq 1..(MaxDigits + HexDigits) /\ v \in Numbers
  BY TextConstants, FieldFacts
<1> QED
  BY <1>1, <1>2, PaddedFacts DEF Tokens

\* Texts of coordinates, and what is read from them.
LEMMA StringsFacts ==
  ASSUME NEW n \in Nat, NEW coords \in [1..n -> Fq]
  PROVE  /\ Strings(coords) \in [1..n -> Tokens]
         /\ \A i \in 1..n : /\ Strings(coords)[i] = fieldElementToString(coords[i])
                            /\ Strings(coords)[i].value = coords[i]
                            /\ HasItsDigits(Strings(coords)[i])
         /\ Values(Strings(coords), Q) = coords
PROOF
<1>1. \A v \in Fq : /\ fieldElementToString(v) \in Tokens
                    /\ fieldElementToString(v).value = v
                    /\ HasItsDigits(fieldElementToString(v))
  BY PrintedFacts
<1>2. DOMAIN coords = 1..n /\ \A i \in 1..n : coords[i] \in Fq
  OBVIOUS
<1>3. Strings(coords) \in [1..n -> Tokens]
  BY <1>1, <1>2 DEF Strings
<1>4. \A i \in 1..n : /\ Strings(coords)[i] = fieldElementToString(coords[i])
                      /\ Strings(coords)[i].value = coords[i]
                      /\ HasItsDigits(Strings(coords)[i])
  BY <1>1, <1>2 DEF Strings
<1>5. Values(Strings(coords), Q) = coords
  <2>1. \A i \in 1..n : Strings(coords)[i].value % Q = coords[i]
    BY <1>2, <1>4, FieldFacts
  <2>2. DOMAIN Strings(coords) = 1..n
    BY <1>3
  <2> QED
    BY <2>1, <2>2 DEF Values
<1> QED
  BY <1>3, <1>4, <1>5

\* A sequence of four numbers is two and two of them.
LEMMA TwoAndTwo ==
  ASSUME NEW s \in Seq(Tokens), NEW t \in Seq(Tokens), NEW u \in Seq(Tokens),
         Len(s) = 4, Len(t) = 2, Len(u) = 2,
         s[1] = t[1], s[2] = t[2], s[3] = u[1], s[4] = u[2]
  PROVE  t \o u = s /\ SubSeq(s, 1, 2) = t
PROOF
<1> DEFINE w == t \o u
           v == SubSeq(s, 1, 2)
<1>1. (\A i \in 1..4 : i = 1 \/ i = 2 \/ i = 3 \/ i = 4) /\ (\A i \in 1..2 : i = 1 \/ i = 2)
  OBVIOUS
<1>2. w = s
  <2>1. /\ w \in Seq(Tokens) /\ Len(w) = 2 + 2
        /\ \A i \in 1..(2 + 2) : w[i] = IF i <= 2 THEN t[i] ELSE u[i - 2]
    <3>1. /\ w \in Seq(Tokens) /\ Len(w) = Len(t) + Len(u)
          /\ \A i \in 1..(Len(t) + Len(u)) :
                 w[i] = IF i <= Len(t) THEN t[i] ELSE u[i - Len(t)]
      BY ConcatProperties, Zenon
    <3> HIDE DEF w
    <3> QED
      BY <3>1
  <2> HIDE DEF w
  <2>2. \A i \in 1..4 : w[i] = s[i]
    BY <1>1, <2>1
  <2> QED
    BY <2>1, <2>2, SeqEqual
<1>3. v = t
  <2>1. \A i \in 1..2 : s[i] \in Tokens
    BY <1>1
  <2>2. /\ v \in Seq(Tokens) /\ Len(v) = 2 - 1 + 1
        /\ \A i \in 1..(2 - 1 + 1) : v[i] = s[1 + i - 1]
    BY <2>1, SubSeqProperties
  <2> HIDE DEF v
  <2>3. \A i \in 1..2 : v[i] = t[i]
    BY <1>1, <2>2
  <2> QED
    BY <2>2, <2>3, SeqEqual
<1> QED
  BY <1>2, <1>3

\* The text of a share or signature has four numbers.
LEMMA SignatureTokens ==
  ASSUME NEW coords \in CurvePoints, NEW y \in Tokens, NEW n \in Tokens
  PROVE  /\ Strings(coords) \o <<y, n>> =
                <<fieldElementToString(coords[1]), fieldElementToString(coords[2]), y, n>>
         /\ fieldElementToString(coords[1]) \in Tokens
         /\ fieldElementToString(coords[2]) \in Tokens
         /\ fieldElementToString(coords[1]).value = coords[1]
         /\ fieldElementToString(coords[2]).value = coords[2]
         /\ HasItsDigits(fieldElementToString(coords[1]))
         /\ HasItsDigits(fieldElementToString(coords[2]))
         /\ coords[1] \in Fq /\ coords[2] \in Fq /\ coords = <<coords[1], coords[2]>>
PROOF
<1>1. coords[1] \in Fq /\ coords[2] \in Fq /\ coords = <<coords[1], coords[2]>>
  BY DEF CurvePoints
<1>2. coords \in [1..2 -> Fq]
  BY <1>1
<1>3. /\ Strings(coords) \in [1..2 -> Tokens]
      /\ \A i \in 1..2 : /\ Strings(coords)[i] = fieldElementToString(coords[i])
                         /\ Strings(coords)[i].value = coords[i]
                         /\ HasItsDigits(Strings(coords)[i])
  BY <1>2, StringsFacts
<1> DEFINE a == fieldElementToString(coords[1])
           b == fieldElementToString(coords[2])
<1>4. /\ a \in Tokens /\ b \in Tokens /\ a.value = coords[1] /\ b.value = coords[2]
      /\ HasItsDigits(a) /\ HasItsDigits(b)
  BY <1>3
<1>5. Strings(coords) = <<a, b>>
  BY <1>3
<1>6. Strings(coords) \o <<y, n>> = <<a, b, y, n>>
  <2> HIDE DEF a, b
  <2> DEFINE s == <<a, b, y, n>>
             t == <<a, b>>
             u == <<y, n>>
  <2>1. s \in Seq(Tokens) /\ Len(s) = 4 /\ s[1] = a /\ s[2] = b /\ s[3] = y /\ s[4] = n
    BY <1>4
  <2>2. t \in Seq(Tokens) /\ Len(t) = 2 /\ t[1] = a /\ t[2] = b
    BY <1>4
  <2>3. u \in Seq(Tokens) /\ Len(u) = 2 /\ u[1] = y /\ u[2] = n
    OBVIOUS
  <2> HIDE DEF s, t, u
  <2>4. s[1] = t[1] /\ s[2] = t[2] /\ s[3] = u[1] /\ s[4] = u[2]
    BY <2>1, <2>2, <2>3
  <2>5. t \o u = s
    BY <2>1, <2>2, <2>3, <2>4, TwoAndTwo, Zenon
  <2> QED
    BY <1>5, <2>5, Zenon DEF s, t, u
<1> QED
  BY <1>1, <1>4, <1>6

LEMMA SignatureValues ==
  ASSUME NEW a \in Tokens, NEW b \in Tokens, NEW y \in Tokens, NEW n \in Tokens
  PROVE  Values(SubSeq(<<a, b, y, n>>, 1, 2), Q) = <<a.value % Q, b.value % Q>>
PROOF
<1>1. SubSeq(<<a, b, y, n>>, 1, 2) = <<a, b>>
  <2> DEFINE s == <<a, b, y, n>>
             t == <<a, b>>
             u == <<y, n>>
  <2>1. s \in Seq(Tokens) /\ Len(s) = 4 /\ s[1] = a /\ s[2] = b /\ s[3] = y /\ s[4] = n
    OBVIOUS
  <2>2. t \in Seq(Tokens) /\ Len(t) = 2 /\ t[1] = a /\ t[2] = b
    OBVIOUS
  <2>3. u \in Seq(Tokens) /\ Len(u) = 2 /\ u[1] = y /\ u[2] = n
    OBVIOUS
  <2> HIDE DEF s, t, u
  <2>4. SubSeq(s, 1, 2) = t
    BY <2>1, <2>2, <2>3, TwoAndTwo
  <2> QED
    BY <2>4 DEF s, t
<1>2. Values(<<a, b>>, Q) = <<a.value % Q, b.value % Q>>
  BY DEF Values
<1> QED
  BY <1>1, <1>2

\* The hint of a share has two numbers of the field.
LEMMA HintTokens ==
  ASSUME NEW h \in Hashes
  PROVE  \E y, n \in Tokens : /\ HintOf(h) = <<y, n>> /\ HasItsDigits(y) /\ HasItsDigits(n)
                              /\ y.value \in Fq /\ n.value \in Fq
PROOF
<1>1. PICK y \in Fq, k \in Fq :
          HintOf(h) = <<fieldElementToString(y), fieldElementToString(k)>>
  BY HintFacts
<1> QED
  BY <1>1, PrintedFacts

LEMMA KeepsItself ==
  ASSUME NEW o, NEW h, Made(o, h)
  PROVE  ObjectOf(o, o)
PROOF
<1>1. o.class \in KindOf(o.class)
  BY MadeFacts, KindFacts
<1>2. ASSUME o.class \in Signatures PROVE KeepsHint(o.hint, o)
  <2>1. h \in Hashes /\ o.hint = HintOf(h)
    BY <1>2, MadeFacts
  <2>2. PICK y, n \in Tokens : /\ o.hint = <<y, n>> /\ HasItsDigits(y) /\ HasItsDigits(n)
                               /\ y.value \in Fq /\ n.value \in Fq
    BY <2>1, HintTokens
  <2>3. y.value % Q = y.value /\ n.value % Q = n.value
    BY <2>2, FieldFacts
  <2>4. o.hint[1] = y /\ o.hint[2] = n
    BY <2>2
  <2> QED
    BY <2>2, <2>3, <2>4 DEF KeepsHint
<1>3. KeepsData(o.data, o)
  <2>1. o.class \in PublicKeys \/ o.class \in PrivateKeys \/ o.class \in Signatures
            \/ o.class = "Ciphertext"
    BY MadeFacts, KindFacts
  <2>2. o.data \in Seq(Nat)
    <3>1. <<>> \in Seq(Nat)
      OBVIOUS
    <3> QED
      BY <2>1, <3>1, MadeFacts
  <2> QED
    BY <2>2 DEF KeepsData
<1> QED
  BY <1>1, <1>2, <1>3 DEF ObjectOf

\* A signature's text has its coordinates and then its hint.
LEMMA SignatureText ==
  ASSUME NEW o, NEW h, Made(o, h), o.class \in Signatures,
         NEW y \in Tokens, NEW n \in Tokens, HasItsDigits(y), HasItsDigits(n),
         y.value % Q = o.hint[1].value, n.value % Q = o.hint[2].value
  PROVE  TextOf(Text(o.class, Strings(o.coords) \o <<y, n>>, <<>>), o)
PROOF
<1>1. o.coords \in CurvePoints /\ o.data = <<>>
  BY MadeFacts
<1>2. PICK a, b \in Tokens :
          /\ Strings(o.coords) \o <<y, n>> = <<a, b, y, n>>
          /\ a.value = o.coords[1] /\ b.value = o.coords[2]
          /\ HasItsDigits(a) /\ HasItsDigits(b)
          /\ o.coords[1] \in Fq /\ o.coords[2] \in Fq
  BY <1>1, SignatureTokens
<1>3. a.value % Q = o.coords[1] /\ b.value % Q = o.coords[2]
  BY <1>2, FieldFacts
<1> DEFINE s == <<a, b, y, n>>
           m == Meant(o)
<1>4. m = <<o.coords[1], o.coords[2], o.hint[1].value, o.hint[2].value>>
  BY DEF Meant
<1>5. s \in [1..4 -> Tokens] /\ s[1] = a /\ s[2] = b /\ s[3] = y /\ s[4] = n
  OBVIOUS
<1>6. /\ DOMAIN m = 1..4 /\ m[1] = o.coords[1] /\ m[2] = o.coords[2]
      /\ m[3] = o.hint[1].value /\ m[4] = o.hint[2].value
  BY <1>4
<1>7. \A i \in 1..4 : i = 1 \/ i = 2 \/ i = 3 \/ i = 4
  OBVIOUS
<1> HIDE DEF s, m
<1>8. \A i \in 1..4 : s[i].value % Q = m[i] /\ HasItsDigits(s[i])
  BY <1>2, <1>3, <1>5, <1>6, <1>7
<1>9. KindOf(o.class) = Signatures /\ KindOf(o.class) # PrivateKeys
  <2>1. KindOf(o.class) = Signatures
    BY KindFacts
  <2> QED
    BY <2>1, KindFacts
<1>10. KeepsData(<<>>, o)
  <2>1. <<>> \in Seq(Nat) /\ DOMAIN <<>> = {}
    OBVIOUS
  <2> QED
    BY <1>1, <2>1 DEF KeepsData
<1> DEFINE t == Text(o.class, s, <<>>)
<1>11. t.readers = KindOf(o.class) /\ t.tokens = s /\ t.data = <<>>
  BY DEF Text
<1>12. t = Text(o.class, t.tokens, t.data)
  BY DEF Text
<1> HIDE DEF t
<1>13. Modulus(t.readers) = Q
  BY <1>9, <1>11 DEF Modulus
<1>14. DOMAIN t.tokens = 1..4
  BY <1>5, <1>11
<1>15. TextOf(t, o)
  BY <1>5, <1>6, <1>8, <1>10, <1>11, <1>12, <1>13, <1>14 DEF TextOf, m
<1> QED
  BY <1>2, <1>15 DEF s, t

\* Key classes and ciphertexts: one token for each coordinate.
LEMMA CoordinatesText ==
  ASSUME NEW o, NEW h, Made(o, h), o.class \notin Signatures,
         NEW n \in Nat, o.coords \in [1..n -> Fq], NEW s \in [1..n -> Tokens],
         \A i \in 1..n : s[i].value = o.coords[i],
         o.class # "Ciphertext" => \A i \in 1..n : HasItsDigits(s[i]),
         o.class \in PrivateKeys => \A i \in 1..n : o.coords[i] < R,
         NEW d, KeepsData(d, o)
  PROVE  TextOf(Text(o.class, s, d), o)
PROOF
<1> DEFINE t == Text(o.class, s, d)
<1>1. /\ t.readers = KindOf(o.class) /\ t.tokens = s /\ t.data = d
      /\ t = Text(o.class, t.tokens, t.data)
  BY DEF Text
<1>2. Meant(o) = o.coords /\ DOMAIN o.coords = 1..n /\ DOMAIN s = 1..n
  BY DEF Meant
<1>3. PICK kind \in Kinds : o.class \in kind /\ KindOf(o.class) = kind
  BY MadeFacts, KindFacts
<1>4. /\ kind = PrivateKeys <=> o.class \in PrivateKeys
      /\ o.class = "Ciphertext" <=> "Ciphertext" \in kind
  BY <1>3, KindFacts
<1>5. \A i \in 1..n : s[i].value % Modulus(kind) = o.coords[i]
  <2> TAKE i \in 1..n
  <2>1. o.coords[i] \in Fq /\ s[i].value = o.coords[i]
    OBVIOUS
  <2>2. CASE o.class \in PrivateKeys
    <3>1. Modulus(kind) = R
      BY <1>4, <2>2 DEF Modulus
    <3>2. PICK v \in Fq : v = o.coords[i] /\ v < R
      BY <2>1, <2>2
    <3>3. v \in Nat /\ R \in Nat
      BY FieldFacts
    <3>4. v \in 0..(R - 1)
      BY <3>2, <3>3
    <3> QED
      BY <2>1, <3>1, <3>2, <3>4, FieldFacts
  <2>3. CASE o.class \notin PrivateKeys
    <3>1. Modulus(kind) = Q
      BY <1>4, <2>3 DEF Modulus
    <3> QED
      BY <2>1, <3>1, FieldFacts
  <2> QED
    BY <2>2, <2>3
<1> HIDE DEF t
<1>6. \A i \in DOMAIN t.tokens : t.tokens[i].value % Modulus(t.readers) = Meant(o)[i]
  BY <1>1, <1>2, <1>3, <1>5
<1>7. \A i \in DOMAIN t.tokens : "Ciphertext" \in t.readers \/ HasItsDigits(t.tokens[i])
  BY <1>1, <1>2, <1>3, <1>4
<1>8. t.tokens \in [DOMAIN Meant(o) -> Tokens]
  BY <1>1, <1>2
<1>9. KeepsData(t.data, o)
  BY <1>1
<1>10. TextOf(t, o)
  BY <1>1, <1>6, <1>7, <1>8, <1>9 DEF TextOf
<1> QED
  BY <1>10 DEF t

\* What toString writes is a text of the object.
LEMMA Printed ==
  ASSUME NEW o, NEW h, Made(o, h), NEW x, ObjectOf(x, o)
  PROVE  TextOf(toString(x), o)
PROOF
<1>1. PICK kind \in Kinds : o.class \in kind /\ KindOf(o.class) = kind
  BY MadeFacts, KindFacts
<1>2. x.class \in kind /\ x.coords = o.coords /\ KeepsData(x.data, o)
  BY <1>1 DEF ObjectOf
<1>3. \A s, d : Text(x.class, s, d) = Text(o.class, s, d)
  <2>1. KindOf(x.class) = KindOf(o.class)
    BY <1>1, <1>2, KindFacts
  <2> QED
    BY <2>1 DEF Text
<1>4. CASE kind = Signatures
  <2>1. PICK y, n \in Tokens :
            /\ x.hint = <<y, n>> /\ HasItsDigits(y) /\ HasItsDigits(n)
            /\ y.value % Q = o.hint[1].value /\ n.value % Q = o.hint[2].value
    BY <1>1, <1>4 DEF ObjectOf, KeepsHint
  <2>2. /\ x.class \in Signatures /\ x.class \notin PublicKeys \cup PrivateKeys
        /\ x.class # "Ciphertext" /\ o.class \in Signatures
    BY <1>1, <1>2, <1>4, KindFacts DEF PublicKeys, PrivateKeys, Signatures
  <2>3. toString(x) = Text(o.class, Strings(o.coords) \o <<y, n>>, <<>>)
    BY <1>2, <1>3, <2>1, <2>2 DEF toString
  <2> QED
    BY <2>1, <2>2, <2>3, SignatureText
<1>5. CASE kind = PublicKeys \/ kind = PrivateKeys
  <2>1. /\ x.class \in PublicKeys \cup PrivateKeys /\ x.class \notin Signatures
        /\ x.class # "Ciphertext" /\ o.class \notin Signatures
    BY <1>1, <1>2, <1>5, KindFacts DEF PublicKeys, PrivateKeys, Signatures
  <2>2. toString(x) = Text(o.class, Strings(o.coords), <<>>)
    BY <1>2, <1>3, <2>1 DEF toString
  <2>3. KeepsData(<<>>, o)
    <3>1. o.data = <<>>
      BY <1>1, <1>5, MadeFacts
    <3>2. <<>> \in Seq(Nat) /\ DOMAIN <<>> = {}
      OBVIOUS
    <3> QED
      BY <3>1, <3>2 DEF KeepsData
  <2>4. PICK n \in Nat : /\ o.coords \in [1..n -> Fq]
                         /\ o.class \in PrivateKeys => \A i \in 1..n : o.coords[i] < R
    <3>1. CASE kind = PublicKeys
      <4>1. o.coords \in [1..4 -> Fq] /\ o.class \notin PrivateKeys
        BY <1>1, <3>1, MadeFacts DEF PublicKeys, PrivateKeys
      <4> QED
        BY <4>1
    <3>2. CASE kind = PrivateKeys
      <4>1. PICK k \in 1..(R - 1) : o.coords = <<k>>
        BY <1>1, <3>2, MadeFacts
      <4>2. k \in Fq /\ k < R
        BY FieldFacts
      <4>3. <<k>> \in [1..1 -> Fq] /\ \A i \in 1..1 : <<k>>[i] = k
        BY <4>2
      <4> QED
        BY <4>1, <4>2, <4>3
    <3> QED
      BY <1>5, <3>1, <3>2
  <2> DEFINE s == Strings(o.coords)
  <2>5. s \in [1..n -> Tokens] /\ \A i \in 1..n : s[i].value = o.coords[i] /\ HasItsDigits(s[i])
    BY <2>4, StringsFacts
  <2> HIDE DEF s
  <2>6. TextOf(Text(o.class, s, <<>>), o)
    BY <2>1, <2>3, <2>4, <2>5, CoordinatesText
  <2> QED
    BY <2>2, <2>6 DEF s
<1>6. CASE kind = {"Ciphertext"}
  <2>1. x.class = "Ciphertext" /\ o.class = "Ciphertext"
    BY <1>1, <1>2, <1>6
  <2>2. /\ o.class \notin Signatures /\ o.class \notin PrivateKeys
        /\ o.class \notin PublicKeys
    BY <2>1 DEF PublicKeys, PrivateKeys, Signatures
  <2>3. o.coords \in [1..6 -> Fq]
    BY <2>1, MadeFacts
  <2> DEFINE s == HexStrings(o.coords)
  <2>4. s \in [1..6 -> Tokens] /\ \A i \in 1..6 : s[i].value = o.coords[i]
    <3>1. HexDigits \in 1..(MaxDigits + HexDigits)
      BY TextConstants
    <3>2. \A v \in Fq : Typed(v, HexDigits) \in Tokens /\ Typed(v, HexDigits).value = v
      BY <3>1, FieldFacts DEF Typed, Tokens
    <3> QED
      BY <2>3, <3>2 DEF HexStrings
  <2>5. toString(x) = Text(o.class, s, x.data)
    BY <1>2, <1>3, <2>1, <2>2 DEF toString
  <2> HIDE DEF s
  <2>6. TextOf(Text(o.class, s, x.data), o)
    BY <1>2, <2>1, <2>2, <2>3, <2>4, CoordinatesText
  <2> QED
    BY <2>5, <2>6
<1> QED
  BY <1>1, <1>4, <1>5, <1>6, KindFacts

\* Typing a number in another way does not change what it stands for.
LEMMA Retyped ==
  ASSUME NEW o, NEW t, TextOf(t, o), "Ciphertext" \notin t.readers,
         NEW i \in DOMAIN t.tokens, NEW v \in Numbers, NEW d \in 1..MaxDigits,
         v % Modulus(t.readers) = t.tokens[i].value % Modulus(t.readers),
         NumDigits[v] <= d
  PROVE  TextOf([t EXCEPT !.tokens[i] = Typed(v, d)], o)
PROOF
<1> DEFINE s == [t.tokens EXCEPT ![i] = Typed(v, d)]
           u == Text(o.class, s, t.data)
<1>1. /\ t = Text(o.class, t.tokens, t.data) /\ t.readers = KindOf(o.class)
      /\ t.tokens \in [DOMAIN Meant(o) -> Tokens]
      /\ \A j \in DOMAIN t.tokens :
             t.tokens[j].value % Modulus(t.readers) = Meant(o)[j] /\ HasItsDigits(t.tokens[j])
      /\ KeepsData(t.data, o)
  BY DEF TextOf, Text
<1>2. [t EXCEPT !.tokens[i] = Typed(v, d)] = u
  BY <1>1 DEF Text
<1>3. u.readers = t.readers /\ u.tokens = s /\ u.data = t.data /\ u = Text(o.class, u.tokens, u.data)
  BY <1>1 DEF Text
<1>4. /\ Typed(v, d) \in Tokens /\ HasItsDigits(Typed(v, d)) /\ Typed(v, d).value = v
  <2>1. d \in 1..(MaxDigits + HexDigits)
    BY TextConstants
  <2> QED
    BY <2>1 DEF Typed, Tokens, HasItsDigits
<1>5. s \in [DOMAIN Meant(o) -> Tokens]
  BY <1>1, <1>4
<1>6. \A j \in DOMAIN s : s[j].value % Modulus(t.readers) = Meant(o)[j] /\ HasItsDigits(s[j])
  BY <1>1, <1>4
<1> HIDE DEF s, u
<1>7. TextOf(u, o)
  BY <1>1, <1>3, <1>5, <1>6 DEF TextOf
<1> QED
  BY <1>2, <1>7

\* What hex2carray leaves of an AES part.
LEMMA ReadBytesKeep ==
  ASSUME NEW o, NEW d, KeepsData(d, o)
  PROVE  KeepsData(ReadBytes(d), o)
PROOF
<1> DEFINE e == ReadBytes(d)
<1>1. /\ d \in Seq(Nat) /\ Len(d) = Len(o.data)
      /\ \A i \in DOMAIN d : d[i] = o.data[i] \/ (i > MaxHexBytes /\ d[i] = 0)
  BY DEF KeepsData
<1>2. PICK n \in Nat : n = Len(d) /\ DOMAIN d = 1..n /\ \A i \in 1..n : d[i] \in Nat
  BY <1>1
<1>3. e = [i \in 1..n |-> IF i <= MaxHexBytes THEN d[i] ELSE 0]
  BY <1>2 DEF ReadBytes
<1>4. e \in Seq(Nat) /\ Len(e) = n /\ DOMAIN e = 1..n
  <2>1. e \in [1..n -> Nat]
    BY <1>2, <1>3
  <2> HIDE DEF e
  <2> QED
    BY <2>1
<1>5. \A i \in 1..n : e[i] = o.data[i] \/ (i > MaxHexBytes /\ e[i] = 0)
  <2> TAKE i \in 1..n
  <2>1. CASE i <= MaxHexBytes
    <3>1. ~(i > MaxHexBytes) /\ e[i] = d[i]
      BY <1>3, <2>1, TextConstants
    <3> QED
      BY <1>1, <1>2, <3>1
  <2>2. CASE ~(i <= MaxHexBytes)
    <3>1. i > MaxHexBytes /\ e[i] = 0
      BY <1>3, <2>2, TextConstants
    <3> QED
      BY <3>1
  <2> QED
    BY <2>1, <2>2
<1> HIDE DEF e
<1>6. KeepsData(e, o)
  BY <1>1, <1>2, <1>4, <1>5 DEF KeepsData
<1> QED
  BY <1>6 DEF e

\* What a constructor makes of a text of o is o again, but for its data.
LEMMA ReadBack ==
  ASSUME NEW o, NEW h, Made(o, h), NEW t, TextOf(t, o), NEW class \in t.readers
  PROVE  ObjectOf(FromString(class, t), o)
PROOF
<1>1. PICK kind \in Kinds : o.class \in kind /\ KindOf(o.class) = kind
  BY MadeFacts, KindFacts
<1>2. /\ t.readers = kind /\ class \in kind
      /\ t.tokens \in [DOMAIN Meant(o) -> Tokens]
      /\ \A i \in DOMAIN t.tokens : /\ t.tokens[i].value % Modulus(kind) = Meant(o)[i]
                                    /\ "Ciphertext" \in kind \/ HasItsDigits(t.tokens[i])
      /\ KeepsData(t.data, o)
  BY <1>1 DEF TextOf, Text
<1> DEFINE x == FromString(class, t)
<1>3. ASSUME kind # Signatures, NEW n \in Nat, NEW f \in [1..n -> Fq], o.coords = f
      PROVE  Values(t.tokens, Modulus(kind)) = o.coords
  <2>1. Meant(o) = f /\ DOMAIN f = 1..n
    BY <1>1, <1>3, KindFacts DEF Meant
  <2>2. DOMAIN t.tokens = 1..n /\ \A i \in 1..n : t.tokens[i].value % Modulus(kind) = f[i]
    BY <1>2, <2>1
  <2> QED
    BY <1>3, <2>2 DEF Values
<1>4. ASSUME o.data = <<>> PROVE KeepsData(<<>>, o)
  <2>1. <<>> \in Seq(Nat) /\ DOMAIN <<>> = {}
    OBVIOUS
  <2> QED
    BY <1>4, <2>1 DEF KeepsData
<1>5. CASE kind = PublicKeys
  <2>1. class \in PublicKeys /\ o.class \notin Signatures /\ kind # Signatures /\ kind # PrivateKeys
    BY <1>1, <1>2, <1>5, KindFacts DEF PublicKeys, Signatures
  <2>2. o.coords \in [1..4 -> Fq] /\ o.data = <<>>
    BY <1>1, <1>5, MadeFacts
  <2>3. Values(t.tokens, Q) = o.coords
    BY <1>3, <2>1, <2>2 DEF Modulus
  <2>4. x = Object(class, o.coords, <<>>, <<>>)
    BY <2>1, <2>3 DEF FromString, PublicKeys, PrivateKeys, Signatures
  <2>5. x.class = class /\ x.coords = o.coords /\ x.data = <<>>
    BY <2>4 DEF Object
  <2> HIDE DEF x
  <2>6. ObjectOf(x, o)
    BY <1>1, <1>2, <1>4, <2>1, <2>2, <2>5 DEF ObjectOf
  <2> QED
    BY <2>6 DEF x
<1>6. CASE kind = PrivateKeys
  <2>1. class \in PrivateKeys /\ o.class \notin Signatures /\ kind # Signatures
    BY <1>1, <1>2, <1>6, KindFacts DEF PrivateKeys, Signatures
  <2>2. PICK k \in 1..(R - 1) : o.coords = <<k>> /\ o.data = <<>>
    BY <1>1, <1>6, MadeFacts
  <2>3. Values(t.tokens, R) = o.coords
    <3>1. <<k>> \in [1..1 -> Fq]
      BY FieldFacts
    <3>2. PICK f \in [1..1 -> Fq] : o.coords = f
      BY <2>2, <3>1
    <3> QED
      BY <1>3, <1>6, <2>1, <3>2 DEF Modulus
  <2>4. x = Object(class, o.coords, <<>>, <<>>)
    BY <2>1, <2>3 DEF FromString, PublicKeys, PrivateKeys, Signatures
  <2>5. x.class = class /\ x.coords = o.coords /\ x.data = <<>>
    BY <2>4 DEF Object
  <2> HIDE DEF x
  <2>6. ObjectOf(x, o)
    BY <1>1, <1>2, <1>4, <2>1, <2>2, <2>5 DEF ObjectOf
  <2> QED
    BY <2>6 DEF x
<1>7. CASE kind = {"Ciphertext"}
  <2>1. class = "Ciphertext" /\ o.class \notin Signatures /\ kind # Signatures /\ kind # PrivateKeys
    BY <1>1, <1>2, <1>7, KindFacts DEF Signatures
  <2>2. o.coords \in [1..6 -> Fq]
    BY <1>1, <1>7, MadeFacts
  <2>3. Values(t.tokens, Q) = o.coords
    BY <1>3, <2>1, <2>2 DEF Modulus
  <2>4. x = Object(class, o.coords, <<>>, ReadBytes(t.data))
    BY <2>1, <2>3 DEF FromString, PublicKeys, PrivateKeys, Signatures
  <2>5. x.class = class /\ x.coords = o.coords /\ x.data = ReadBytes(t.data)
    BY <2>4 DEF Object
  <2>6. KeepsData(ReadBytes(t.data), o)
    BY <1>2, ReadBytesKeep
  <2> HIDE DEF x
  <2>7. ObjectOf(x, o)
    BY <1>1, <1>2, <2>1, <2>5, <2>6 DEF ObjectOf
  <2> QED
    BY <2>7 DEF x
<1>8. CASE kind = Signatures
  <2>1. class \in Signatures /\ o.class \in Signatures
    BY <1>1, <1>2, <1>8
  <2>2. /\ o.coords \in CurvePoints /\ o.data = <<>> /\ o.coords = <<o.coords[1], o.coords[2]>>
    BY <2>1, MadeFacts DEF CurvePoints
  <2>3. /\ Meant(o) = <<o.coords[1], o.coords[2], o.hint[1].value, o.hint[2].value>>
        /\ Modulus(kind) = Q
    BY <1>8, <2>1, KindFacts DEF Meant, Modulus
  <2> DEFINE m == <<o.coords[1], o.coords[2], o.hint[1].value, o.hint[2].value>>
  <2>4. /\ DOMAIN m = 1..4 /\ m[1] = o.coords[1] /\ m[2] = o.coords[2]
        /\ m[3] = o.hint[1].value /\ m[4] = o.hint[2].value
    OBVIOUS
  <2> HIDE DEF m
  <2>5. /\ t.tokens \in [1..4 -> Tokens]
        /\ \A i \in 1..4 : t.tokens[i].value % Q = m[i]
    BY <1>2, <2>3, <2>4 DEF m
  <2>6. "Ciphertext" \notin kind
    BY <1>1, <1>8, KindFacts DEF Signatures
  <2>7. PICK a, b, y, n \in Tokens :
            /\ t.tokens = <<a, b, y, n>>
            /\ a.value % Q = o.coords[1] /\ b.value % Q = o.coords[2]
            /\ y.value % Q = o.hint[1].value /\ n.value % Q = o.hint[2].value
            /\ HasItsDigits(y) /\ HasItsDigits(n)
    <3>1. t.tokens = <<t.tokens[1], t.tokens[2], t.tokens[3], t.tokens[4]>>
      BY <2>5
    <3>2. \A i \in 1..4 : t.tokens[i] \in Tokens /\ HasItsDigits(t.tokens[i])
      BY <1>2, <2>5, <2>6
    <3> QED
      BY <2>4, <2>5, <3>1, <3>2
  <2>8. Values(SubSeq(t.tokens, 1, 2), Q) = o.coords
    BY <2>2, <2>7, SignatureValues
  <2>9. KeptHint(t.tokens) = <<y, n>>
    BY <2>7 DEF KeptHint
  <2>10. x = Object(class, o.coords, <<y, n>>, <<>>)
    BY <2>1, <2>8, <2>9 DEF FromString, PublicKeys, PrivateKeys, Signatures
  <2>11. x.class = class /\ x.coords = o.coords /\ x.hint = <<y, n>> /\ x.data = <<>>
    BY <2>10 DEF Object
  <2>12. KeepsHint(<<y, n>>, o)
    BY <2>7 DEF KeepsHint
  <2> HIDE DEF x
  <2>13. ObjectOf(x, o)
    BY <1>1, <1>2, <1>4, <2>2, <2>11, <2>12 DEF ObjectOf
  <2> QED
    BY <2>13 DEF x
<1> QED
  BY <1>1, <1>5, <1>6, <1>7, <1>8, KindFacts

-----------------------------------------------------------------------------
(* The inductive invariant.                                                *)

\* The invariant IInv holds in every state: whatever is on its way, printed,
\* typed and read however often, is an object or a text of the one that started.
THEOREM Invariant == Spec => []IInv
PROOF
<1>1. Init => IInv
  BY DEF Init, IInv
<1>2. IInv /\ [Next]_vars => IInv'
  <2> SUFFICES ASSUME IInv, [Next]_vars PROVE IInv'
    OBVIOUS
  <2>1. /\ threw \in BOOLEAN /\ hash \in Hashes \cup {None}
        /\ object # None \/ text # None \/ origin # None => Made(origin, hash)
        /\ object # None => ObjectOf(object, origin)
        /\ text # None => TextOf(text, origin)
    BY DEF IInv
  <2>2. ASSUME NEW o \in Computed, Compute(o) PROVE IInv'
    <3>1. /\ object' = o /\ text = None /\ text' = text /\ origin' = o /\ hash' = None
          /\ threw' = FALSE
      BY <2>2 DEF Compute, Begin
    <3>2. PICK none : none = None
      OBVIOUS
    <3>3. Made(o, none)
      BY <3>2 DEF Made
    <3>4. ObjectOf(o, o)
      BY <3>3, KeepsItself
    <3> QED
      BY <3>1, <3>2, <3>3, <3>4 DEF IInv
  <2>3. ASSUME NEW h \in Hashes, NEW point \in CurvePoints, Sign(h, point) PROVE IInv'
    <3>1. PICK o : o = Object("BLSSigShare", point, HintOf(h), <<>>)
      OBVIOUS
    <3>2. /\ object' = None \/ object' = o
          /\ text = None /\ text' = text /\ origin' = o /\ hash' = h /\ threw' \in BOOLEAN
      BY <2>3, <3>1 DEF Sign, Begin
    <3>3. Made(o, h)
      BY <3>1 DEF Made
    <3>4. ObjectOf(o, o)
      BY <3>3, KeepsItself
    <3> QED
      BY <3>2, <3>3, <3>4 DEF IInv
  <2>4. ASSUME NEW h \in Hashes, NEW point \in CurvePoints, WriteShare(h, point) PROVE IInv'
    <3>1. PICK o : o = Object("BLSSigShare", point, HintOf(h), <<>>)
      OBVIOUS
    <3>2. /\ o.class = "BLSSigShare" /\ o.coords = point /\ o.hint = HintOf(h)
          /\ o.class \in Signatures
      BY <3>1 DEF Object, Signatures
    <3>3. Made(o, h)
      BY <3>1 DEF Made
    <3>4. PICK u, n \in Tokens : /\ o.hint = <<u, n>> /\ HasItsDigits(u) /\ HasItsDigits(n)
                                 /\ u.value \in Fq /\ n.value \in Fq
      BY <3>2, HintTokens
    <3>5. o.hint[1] = u /\ o.hint[2] = n
      BY <3>4
    <3>6. PICK y \in {u, Plain(u.value)} :
              /\ text' = Text("BLSSigShare", Strings(point) \o <<y, n>>, <<>>)
              /\ object = None /\ object' = object /\ origin' = o /\ hash' = h /\ threw' = FALSE
      BY <2>4, <3>1, <3>5 DEF WriteShare, Begin
    <3>7. y \in Tokens /\ HasItsDigits(y) /\ y.value = u.value
      <4>1. Plain(u.value) \in Tokens /\ HasItsDigits(Plain(u.value)) /\ Plain(u.value).value = u.value
        <5>1. PICK v \in Fq : v = u.value
          BY <3>4
        <5>2. /\ NumDigits[v] \in 1..MaxComponentLen /\ v \in Numbers
              /\ 1..MaxComponentLen \subseteq 1..(MaxDigits + HexDigits)
          BY FieldFacts, TextConstants
        <5>3. NumDigits[v] <= NumDigits[v]
          BY <5>2, TextConstants
        <5> QED
          BY <5>1, <5>2, <5>3 DEF Plain, Typed, Tokens, HasItsDigits
      <4> QED
        BY <3>4, <3>6, <4>1
    <3>8. y.value % Q = o.hint[1].value /\ n.value % Q = o.hint[2].value
      BY <3>4, <3>5, <3>7, FieldFacts
    <3>9. PICK t : t = Text(o.class, Strings(o.coords) \o <<y, n>>, <<>>)
      OBVIOUS
    <3>10. TextOf(t, o)
      BY <3>2, <3>3, <3>4, <3>7, <3>8, <3>9, SignatureText
    <3>11. text' = t
      BY <3>2, <3>6, <3>9
    <3> QED
      BY <3>3, <3>6, <3>10, <3>11 DEF IInv
  <2>5. CASE PassOn
    <3>1. /\ object # None /\ text' = toString(object) /\ object' = None
          /\ origin' = origin /\ hash' = hash /\ threw' = threw
      BY <2>5 DEF PassOn
    <3>2. Made(origin, hash) /\ TextOf(toString(object), origin)
      BY <2>1, <3>1, Printed
    <3> QED
      BY <2>1, <3>1, <3>2 DEF IInv
  <2>6. ASSUME NEW i \in 1..4, Retype(i) PROVE IInv'
    <3>1. PICK t : t = text
      OBVIOUS
    <3>2. /\ t # None /\ "Ciphertext" \notin t.readers /\ i \in DOMAIN t.tokens
          /\ object' = object /\ origin' = origin /\ hash' = hash /\ threw' = threw
      BY <2>6, <3>1 DEF Retype
    <3>3. PICK v \in Numbers, d \in 1..MaxDigits :
              /\ v % Modulus(t.readers) = t.tokens[i].value % Modulus(t.readers)
              /\ NumDigits[v] <= d
              /\ text' = [t EXCEPT !.tokens[i] = Typed(v, d)]
      BY <2>6, <3>1 DEF Retype
    <3>4. TextOf([t EXCEPT !.tokens[i] = Typed(v, d)], origin) /\ Made(origin, hash)
      BY <2>1, <3>1, <3>2, <3>3, Retyped
    <3> QED
      BY <2>1, <3>2, <3>3, <3>4 DEF IInv
  <2>7. ASSUME NEW class \in Classes, Read(class) PROVE IInv'
    <3>1. /\ text # None /\ class \in text.readers /\ text' = None
          /\ object' = None \/ object' = FromString(class, text)
          /\ origin' = origin /\ hash' = hash /\ threw' = threw
      BY <2>7 DEF Read
    <3>2. Made(origin, hash) /\ ObjectOf(FromString(class, text), origin)
      BY <2>1, <3>1, ReadBack
    <3> QED
      BY <2>1, <3>1, <3>2 DEF IInv
  <2>8. CASE UNCHANGED vars
    BY <2>1, <2>8 DEF IInv, vars
  <2> QED
    BY <2>2, <2>3, <2>4, <2>5, <2>6, <2>7, <2>8 DEF Next
<1> QED
  BY <1>1, <1>2, PTL DEF Spec

-----------------------------------------------------------------------------
(* What the run checks.                                                    *)

LEMMA TypeOfMade ==
  ASSUME NEW o, NEW h, Made(o, h), NEW x, ObjectOf(x, o)
  PROVE  /\ x.class \in Classes
         /\ x.class \in PublicKeys => x.coords \in Twist
         /\ x.class \in PrivateKeys => x.coords[1] \in 1..(R - 1)
         /\ x.class \in Signatures => x.coords \in CurvePoints
PROOF
<1>1. PICK kind \in Kinds : o.class \in kind /\ KindOf(o.class) = kind
  BY MadeFacts, KindFacts
<1>2. x.class \in kind /\ x.coords = o.coords
  BY <1>1 DEF ObjectOf
<1>3. x.class \in Classes
  BY <1>2 DEF Classes
<1>4. /\ x.class \in PublicKeys => o.class \in PublicKeys
      /\ x.class \in PrivateKeys => o.class \in PrivateKeys
      /\ x.class \in Signatures => o.class \in Signatures
  BY <1>1, <1>2, KindFacts
<1>5. o.class \in PrivateKeys => o.coords[1] \in 1..(R - 1)
  BY MadeFacts
<1> QED
  BY <1>2, <1>3, <1>4, <1>5, MadeFacts

\* Types: of an object, of the text on its way, and of what a signature signs.
THEOREM TypeCorrect == Spec => []TypeOK
PROOF
<1>1. IInv => TypeOK
  <2> SUFFICES ASSUME IInv PROVE TypeOK
    OBVIOUS
  <2>1. /\ threw \in BOOLEAN /\ hash \in Hashes \cup {None}
        /\ object # None \/ text # None \/ origin # None => Made(origin, hash)
        /\ object # None => ObjectOf(object, origin)
        /\ text # None => TextOf(text, origin)
    BY DEF IInv
  <2>2. ASSUME text # None PROVE IsText(text)
    <3>1. PICK kind \in Kinds : KindOf(origin.class) = kind
      BY <2>1, <2>2, MadeFacts, KindFacts
    <3>2. text.readers = kind /\ \A i \in DOMAIN text.tokens : text.tokens[i] \in Tokens
      BY <2>1, <2>2, <3>1 DEF TextOf, Text
    <3> QED
      BY <3>2 DEF IsText, Tokens
  <2>3. ASSUME NEW o \in {object, origin} \ {None}
        PROVE  /\ o.class \in Classes
               /\ o.class \in PublicKeys => o.coords \in Twist
               /\ o.class \in PrivateKeys => o.coords[1] \in 1..(R - 1)
               /\ o.class \in Signatures => o.coords \in CurvePoints
    <3>1. Made(origin, hash)
      BY <2>1, <2>3
    <3>2. ObjectOf(origin, origin)
      BY <3>1, KeepsItself
    <3>3. ObjectOf(o, origin)
      BY <2>1, <2>3, <3>2
    <3> QED
      BY <3>1, <3>3, TypeOfMade
  <2> QED
    BY <2>1, <2>2, <2>3 DEF TypeOK
<1> QED
  BY <1>1, Invariant, PTL

\* Whatever was typed in between, and however often it was printed and read, an
\* object that a constructor accepts has the numbers of the one that started.
THEOREM TextsKept == Spec => []TextsKeepTheObject
PROOF
<1>1. IInv => TextsKeepTheObject
  <2> SUFFICES ASSUME IInv, object # None PROVE TextsKeepTheObject
    BY DEF TextsKeepTheObject
  <2>1. PICK x, o, h : x = object /\ o = origin /\ h = hash
    OBVIOUS
  <2>2. Made(o, h) /\ ObjectOf(x, o)
    BY <2>1 DEF IInv
  <2>3. \A i \in DOMAIN o.hint : x.hint[i].value % Q = o.hint[i].value % Q
    <3>1. CASE o.class \in Signatures
      <4>1. h \in Hashes /\ o.hint = HintOf(h)
        BY <2>2, <3>1, MadeFacts
      <4>2. PICK u, v \in Tokens : o.hint = <<u, v>> /\ u.value \in Fq /\ v.value \in Fq
        BY <4>1, HintTokens
      <4>3. PICK y, n \in Tokens :
                /\ x.hint = <<y, n>>
                /\ y.value % Q = o.hint[1].value /\ n.value % Q = o.hint[2].value
        BY <2>2, <3>1 DEF ObjectOf, KeepsHint
      <4>4. /\ DOMAIN o.hint = 1..2 /\ o.hint[1] = u /\ o.hint[2] = v
            /\ x.hint[1] = y /\ x.hint[2] = n
        BY <4>2, <4>3
      <4>5. u.value % Q = u.value /\ v.value % Q = v.value
        BY <4>2, FieldFacts
      <4>6. \A i \in 1..2 : i = 1 \/ i = 2
        OBVIOUS
      <4> QED
        BY <4>3, <4>4, <4>5, <4>6
    <3>2. CASE o.class \notin Signatures
      <4>1. o.hint = <<>>
        BY <2>2, <3>2 DEF Made, Computed, Object, Signatures
      <4> QED
        BY <4>1
    <3> QED
      BY <3>1, <3>2
  <2>4. /\ DOMAIN x.data = DOMAIN o.data
        /\ \A i \in DOMAIN o.data :
               x.data[i] = o.data[i] \/ (i > MaxHexBytes /\ x.data[i] = 0)
    <3>1. KeepsData(x.data, o) /\ KeepsData(o.data, o)
      BY <2>2, KeepsItself DEF ObjectOf
    <3>2. DOMAIN x.data = DOMAIN o.data
      BY <3>1 DEF KeepsData
    <3> QED
      BY <3>1, <3>2 DEF KeepsData
  <2>5. x.coords = o.coords
    BY <2>2 DEF ObjectOf
  <2> QED
    BY <2>1, <2>3, <2>4, <2>5 DEF TextsKeepTheObject
<1> QED
  BY <1>1, Invariant, PTL

\* Both copies of the loop over the curve's points agree: the hint that a share
\* arrives with leads to the point that was signed, whoever typed it.
THEOREM HintLeads == Spec => []HintLeadsToHash
PROOF
<1>1. IInv => HintLeadsToHash
  <2> SUFFICES ASSUME IInv, object # None, hash # None, ParseHint(object.hint)
               PROVE  Leads(hash, object.hint, HashtoG1(hash))
    BY DEF HintLeadsToHash
  <2>1. PICK x, o, h : x = object /\ o = origin /\ h = hash
    OBVIOUS
  <2>2. Made(o, h) /\ ObjectOf(x, o) /\ o.class \in Signatures
    BY <2>1, MadeFacts DEF IInv
  <2>3. h \in Hashes /\ o.hint = HintOf(h)
    BY <2>2, MadeFacts
  <2>4. PICK k \in Fq, r \in Fq :
            /\ o.hint = <<fieldElementToString(r), fieldElementToString(k)>>
            /\ HashtoG1(h) = <<(HashToFq(h) + k) % Q, r>>
            /\ r \in Roots((HashToFq(h) + k) % Q)
    BY <2>3, HintFacts
  <2>5. o.hint[1].value = r /\ o.hint[2].value = k
    BY <2>4, PrintedFacts
  <2>6. PICK y, n \in Tokens :
            /\ x.hint = <<y, n>>
            /\ y.value % Q = r /\ n.value % Q = k
    BY <2>2, <2>5 DEF ObjectOf, KeepsHint
  <2>7. x.hint[1] = y /\ x.hint[2] = n
    BY <2>6
  <2>8. (HashToFq(h) + n.value) % Q = (HashToFq(h) + k) % Q
    <3>1. PICK z \in Nat, v \in Nat : z = HashToFq(h) /\ v = n.value
      BY <2>3, FieldFacts, TextConstants DEF Tokens, HashToFq
    <3>2. ((v % Q) + z) % Q = (v + z) % Q
      BY FieldFacts, RemainderPlus
    <3>3. v % Q = k /\ k \in Nat
      BY <2>6, <3>1, FieldFacts
    <3>4. k + z = z + k /\ v + z = z + v
      BY <3>3
    <3> QED
      BY <3>1, <3>2, <3>3, <3>4
  <2>9. Leads(h, x.hint, HashtoG1(h))
    BY <2>1, <2>4, <2>6, <2>7, <2>8 DEF Leads
  <2> QED
    BY <2>1, <2>9
<1> QED
  BY <1>1, Invariant, PTL

\* A signature whose hint is not longer than those the library prints has a text
\* within the bounds that its constructor checks, however the hint was typed.
LEMMA SignatureFits ==
  ASSUME NEW o, NEW h, Made(o, h), o.class \in Signatures,
         NEW y \in Tokens, NEW n \in Tokens, HasItsDigits(y), HasItsDigits(n),
         y.value % Q = o.hint[1].value,
         HintLength(<<y, n>>) <= MaxComponentLen + 4
  PROVE  HasSignature(Strings(o.coords) \o <<y, n>>)
PROOF
<1>1. o.coords \in CurvePoints /\ h \in Hashes /\ o.hint = HintOf(h)
  BY MadeFacts
<1> DEFINE a == fieldElementToString(o.coords[1])
           b == fieldElementToString(o.coords[2])
<1>2. /\ Strings(o.coords) \o <<y, n>> = <<a, b, y, n>>
      /\ a \in Tokens /\ b \in Tokens
      /\ a.value = o.coords[1] /\ b.value = o.coords[2]
      /\ o.coords[1] \in Fq /\ o.coords[2] \in Fq /\ o.coords = <<o.coords[1], o.coords[2]>>
  BY <1>1, SignatureTokens
<1>3. /\ a.digits \in 1..(MaxComponentLen + 1) /\ a.digits % 2 = 0
      /\ b.digits \in 1..(MaxComponentLen + 1) /\ b.digits % 2 = 0
  BY <1>2, PaddedFacts
<1> HIDE DEF a, b
<1>4. MaxComponentLen \in Nat
  BY TextConstants
<1>5. PICK c, d \in Nat : /\ c = a.digits /\ c >= 2 /\ c <= MaxComponentLen + 1
                          /\ d = b.digits /\ d >= 2 /\ d <= MaxComponentLen + 1
  <2>1. \A e \in 1..(MaxComponentLen + 1) : e % 2 = 0 => e \in Nat /\ e >= 2 /\ e <= MaxComponentLen + 1
    BY <1>4
  <2> QED
    BY <1>3, <2>1
<1>6. PICK e, f \in Nat : /\ e = y.digits /\ f = n.digits /\ f >= 1 /\ e >= MaxComponentLen
  <2>1. PICK e, f, v \in Nat : /\ e = y.digits /\ f = n.digits /\ f >= 1
                               /\ v = y.value /\ v \in Numbers
    <3>1. /\ y.digits \in 1..(MaxDigits + HexDigits) /\ n.digits \in 1..(MaxDigits + HexDigits)
          /\ y.value \in Numbers /\ y.value \in Nat
      BY FieldFacts DEF Tokens
    <3>2. \A j \in 1..(MaxDigits + HexDigits) : j \in Nat /\ j >= 1
      BY TextConstants
    <3> QED
      BY <3>1, <3>2
  <2>2. PICK r \in Fq : o.hint[1].value = r /\ 2 * r >= Q
    <3>1. PICK u \in Fq, j \in Fq :
              HintOf(h) = <<fieldElementToString(u), fieldElementToString(j)>> /\ 2 * u >= Q
      BY <1>1, HintFacts
    <3>2. o.hint[1] = fieldElementToString(u)
      BY <1>1, <3>1
    <3> QED
      BY <3>1, <3>2, PrintedFacts
  <2>3. 2 * v >= Q
    <3>1. v % Q = r
      BY <2>1, <2>2
    <3>2. PICK m \in Nat : v = Q * m + r
      BY <2>1, <3>1, Remainder, FieldFacts
    <3>3. Q * m >= 0
      BY <3>2, FieldFacts
    <3>4. v >= r
      BY <3>2, <3>3, FieldFacts
    <3> QED
      BY <2>2, <3>4, FieldFacts
  <2>4. NumDigits[v] >= MaxComponentLen
    BY <2>1, <2>3, TextConstants
  <2>5. NumDigits[v] <= e
    BY <2>1 DEF HasItsDigits
  <2>6. NumDigits[v] \in Nat
    BY <2>1, TextConstants
  <2>7. e >= MaxComponentLen
    BY <1>4, <2>4, <2>5, <2>6
  <2> QED
    BY <2>1, <2>7
<1>7. e + 1 + f <= MaxComponentLen + 4
  <2>1. <<y, n>>[1] = y /\ <<y, n>>[2] = n
    OBVIOUS
  <2> QED
    BY <1>6, <2>1 DEF HintLength
<1> DEFINE s == <<a, b, y, n>>
<1>8. s[1] = a /\ s[2] = b /\ s[3] = y /\ s[4] = n
  OBVIOUS
<1>9. SigLength(s) = c + d + (e + 1 + f) + 2
  <2>1. <<y, n>>[1] = y /\ <<y, n>>[2] = n
    OBVIOUS
  <2> HIDE DEF s
  <2> QED
    BY <1>5, <1>6, <1>8, <2>1 DEF SigLength, HintLength
<1>10. c + d + (e + 1 + f) + 2 \in MinSigLen..MaxSigLen
  <2>1. PICK M, A, B \in Nat : /\ M = MaxComponentLen /\ A = MinSigLen /\ B = MaxSigLen
                               /\ A <= M + 8 /\ B >= 3 * (M + 1) + 5
    BY TextConstants
  <2> QED
    BY <1>5, <1>6, <1>7, <2>1
<1>11. Values(SubSeq(s, 1, 2), Q) = o.coords
  <2>1. a.value % Q = o.coords[1] /\ b.value % Q = o.coords[2]
    BY <1>2, FieldFacts
  <2> QED
    BY <1>2, <2>1, SignatureValues
<1> QED
  BY <1>1, <1>2, <1>9, <1>10, <1>11 DEF HasSignature

\* The constructors accept what toString printed, with the two exceptions that
\* WhatIsReadCanBePassedOn names.
THEOREM PassedOn == Spec => []WhatIsReadCanBePassedOn
PROOF
<1>1. IInv => WhatIsReadCanBePassedOn
  <2> SUFFICES ASSUME IInv, object # None PROVE WhatIsReadCanBePassedOn
    BY DEF WhatIsReadCanBePassedOn
  <2>1. PICK x, o, h : x = object /\ o = origin /\ h = hash
    OBVIOUS
  <2>2. Made(o, h) /\ ObjectOf(x, o)
    BY <2>1 DEF IInv
  <2>3. PICK kind \in Kinds : o.class \in kind /\ KindOf(o.class) = kind
    BY <2>2, MadeFacts, KindFacts
  <2>4. x.class \in kind /\ x.coords = o.coords /\ KeepsData(x.data, o)
    BY <2>2, <2>3 DEF ObjectOf
  <2> DEFINE t == toString(x)
  <2>5. CASE kind = PublicKeys
    <3>1. /\ o.coords \in Twist /\ o.coords \in [1..4 -> Fq]
      BY <2>2, <2>3, <2>5, MadeFacts
    <3>2. x.class \in PublicKeys /\ t.tokens = Strings(o.coords)
      BY <2>4, <2>5 DEF toString, Text, PublicKeys, PrivateKeys, Signatures
    <3>3. /\ Values(t.tokens, Q) = o.coords /\ DOMAIN t.tokens = 1..4
          /\ \A i \in 1..4 : t.tokens[i] = fieldElementToString(o.coords[i])
      <4> DEFINE s == Strings(o.coords)
      <4>1. /\ s \in [1..4 -> Tokens] /\ Values(s, Q) = o.coords
            /\ \A i \in 1..4 : s[i] = fieldElementToString(o.coords[i])
        <5>1. PICK c \in [1..4 -> Fq] : c = o.coords
          BY <3>1
        <5> QED
          BY <5>1, StringsFacts
      <4> HIDE DEF s, t
      <4> QED
        BY <3>2, <4>1 DEF s
    <3> HIDE DEF t
    <3>4. IsWellFormed(t.tokens)
      BY <3>1, <3>3 DEF IsWellFormed
    <3>5. ~OddComponent(x) => AreNumbers(t.tokens)
      <4> SUFFICES ASSUME ~OddComponent(x), NEW i \in 1..4
                   PROVE  isStringNumber(t.tokens[i])
        BY <3>3 DEF AreNumbers
      <4>1. o.coords[i] \in Fq /\ DOMAIN x.coords = 1..4
        BY <2>4, <3>1
      <4>2. NumDigits[o.coords[i]] % 2 # 1
        BY <2>4, <4>1 DEF OddComponent
      <4>3. PICK d \in Nat : d = NumDigits[o.coords[i]]
        BY <4>1, TextConstants
      <4>4. d % 2 = 0
        BY <4>2, <4>3
      <4> QED
        BY <3>3, <4>1, <4>3, <4>4, PaddedFacts
    <3>6. CASE x.class \in StrictClasses
      <4>1. Reads(x.class, t) <=> AreNumbers(t.tokens) /\ IsWellFormed(t.tokens)
        BY <3>6 DEF StrictClasses, Reads, TEPublicKey, TEPublicKeyShare
      <4> QED
        BY <2>1, <3>4, <3>5, <3>6, <4>1 DEF WhatIsReadCanBePassedOn, t
    <3>7. CASE x.class \notin StrictClasses
      <4>1. x.class = "BLSPublicKey" \/ x.class = "BLSPublicKeyShare"
        BY <3>2, <3>7 DEF PublicKeys, StrictClasses
      <4>2. Reads(x.class, t)
        BY <3>4, <4>1 DEF Reads, BLSPublicKey, BLSPublicKeyShare
      <4> QED
        BY <2>1, <4>2 DEF WhatIsReadCanBePassedOn, t
    <3> QED
      BY <3>6, <3>7
  <2>6. CASE kind = PrivateKeys
    <3>1. PICK k \in 1..(R - 1) : o.coords = <<k>>
      BY <2>2, <2>3, <2>6, MadeFacts
    <3>2. x.class \in PrivateKeys /\ t.tokens = Strings(o.coords)
      BY <2>4, <2>6 DEF toString, Text, PublicKeys, PrivateKeys, Signatures
    <3>3. k \in 0..(R - 1) /\ k \in Fq /\ k # 0 /\ k % R = k
      BY FieldFacts
    <3>4. o.coords \in [1..1 -> Fq] /\ o.coords[1] = k
      BY <3>1, <3>3
    <3>5. t.tokens[1].value = k
      <4>1. PICK c \in [1..1 -> Fq] : c = o.coords /\ c[1] = k
        BY <3>4
      <4>2. Strings(c)[1].value = c[1]
        <5>1. PICK n \in Nat : n = 1
          OBVIOUS
        <5>2. \A i \in 1..n : Strings(c)[i].value = c[i]
          BY <5>1, StringsFacts
        <5> QED
          BY <5>1, <5>2
      <4> HIDE DEF t
      <4> QED
        BY <3>2, <4>1, <4>2
    <3> HIDE DEF t
    <3>6. IsNonZero(t.tokens)
      BY <3>3, <3>5 DEF IsNonZero
    <3>7. Reads(x.class, t)
      BY <3>2, <3>6 DEF PrivateKeys, Reads, BLSPrivateKey, BLSPrivateKeyShare,
                        TEPrivateKey, TEPrivateKeyShare
    <3> QED
      BY <2>1, <3>7 DEF WhatIsReadCanBePassedOn, t
  <2>7. CASE kind = {"Ciphertext"}
    <3>1. x.class = "Ciphertext" /\ o.class = "Ciphertext"
      BY <2>3, <2>4, <2>7
    <3>2. t.tokens = HexStrings(o.coords) /\ t.data = x.data
      BY <2>4, <3>1 DEF toString, Text, PublicKeys, PrivateKeys, Signatures
    <3>3. \A i \in DOMAIN t.tokens : t.tokens[i].digits = HexDigits
      BY <3>2 DEF HexStrings, Typed
    <3>4. t.data # <<>>
      <4>1. o.data \in Seq(Nat) /\ o.data # <<>>
        BY <2>2, <3>1, MadeFacts
      <4>2. Len(o.data) # 0
        BY <4>1
      <4>3. Len(x.data) = Len(o.data)
        BY <2>4 DEF KeepsData
      <4>4. Len(<<>>) = 0
        OBVIOUS
      <4> QED
        BY <3>2, <4>2, <4>3, <4>4
    <3> HIDE DEF t
    <3>5. Reads(x.class, t)
      BY <3>1, <3>3, <3>4 DEF Reads, aesCiphertextFromString
    <3> QED
      BY <2>1, <3>5 DEF WhatIsReadCanBePassedOn, t
  <2>8. CASE kind = Signatures
    <3>1. x.class \in Signatures /\ o.class \in Signatures
      BY <2>3, <2>4, <2>8
    <3>2. PICK y, n \in Tokens :
              /\ x.hint = <<y, n>> /\ HasItsDigits(y) /\ HasItsDigits(n)
              /\ y.value % Q = o.hint[1].value
      BY <2>2, <3>1 DEF ObjectOf, KeepsHint
    <3>3. t.tokens = Strings(o.coords) \o <<y, n>>
      BY <2>4, <3>1, <3>2 DEF toString, Text, PublicKeys, PrivateKeys, Signatures
    <3>4. HintLength(x.hint) <= MaxComponentLen + 4 => HasSignature(t.tokens)
      BY <2>2, <3>1, <3>2, <3>3, SignatureFits
    <3>5. HintLength(x.hint) <= MaxComponentLen + 4 \/ HintLength(x.hint) > MaxComponentLen + 4
      <4>1. PICK e, f \in Nat : e = y.digits /\ f = n.digits
        BY TextConstants DEF Tokens
      <4>2. <<y, n>>[1] = y /\ <<y, n>>[2] = n
        OBVIOUS
      <4>3. HintLength(x.hint) = e + 1 + f
        BY <3>2, <4>1, <4>2 DEF HintLength
      <4> QED
        BY <4>3, TextConstants
    <3> HIDE DEF t
    <3>6. Reads(x.class, t) <=> HasSignature(t.tokens)
      BY <3>1 DEF Signatures, Reads, BLSSigShare, BLSSignature
    <3> QED
      BY <2>1, <3>1, <3>4, <3>5, <3>6 DEF WhatIsReadCanBePassedOn, t
  <2> QED
    BY <2>3, <2>5, <2>6, <2>7, <2>8, KindFacts
<1> QED
  BY <1>1, Invariant, PTL

=============================================================================
