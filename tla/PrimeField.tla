----------------------------- MODULE PrimeField -----------------------------
(***************************************************************************)
(* The arithmetic every protocol of libBLS is built on.                    *)
(*                                                                         *)
(* The scalars libff::alt_bn128_Fr are the integers modulo the prime P.    *)
(* An element of G1, G2 or GT is written as its discrete logarithm to the  *)
(* generator of its group, so that k * G is k, the group law is addition   *)
(* modulo P, and the reduced pairing of a and b is a * b: bilinearity is   *)
(* all the library uses of it.  P stands for r, a prime of 254 bits.       *)
(***************************************************************************)
EXTENDS Naturals, Sequences, FiniteSets, Functions

CONSTANT P       \* order of the groups, ThresholdUtils' alt_bn128 r

\* P is prime if and only if there are no zero divisors modulo P.
ASSUME PIsPrime ==
    /\ P \in Nat /\ P > 1
    /\ \A a, b \in 1..(P - 1) : (a * b) % P # 0

Fr == 0..(P - 1)
NonZero == 1..(P - 1)

Plus(a, b)  == (a + b) % P
Times(a, b) == (a * b) % P
Minus(a, b) == (a + (P - (b % P))) % P

\* The inverse modulo P.  Zero has none: libff aborts if it was built with its
\* assertions, and otherwise returns some value, which LagrangeCoeffs multiplies
\* by zero (the index 0 is a factor of w), so that 0 stands for all of them.
Invert(a) == IF \E b \in Fr : Times(a, b) = 1
             THEN CHOOSE b \in Fr : Times(a, b) = 1
             ELSE 0

\* The sum and the product of the values of a function with a finite domain.
Sum(fun)     == FoldFunction(Plus, 0, fun)
Product(fun) == FoldFunction(Times, 1, fun)
Power(x, k)  == Product([j \in 1..k |-> x])

-----------------------------------------------------------------------------
(* Polynomials of degree t - 1 are the sequences of their t coefficients,  *)
(* lowest first.                                                           *)

\* Dkg::PolynomialValue refuses (std::logic_error) a zero leading coefficient.
HasFullDegree(pol) == pol[Len(pol)] # 0

\* Dkg::GeneratePolynomial draws the last coefficient again until it is not zero.
Polynomials(t) == {pol \in [1..t -> Fr] : HasFullDegree(pol)}

PolynomialValue(pol, x) ==
    Sum([k \in DOMAIN pol |-> Times(pol[k], Power(x, k - 1))])

-----------------------------------------------------------------------------
(* ThresholdUtils::LagrangeCoeffs, for a set K of distinct indices.  The   *)
(* code multiplies w, the product of all indices, by the inverse of        *)
(* v = i * prod (j - i).                                                   *)
LagrangeCoeffSwapped(K, i) ==       \* slip: i - j for j - i
    LET w == Product([j \in K |-> j])
        v == Times(i, Product([j \in K \ {i} |-> Minus(i, j)]))
    IN  Times(w, Invert(v))

LagrangeCoeff(K, i) ==
    LET w == Product([j \in K |-> j])
        v == Times(i, Product([j \in K \ {i} |-> Minus(j, i)]))
    IN  Times(w, Invert(v))

LowestOneLess(t, K) ==              \* slip: one index too few
    {i \in K : Cardinality({j \in K : j < i}) < t - 1}

\* The share sets are maps that list their indices in ascending order, and
\* LagrangeCoeffs takes the first t of the list.
Lowest(t, K) == {i \in K : Cardinality({j \in K : j < i}) < t}

\* The linear combination that SignatureRecover, KeysRecover, CombineShares and
\* the BLSPrivateKey and BLSPublicKey constructors compute: shares is a
\* function on the indices that take part.
Recover(shares) ==
    LET K == DOMAIN shares
    IN  Sum([i \in K |-> Times(LagrangeCoeff(K, i), shares[i])])
=============================================================================
