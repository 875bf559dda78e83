------------------------- MODULE MCThresholdSigning -------------------------
(* Instances of ThresholdSigning for TLC.                                  *)
EXTENDS ThresholdSigning

MCHashOf == [m \in Msgs |-> CHOOSE h \in 1..2 : (h = 2) <=> m = "m2"]

\* Polynomials key generation keeps for N = 3, and in each set one that it
\* refuses because a share is zero.  With <<6, 0, 7>> the shares of 2 and 3
\* alone cancel.
LinearKeys == {<<2, 3>>, <<6, 3>>, <<3, 2>>}
QuadraticKeys == {<<1, 0, 2>>, <<6, 0, 7>>, <<6, 3, 2>>}

\* For m1: the hints of HashtoG1withHint, with the other root, and one that leads
\* to the same point as the former but is written with leading zeros.
Hint(m, h, l) == [of |-> m, point |-> h, long |-> l]
Roots == {Hint("m1", MCHashOf["m1"], FALSE), Hint("m1", P - MCHashOf["m1"], FALSE)}
Long(point) == [point |-> point, hint |-> Hint("m1", MCHashOf["m1"], TRUE)]

\* The quadratic ones: for the first polynomial 8 and 3 are the shares of 1 and 3 with
\* the other root, for the second one 9 and 8, and 3 is a right share there.  With 8
\* the shares of the second add up to zero.
LinearForged == [point : {6}, hint : Roots] \cup {Long(6)}
QuadraticForged == [point : {3, 8, 9}, hint : Roots] \cup {Long(10)}

AllTargetM1 == [c \in Collectors |-> "m1"]
PlainAndHelper == [c \in Collectors |-> IF c = "c1" THEN "plain" ELSE "helper"]
NoneAndHelper == [c \in Collectors |-> IF c = "c1" THEN "none" ELSE "helper"]

FairSpec == Spec /\ Fairness({2, 3})
=============================================================================
