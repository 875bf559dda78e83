------------------------------- MODULE MCDkg -------------------------------
(* Instances of Dkg for TLC: three nodes, threshold two, arithmetic modulo *)
(* five.                                                                   *)
EXTENDS Dkg

\* 1 + x is zero nowhere but at 4 and 2x nowhere but at 0, though 2 (1 + x) + 2x
\* is zero at 2; 2 + 4x is zero at 2.
TwoPolynomials == {<<1, 1>>, <<0, 2>>}
WithAZeroShare == {<<1, 1>>, <<0, 2>>, <<2, 4>>}
Installed == {<<1, 2>>, <<4, 0>>}

Point(k, out) == [k |-> k, outside |-> out]
\* 2 + x gives nodes 1 and 2 the shares 3 and 4; 1 + 2x is zero at 2.
FaultyPolynomials == {<<Point(2, FALSE), Point(1, FALSE)>>,
                      <<Point(1, FALSE), Point(2, FALSE)>>,
                      <<Point(2, TRUE), Point(1, FALSE)>>,
                      <<Point(2, TRUE), Point(1, TRUE)>>}

FairSpec == Spec /\ Fairness
=============================================================================
