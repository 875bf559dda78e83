---------------------------- MODULE MCTextForms ----------------------------
(* Instances of TextForms for TLC: the curve y^2 = x^3 + 3 over the field  *)
(* of 19 elements has 13 points, and numbers in base 3 have at most three  *)
(* digits.                                                                 *)
EXTENDS TextForms

\* Points of G2 with components of one, two and three digits.
MCTwist == {<<5, 8, 3, 7>>, <<18, 4, 1, 12>>, <<0, 6, 9, 2>>}

MCCoordinates == {<<18, 0, 9, 2, 7, 1>>, <<1, 2, 3, 4, 5, 6>>}

MCAesData == UNION {[1..n -> {1, 2}] : n \in 1..3}
=============================================================================
