------------------------ MODULE MCThresholdEncryption ------------------------
(* Instances of ThresholdEncryption for TLC: three holders of which two are *)
(* needed, arithmetic modulo five.                                         *)
EXTENDS ThresholdEncryption

\* Two polynomials key generation keeps, and one it refuses because the share
\* of holder 2 is zero.
LinearKeys == {<<1, 1>>, <<3, 3>>, <<2, 4>>}

FairSpec == Spec /\ Fairness({1, 3})
=============================================================================
