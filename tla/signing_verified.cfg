SPECIFICATION FairSpec
CONSTANTS
  P = 7
  N = 3
  T = 2
  MaxIndex = 4
  Msgs = {"m1", "m2"}
  HashOf <- MCHashOf
  KeyPolynomials <- LinearKeys
  Collectors = {"c1", "c2"}
  Target <- AllTargetM1
  Policy <- PlainAndHelper
  ForgedShares <- LinearForged
  MaxForged = 1
  NoShare = NoShare
INVARIANTS
  VerifiedSharesGiveTheSignature
  SealedSetHasSignature
  ThresholdOfSigners
  SameHintsGiveASignature
PROPERTY
  VerifyingCollectorSigns
  ImplementsSignatureService
