SPECIFICATION Spec
CONSTANTS
  P = 11
  N = 3
  T = 3
  MaxIndex = 4
  Msgs = {"m1", "m2"}
  HashOf <- MCHashOf
  KeyPolynomials <- QuadraticKeys
  Collectors = {"c1", "c2"}
  Target <- AllTargetM1
  Policy <- NoneAndHelper
  ForgedShares <- QuadraticForged
  MaxForged = 1
  NoShare = NoShare
INVARIANTS
  TypeOK
  OneSignaturePerSet
  RightSharesGiveTheSignature
  OneBadShareIsNoticed
  OneOddHintIsNoticed
