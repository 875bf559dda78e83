SPECIFICATION FairSpec
CONSTANTS
  P = 5
  N = 3
  T = 2
  MaxIndex = 3
  Msgs = {"m1", "m2"}
  Garbled = "garbled"
  KeyPolynomials <- LinearKeys
  Randoms = {2, 3}
  Collectors = {"c1"}
  BadPoints = {1}
  MaxCiphertexts = 2
  MaxBad = 1
  None = None
INVARIANTS
  TypeOK
  VerifiedPiecesGiveTheMessage
  ThresholdOfHolders
  DamagedIsNotMerged
  OneAnswerPerSet
  WrongPiecesGarble
PROPERTY
  SoundCiphertextIsDecrypted
