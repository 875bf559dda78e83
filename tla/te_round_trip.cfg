SPECIFICATION Spec
CONSTANTS
  Q = 19
  R = 13
  CoeffB = 3
  Base = 3
  MaxComponentLen = 3
  MinSigLen = 10
  MaxSigLen = 18
  MaxHexBytes = 2
  HexDigits = 4
  Hashes = {0, 4, 13, 20}
  Twist <- MCTwist
  Coordinates <- MCCoordinates
  AesData <- MCAesData
  MaxDigits = 5
  None = None
INVARIANT
  EncryptionKeysReadBack
