SPECIFICATION Spec
CONSTANTS
  N = 3
  T = 2
  Texts = {"ab", "hello"}
  Bytes = {1, 2, 3}
  BytesOf <- MCBytesOf
  Outs = {o1, o2, o3}
  MaxRuns = 5
  Invalid = Invalid
  Unreadable = Unreadable
  Garbled = Garbled
  NoIndex = NoIndex
  NoOut = NoOut
SYMMETRY OutSymmetry
INVARIANTS
  TypeOK
  LatestSignatureVerifies
  GluedKeysAreWhole
  SharesInFilesCombine
