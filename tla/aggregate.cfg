SPECIFICATION Spec
CONSTANTS
  P = 5
  Honest = {h1}
  Joiner = j
  Text = Text
  Msgs <- MCMsgs
  Digest <- MCDigest
  MadeUp <- MCMadeUp
  OffCurve = OffCurve
  MaxKeys = 2
  MaxEntries = 3
  MaxWrong = 2
INVARIANTS
  TypeOK
  RightSignaturesAreAccepted
  OneWrongSignatureIsNoticed
  AcceptedMeansSigned
