SPECIFICATION Spec
CONSTANTS
  P = 5
  N = 3
  T = 2
  Faulty = {3}
  Drawn <- TwoPolynomials
  Replacements = {}
  FaultyVectors <- FaultyPolynomials
  FaultyShares = {0, 3, 4}
  None = None
INVARIANTS
  TypeOK
  AcceptedSharesFitBroadcast
  KeySharesMatchPublicKey
