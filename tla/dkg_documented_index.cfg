SPECIFICATION Spec
CONSTANTS
  P = 5
  N = 3
  T = 2
  Faulty = {}
  Drawn <- TwoPolynomials
  Replacements = {}
  FaultyVectors = {}
  FaultyShares = {}
  None = None
INVARIANT
  SharesVerifyWithSendersIndex
CHECK_DEADLOCK FALSE
