SPECIFICATION FairSpec
CONSTANTS
  P = 5
  N = 2
  T = 2
  Faulty = {}
  Drawn <- WithAZeroShare
  Replacements <- Installed
  FaultyVectors = {}
  FaultyShares = {}
  None = None
INVARIANTS
  HonestRefusedOnlyAfterReplacement
  KeySharesMatchPublicKey
PROPERTY
  KeyGenerationCompletes
CHECK_DEADLOCK FALSE
