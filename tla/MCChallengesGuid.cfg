SPECIFICATION Spec
CONSTANTS
  Peers = {1, 2, 3}
  MaxChallenges = 2
  AuthorizeTimeout = 1
INVARIANT ZeroGuidWithoutAnswer
CHECK_DEADLOCK FALSE
