CONSTANTS
  MaxChunks = 2
  Window = 1
SPECIFICATION FairSpec
INVARIANTS InOrder EndAfterAll DirectionsIndependent
PROPERTY EndsCross
