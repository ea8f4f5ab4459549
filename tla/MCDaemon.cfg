CONSTANTS
  Environments <- SomeEnvironments
  Default = 3
  Wrap = 8
SPECIFICATION FairSpec
INVARIANTS TypeOK CapacitySound GracefulMeansClosed
PROPERTIES ExitsAfterSignal FailureCloses
