CONSTANTS
  Environments <- SomeEnvironments
  Default = 3
  Wrap = 8
SPECIFICATION Spec
INVARIANT TotalWithinLimit
