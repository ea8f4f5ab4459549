CONSTANTS
  Conns = {c1, c2, c3}
  MaxConns = 2
  LogSize = 2
SPECIFICATION FairSpec
INVARIANTS Accounting LogFaithful
PROPERTY KeepsLimit
