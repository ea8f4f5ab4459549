CONSTANTS
  a1 = a1  s1 = s1  s2 = s2  s3 = s3
  NoSess = NoSess
  Addrs <- OneAddr
  Sessions <- ThreeSess
  ReadTimeout = 2
  IdleLimit = 3
  MaxLag = 1
SPECIFICATION FairSpec
INVARIANTS MapEntryOpen InsertNeverReplaces ActiveDrift OneReaderUnlessSwept
PROPERTY SilentSessionsEnd
