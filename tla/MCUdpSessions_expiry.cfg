CONSTANTS
  a1 = a1  s1 = s1  s2 = s2  s3 = s3
  NoSess = NoSess
  Addrs <- OneAddr
  Sessions <- TwoSess
  ReadTimeout = 4
  IdleLimit = 6
  MaxLag = 1
SPECIFICATION FairSpec
PROPERTY ExpiresOnlyWhenIdle
