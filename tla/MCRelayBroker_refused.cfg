CONSTANTS
  c1 = c1  c2 = c2  l1 = l1
  p1 = p1  p2 = p2  d1 = d1  d2 = d2
  NoConn = NoConn
  Clients <- OneClient
  Legacy <- NoLegacy
  Phones <- TwoPhones
  Datas <- OneData
  MaxId = 2
  MaxCid = 1
SPECIFICATION FairSpec
PROPERTY RefusedOnlyWithoutPhones
