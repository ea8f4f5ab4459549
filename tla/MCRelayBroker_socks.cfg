CONSTANTS
  c1 = c1  c2 = c2  l1 = l1
  p1 = p1  p2 = p2  d1 = d1  d2 = d2
  NoConn = NoConn
  Clients <- TwoClients
  Legacy <- NoLegacy
  Phones <- TwoPhones
  Datas <- TwoDatas
  MaxId = 2
  MaxCid = 2
SPECIFICATION Spec
SYMMETRY Symmetry
INVARIANTS OneDataPerWaiter SendNeverBlocks PairedByKey RegistryLive NoAbandonedEntry
PROPERTY ImplementsRendezvous
