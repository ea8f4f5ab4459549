CONSTANTS
  c1 = c1  l1 = l1
  p1 = p1  d1 = d1  d2 = d2
  NoConn = NoConn
  Clients <- OneClient
  Legacy <- OneLegacy
  Phones <- OnePhone
  Datas <- TwoDatas
  MaxId = 1
  MaxCid = 1
  CtrlBuffer = 1
SPECIFICATION FairTunnelSpec
INVARIANTS TunnelTypeOK RegisteredPhonesListen OneDialPerRequest
PROPERTIES RequestsAnswered DataHandlersReturn GonePhonesForgotten LinesServed
