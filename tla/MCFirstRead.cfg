CONSTANTS
  Conns = {c1, c2, c3}
  MaxConns = 2
  Buffers = {b1, b2}
  NoBuffer = none
  Texts <- SomeTexts
SPECIFICATION FairReadSpec
INVARIANTS NothingLeftOpen DetectionRight StaleNeverDials ForwardsOwnBytes BuffersOwned
PROPERTY HandshakesEnd
