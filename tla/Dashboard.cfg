CONSTANTS
  Requests = {r1}
  Collector = Collector
  MaxMetrics = 1
  MaxClock = 4
  MaxBytes = 2
SPECIFICATION Spec
INVARIANTS ExactUnlessRaced TotalsBracketed
PROPERTIES NegativeOnlyByOverlap MetricsOrdered
