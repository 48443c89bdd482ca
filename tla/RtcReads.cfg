\* Programs nest by execute only; the counter stays far from overflow.
SPECIFICATION FairSpec
CONSTANTS
  Requests = {0, 64, 256, 341, 1024, 1025}
  Half = 1024
  MaxCount = 20
  MaxDepth = 2
  Preempt = FALSE
INVARIANTS WaitBound
PROPERTIES WholePeriod ReadReturns
