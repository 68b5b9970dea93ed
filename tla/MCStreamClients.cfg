CONSTANTS
  MaxRequests = 4
  Timeouts = {1, 3}
SPECIFICATION FairSpec
INVARIANTS EndsAsReported
PROPERTIES HandlerOnce
