SPECIFICATION Spec
CONSTANTS
  w1 = w1
  w2 = w2
  Writers <- MCWriters
  Requests <- MCRequests
  MaxShards = 2
  SumLimit = 3
  kMaxLatencySamples = 2
  MaxRecords <- MCMaxRecords
  MaxResets = 1
  MaxStarts = 2
SYMMETRY Symmetry
INVARIANTS CollectorExact NeverOvercounts Ranks
CHECK_DEADLOCK FALSE
