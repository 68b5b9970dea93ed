CONSTANTS
  Writers = {w1, w2}
  kRingCapacity = 2
  kMaxSnapshotSamples = 2
  MaxCalls = 4
  MaxScans = 1
  MaxResets = 1
SPECIFICATION SerialFairSpec
\* Every call may have returned: the bounds on the calls are reached.
CHECK_DEADLOCK FALSE
INVARIANTS RingInv ScanSound
PROPERTIES PushReturns
