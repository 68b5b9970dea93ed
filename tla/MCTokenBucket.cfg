CONSTANTS
  Threads = {w1, w2}
  One = 3
  Rates = {1, 2, 5}
  Bursts = {3, 4, 7}
  Timeouts = {0, 1, 2}
  MaxBurst = 7
  WaitCap = 2
SPECIFICATION FairSpec
INVARIANTS RateBound
PROPERTIES ConsumeServed
