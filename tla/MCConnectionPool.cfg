CONSTANTS
  Keys = {k1, k2}
  Clients = {c1, c2, c3, c4}
  max_connections = 3
  idle_timeout = 2
  MaxClock = 3
SPECIFICATION Spec
SYMMETRY Symmetry
INVARIANTS PoolInv ReleaseAlwaysPools
PROPERTIES CleanupComplete
