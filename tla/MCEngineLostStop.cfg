CONSTANTS
  Users <- DefaultUsers
  kDefaultConcurrency = 1
  Configs <- UntimedLast
  kAcquireAttempts = 2
  MaxStops = 1
SPECIFICATION Spec
PROPERTIES NoStageAfterStop
