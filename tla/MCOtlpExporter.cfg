CONSTANTS
  Callers = {a, b}
  kOtlpBatchSize = 2
  kOtlpMaxBufferedSpans = 3
  kMinBackoff = 200
  kMaxBackoff = 500
  MaxSpans = 4
SPECIFICATION FairSpec
\* A destroyed tracer does nothing.
CHECK_DEADLOCK FALSE
INVARIANTS InOrder SpansIntact
PROPERTIES DestructorReturns
