CONSTANTS
  MaxRequests = 3
  Endpoints = {plain, tls}
  TlsEndpoints = {tls}
SPECIFICATION FairSpec
INVARIANTS AtMostOnce AnswersKeptApart
PROPERTIES HandlerOnce
