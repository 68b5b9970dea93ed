SPECIFICATION Spec
CONSTANTS
  Clients = {c1, c2}
  kMaxConnections = 1
  Bad = Bad
  Thousand = 10
  Sixty = 6
  MsMax = 5000
  UsMax = 60000
  kMaxWeight = 5
  kMaxRps = 3
  kMaxUsers = 3
  Workers = {w1, w2}
  Argvs <- MCArgvs
  Files <- MCFiles
  MaxRequests = 2
  max_error_rate = 50
INVARIANTS  ExitMeaning ThreadsBounded  
PROPERTIES ScrapesGrow 
