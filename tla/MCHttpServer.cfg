CONSTANTS
  c1 = c1
  c2 = c2
  Clients = {c1, c2}
  MaxIds = 3
  MaxSessions = 4
  RuleLists <- MCRuleLists
  Outcomes = {"running", "completed"}
  Results <- MCResults
SPECIFICATION FairSpec
INVARIANTS StoreConsistent
PROPERTIES Atomic StopReturns ClientsServed
CHECK_DEADLOCK FALSE
