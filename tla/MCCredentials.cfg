CONSTANTS
  Threads = {t1, t2}
  Timeout = 1
  Replies = {"2xx", "404", "429", "5xx"}
  Lifetime = 5
  Margin = 2
  MaxCalls = 3
  MaxVaultCalls = 3
SPECIFICATION FairSpec
  
PROPERTIES CallsReturn PutExact
