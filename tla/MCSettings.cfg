SPECIFICATION FairSpec
CONSTANTS
  a1 = a1  a2 = a2  key = key  host = host  v1 = v1  v2 = v2
  None = None  Masked = Masked  Empty = Empty
  Requests = {a1, a2}
  Keys = {key, host}
  StripeKey = key
  Values = {v1, v2}
  Typed = {v2, Empty}
  EnvDefault <- SmallEnv
  MaxUpdates = 2
  MaxFaults = 1
INVARIANTS
  TypeOK
  CacheIsCurrent
PROPERTIES
  WorkerNeverGoesBack
  CommitReachesWorker
  UpdatesEnd
CHECK_DEADLOCK FALSE
