SPECIFICATION FairSpec
CONSTANTS
  o1 = o1  i1 = i1  i2 = i2  s1 = s1  s2 = s2  e1 = e1  e2 = e2  a1 = a1  a2 = a2
  Orders = {o1}
  Items = {i1, i2}
  Sessions = {s1}
  Events = {e1}
  Admins = {}
  Free = Free
  OrderOf <- OneOrder
  PaysFor <- PaysForIt
  SessionOf <- OneSession
  Concurrency = 2
  MaxRetry = 3
  RowsBlockConn = {FALSE}
  MaxJobs = 1
  MaxFaults = 2
  MaxCrashes = 1
  MaxAdminOps = 0
PROPERTIES
  AcknowledgedIsProvisioned
CHECK_DEADLOCK FALSE
