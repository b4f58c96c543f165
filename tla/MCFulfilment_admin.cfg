SPECIFICATION Spec
CONSTANTS
  o1 = o1  i1 = i1  i2 = i2  s1 = s1  s2 = s2  e1 = e1  e2 = e2  a1 = a1  a2 = a2
  Orders = {o1}
  Items = {i1}
  Sessions = {s1}
  Events = {e1}
  Admins = {a1}
  Free = Free
  OrderOf <- OneOrder
  PaysFor <- PaysForIt
  SessionOf <- OneSession
  Concurrency = 1
  MaxRetry = 1
  RowsBlockConn = {FALSE}
  MaxJobs = 3
  MaxFaults = 4
  MaxCrashes = 1
  MaxAdminOps = 2
INVARIANTS
  TaskHasJob
  PendingJobIsScheduled
CHECK_DEADLOCK FALSE
