SPECIFICATION Spec
CONSTANTS
  o1 = o1  i1 = i1  i2 = i2  s1 = s1  s2 = s2  e1 = e1  e2 = e2  a1 = a1  a2 = a2
  Orders = {o1}
  Items = {i1}
  Sessions = {s1, s2}
  Events = {e1, e2}
  Admins = {}
  Free = Free
  OrderOf <- OneOrder
  PaysFor <- PaysForIt
  SessionOf <- TwoSessions
  Concurrency = 1
  MaxRetry = 1
  RowsBlockConn = {TRUE, FALSE}
  MaxJobs = 2
  MaxFaults = 2
  MaxCrashes = 1
  MaxAdminOps = 0
INVARIANTS
  AllOrNothing
  OneInvoicePerOrder
  AcknowledgedIsRecorded
  RunningJobHasTask
PROPERTIES
  ActiveUnlessReadBefore
  ImplementsLedger
CHECK_DEADLOCK FALSE
