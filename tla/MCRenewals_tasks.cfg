SPECIFICATION Spec
CONSTANTS
  s1 = s1  s2 = s2  r1 = r1
  Services = {s1}
  Expires <- TwoExpiries
  Requests = {r1}
  Day = 2
  Concurrency = 2
  MaxRetry = 1
  MaxTasks = 3
  Horizon = 16
  Starts = {15}
  Span = 1
  MaxAsked = 3
  MaxFaults = 1
INVARIANT
  InvoicedPerTask
PROPERTY
  RevivedByOldWork
CHECK_DEADLOCK FALSE
