SPECIFICATION FairSpec
CONSTANTS
  s1 = s1  s2 = s2  r1 = r1
  Services = {s1, s2}
  Expires <- TwoExpiries
  Requests = {}
  Day = 2
  Concurrency = 2
  MaxRetry = 1
  MaxTasks = 2
  Horizon = 16
  Starts = {0, 7, 12}
  Span = 4
  MaxAsked = 0
  MaxFaults = 1
INVARIANTS
  RemindedOnce
  EveryCountReminded
PROPERTY
  ExpiredIsSuspended
CHECK_DEADLOCK FALSE
