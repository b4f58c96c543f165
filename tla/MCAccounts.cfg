SPECIFICATION Spec
CONSTANTS
  q1 = q1  q2 = q2  e1 = e1  e2 = e2  t1 = t1
  None = None
  Requests = {q1, q2}
  Emails = {e1, e2}
  Starts <- SmallStarts
  Tokens = {t1}
  RecoveryCodes = 2
  MaxLists = 2
  MaxMails = 2
  MaxFaults = 1
SYMMETRY Interchangeable
INVARIANTS
  TypeOK
  OneAdminPerRequest
  CodesAreThoseShown
  AcceptedCodesAreGone
CHECK_DEADLOCK FALSE
