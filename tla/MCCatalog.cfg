SPECIFICATION FairSpec
CONSTANTS
  r1 = r1  r2 = r2  r3 = r3  p = p  a = a  b = b
  s1 = s1  s2 = s2  s3 = s3  s4 = s4  t1 = t1  t2 = t2
  None = None
  Requests = {r1, r2, r3}
  Calls <- SmallCalls
  StartIds = {p, a, b}
  StartRows <- SmallRows
  Slugs = {s1, s2, s3, s4}
  Templates = {t1, t2}
  StartTemplates <- SmallTemplates
  TemplateRows <- SmallTemplateRows
  MaxPresets = 2
  MaxChanges = 1
  Conns = 3
INVARIANTS
  TypeOK
  RowsConsistent
  AppliedWhole
PROPERTIES
  RequestsEnd
CHECK_DEADLOCK FALSE
