SPECIFICATION FairSpec
CONSTANTS
  p1 = p1  r1 = r1  r2 = r2  d1 = d1  a1 = a1
  None = None
  Payments = {p1}
  Refs = {r1, r2}
  Disputes = {d1}
  Admins = {a1}
  Price <- SmallPrice
  Asks = {0, 1}
  Shown <- SmallShown
  Decimals <- SmallDecimals
  MaxFaults = 1
INVARIANTS
  TypeOK
  RecordsAreReal
  RefundedTogether
  RefundsAreRecorded
  CentsAreRounded
PROPERTIES
  RefundEventsEnd
CHECK_DEADLOCK FALSE
