SPECIFICATION FairSpec
CONSTANTS
  Nil = Nil
  Orders = {o1}
  Items = {i1, i2}
  Plans = {p1}
  CartRequests = {c1, c2}
  Checkouts = {k1, k2}
  Sessions = {s1, s2}
  Admins = {a1}
  MaxQuantity = 1
  MaxRequests = 4
  MaxFaults = 1
INVARIANTS
  TotalIsSum
  DeadlockNeedsPayment
  ReadItemsStay
  CartInv
PROPERTIES
  AddsUp
  RequestsEnd
CHECK_DEADLOCK FALSE
