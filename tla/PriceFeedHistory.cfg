SPECIFICATION Spec
CONSTANTS
  e1 = e1
  e2 = e2
  e3 = e3
  e4 = e4
  k1 = k1
  k2 = k2
  None = None
  Event = {e1, e2, e3, e4}
  CreditOf <- MCCreditOf
  Updates = {e1, e2}
  Client = {c1}
  Credit = {k1, k2}
  Limit = 2
  MaxTime = 1
 
PROPERTY LeftoversEnd
CHECK_DEADLOCK FALSE
