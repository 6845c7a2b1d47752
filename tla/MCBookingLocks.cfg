\* Operations of one of the safe families meet, three at a time.
SPECIFICATION Spec
CONSTANTS
  c1 = c1
  v1 = v1
  v2 = v2
  None = None
  Customers = {c1}
  Visits = {v1, v2}
  CustomerOf <- MCCustomerOf
  Txs = {t1, t2, t3}
  Families <- MCFamilies
  Bookings <- MCBookings
SYMMETRY TxSymmetry
INVARIANTS
  NobodyWaitsInACircle
PROPERTIES
  SweepSparesVisitsAhead
