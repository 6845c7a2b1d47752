\* A move or the privacy run meets a booking that is called off: a circle.
SPECIFICATION Spec
CONSTANTS
  c1 = c1
  v1 = v1
  v2 = v2
  None = None
  Customers = {c1}
  Visits = {v1, v2}
  CustomerOf <- MCCustomerOf
  Txs = {t1, t2}
  Families <- MCMeeting
  Bookings <- MCBookings
INVARIANTS
  NobodyWaitsInACircle
