SPECIFICATION Spec
CONSTANTS
  NumHolds = 2
  NumPurchases = 1
  NumCorrections = 1
  UnitCosts = {1}
  Quantities = {1, 2}
  Packs = {2}
  CorrectionSizes <- MCCorrectionSizes
  PlanQuotas = {1, 2}
  MaxTime = 2
  MonthOf <- MCMonthOf
  Skew = 0
  MaxRegrant = 0
  BatchSize = 2
  Refunds = FALSE
INVARIANTS
  TypeOK
  LedgerMatchesBalance
  ReservedIsHeld
  ReservedWithinRemaining
  SpentIsDelivered
  NoAllowanceLeak
  GrantedOncePerMonth
CHECK_DEADLOCK FALSE
PROPERTIES
  PurchasedIsPrepaid
