SPECIFICATION Spec
CONSTANTS
  NumHolds = 2
  NumPurchases = 1
  NumCorrections = 1
  UnitCosts = {1}
  Quantities = {1, 2}
  Packs = {2}
  CorrectionSizes <- MCCorrectionSizes
  PlanQuotas = {1}
  MaxTime = 2
  MonthOf <- MCMonthOf
  Skew = 1
  MaxRegrant = 2
  BatchSize = 2
  Refunds = TRUE
INVARIANT GrantedOncePerMonth
CHECK_DEADLOCK FALSE
