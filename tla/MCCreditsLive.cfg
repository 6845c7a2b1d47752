SPECIFICATION FairSpec
CONSTANTS
  NumHolds = 2
  NumPurchases = 1
  NumCorrections = 0
  UnitCosts = {1}
  Quantities = {1}
  Packs = {2}
  CorrectionSizes <- MCCorrectionSizes
  PlanQuotas = {1}
  MaxTime = 2
  MonthOf <- MCMonthOf
  Skew = 1
  MaxRegrant = 2
  BatchSize = 1
  Refunds = TRUE
PROPERTIES
  DeadlinesFreeHolds
CHECK_DEADLOCK FALSE
