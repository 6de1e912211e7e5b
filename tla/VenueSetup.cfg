SPECIFICATION Spec
CONSTANTS
  None = None
  p1 = p1
  p2 = p2
  p3 = p3
  t1 = t1
  t2 = t2
  cara = cara
  max = max
  ada = ada
  Players <- OnePlayer
  Tables <- OneTable
  Seats = {1}
  Staff <- CashierAndAdmin
  Types <- EveryType
  Amounts = {1}
  CreditLimits = {2}
  AccountTypes = {"CASH", "CREDIT"}
  Bans = {TRUE, FALSE}
  OpeningCash = {0}
  CountedCash = {0}
  DefaultRules <- AnyBuyIn
  VenueRules <- SomeRules
  TableOverrides <- SomeOverrides
  FeatureSets <- SomeFeatures
  ClockMaySlip = FALSE
  AdminThreshold = 5
  DualThreshold = 6
  MaxVisits = 1
  MaxRequests = 1
  MaxDays = 1
  Recent = 1
  RecentDays = 1
  MaxCloses = 1
INVARIANTS
  TypeOK
  BuyInPossible
CHECK_DEADLOCK FALSE
