SPECIFICATION Spec
CONSTANTS
  None = None
  p1 = p1
  p2 = p2
  p3 = p3
  t1 = t1
  t2 = t2
  cara = cara
  max = max
  ada = ada
  Players <- TwoPlayers
  Tables <- TwoTables
  Seats = {1, 2}
  Staff <- CashierAndAdmin
  Types = {"Buy-in", "Cash-out", "Credit Repayment"}
  Amounts = {1}
  CreditLimits = {1}
  AccountTypes = {"CREDIT"}
  Bans = {FALSE}
  OpeningCash = {0}
  CountedCash = {0}
  DefaultRules <- AnyBuyIn
  VenueRules <- OneRules
  TableOverrides <- Inherit
  FeatureSets <- AllFeatures
  ClockMaySlip = FALSE
  AdminThreshold = 5
  DualThreshold = 6
  MaxVisits = 2
  MaxRequests = 2
  MaxDays = 1
  Recent = 1
  RecentDays = 1
  MaxCloses = 1
INVARIANTS
  SeatingExclusive
  PendingCurrent
  ScopeDecides
PROPERTIES
  ReviewStands
SYMMETRY Interchangeable
CHECK_DEADLOCK FALSE
