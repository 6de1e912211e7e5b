SPECIFICATION Spec
CONSTANTS
  None = None
  p1 = p1
  p2 = p2
  p3 = p3
  t1 = t1
  t2 = t2
  cara = cara
  max = max
  ada = ada
  Players = {}
  Tables <- OneTable
  Seats = {1}
  Staff <- ReviewStaff
  Types = {"Rake", "Cash Payout"}
  Amounts = {1, 2, 3}
  CreditLimits = {2}
  AccountTypes = {"CASH", "CREDIT"}
  Bans = {FALSE}
  OpeningCash = {0}
  CountedCash = {0}
  DefaultRules <- AnyBuyIn
  VenueRules <- OneRules
  TableOverrides <- Inherit
  FeatureSets <- AllFeatures
  ClockMaySlip = FALSE
  AdminThreshold = 2
  DualThreshold = 3
  MaxVisits = 0
  MaxRequests = 2
  MaxDays = 1
  Recent = 1
  RecentDays = 1
  MaxCloses = 1
INVARIANTS
  IndependentReview
  PostedOnce
  PayoutsByAdmin
  ReviewerRemains
CHECK_DEADLOCK FALSE
