SPECIFICATION Spec
CONSTANTS
  None = None
  p1 = p1
  p2 = p2
  p3 = p3
  t1 = t1
  t2 = t2
  cara = cara
  max = max
  ada = ada
  Players <- OnePlayer
  Tables <- OneTable
  Seats = {1}
  Staff <- ManagerAndAdmin
  Types = {"Cash-out", "Rake"}
  Amounts = {2}
  CreditLimits = {2}
  AccountTypes = {"CASH"}
  Bans = {FALSE}
  OpeningCash = {1}
  CountedCash = {1}
  DefaultRules <- AnyBuyIn
  VenueRules <- OneRules
  TableOverrides <- Inherit
  FeatureSets <- AllFeatures
  ClockMaySlip = FALSE
  AdminThreshold = 5
  DualThreshold = 6
  MaxVisits = 2
  MaxRequests = 3
  MaxDays = 2
  Recent = 1
  RecentDays = 1
  MaxCloses = 2
INVARIANTS
  BackupAccepted
  ScreensTrue
PROPERTIES
  HistoryKept
CHECK_DEADLOCK FALSE
