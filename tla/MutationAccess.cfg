SPECIFICATION Spec
CONSTANTS
  None = None
  Cancelled = Cancelled
  cara = cara
  max = max
  ada = ada
  abe = abe
  t1 = t1
  t2 = t2
  t3 = t3
  o1 = o1
  o2 = o2
  o3 = o3
  s1 = s1
  s2 = s2
  s3 = s3
  Venues <- TwoVenues
  InitialVenues <- TwoVenues
  Importable <- NoVenues
  People <- AccessPeople
  InitialAccounts <- AccessAccounts
  Tokens = {t1, t2}
  InitialSessions <- AccessSessions
  MaxResets = 1
  Ops = {o1, o2}
  Slots = {s1, s2}
  Keys <- SomeKeys
  Day <- DayKey
  All <- AllKey
  Commands <- AccessCommands
  StaffCommands <- AccessStaff
  OperatorCommands <- AccessOperator
  Kinds = {"COMMAND", "STAFF", "OPERATOR"}
INVARIANTS
  AdminRemains
  RevokedStaysOut
PROPERTIES
  AccessHeld
  SetupCovered
SYMMETRY OpsAndSlots
CHECK_DEADLOCK FALSE
