SPECIFICATION FairSpec
CONSTANTS
  None = None
  Cancelled = Cancelled
  cara = cara
  max = max
  ada = ada
  abe = abe
  t1 = t1
  t2 = t2
  t3 = t3
  o1 = o1
  o2 = o2
  o3 = o3
  s1 = s1
  s2 = s2
  s3 = s3
  Venues <- TwoVenues
  InitialVenues <- OneVenue
  Importable <- NoVenues
  People <- LockPeople
  InitialAccounts <- LockAccounts
  Tokens = {t1}
  InitialSessions <- LockSessions
  MaxResets = 0
  Ops = {o1, o2}
  Slots = {s1, s2, s3}
  Keys <- SomeKeys
  Day <- DayKey
  All <- AllKey
  Commands <- LockCommands
  StaffCommands <- LockStaff
  OperatorCommands <- LockOperator
  Kinds = {"COMMAND", "STAFF", "LOCATION", "OPERATOR"}
PROPERTIES
  Answered
CHECK_DEADLOCK FALSE
