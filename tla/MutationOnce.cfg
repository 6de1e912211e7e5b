SPECIFICATION Spec
CONSTANTS
  None = None
  Cancelled = Cancelled
  cara = cara
  max = max
  ada = ada
  abe = abe
  t1 = t1
  t2 = t2
  t3 = t3
  o1 = o1
  o2 = o2
  o3 = o3
  s1 = s1
  s2 = s2
  s3 = s3
  Venues <- TwoVenues
  InitialVenues <- TwoVenues
  Importable <- OneVenue
  People <- OncePeople
  InitialAccounts <- OnceAccounts
  Tokens <- OnceTokens
  InitialSessions <- OnceSessions
  MaxResets = 1
  Ops = {o1, o2}
  Slots = {s1, s2, s3}
  Keys <- SomeKeys
  Day <- DayKey
  All <- AllKey
  Commands <- ReviewCommands
  StaffCommands <- OnceStaff
  OperatorCommands <- OnceOperator
  Kinds = {"COMMAND", "STAFF", "OPERATOR"}
INVARIANTS
  TypeOK
  RevisionsDiffer
PROPERTIES
  EffectsOnce
  ReviewCurrent
SYMMETRY OpsAndThreeSlots
CHECK_DEADLOCK FALSE
