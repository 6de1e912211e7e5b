SPECIFICATION Spec
CONSTANTS
    j1 = j1
    j2 = j2
    j3 = j3
    h1 = h1
    e1 = e1
    e2 = e2
    ann = ann
    ben = ben
    r1 = r1
    r2 = r2
    r3 = r3
    main = main
    spare = spare
    moved = moved
    bad = bad
    k1 = k1
    k2 = k2
    None = None
    Absent = Absent
    SignIns = {j1, j2, j3}
    Hashes = {h1}
    Exports = {e1, e2}
    Accounts = {ann}
    AccountOf <- Ann
    Right = {j1}
    Slots <- TwoSlots
    Places <- FewPlaces
    Limit = 1
    Budget = 2
    Configurations = {main, spare, moved, bad}
    Connection <- Pool
    Broken = {bad}
    Unfit = {}
    Readers = {r1, r2, r3}
    MaxChanges = 3
    Commands = {k1, k2}
    MaxScripts = 3
    MaxSignIns = 2
    People = {ann, ben}
    Nobody = Nobody
    ReadSlots = {1, 2}
    MaxDocuments = 3
CHECK_DEADLOCK FALSE
INVARIANTS GatesFair ReportCurrent SavedIsKept HiddenUntilConfirmed
PROPERTIES EveryoneAnswered NewerAttemptsKept RequestsAnswered RestoreReviewed AccountAskedFor CheckingEnds
