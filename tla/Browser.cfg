SPECIFICATION Spec
CONSTANTS
    t1 = t1
    t2 = t2
    ann = ann
    ben = ben
    buyIn = buyIn
    o1 = o1
    o2 = o2
    Tabs = {t1, t2}
    People = {ann, ben}
    Intents = {buyIn}
    Owner <- OneOwner
    Operations = {o1, o2}
    None = None
    MaxRevision = 2
    MaxReads = 1
SYMMETRY Symmetry
CHECK_DEADLOCK FALSE
INVARIANTS AnswersTrue NothingForgotten SavedIsShown
