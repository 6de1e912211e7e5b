----------------------------- MODULE MutationMC -----------------------------
(***************************************************************************)
(* Values of the constants of Mutations for TLC.                           *)
(***************************************************************************)
EXTENDS MutationProperties, TLC

CONSTANTS cara, max, ada, abe, t1, t2, t3, o1, o2, o3, s1, s2, s3

DayKey == "venue:day"
AllKey == "venue:all"
SomeKeys == {DayKey, AllKey, "venue:settings", "venue:activity", "player"}

Supervisors == {"MANAGER", "ADMIN"}
Cashiers == {"CASHIER", "MANAGER", "ADMIN"}

\* The dependency keys of four kinds of command, about one player.
Request ==
    [reads |-> {"venue:settings", "player"}, writes |-> {"player", "venue:activity"},
     roles |-> Cashiers, setup |-> FALSE]
UpdateProfile ==
    [reads |-> {"player"}, writes |-> {"player"}, roles |-> Supervisors, setup |-> FALSE]
CloseDay ==
    [reads |-> {"venue:activity"}, writes |-> {DayKey}, roles |-> Supervisors, setup |-> FALSE]
CompleteSetup ==
    [reads |-> {AllKey}, writes |-> {"venue:settings"}, roles |-> {"ADMIN"}, setup |-> TRUE]

OneVenue == {1}
TwoVenues == {1, 2}
NoVenues == {}

Account(active, role1, role2, venues) ==
    [active |-> active, password |-> 0,
     roles |-> [v \in venues |-> IF v = 1 THEN role1 ELSE role2]]
Session(p, v) == [state |-> "open", user |-> p, venue |-> v, password |-> 0]

\* Staff commands and operator commands.
Change(kind, p, role) == [kind |-> kind, target |-> p, role |-> role, enable |-> FALSE]
ByOperator(kind, p, v, role) ==
    [kind |-> kind, target |-> p, venue |-> v, role |-> role, enable |-> FALSE]

\* Repeated requests: cara, a cashier of venue 1, and ada, who administers both
\* venues and whose password the operator resets.
OncePeople == {cara, ada}
OnceAccounts ==
    [p \in OncePeople |->
        IF p = cara THEN Account(TRUE, "CASHIER", "NONE", TwoVenues)
        ELSE Account(TRUE, "ADMIN", "ADMIN", TwoVenues)]
OnceTokens == {t1, t2}
OnceSessions == [t \in OnceTokens |-> Session(IF t = t1 THEN cara ELSE ada, 1)]
OnceStaff == {Change("PASSWORD", cara, "CASHIER")}
OnceOperator == {ByOperator("PASSWORD", ada, 1, "ADMIN")}
NoCommands == {}

\* Commands prepared on a review of the same player, and the closing of the day.
ReviewCommands == {Request, CloseDay}

\* Access: ada administers both venues, abe venue 1 only; max is a manager of both.
AccessPeople == {ada, abe, max}
AccessAccounts ==
    [p \in AccessPeople |->
        CASE p = ada -> Account(TRUE, "ADMIN", "ADMIN", TwoVenues)
          [] p = abe -> Account(TRUE, "ADMIN", "NONE", TwoVenues)
          [] p = max -> Account(TRUE, "MANAGER", "MANAGER", TwoVenues)]
AccessSessions ==
    [t \in {t1, t2} |-> IF t = t1 THEN Session(max, 2) ELSE Unused]
AccessCommands == {Request, CompleteSetup}
AccessStaff ==
    {Change("ROLE", abe, "MANAGER"), Change("PASSWORD", abe, "ADMIN"), Change("DISABLE", abe, "ADMIN")}
AccessOperator ==
    {ByOperator("DISABLE", max, 1, "MANAGER"), ByOperator("PASSWORD", max, 1, "MANAGER"),
     ByOperator("GRANT", ada, 1, "MANAGER")}

\* Locks: ada administers venue 1, may create venue 2; cara has no
\* account yet.
LockPeople == {ada, cara}
LockAccounts ==
    [p \in LockPeople |->
        IF p = ada THEN Account(TRUE, "ADMIN", "NONE", TwoVenues)
        ELSE Account(FALSE, "NONE", "NONE", TwoVenues)]
LockSessions == [t \in {t1} |-> Session(ada, 1)]
LockCommands == {CompleteSetup}
LockStaff == {Change("CREATE", cara, "MANAGER")}
LockOperator == {ByOperator("CREATE", cara, 2, "CASHIER"), ByOperator("GRANT", cara, 1, "DEALER")}

ThreeSlots == Permutations({s1, s2, s3})
TwoSlots == Permutations({s1, s2})
OpsAndThreeSlots == Permutations({o1, o2}) \cup ThreeSlots
OpsAndSlots == Permutations({o1, o2}) \cup TwoSlots
=============================================================================
