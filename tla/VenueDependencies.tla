-------------------------- MODULE VenueDependencies --------------------------
(***************************************************************************)
(* The keys that say which records a command was decided on, and which a   *)
(* change touches (src/domain/command-concurrency.ts).  A command is       *)
(* refused when a key it depends on was changed since its author looked    *)
(* (repository.ts, modelled in Mutations); this module is about whether    *)
(* the keys name enough.                                                   *)
(*                                                                         *)
(* A player is his phone number, so player: and phone: are one key here.   *)
(***************************************************************************)
EXTENDS VenueIntegrity

-----------------------------------------------------------------------------
(* Commands as their authors send them.                                    *)

Decisions(r) == {[kind |-> "DECIDE", by |-> a, request |-> r] : a \in Staff}

VisitCommands(v) ==
    {[kind |-> "MOVE", visit |-> v, table |-> t, seat |-> s] : t \in Tables, s \in Seats}
    \cup {[kind |-> "SWAP_SEATS", visit |-> v, other |-> w] : w \in DOMAIN sessions \ {v}}
    \cup {[kind |-> "REQUEST", type |-> type, visit |-> v, amount |-> n] :
             type \in Types \cap SessionEntries, n \in Amounts}

\* Commands that may have been prepared (ENTRY is a REQUEST without a visit) while the records are as they are.
Prepared ==
    {[kind |-> "CHECK_IN", player |-> p, table |-> t, seat |-> s] :
        p \in Players, t \in Tables, s \in Seats}
    \cup (UNION {VisitCommands(v) : v \in ActiveVisits})
    \cup {[kind |-> "UPDATE_PROFILE", player |-> p, limit |-> n] :
             p \in Players, n \in CreditLimits}
    \cup {[kind |-> "TABLE", table |-> t, rules |-> o] : t \in Tables, o \in TableOverrides}
    \cup {[kind |-> "CREATE_TABLE", status |-> "OPEN", rules |-> o] : o \in TableOverrides}
    \cup {[kind |-> "ENTRY", type |-> type, amount |-> n, player |-> p, table |-> t] :
             type \in Types \ SessionEntries, n \in Amounts,
             p \in Players \cup {None}, t \in Tables \cup {None}}
    \cup {[kind |-> "CORRECT", entry |-> t] : t \in DOMAIN transactions}
    \cup (UNION {Decisions(r) : r \in PendingRequests})
    \cup {[kind |-> "CLOSE_DAY"], [kind |-> "REOPEN_DAY"], [kind |-> "OPEN_DAY"],
          [kind |-> "COMPLETE_SETUP"]}

\* Three more, whose keys do not cover what they are checked against: closing a
\* table looks for visits and requests there, creating a closed one for pending
\* requests without a table, and new venue rules must fit every table's own.
\* All write what their author sent, whatever the records say.
Reconfigurations ==
    {[kind |-> "CLOSE_TABLE", table |-> t] : t \in Tables}
    \cup {[kind |-> "CREATE_TABLE", status |-> "CLOSED", rules |-> o] : o \in TableOverrides}
    \cup {[kind |-> "UPDATE_SETTINGS", rules |-> rules] : rules \in VenueRules}

-----------------------------------------------------------------------------
(* commandDependencies().                                                  *)

Day == <<"venue", "day">>
Settings == <<"venue", "settings">>
Activity == <<"venue", "activity">>
Anything == <<"venue", "all">>
PlayerKey(p) == IF p = None THEN {} ELSE {<<"player", p>>}
TableKey(t) == IF t = None THEN {} ELSE {<<"table", t>>}
SeatKey(t, s) == <<"seat", t, s>>
SeatOf(v) == SeatKey(sessions[v].tableId, sessions[v].seat)

\* Mutant: the seat a reversed cash-out gives back is forgotten.
EntryKeysWithoutSeat(t) ==
    {<<"transaction", t>>, <<"reversal", t>>}
    \cup PlayerKey(transactions[t].playerId) \cup TableKey(transactions[t].tableId)

\* addTransaction()
EntryKeys(t) ==
    {<<"transaction", t>>, <<"reversal", t>>}
    \cup PlayerKey(transactions[t].playerId) \cup TableKey(transactions[t].tableId)
    \cup (IF transactions[t].sessionId = None THEN {} ELSE {SeatOf(transactions[t].sessionId)})

RequestKeys(r) ==
    LET q == approvals[r] IN
    {Settings, <<"approval", r>>}
    \cup PlayerKey(q.playerId) \cup TableKey(q.tableId)
    \cup (IF q.reversesId = None THEN {} ELSE EntryKeys(q.reversesId))

Dependencies(c) ==
    {Day} \cup
    CASE c.kind = "CHECK_IN" ->
            {Settings, SeatKey(c.table, c.seat)} \cup PlayerKey(c.player) \cup TableKey(c.table)
      [] c.kind = "MOVE" ->
            {SeatKey(c.table, c.seat)} \cup PlayerKey(sessions[c.visit].playerId) \cup TableKey(c.table)
      [] c.kind = "SWAP_SEATS" ->
            UNION {{SeatOf(v)} \cup PlayerKey(sessions[v].playerId) \cup TableKey(sessions[v].tableId) :
                      v \in {c.visit, c.other}}
      [] c.kind = "REQUEST" ->
            {Settings} \cup PlayerKey(sessions[c.visit].playerId) \cup TableKey(sessions[c.visit].tableId)
      [] c.kind = "ENTRY" -> {Settings} \cup PlayerKey(c.player) \cup TableKey(c.table)
      [] c.kind \in {"TABLE", "CLOSE_TABLE"} -> {Settings} \cup TableKey(c.table)
      [] c.kind = "UPDATE_PROFILE" -> PlayerKey(c.player)
      [] c.kind = "CORRECT" -> EntryKeys(c.entry)
      [] c.kind = "DECIDE" -> RequestKeys(c.request)
      [] c.kind = "CLOSE_DAY" -> {Activity}
      [] c.kind \in {"CREATE_TABLE", "OPEN_DAY", "UPDATE_SETTINGS"} -> {Settings}
      [] c.kind = "COMPLETE_SETUP" -> {Anything}
      [] c.kind = "REOPEN_DAY" -> {}

-----------------------------------------------------------------------------
(* changedDependencyKeys(): of a step.                                     *)

ChangedVisits ==
    {v \in DOMAIN sessions' : v \notin DOMAIN sessions \/ sessions[v] # sessions'[v]}
ChangedRequests ==
    {r \in DOMAIN approvals' : r \notin DOMAIN approvals \/ approvals[r] # approvals'[r]}
NewEntries == DOMAIN transactions' \ DOMAIN transactions

VisitKeys(v) ==
    {SeatOf(v)', Activity} \cup PlayerKey(sessions'[v].playerId)
    \cup (IF v \in DOMAIN sessions THEN {SeatOf(v)} ELSE {})

ReversalKey(q) == IF q.reversesId = None THEN {} ELSE {<<"reversal", q.reversesId>>}

ChangedKeys ==
    {Anything}
    \cup (IF settings' # settings THEN {Settings} ELSE {})
    \cup (IF days' # days THEN {Day} ELSE {})
    \cup {<<"table", t>> : t \in {t \in Tables : tables'[t] # tables[t]}}
    \cup {<<"player", p>> : p \in {p \in Players : profiles'[p] # profiles[p]}}
    \cup (UNION {VisitKeys(v) : v \in ChangedVisits})
    \cup (UNION {{<<"approval", r>>, Activity} \cup PlayerKey(approvals'[r].playerId)
                   \cup ReversalKey(approvals'[r]) : r \in ChangedRequests})
    \cup (UNION {{<<"transaction", t>>, Activity} \cup PlayerKey(transactions'[t].playerId)
                   \cup ReversalKey(transactions'[t]) : t \in NewEntries})

-----------------------------------------------------------------------------
(* What becomes of a command that is carried out now, in view of nothing   *)
(* but the records: refused, or accepted with some effect.                 *)

Refused == <<>>
Accepted(condition, effect) == IF condition THEN <<effect>> ELSE Refused

SeatFree(p, t, s) == NotCheckedIn(p) /\ EnsureSeat(t, s, None)

MayCheckIn(p, t, s) ==
    /\ DayIsOpen /\ SeatFree(p, t, s)
    /\ profiles[p].type # "ABSENT" => ~profiles[p].banned
    /\ IsCredit(p) => "credit" \in settings.features

Verdict(c) ==
    CASE c.kind = "CHECK_IN" -> Accepted(MayCheckIn(c.player, c.table, c.seat), profiles[c.player])
      [] c.kind = "MOVE" ->
            Accepted(DayIsOpen /\ c.visit \in ActiveVisits /\ Movable(c.visit)
                       /\ EnsureSeat(c.table, c.seat, c.visit), sessions[c.visit])
      [] c.kind = "SWAP_SEATS" ->
            Accepted(DayIsOpen /\ {c.visit, c.other} \subseteq ActiveVisits
                       /\ Swappable(c.visit, c.other)
                       /\ TableOpen(sessions[c.visit].tableId) /\ TableOpen(sessions[c.other].tableId),
                     {sessions[c.visit], sessions[c.other]})
      [] c.kind = "REQUEST" ->
            LET v == sessions[c.visit]
                q == [dayId |-> Today, type |-> c.type, amount |-> c.amount, playerId |-> v.playerId,
                      sessionId |-> c.visit, tableId |-> v.tableId, reversesId |-> None]
            IN  Accepted(DayIsOpen /\ c.visit \in ActiveVisits
                           /\ (c.type = "Buy-in" => MayBuyIn(c.visit, c.amount))
                           /\ ValidEntry(q, None), q)
      [] c.kind = "ENTRY" ->
            LET q == [dayId |-> Today, type |-> c.type, amount |-> c.amount, playerId |-> c.player,
                      sessionId |-> None, tableId |-> c.table, reversesId |-> None]
            IN  Accepted(DayIsOpen /\ RequiredFeatures(c.type) \subseteq settings.features
                           /\ (c.player # None => profiles[c.player].type # "ABSENT")
                           /\ ValidEntry(q, None), q)
      [] c.kind = "TABLE" -> Accepted(TableRulesOK(settings.rules, c.rules), tables[c.table])
      [] c.kind = "CLOSE_TABLE" -> Accepted(TableIdle(c.table), tables[c.table])
      [] c.kind = "CREATE_TABLE" ->      \* names no table: what has none is compared with it
            Accepted(/\ TableRulesOK(settings.rules, c.rules)
                     /\ c.status = "CLOSED" => TableIdle(None), {})
      [] c.kind = "UPDATE_SETTINGS" ->
            Accepted(\A t \in Tables : tables[t].status # "ABSENT" =>
                                          TableRulesOK(c.rules, tables[t].rules), {})
      [] c.kind = "UPDATE_PROFILE" ->
            Accepted(IsCredit(c.player) => LimitCovers(c.player, c.limit), profiles[c.player])
      [] c.kind = "CORRECT" ->
            LET tx == transactions[c.entry]
                q == [tx EXCEPT !.type = "Reversal", !.reversesId = c.entry]
            IN  Accepted(DayIsOpen /\ tx.dayId = Today /\ tx.reversesId = None
                           /\ NotBeingReversed(c.entry) /\ ValidEntry(q, None), q)
      [] c.kind = "DECIDE" ->
            LET q == approvals[c.request] IN
            Accepted(DayIsOpen /\ CanApprove(c.by, q) /\ ValidEntry(q, c.request),
                     <<q, Posting(c.request)>>)
      [] c.kind = "CLOSE_DAY" -> Accepted(DayIsOpen /\ DaySettled, ExpectedCash(Today))
      [] c.kind = "OPEN_DAY" -> Accepted(settings.setupCompleted /\ ~DayIsOpen, Today)
      [] c.kind = "REOPEN_DAY" -> Accepted(Today > 0 /\ ~DayIsOpen, Today)
      [] c.kind = "COMPLETE_SETUP" ->
            Accepted(~settings.setupCompleted /\ settings.saved /\ \E t \in Tables : TableOpen(t), {})

-----------------------------------------------------------------------------

\* Reviews: as long as no key a command depends on is changed, whatever else is
\* changed, the command depends on the same keys, is accepted or refused as
\* before, and does what it would have done when its author looked
\* (command-concurrency.ts, repository.ts:121-140).
ReviewStep ==
    LET changed == ChangedKeys IN
    \A c \in Prepared :
        Dependencies(c)' \cap changed = {} =>
            Dependencies(c)' = Dependencies(c) /\ Verdict(c)' = Verdict(c)
ReviewStands == [][ReviewStep]_vars
=============================================================================
