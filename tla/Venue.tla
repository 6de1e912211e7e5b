-------------------------------- MODULE Venue --------------------------------
(***************************************************************************)
(* One venue's authoritative records and every command of applyCommand     *)
(* (src/domain/operations.ts).  The repository runs one command at a time  *)
(* under the venue's row lock and commits all of it or nothing, so a       *)
(* command is one action and a rejected command is no step at all.         *)
(*                                                                         *)
(* A record's id is its position in its array: records are only appended.  *)
(* A player is identified with his phone number, which is unique.  Names,  *)
(* notes, reasons, VIP and Risk tags and the audit log are left out.       *)
(***************************************************************************)
EXTENDS LedgerRules, Sequences, FiniteSets

CONSTANTS
    Players, Tables, Seats,
    Staff,            \* who may act: [id, role]; one id with two roles is a
                      \* person whose role an administrator changes meanwhile
    None,             \* an absent optional field
    Types,            \* the entry types requested
    Amounts, CreditLimits, OpeningCash, CountedCash,
    AccountTypes,     \* the types of account new players get
    Bans,             \* what a profile update may say of a ban
    DefaultRules,     \* the rules of a venue nobody has configured yet
    VenueRules,       \* rules an administrator may save for the venue
    TableOverrides,   \* rules a supervisor may save for a table
    FeatureSets,      \* sets of enabled features
    ClockMaySlip,     \* whether the wall clock may step back between check-ins
    MaxVisits, MaxRequests, MaxDays, MaxCloses

ASSUME VenueAssumption ==
    /\ Types \subseteq EntryTypes
    /\ AccountTypes \subseteq {"CASH", "CREDIT"}
    /\ Bans \subseteq BOOLEAN
    /\ Amounts \subseteq Nat
    /\ CreditLimits \subseteq Nat
    /\ OpeningCash \subseteq Nat
    /\ CountedCash \subseteq Nat
    /\ \A a \in Staff : a.role \in Roles
    /\ FeatureSets \subseteq SUBSET Features
    /\ \A rules \in VenueRules \cup {DefaultRules} :
          rules \in [RuleFields -> Nat] /\ RulesConsistent(rules) /\ rules["maxBuyIn"] > 0
    /\ \A o \in TableOverrides : \E D \in SUBSET RuleFields :
          o \in [D -> Nat] /\ ("maxBuyIn" \in D => o["maxBuyIn"] > 0)
    /\ ClockMaySlip \in BOOLEAN
    /\ None \notin Players \cup Tables \cup Nat
    /\ {MaxVisits, MaxRequests, MaxDays, MaxCloses} \subseteq Nat

VARIABLES
    settings,      \* saved venue settings, features and rules
    tables,        \* status and rule overrides of each table
    profiles,      \* account type, credit limit and ban of each player
    days,          \* business days in date order; the last one is current
    sessions,      \* visits, in check-in order
    approvals,     \* requests, in the order they were made
    transactions,  \* the ledger, in posting order
    outstanding,   \* PLAYER rollup: the debt of each player
    dayCash        \* DAY rollup: cash received less cash paid out on each day

vars == <<settings, tables, profiles, days, sessions, approvals, transactions,
          outstanding, dayCash>>

-----------------------------------------------------------------------------
(* What the records say.                                                   *)

Today == Len(days)
DayIsOpen == Today > 0 /\ days[Today].status = "OPEN"

ActiveVisits == {v \in DOMAIN sessions : sessions[v].status = "ACTIVE"}
VisitsOf(p) == {v \in DOMAIN sessions : sessions[v].playerId = p}
PendingRequests == {r \in DOMAIN approvals : approvals[r].status = "PENDING"}
PendingFor(v) == {r \in PendingRequests : approvals[r].sessionId = v}
ReversalsOf(t) == {u \in DOMAIN transactions : transactions[u].reversesId = t}
IsCredit(p) == p # None /\ profiles[p].type = "CREDIT"

\* The amounts of the player's pending buy-ins, added up unit by unit.
PendingBuyIns(p) ==
    {r \in PendingRequests : approvals[r].type = "Buy-in" /\ approvals[r].playerId = p}
Units(S) == UNION {{r} \X (1 .. approvals[r].amount) : r \in S}

ReservedCredit(p) == Cardinality(Units(PendingBuyIns(p)))

TableOpen(t) == tables[t].status = "OPEN"

\* ensureSeat(): the table is open and nobody but the visit `except` has the seat.
EnsureTableOnly(t, seat, except) == TableOpen(t)   \* mutant: occupancy is not looked at
EnsureSeat(t, seat, except) ==
    /\ TableOpen(t)
    /\ \A v \in ActiveVisits \ {except} : sessions[v].tableId # t \/ sessions[v].seat # seat

-----------------------------------------------------------------------------
(* validateEntry(): run when a request is made and again on every approval. *)

\* No other request of the visit is pending when its cash-out is settled.
NoOtherPending(q, self) == PendingFor(q.sessionId) \ {self} = {}

\* Undoing a settlement may not lift debt and reservations over the limit.
ReversalWithinLimit(tx) ==
    tx.creditDelta < 0 /\ IsCredit(tx.playerId)
        => outstanding[tx.playerId] - tx.creditDelta + ReservedCredit(tx.playerId)
             <= profiles[tx.playerId].creditLimit

\* Mutant: later visits of the player are not looked at.
NoLaterVisitUnchecked(v) == TRUE
\* The visit is the player's latest, by the wall clock.
NoLaterVisit(v) ==
    \A w \in VisitsOf(sessions[v].playerId) \ {v} : sessions[w].start < sessions[v].start

\* Mutant: a buy-in is reversed after its visit was settled.
BuyInVisitUnchecked(v) == TRUE
\* A buy-in is only reversed while its visit goes on.
BuyInVisitOpen(v) == v \in ActiveVisits

ValidReversal(q) ==
    LET tx == transactions[q.reversesId]
    IN  /\ ReversalsOf(q.reversesId) = {}
        /\ tx.playerId # None => outstanding[tx.playerId] - tx.creditDelta >= 0
        /\ ReversalWithinLimit(tx)
        /\ tx.type = "Buy-in" => BuyInVisitOpen(q.sessionId)
        /\ tx.type = "Cash-out" =>
              /\ NoLaterVisit(q.sessionId)
              /\ EnsureSeat(sessions[q.sessionId].tableId, sessions[q.sessionId].seat, q.sessionId)

ValidSessionEntry(q, self) ==
    /\ q.sessionId \in ActiveVisits
    /\ sessions[q.sessionId].dayId = q.dayId
    /\ sessions[q.sessionId].tableId = q.tableId
    /\ q.type = "Buy-in" =>
          /\ ~profiles[q.playerId].banned
          /\ IsCredit(q.playerId) =>
                outstanding[q.playerId] + q.amount <= profiles[q.playerId].creditLimit
    /\ q.type = "Cash-out" => NoOtherPending(q, self)

ValidRepayment(q) == IsCredit(q.playerId) /\ q.amount <= outstanding[q.playerId]

ValidEntry(q, self) ==
    IF q.type = "Reversal" THEN ValidReversal(q)
    ELSE /\ q.type \in SessionEntries => ValidSessionEntry(q, self)
         /\ q.type = "Credit Repayment" => ValidRepayment(q)
         /\ q.tableId # None => TableOpen(q.tableId)

-----------------------------------------------------------------------------
(* postEntry(): one ledger entry, its rollups, and the visit it settles.    *)

Posting(r) ==
    LET q      == approvals[r]
        impact == IF q.type = "Reversal" THEN ReversalImpact(transactions[q.reversesId])
                  ELSE EntryImpact(q.type, q.amount, IsCredit(q.playerId),
                                   IF q.playerId = None THEN 0 ELSE outstanding[q.playerId])
    IN  [dayId |-> q.dayId, type |-> q.type, amount |-> impact.amount,
         playerId |-> q.playerId, sessionId |-> q.sessionId, tableId |-> q.tableId,
         cashReceived |-> impact.cashReceived, cashPayout |-> impact.cashPayout,
         creditDelta |-> impact.creditDelta,
         approvalId |-> r, reversesId |-> q.reversesId]

\* What posting the request makes of its visit's status.
Settles(q) ==
    IF q.type = "Cash-out" THEN "OUT"
    ELSE IF q.type = "Reversal" /\ transactions[q.reversesId].type = "Cash-out" THEN "ACTIVE"
    ELSE "SAME"

\* Mutant: the rollup takes a payout off the day's cash twice.
CashMovedTwice(tx) == tx.cashReceived - 2 * tx.cashPayout
CashMoved(tx) == tx.cashReceived - tx.cashPayout

Post(r) ==
    LET q == approvals[r]
        tx == Posting(r)
    IN  /\ \A u \in DOMAIN transactions : transactions[u].approvalId # r
        /\ transactions' = Append(transactions, tx)
        /\ sessions' = IF Settles(q) = "SAME" THEN sessions
                       ELSE [sessions EXCEPT ![q.sessionId].status = Settles(q)]
        /\ outstanding' = IF q.playerId = None THEN outstanding
                          ELSE [outstanding EXCEPT ![q.playerId] = @ + tx.creditDelta]
        /\ dayCash' = [dayCash EXCEPT ![q.dayId] = @ + CashMoved(tx)]

-----------------------------------------------------------------------------
(* Venue setup.                                                            *)

UpdateSettings(a, features, rules) ==
    /\ a.role = "ADMIN"
    /\ \A t \in Tables : tables[t].status # "ABSENT" => TableRulesOK(rules, tables[t].rules)
    /\ settings' = [settings EXCEPT !.saved = TRUE, !.features = features, !.rules = rules]
    /\ UNCHANGED <<tables, profiles, days, sessions, approvals, transactions, outstanding, dayCash>>

CompleteSetup(a) ==
    /\ a.role = "ADMIN"
    /\ ~settings.setupCompleted
    /\ settings.saved
    /\ \E t \in Tables : TableOpen(t)
    /\ settings' = [settings EXCEPT !.setupCompleted = TRUE]
    /\ UNCHANGED <<tables, profiles, days, sessions, approvals, transactions, outstanding, dayCash>>

\* A table closes only with nobody seated and nothing pending on it.
TableIdle(t) ==
    /\ \A v \in ActiveVisits : sessions[v].tableId # t
    /\ \A r \in PendingRequests : approvals[r].tableId # t

\* A table created closed is not held up: nothing is read for it that could stand in its
\* way (command-store.ts:150-154; see Unread in VenueScope).
CreateTable(a, t, status, overrides) ==
    /\ a.role \in Supervisors
    /\ tables[t].status = "ABSENT"
    /\ TableRulesOK(settings.rules, overrides)
    /\ tables' = [tables EXCEPT ![t] = [status |-> status, rules |-> overrides]]
    /\ UNCHANGED <<settings, profiles, days, sessions, approvals, transactions, outstanding, dayCash>>

UpdateTable(a, t, status, overrides) ==
    /\ a.role \in Supervisors
    /\ tables[t].status # "ABSENT"
    /\ status = "CLOSED" => TableIdle(t)
    /\ TableRulesOK(settings.rules, overrides)
    /\ tables' = [tables EXCEPT ![t] = [status |-> status, rules |-> overrides]]
    /\ UNCHANGED <<settings, profiles, days, sessions, approvals, transactions, outstanding, dayCash>>

LimitCovers(p, limit) == limit >= outstanding[p] + ReservedCredit(p)

UpdateProfile(a, p, limit, banned) ==
    /\ a.role \in Supervisors
    /\ profiles[p].type # "ABSENT"
    /\ IsCredit(p) => LimitCovers(p, limit)
    /\ profiles' = [profiles EXCEPT ![p].banned = banned,
                                    ![p].creditLimit = IF IsCredit(p) THEN limit ELSE 0]
    /\ UNCHANGED <<settings, tables, days, sessions, approvals, transactions, outstanding, dayCash>>

-----------------------------------------------------------------------------
(* Business days.  A new day's date must follow every earlier one, so days  *)
(* are numbered in date order.                                             *)

OpenDay(a, cash) ==
    /\ Today < MaxDays
    /\ a.role \in Supervisors
    /\ settings.setupCompleted
    /\ ~DayIsOpen
    /\ days' = Append(days, [status |-> "OPEN", openingCash |-> cash, closes |-> <<>>])
    /\ dayCash' = Append(dayCash, 0)
    /\ UNCHANGED <<settings, tables, profiles, sessions, approvals, transactions, outstanding>>

ReopenDay(a) ==
    /\ a.role = "ADMIN"
    /\ Today > 0
    /\ days[Today].status = "CLOSED"
    /\ days' = [days EXCEPT ![Today].status = "OPEN"]
    /\ UNCHANGED <<settings, tables, profiles, sessions, approvals, transactions, outstanding, dayCash>>

DaySettled == ActiveVisits = {} /\ PendingRequests = {}

\* Mutant: a day that was closed before keeps its first closing total.
ExpectedCashOfFirstClose(d) ==
    IF days[d].closes # <<>> THEN days[d].closes[1].expectedCash
    ELSE days[d].openingCash + dayCash[d]
\* totalsForDay(): the drawer's expected cash, from the day's rollup.
ExpectedCash(d) == days[d].openingCash + dayCash[d]

\* A variance must be explained and a reviewed day id must still be current:
\* both are fields of the same command, so some command always satisfies them.
CloseDay(a, counted) ==
    /\ DayIsOpen
    /\ Len(days[Today].closes) < MaxCloses
    /\ a.role \in Supervisors
    /\ DaySettled
    /\ days' = [days EXCEPT ![Today].status = "CLOSED",
                            ![Today].closes = Append(@, [countedCash |-> counted,
                                                         expectedCash |-> ExpectedCash(Today)])]
    /\ UNCHANGED <<settings, tables, profiles, sessions, approvals, transactions, outstanding, dayCash>>

-----------------------------------------------------------------------------
(* Check-in and seating.                                                   *)

\* The wall-clock reading a check-in may get.  A clock that never slips gives
\* readings in check-in order.
ClockReadings == IF ClockMaySlip THEN 1 .. MaxVisits ELSE {Len(sessions) + 1}

NotCheckedIn(p) == VisitsOf(p) \cap ActiveVisits = {}

StartVisit(p, t, seat) ==
    /\ Len(sessions) < MaxVisits
    /\ NotCheckedIn(p)
    /\ EnsureSeat(t, seat, None)
    /\ \E start \in ClockReadings :
         sessions' = Append(sessions, [playerId |-> p, dayId |-> Today, status |-> "ACTIVE",
                                       tableId |-> t, seat |-> seat, start |-> start])

CheckInKnown(a, p, t, seat) ==
    /\ DayIsOpen
    /\ a.role \in Cashiers
    /\ profiles[p].type # "ABSENT"
    /\ IsCredit(p) => "credit" \in settings.features
    /\ ~profiles[p].banned
    /\ StartVisit(p, t, seat)
    /\ UNCHANGED <<settings, tables, profiles, days, approvals, transactions, outstanding, dayCash>>

CheckInNew(a, p, type, limit, t, seat) ==
    /\ DayIsOpen
    /\ a.role \in Cashiers
    /\ profiles[p].type = "ABSENT"
    /\ type = "CREDIT" =>
          /\ "credit" \in settings.features
          /\ a.role \in Supervisors
          /\ limit > 0
    /\ profiles' = [profiles EXCEPT ![p] =
                      [type |-> type, creditLimit |-> IF type = "CREDIT" THEN limit ELSE 0,
                       banned |-> FALSE]]
    /\ StartVisit(p, t, seat)
    /\ UNCHANGED <<settings, tables, days, approvals, transactions, outstanding, dayCash>>

\* Mutant: pending requests do not hold a player at his table.
MovableUnchecked(v) == TRUE
Movable(v) == PendingFor(v) = {}

Move(a, v, t, seat) ==
    /\ DayIsOpen
    /\ a.role \in Cashiers
    /\ v \in ActiveVisits
    /\ Movable(v)
    /\ EnsureSeat(t, seat, v)
    /\ sessions' = [sessions EXCEPT ![v].tableId = t, ![v].seat = seat]
    /\ UNCHANGED <<settings, tables, profiles, days, approvals, transactions, outstanding, dayCash>>

\* No pending request of either player, and no third visit on either seat.
Swappable(v, w) ==
    /\ \A r \in PendingRequests :
          /\ approvals[r].playerId \notin {sessions[v].playerId, sessions[w].playerId}
          /\ approvals[r].sessionId \notin {v, w}
    /\ \A u \in ActiveVisits \ {v, w} :
          \A x \in {v, w} : sessions[u].tableId # sessions[x].tableId
                              \/ sessions[u].seat # sessions[x].seat

SwapSeats(a, v, w) ==
    /\ DayIsOpen
    /\ a.role \in Cashiers
    /\ v # w
    /\ {v, w} \subseteq ActiveVisits
    /\ sessions[v].playerId # sessions[w].playerId
    /\ sessions[v].tableId # sessions[w].tableId \/ sessions[v].seat # sessions[w].seat
    /\ \A x \in {v, w} :
          /\ sessions[x].dayId = Today
          /\ VisitsOf(sessions[x].playerId) \cap ActiveVisits = {x}
          /\ TableOpen(sessions[x].tableId)
    /\ Swappable(v, w)
    /\ sessions' = [sessions EXCEPT ![v].tableId = sessions[w].tableId, ![v].seat = sessions[w].seat,
                                    ![w].tableId = sessions[v].tableId, ![w].seat = sessions[v].seat]
    /\ UNCHANGED <<settings, tables, profiles, days, approvals, transactions, outstanding, dayCash>>

-----------------------------------------------------------------------------
(* Requests.                                                               *)

\* A request as it is made; it is validated against the records as they are.
NewRequest(a, type, amount, p, v, t, reverses) ==
    [dayId |-> Today, type |-> type, amount |-> amount, playerId |-> p, sessionId |-> v,
     tableId |-> t, reversesId |-> reverses, status |-> "PENDING",
     level |-> Policy(type, amount), requestedById |-> a.id, votes |-> <<>>]

Submit(q) ==
    /\ Len(approvals) < MaxRequests
    /\ ValidEntry(q, None)
    /\ approvals' = Append(approvals, q)
    /\ UNCHANGED <<settings, tables, profiles, days, sessions, transactions, outstanding, dayCash>>

\* Mutant: a new buy-in ignores the ones still pending.
CreditAvailableUnreserved(p, amount) ==
    IsCredit(p) => outstanding[p] + amount <= profiles[p].creditLimit
CreditAvailable(p, amount) ==
    IsCredit(p) => outstanding[p] + ReservedCredit(p) + amount <= profiles[p].creditLimit

\* A buy-in: the table's rules, credit, and no cash-out of the player under review.
MayBuyIn(v, amount) ==
    LET p == sessions[v].playerId
        t == sessions[v].tableId
    IN  /\ BuyInAllowed(EffectiveRules(settings.rules, tables[t].rules), amount)
        /\ IsCredit(p) => "credit" \in settings.features
        /\ ~profiles[p].banned
        /\ \A r \in PendingRequests : ~(approvals[r].playerId = p /\ approvals[r].type = "Cash-out")
        /\ CreditAvailable(p, amount)

\* Buy-in and Cash-out belong to the player's active visit and its table.
RequestForVisit(a, type, amount, v) ==
    /\ DayIsOpen
    /\ a.role \in Cashiers
    /\ amount > 0 \/ type = "Cash-out"
    /\ v \in ActiveVisits
    /\ TableOpen(sessions[v].tableId)
    /\ type = "Buy-in" => MayBuyIn(v, amount)
    /\ type = "Cash-out" => PendingFor(v) = {}
    /\ Submit(NewRequest(a, type, amount, sessions[v].playerId, v, sessions[v].tableId, None))

\* Every other entry names a player and a table, or neither.
RequestEntry(a, type, amount, p, t) ==
    /\ DayIsOpen
    /\ a.role \in (IF type \in DealerEntries THEN {"DEALER"} \cup Cashiers ELSE Cashiers)
    /\ amount > 0
    /\ RequiredFeatures(type) \subseteq settings.features
    /\ p # None => profiles[p].type # "ABSENT"
    /\ type = "Credit Repayment" => IsCredit(p)
    /\ t # None => TableOpen(t)
    /\ type \in DealerEntries => t # None
    /\ Submit(NewRequest(a, type, amount, p, None, t, None))

\* Nobody has reversed the entry or asked for it.
NotBeingReversed(t) ==
    /\ ReversalsOf(t) = {}
    /\ \A r \in PendingRequests : approvals[r].reversesId # t

\* CORRECT: request the reversal of an original entry of the open day.
Correct(a, t) ==
    /\ DayIsOpen
    /\ a.role \in Cashiers
    /\ transactions[t].dayId = Today
    /\ transactions[t].reversesId = None
    /\ NotBeingReversed(t)
    /\ Submit(NewRequest(a, "Reversal", transactions[t].amount, transactions[t].playerId,
                         transactions[t].sessionId, transactions[t].tableId, t))

-----------------------------------------------------------------------------
(* Decisions.                                                              *)

\* Mutants: a reviewer may vote twice; a decided request may be decided again.
MayReviewAgain(a, q) ==
    /\ a.role \in Supervisors
    /\ a.id # q.requestedById
    /\ q.status = "PENDING"
    /\ q.level = "ADMIN" => a.role = "ADMIN"

MayDecideAgain(a, q) ==
    /\ a.role \in Supervisors
    /\ a.id # q.requestedById
    /\ \A i \in DOMAIN q.votes : q.votes[i].staffId # a.id
    /\ q.level = "ADMIN" => a.role = "ADMIN"
CanApprove(a, q) ==
    /\ a.role \in Supervisors
    /\ a.id # q.requestedById
    /\ \A i \in DOMAIN q.votes : q.votes[i].staffId # a.id
    /\ q.status = "PENDING"
    /\ q.level = "ADMIN" => a.role = "ADMIN"

\* Mutant: a DUAL review needs one vote too many.
ReviewCompleteByThree(level, votes) ==
    level # "DUAL" \/ (Len(votes) >= 3 /\ \E i \in DOMAIN votes : votes[i].role = "ADMIN")
ReviewComplete(level, votes) ==
    level # "DUAL" \/ (Len(votes) >= 2 /\ \E i \in DOMAIN votes : votes[i].role = "ADMIN")

Reject(a, r) ==
    /\ DayIsOpen
    /\ approvals[r].dayId = Today
    /\ CanApprove(a, approvals[r])
    /\ approvals' = [approvals EXCEPT ![r].status = "REJECTED"]
    /\ UNCHANGED <<settings, tables, profiles, days, sessions, transactions, outstanding, dayCash>>

\* The vote is recorded; the one that completes the review posts the entry.
Approve(a, r) ==
    LET votes == Append(approvals[r].votes, [staffId |-> a.id, role |-> a.role])
    IN  /\ DayIsOpen
        /\ approvals[r].dayId = Today
        /\ CanApprove(a, approvals[r])
        /\ ValidEntry(approvals[r], r)
        /\ IF ReviewComplete(approvals[r].level, votes)
           THEN /\ Post(r)
                /\ approvals' = [approvals EXCEPT ![r].votes = votes, ![r].status = "APPROVED"]
           ELSE /\ approvals' = [approvals EXCEPT ![r].votes = votes]
                /\ UNCHANGED <<sessions, transactions, outstanding, dayCash>>
        /\ UNCHANGED <<settings, tables, profiles, days>>

-----------------------------------------------------------------------------
NoOverrides == [f \in {} |-> 0]

\* emptyStore() with the default settings nobody has saved yet.
Init ==
    /\ settings = [saved |-> FALSE, setupCompleted |-> FALSE,
                   features |-> Features, rules |-> DefaultRules]
    /\ tables = [t \in Tables |-> [status |-> "ABSENT", rules |-> NoOverrides]]
    /\ profiles = [p \in Players |-> [type |-> "ABSENT", creditLimit |-> 0, banned |-> FALSE]]
    /\ days = <<>>
    /\ sessions = <<>>
    /\ approvals = <<>>
    /\ transactions = <<>>
    /\ outstanding = [p \in Players |-> 0]
    /\ dayCash = <<>>

SetupStep(a) ==
    \/ \E features \in FeatureSets, rules \in VenueRules : UpdateSettings(a, features, rules)
    \/ CompleteSetup(a)
    \/ \E t \in Tables, status \in {"OPEN", "CLOSED"}, overrides \in TableOverrides :
         CreateTable(a, t, status, overrides) \/ UpdateTable(a, t, status, overrides)
    \/ \E p \in Players, limit \in CreditLimits, banned \in Bans :
         UpdateProfile(a, p, limit, banned)

DayStep(a) ==
    \/ \E cash \in OpeningCash : OpenDay(a, cash)
    \/ ReopenDay(a)
    \/ \E counted \in CountedCash : CloseDay(a, counted)

SeatingStep(a) ==
    \/ \E p \in Players, t \in Tables, seat \in Seats : CheckInKnown(a, p, t, seat)
    \/ \E p \in Players, t \in Tables, seat \in Seats,
          type \in AccountTypes, limit \in CreditLimits :
         CheckInNew(a, p, type, limit, t, seat)
    \/ \E v \in DOMAIN sessions, t \in Tables, seat \in Seats : Move(a, v, t, seat)
    \/ \E v, w \in DOMAIN sessions : SwapSeats(a, v, w)

EntryStep(a) ==
    \/ \E type \in Types \cap SessionEntries, amount \in Amounts, v \in DOMAIN sessions :
         RequestForVisit(a, type, amount, v)
    \/ \E type \in Types \ SessionEntries, amount \in Amounts,
          p \in Players \cup {None}, t \in Tables \cup {None} :
         RequestEntry(a, type, amount, p, t)
    \/ \E t \in DOMAIN transactions : Correct(a, t)
    \/ \E r \in DOMAIN approvals : Reject(a, r) \/ Approve(a, r)

Next == \E a \in Staff : SetupStep(a) \/ DayStep(a) \/ SeatingStep(a) \/ EntryStep(a)

Spec == Init /\ [][Next]_vars

=============================================================================
