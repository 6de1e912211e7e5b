----------------------------- MODULE VenueScope -----------------------------
(***************************************************************************)
(* The records a command is decided on.  loadCommandStore                  *)
(* (src/server/command-store.ts) reads a few rows for each command and     *)
(* takes balances, reserved credit and day totals from SQL                 *)
(* (aggregates.ts), so that a command costs the same in a venue with a     *)
(* long history.  What is not read here is absent from the records a       *)
(* command sees: the instance Scoped(c) is the venue as command c sees it. *)
(*                                                                         *)
(* Tables and the current day are always read.                             *)
(***************************************************************************)
EXTENDS VenueDependencies

-----------------------------------------------------------------------------
(* Which rows.                                                             *)

Known(id) == {id} \ {None}

\* addOriginal() and addTransaction's rows: the entry, what reverses it, and
\* what was posted for the request.
Originals(c) ==
    CASE c.kind = "CORRECT" -> {c.entry}
      [] c.kind = "DECIDE" -> Known(approvals[c.request].reversesId)
      [] OTHER -> {}

ScopedEntries(c) ==
    {t \in DOMAIN transactions :
        \/ t \in Originals(c) \/ transactions[t].reversesId \in Originals(c)
        \/ c.kind = "DECIDE" /\ transactions[t].approvalId = c.request}

NamedPlayers(c) ==
    CASE c.kind \in {"CHECK_IN", "UPDATE_PROFILE"} -> {c.player}
      [] c.kind \in {"MOVE", "REQUEST"} -> {sessions[c.visit].playerId}
      [] c.kind = "ENTRY" -> Known(c.player)
      [] c.kind = "SWAP_SEATS" -> {sessions[v].playerId : v \in {c.visit, c.other}}
      [] c.kind = "DECIDE" -> Known(approvals[c.request].playerId)
      [] OTHER -> {}

ScopedPlayers(c) ==
    NamedPlayers(c) \cup UNION {Known(transactions[t].playerId) : t \in ScopedEntries(c)}

NamedVisits(c) ==
    (CASE c.kind = "SWAP_SEATS" -> {c.visit, c.other}
       [] c.kind = "DECIDE" -> Known(approvals[c.request].sessionId)
       [] OTHER -> {})
    \cup UNION {Known(transactions[t].sessionId) : t \in ScopedEntries(c)}

NamedSeats(c) ==
    IF c.kind \in {"CHECK_IN", "MOVE"} THEN {SeatKey(c.table, c.seat)}
    ELSE {SeatOf(v) : v \in NamedVisits(c)}

\* Mutant: earlier and later visits that are over are not looked for.
NoOtherVisit(p, named) == {}

\* The player's latest visit by the wall clock, other than those that are named.
LatestOther(p, named) ==
    LET others == VisitsOf(p) \ named
    IN  {v \in others : \A w \in others \ {v} :
            \/ sessions[w].start < sessions[v].start
            \/ sessions[w].start = sessions[v].start /\ w < v}

ScopedVisits(c) ==
    LET oldest(S) == {v \in S : \A w \in S : v <= w}
    IN  CASE c.kind = "CLOSE_DAY" -> oldest(ActiveVisits)
          [] c.kind = "CLOSE_TABLE" -> oldest({v \in ActiveVisits : sessions[v].tableId = c.table})
          [] OTHER ->
                NamedVisits(c)
                \cup {v \in ActiveVisits : sessions[v].playerId \in ScopedPlayers(c)
                                            \/ SeatOf(v) \in NamedSeats(c)}
                \cup UNION {LatestOther(p, NamedVisits(c)) : p \in ScopedPlayers(c)}

\* blocker(): one pending request that stands in the way is enough.
Blockers(c) ==
    CASE c.kind = "CLOSE_DAY" -> PendingRequests
      [] c.kind = "CLOSE_TABLE" -> {r \in PendingRequests : approvals[r].tableId = c.table}
      [] c.kind = "MOVE" -> PendingFor(c.visit)
      [] c.kind = "SWAP_SEATS" ->
            {r \in PendingRequests : \/ approvals[r].playerId \in ScopedPlayers(c)
                                     \/ \E v \in ScopedVisits(c) :
                                           /\ approvals[r].sessionId = v
                                           /\ sessions[v].playerId \in ScopedPlayers(c)}
      [] c.kind = "REQUEST" /\ c.type = "Buy-in" ->
            {r \in PendingRequests : approvals[r].playerId \in ScopedPlayers(c)
                                       /\ approvals[r].type = "Cash-out"}
      [] c.kind = "REQUEST" /\ c.type = "Cash-out" -> PendingFor(c.visit)
      [] c.kind = "DECIDE" ->
            IF approvals[c.request].type = "Cash-out"
            THEN PendingFor(approvals[c.request].sessionId) \ {c.request} ELSE {}
      [] c.kind = "CORRECT" -> {r \in PendingRequests : approvals[r].reversesId = c.entry}
      [] OTHER -> {}

ScopedRequests(c) ==
    (IF c.kind = "DECIDE" THEN {c.request} ELSE {})
    \cup {r \in Blockers(c) : \A s \in Blockers(c) : s <= r}

-----------------------------------------------------------------------------
(* The venue as the command sees it.                                       *)

NoVisit == [playerId |-> None, dayId |-> 0, status |-> "OUT", tableId |-> None,
            seat |-> 0, start |-> 0]
NoRequest == [dayId |-> 0, type |-> "", amount |-> 0, playerId |-> None, sessionId |-> None,
              tableId |-> None, reversesId |-> None, status |-> "REJECTED", level |-> "",
              requestedById |-> None, votes |-> <<>>]
NoEntry == [dayId |-> 0, type |-> "", amount |-> 0, playerId |-> None, sessionId |-> None,
            tableId |-> None, cashReceived |-> 0, cashPayout |-> 0, creditDelta |-> 0,
            approvalId |-> 0, reversesId |-> None]
NoProfile == [type |-> "ABSENT", creditLimit |-> 0, banned |-> FALSE]

\* reservedCredit: of a pending buy-in that is not read, SQL adds up the amount.
\* A swap asks for no credit.
Summed(c, r) ==
    /\ c.kind # "SWAP_SEATS" /\ r \in PendingRequests
    /\ approvals[r].type = "Buy-in" /\ approvals[r].playerId \in ScopedPlayers(c)

RequestSeen(c, r) ==
    IF r \in ScopedRequests(c) THEN approvals[r]
    ELSE IF Summed(c, r)
         THEN [NoRequest EXCEPT !.status = "PENDING", !.type = "Buy-in",
                                !.playerId = approvals[r].playerId, !.amount = approvals[r].amount]
    ELSE NoRequest

SeenProfiles(c) == [p \in Players |-> IF p \in ScopedPlayers(c) THEN profiles[p] ELSE NoProfile]
SeenDebts(c) == [p \in Players |-> IF p \in ScopedPlayers(c) THEN outstanding[p] ELSE 0]
SeenVisits(c) ==
    [v \in DOMAIN sessions |-> IF v \in ScopedVisits(c) THEN sessions[v] ELSE NoVisit]
SeenRequests(c) == [r \in DOMAIN approvals |-> RequestSeen(c, r)]
SeenEntries(c) ==
    [t \in DOMAIN transactions |-> IF t \in ScopedEntries(c) THEN transactions[t] ELSE NoEntry]

Scoped(c) == INSTANCE VenueDependencies WITH
    profiles <- SeenProfiles(c), outstanding <- SeenDebts(c), sessions <- SeenVisits(c),
    approvals <- SeenRequests(c), transactions <- SeenEntries(c)

-----------------------------------------------------------------------------

\* The one check whose records are not read: applyCommand refuses to create a
\* table closed while a request without a table is pending, because neither has a
\* table id (operations.ts:269-276); requests are read only for a table that has one.
Unread(c) == c.kind = "CREATE_TABLE" /\ c.status = "CLOSED" /\ ~TableIdle(None)

\* Scopes: a command is accepted or refused, has its effect, and is taken to
\* depend on the same keys, on the few rows read for it as on the complete
\* records: none of its checks passes because a row was not read, but for Unread,
\* where the table is created if its rules fit
\* (command-store.ts, repository.ts:127-134).
ScopeDecides ==
    \A c \in Prepared \cup Reconfigurations :
        /\ Scoped(c)!Verdict(c) = IF Unread(c)
                                  THEN Accepted(TableRulesOK(settings.rules, c.rules), {})
                                  ELSE Verdict(c)
        /\ Scoped(c)!Dependencies(c) = Dependencies(c)
=============================================================================
