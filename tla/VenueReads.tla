----------------------------- MODULE VenueReads -----------------------------
(***************************************************************************)
(* What staff are shown.  A browser never gets a venue's complete records: *)
(* the server sends the open visits, the newest entries and requests, the  *)
(* rows of the page on the screen and what these refer to, with totals and *)
(* counts made in SQL (queries.ts, aggregates.ts, ledger-rollups.ts).  The *)
(* screens are computed from that by functions written for the complete    *)
(* records (selectors.ts, dashboard-summary.ts, reporting.ts).             *)
(*                                                                         *)
(* A store is the ids of the records it has; `server` tells whether it has *)
(* the server's totals.  Searching, sorting and formats are left out, and  *)
(* a page shows one row.                                                   *)
(***************************************************************************)
EXTENDS VenueIntegrity

CONSTANTS
    Recent,       \* 20 entries and 20 pending requests; of these 5 are shown
    RecentDays    \* 7

ASSUME ReadsAssumption == Recent \in Nat \ {0} /\ RecentDays \in Nat \ {0}

Given(id) == {id} \ {None}
Newest(S, n) == {i \in S : Cardinality({j \in S : j > i}) < n}

\* The complete records, and what a page asks for besides the usual ones.
Records == [profiles |-> {p \in Players : PlayerKnown(p)}, visits |-> DOMAIN sessions,
            days |-> DOMAIN days, requests |-> DOMAIN approvals,
            entries |-> DOMAIN transactions, server |-> FALSE]
NoExtra == [profiles |-> {}, visits |-> {}, days |-> {}, requests |-> {}, entries |-> {}]

-----------------------------------------------------------------------------
(* Totals kept with every posted entry (updateLedgerRollups).              *)

Column(type) ==
    CASE type = "Buy-in" -> "buyIn"
      [] type = "Cash-out" -> "cashOut"
      [] type = "Rake" -> "rake"
      [] type = "Tips" -> "tips"
      [] type \in {"Insurance Premium", "Insurance Payout"} -> "insurance"
      [] type \in {"Jackpot Contribution", "Jackpot Payout"} -> "jackpot"
      [] OTHER -> "none"

Scope(scope, entity, day) == [scope |-> scope, entity |-> entity, day |-> day]

Scopes(t) ==
    LET tx == transactions[t]
    IN  {Scope("DAY", None, tx.dayId)}
        \cup {Scope("PLAYER_DAY", p, tx.dayId) : p \in Given(tx.playerId)}
        \cup {Scope("TABLE_DAY", x, tx.dayId) : x \in Given(tx.tableId)}

Contribution(t, column) ==
    IF Column(EntryTypeOf(t)) # column THEN 0
    ELSE IF EntryTypeOf(t) \in {"Insurance Payout", "Jackpot Payout"}
         THEN -transactions[t].amount ELSE transactions[t].amount

Rollup(scope, column) ==
    MapThenSumSet(LAMBDA t : Contribution(t, column),
                  {t \in DOMAIN transactions : scope \in Scopes(t)})

-----------------------------------------------------------------------------
(* operationalSnapshot()                                                   *)

Refs(S, rows, field) == UNION {Given(rows[i][field]) : i \in S}

\* The requests of the page's and the newest entries, and the newest pending ones.
\* (Mutant of RequestsRead: an entry comes without the requests to reverse it.)
RequestsOfPage(extra, first) ==
    extra.requests \cup {transactions[t].approvalId : t \in first}
    \cup Newest(PendingRequests, Recent)

\* With these, what is pending to reverse those entries.
RequestsRead(extra, first) ==
    RequestsOfPage(extra, first) \cup {r \in PendingRequests : approvals[r].reversesId \in first}

EntriesRead(extra, first, requests) ==
    LET originals == Refs(requests, approvals, "reversesId")
    IN  first \cup Refs(first, transactions, "reversesId") \cup originals
        \cup {t \in DOMAIN transactions :
                \/ transactions[t].approvalId \in requests
                \/ transactions[t].reversesId \in first \cup originals}

Latest(S) == {v \in S : \A w \in S : w <= v}
VisitsOn(p, d) == {v \in VisitsOf(p) : sessions[v].dayId = d}

VisitsRead(named, players) ==
    named \cup ActiveVisits
    \cup UNION {Latest(VisitsOf(p)) \cup Latest(VisitsOn(p, Today)) : p \in players}

Snapshot(extra) ==
    LET first    == extra.entries \cup Newest(DOMAIN transactions, Recent)
        requests == RequestsRead(extra, first)
        entries  == EntriesRead(extra, first, requests)
        players  == extra.profiles \cup Refs(entries, transactions, "playerId")
                    \cup Refs(requests, approvals, "playerId")
        visits   == VisitsRead(extra.visits \cup Refs(entries, transactions, "sessionId")
                               \cup Refs(requests, approvals, "sessionId"), players)
    IN  [entries |-> entries, requests |-> requests, visits |-> visits, server |-> TRUE,
         profiles |-> players \cup Refs(visits, sessions, "playerId"),
         days |-> Newest(DOMAIN days, RecentDays) \cup ({Today} \ {0}) \cup extra.days
                  \cup Refs(visits, sessions, "dayId") \cup Refs(entries, transactions, "dayId")
                  \cup Refs(requests, approvals, "dayId")]

\* readPageWithin(): the rows of the page are named in what is read around it.
PlayerPage(p, d) ==
    [NoExtra EXCEPT !.profiles = {p}, !.days = {d}, !.visits = Latest(VisitsOn(p, d))]
RequestPage(r) == [NoExtra EXCEPT !.requests = {r}]
EntryPage(t) == [NoExtra EXCEPT !.entries = {t}]
VisitPage(v) == [NoExtra EXCEPT !.profiles = {sessions[v].playerId}, !.visits = {v}]

Pages ==
    {NoExtra} \cup {PlayerPage(p, d) : p \in Records.profiles, d \in DOMAIN days}
    \cup {RequestPage(r) : r \in DOMAIN approvals} \cup {EntryPage(t) : t \in DOMAIN transactions}
    \cup {VisitPage(v) : v \in DOMAIN sessions}

-----------------------------------------------------------------------------
(* selectors.ts: from the server's totals, or from every entry.            *)

EntriesOn(s, d) == {t \in s.entries : transactions[t].dayId = d}
Sum(S, field) == MapThenSumSet(LAMBDA t : transactions[t][field], S)
SumOf(S, types) == Sum({t \in S : EntryTypeOf(t) \in types}, "amount")

Debt(s, p) ==
    IF s.server THEN outstanding[p]
    ELSE Sum({t \in s.entries : transactions[t].playerId = p}, "creditDelta")

Pending(s) == s.requests \cap PendingRequests

\* playersForDay(), with the requests and the credit that count against a player.
PlayerOn(s, p, d) ==
    LET latest == Latest(VisitsOn(p, d) \cap s.visits)
        scope  == Scope("PLAYER_DAY", p, d)
        mine   == {t \in EntriesOn(s, d) : transactions[t].playerId = p}
        saved(column) == IF d \in s.days THEN Rollup(scope, column) ELSE 0
    IN  [creditUsed |-> Debt(s, p),
         status |-> IF \E v \in latest : v \in ActiveVisits THEN "ACTIVE" ELSE "OUT",
         sessionId |-> latest,
         seat |-> {<<sessions[v].tableId, sessions[v].seat>> : v \in latest \cap ActiveVisits},
         buyIn |-> IF s.server THEN saved("buyIn") ELSE SumOf(mine, {"Buy-in"}),
         cashOut |-> IF s.server THEN saved("cashOut") ELSE SumOf(mine, {"Cash-out"})]

NetCash(s, d) ==
    IF s.server THEN dayCash[d]
    ELSE Sum(EntriesOn(s, d), "cashReceived") - Sum(EntriesOn(s, d), "cashPayout")

ExpectedOf(s, d) == days[d].openingCash + NetCash(s, d)
LastCount(d) == days[d].closes[Len(days[d].closes)].countedCash

\* totalsForDay() and dayTotals().
Totals(s, d) ==
    LET on == EntriesOn(s, d)
        total(column, plus, minus) ==
            IF s.server THEN Rollup(Scope("DAY", None, d), column)
            ELSE SumOf(on, plus) - SumOf(on, minus)
    IN  [buyInTotal |-> total("buyIn", {"Buy-in"}, {}),
         cashOutTotal |-> total("cashOut", {"Cash-out"}, {}),
         rake |-> total("rake", {"Rake"}, {}), tips |-> total("tips", {"Tips"}, {}),
         insurance |-> total("insurance", {"Insurance Premium"}, {"Insurance Payout"}),
         jackpot |-> total("jackpot", {"Jackpot Contribution"}, {"Jackpot Payout"}),
         expectedCash |-> ExpectedOf(s, d),
         variance |-> IF days[d].status = "CLOSED" THEN {LastCount(d) - ExpectedOf(s, d)} ELSE {}]

\* tablesForDay(), for the current day.
TableOn(s, x) ==
    LET on == {t \in EntriesOn(s, Today) : transactions[t].tableId = x}
        total(column, plus, minus) ==
            IF s.server THEN Rollup(Scope("TABLE_DAY", x, Today), column)
            ELSE SumOf(on, plus) - SumOf(on, minus)
    IN  [rake |-> total("rake", {"Rake"}, {}),
         insurance |-> total("insurance", {"Insurance Premium"}, {"Insurance Payout"}),
         jackpot |-> total("jackpot", {"Jackpot Contribution"}, {"Jackpot Payout"})]

-----------------------------------------------------------------------------
(* Screens.                                                                *)

\* Counts come from SQL where the server has made them.
Counted(s, Test(_)) ==
    Cardinality({r \in (IF s.server THEN PendingRequests ELSE Pending(s)) : Test(r)})

Dashboard(s) ==
    LET here == {v \in s.visits \cap ActiveVisits : sessions[v].dayId = Today}
        OfToday(r) == approvals[r].dayId = Today
        Admin(r) == OfToday(r) /\ approvals[r].level # "MANAGER"
    IN  [activePlayers |-> Cardinality(here),
         occupancy |-> [x \in {y \in Tables : TableOpen(y)} |->
                           Cardinality({v \in here : sessions[v].tableId = x})],
         pending |-> Counted(s, OfToday), adminReview |-> Counted(s, Admin),
         trend |-> {<<d, days[d].status, NetCash(s, d)>> : d \in Newest(s.days, RecentDays)}]

\* approvalReviewStatus()
ReviewStatus(r, a) ==
    LET q == approvals[r]
    IN  IF q.requestedById = a.id THEN "Your request"
        ELSE IF \E i \in DOMAIN q.votes : q.votes[i].staffId = a.id THEN "Already reviewed"
        ELSE IF q.dayId # Today THEN "Different business day"
        ELSE IF ~DayIsOpen THEN "Day closed"
        ELSE IF q.level = "ADMIN" /\ a.role # "ADMIN" THEN "Admin review required"
        ELSE IF CanApprove(a, q) THEN "Ready for your review"
        ELSE "Awaiting authorized reviewer"

\* reviewableRequestFilters(), and the count in populateReadModel: the policy in SQL.
ReviewableRow(r, a) ==
    LET q == approvals[r]
    IN  /\ a.role \in {"ADMIN", "MANAGER"}
        /\ q.status = "PENDING" /\ q.dayId = Today
        /\ q.requestedById # a.id
        /\ q.level # "ADMIN" \/ a.role = "ADMIN"
        /\ a.id \notin {q.votes[i].staffId : i \in DOMAIN q.votes}
        /\ DayIsOpen

\* approvalNotifications()
Notifications(s, a) ==
    LET Any(r) == TRUE
        Ready(r) == IF s.server THEN ReviewableRow(r, a)
                    ELSE ReviewStatus(r, a) = "Ready for your review"
    IN  [total |-> Counted(s, Any), reviewable |-> Counted(s, Ready),
         entries |-> {<<r, ReviewStatus(r, a)>> : r \in Newest(Pending(s), Recent)}]

\* reversalRequestState(): whether an entry can still be, or is being, reversed.
ReversalState(s, t) ==
    [posted |-> ReversalsOf(t) \cap s.entries,
     pending |-> {r \in Pending(s) : approvals[r].reversesId = t}]

\* The type of an entry, and what approving a request would post, need the entry undone.
EntryKnown(s, reverses) == Given(reverses) \subseteq s.entries
Explained(s) ==
    /\ \A t \in s.entries : EntryKnown(s, transactions[t].reversesId)
    /\ \A r \in Pending(s) : /\ EntryKnown(s, approvals[r].reversesId)
                             /\ Given(approvals[r].playerId) \subseteq s.profiles

\* rangeReport(): one period, of the days the records have.  One metric stands for all nine.
RangeReport(s, period) ==
    LET D == s.days \cap period
        closed == {d \in D : days[d].status = "CLOSED"}
        OfPeriod(r) == approvals[r].dayId \in D
    IN  [days |-> D, openDays |-> Cardinality(D \ closed),
         netCash |-> MapThenSumSet(LAMBDA d : NetCash(s, d), D),
         variance |-> MapThenSumSet(LAMBDA d : LastCount(d) - ExpectedOf(s, d), closed),
         pendingRequests |-> Counted(s, OfPeriod)]

\* What a period report is made of: its days and those of the period before, nothing else.
RangeStore(period) ==
    [Records EXCEPT !.profiles = {}, !.visits = {}, !.requests = {}, !.entries = {},
                    !.days = @ \cap period, !.server = TRUE]

-----------------------------------------------------------------------------

Saved == [Records EXCEPT !.server = TRUE]

\* Whatever page staff have open, the few records they were sent show them what the complete
\* records would: who is seated and owes what, the day's and the period's totals, how many
\* requests wait and for whom, and whether an entry on the page is reversed or about to be; and
\* nothing they were sent refers to an entry they were not (queries.ts:120-264, 695-1068).
ScreensTrue ==
    LET sent          == [extra \in Pages |-> Snapshot(extra)]
        dashboard     == Dashboard(Records)
        notifications == [a \in Staff |-> Notifications(Records, a)]
        player        == [p \in Records.profiles |-> [d \in DOMAIN days |-> PlayerOn(Records, p, d)]]
    IN  /\ \A s \in {sent[extra] : extra \in Pages} :
              /\ Dashboard(s) = dashboard
              /\ \A a \in Staff : Notifications(s, a) = notifications[a]
              /\ \A p \in s.profiles : PlayerOn(s, p, Today) = player[p][Today]
              /\ Explained(s)
        /\ \A extra \in Pages :
              /\ \A p \in extra.profiles, d \in extra.days :
                    PlayerOn(sent[extra], p, d) = player[p][d]
              /\ \A t \in extra.entries :
                    ReversalState(sent[extra], t) = ReversalState(Records, t)
        /\ \A d \in DOMAIN days : Totals(Saved, d) = Totals(Records, d)
        /\ \A x \in Tables : TableOn(Saved, x) = TableOn(Records, x)
        /\ \A r \in DOMAIN approvals, a \in Staff :
              ReviewableRow(r, a)
              <=> approvals[r].dayId = Today /\ DayIsOpen /\ CanApprove(a, approvals[r])
        /\ \A first, last \in DOMAIN days :
              first <= last => RangeReport(RangeStore(first .. last), first .. last)
                                 = RangeReport(Records, first .. last)
=============================================================================
