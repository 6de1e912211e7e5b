--------------------------- MODULE VenueProperties ---------------------------
(***************************************************************************)
(* What the records of a venue must satisfy after any sequence of          *)
(* commands.  Most of these are the conditions assertFinancialIntegrity    *)
(* (src/domain/store-integrity.ts) checks before a backup is accepted,     *)
(* stated here as invariants of the commands themselves.                   *)
(***************************************************************************)
EXTENDS Venue

-----------------------------------------------------------------------------
(* Types.                                                                  *)

SettingsType == [saved : BOOLEAN, setupCompleted : BOOLEAN,
                 features : SUBSET Features, rules : [RuleFields -> Nat]]
TableType == [status : {"ABSENT", "OPEN", "CLOSED"}, rules : TableOverrides \cup {NoOverrides}]
ProfileType == [type : {"ABSENT", "CASH", "CREDIT"}, creditLimit : Nat, banned : BOOLEAN]
CloseType == [countedCash : Nat, expectedCash : Int]
DayType == [status : {"OPEN", "CLOSED"}, openingCash : Nat, closes : Seq(CloseType)]
VisitType == [playerId : Players, dayId : Nat, status : {"ACTIVE", "OUT"},
              tableId : Tables, seat : Seats, start : Nat]
StaffIds == {a.id : a \in Staff}
VoteType == [staffId : StaffIds, role : Roles]
RequestType == [dayId : Nat, type : TxTypes, amount : Nat, playerId : Players \cup {None},
                sessionId : Nat \cup {None}, tableId : Tables \cup {None},
                reversesId : Nat \cup {None}, status : {"PENDING", "APPROVED", "REJECTED"},
                level : ApprovalLevels, requestedById : StaffIds, votes : Seq(VoteType)]
TxType == [dayId : Nat, type : TxTypes, amount : Int, playerId : Players \cup {None},
           sessionId : Nat \cup {None}, tableId : Tables \cup {None},
           cashReceived : Int, cashPayout : Int, creditDelta : Int,
           approvalId : Nat, reversesId : Nat \cup {None}]

\* Every record has the shape of its type in src/domain/model.ts.
TypeOK ==
    /\ settings \in SettingsType
    /\ tables \in [Tables -> TableType]
    /\ profiles \in [Players -> ProfileType]
    /\ days \in Seq(DayType)
    /\ sessions \in Seq(VisitType)
    /\ approvals \in Seq(RequestType)
    /\ transactions \in Seq(TxType)
    /\ outstanding \in [Players -> Int]
    /\ dayCash \in Seq(Int)

-----------------------------------------------------------------------------
(* Safety.                                                                 *)

\* Credit: nobody owes less than nothing, and debt together with everything
\* pending buy-ins reserve stays within the limit, however buy-ins, repayments,
\* cash-outs, reversals and limit changes interleave.  A CASH player's limit is
\* zero, so he never owes anything (store-integrity.ts, CREDIT_RESERVATION).
CreditSafe ==
    \A p \in Players :
        /\ outstanding[p] >= 0
        /\ outstanding[p] + (IF IsCredit(p) THEN ReservedCredit(p) ELSE 0)
             <= profiles[p].creditLimit

\* Seating: a player has one active visit and a seat one occupant, and a visit
\* is only active on the open day at an open table - also after moves, swaps,
\* reopened visits, closed tables and closed days (SESSION_LIFECYCLE).
SeatingExclusive ==
    /\ \A v, w \in ActiveVisits : v # w =>
          /\ sessions[v].playerId # sessions[w].playerId
          /\ sessions[v].tableId # sessions[w].tableId \/ sessions[v].seat # sessions[w].seat
    /\ \A v \in ActiveVisits :
          /\ DayIsOpen
          /\ sessions[v].dayId = Today
          /\ tables[sessions[v].tableId].status = "OPEN"

\* Posting: a request is approved exactly when one ledger entry was posted for
\* it, and no request is posted twice (APPROVAL_POSTING).
PostedOnce ==
    /\ \A r \in DOMAIN approvals :
          approvals[r].status = "APPROVED"
            <=> \E t \in DOMAIN transactions : transactions[t].approvalId = r
    /\ \A t, u \in DOMAIN transactions :
          transactions[t].approvalId = transactions[u].approvalId => t = u

\* Review: nobody reviews his own request or votes twice on one, whatever role
\* changes happen between the votes; an ADMIN request has ADMIN votes only, and
\* an approved DUAL request has two different reviewers, one of them an
\* administrator (README, operating rules; APPROVAL_REVIEW).
ReviewedIndependently(q) ==
    /\ \A i \in DOMAIN q.votes :
          /\ q.votes[i].staffId # q.requestedById
          /\ q.votes[i].role \in (IF q.level = "ADMIN" THEN {"ADMIN"} ELSE Supervisors)
    /\ \A i, j \in DOMAIN q.votes : q.votes[i].staffId = q.votes[j].staffId => i = j
    /\ q.status = "APPROVED" =>
          /\ q.votes # <<>>
          /\ q.level = "DUAL" =>
                /\ Len(q.votes) > 1
                /\ \E i \in DOMAIN q.votes : q.votes[i].role = "ADMIN"
IndependentReview == \A r \in DOMAIN approvals : ReviewedIndependently(approvals[r])

\* Cash leaves the drawer, and entries are undone, only with an administrator's vote.
PayoutsByAdmin ==
    \A t \in DOMAIN transactions :
        transactions[t].type \in Payouts \cup {"Reversal"} =>
            LET q == approvals[transactions[t].approvalId]
            IN  \E i \in DOMAIN q.votes : q.votes[i].role = "ADMIN"

\* Pending work: a pending request belongs to the open day; a buy-in or cash-out
\* still meets its visit, active at the table it was requested for; the reversal
\* of a buy-in meets an active visit; and the table of any new entry is open.
PendingCurrent ==
    \A r \in PendingRequests :
        LET q == approvals[r] IN
        /\ DayIsOpen
        /\ q.dayId = Today
        /\ q.type \in SessionEntries =>
              /\ q.sessionId \in ActiveVisits
              /\ sessions[q.sessionId].tableId = q.tableId
              /\ sessions[q.sessionId].playerId = q.playerId
        /\ q.type = "Reversal" /\ transactions[q.reversesId].type = "Buy-in"
              => q.sessionId \in ActiveVisits
        /\ q.type # "Reversal" /\ q.tableId # None => tables[q.tableId].status = "OPEN"

\* Rules: however venue settings and table overrides are changed, every table
\* keeps rules under which some positive buy-in is possible.
BuyInPossible ==
    \A t \in Tables : tables[t].status # "ABSENT" =>
        LET rules == EffectiveRules(settings.rules, tables[t].rules)
        IN  /\ rules["smallBlind"] <= rules["bigBlind"]
            /\ \E amount \in 1 .. rules["maxBuyIn"] : BuyInAllowed(rules, amount)

\* Who may review a request of this author, whatever its level and votes.
Reviewers(q) == {a \in Staff : a.role \in Supervisors /\ a.id # q.requestedById}

\* The reviewers a level asks for.  Of two for a DUAL request, one is an
\* administrator for good: demoted, he could vote second and leave no administrator.
StaffedFor(q) ==
    CASE q.level = "MANAGER" -> Reviewers(q) # {}
      [] q.level = "ADMIN" -> \E a \in Reviewers(q) : a.role = "ADMIN"
      [] q.level = "DUAL" ->
            \E x, y \in Reviewers(q) :
                x.id # y.id /\ \A a \in Staff : a.id = x.id => a.role = "ADMIN"

Decidable(q) == \E a \in Staff : CanApprove(a, q)

\* Review never runs dry: whoever has voted so far, a pending request whose author
\* has the reviewers its level asks for has one left who may decide it, so its day
\* can be brought to a close (canApprove, DECIDE).
ReviewerRemains ==
    \A r \in PendingRequests : StaffedFor(approvals[r]) => Decidable(approvals[r])

\* The staff that setup asks for suffice: a request whose author has an independent
\* reviewer can be decided (COMPLETE_SETUP, repository.ts:155-178; README.md:79).
SetupStaffSuffices ==
    \A r \in PendingRequests : Reviewers(approvals[r]) # {} => Decidable(approvals[r])

-----------------------------------------------------------------------------
(* Steps.                                                                  *)

IsPrefixOf(s, t) == Len(s) <= Len(t) /\ \A i \in DOMAIN s : t[i] = s[i]

\* History: the ledger is only extended, and only by an entry of the day that is
\* open; a decided request and an earlier day never change; closing counts are
\* kept when a day is reopened and closed again.
HistoryStep ==
    /\ IsPrefixOf(transactions, transactions')
    /\ \A t \in DOMAIN transactions' \ DOMAIN transactions :
          DayIsOpen /\ transactions'[t].dayId = Today
    /\ \A r \in DOMAIN approvals : approvals[r].status # "PENDING" => approvals'[r] = approvals[r]
    /\ \A d \in DOMAIN days :
          /\ IsPrefixOf(days[d].closes, days'[d].closes)
          /\ d < Today => days'[d] = days[d]
HistoryKept == [][HistoryStep]_vars

\* Visits: an approved cash-out reversal reopens the player's latest visit; a
\* visit checked in before another visit of the player that has been settled
\* stays closed (README, operating rules: "no later visit").
ReopenStep ==
    \A v \in DOMAIN sessions :
        sessions[v].status = "OUT" /\ sessions'[v].status = "ACTIVE" =>
            \A w \in VisitsOf(sessions[v].playerId) : w > v => sessions[w].status # "OUT"
NoLaterVisitReopened == [][ReopenStep]_vars
=============================================================================
