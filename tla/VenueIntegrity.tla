--------------------------- MODULE VenueIntegrity ---------------------------
(***************************************************************************)
(* assertFinancialIntegrity (src/domain/store-integrity.ts) and            *)
(* validateStore (src/server/backup.ts): the checks a backup must pass     *)
(* before it is restored.  They are an account of what the records mean    *)
(* that is independent of the commands: the ledger is replayed from its    *)
(* first entry and nothing is read from a rollup.                          *)
(*                                                                         *)
(* Names, times, reasons and the limits of safe integers are left out.     *)
(***************************************************************************)
EXTENDS VenueLedger

-----------------------------------------------------------------------------
(* The records one by one.                                                 *)

ProfilesSound ==
    \A p \in Players : profiles[p].type = "CASH" => profiles[p].creditLimit = 0

DaysSound ==
    \A d \in DOMAIN days :
        /\ days[d].status = "OPEN" => d = Today
        /\ days[d].status = "CLOSED" => days[d].closes # <<>>

TablesSound ==
    \A t \in Tables : tables[t].status # "ABSENT" => TableRulesOK(settings.rules, tables[t].rules)

PlayerKnown(p) == profiles[p].type # "ABSENT"
TableKnown(t) == tables[t].status # "ABSENT"

VisitsSound ==
    /\ \A v \in DOMAIN sessions :
          PlayerKnown(sessions[v].playerId) /\ sessions[v].dayId \in DOMAIN days
            /\ TableKnown(sessions[v].tableId)
    /\ \A v \in ActiveVisits :
          /\ DayIsOpen /\ sessions[v].dayId = Today /\ TableOpen(sessions[v].tableId)
          /\ \A w \in ActiveVisits \ {v} :
                /\ sessions[w].playerId # sessions[v].playerId
                /\ <<sessions[w].tableId, sessions[w].seat>> # <<sessions[v].tableId, sessions[v].seat>>

\* links(): what a request or an entry refers to.
LinksSound(e) ==
    /\ e.dayId \in DOMAIN days
    /\ e.playerId # None => PlayerKnown(e.playerId)
    /\ e.tableId # None => TableKnown(e.tableId)
    /\ e.sessionId # None =>
          /\ e.sessionId \in DOMAIN sessions
          /\ sessions[e.sessionId].playerId = e.playerId
          /\ sessions[e.sessionId].dayId = e.dayId
    /\ e.type \in SessionEntries => None \notin {e.sessionId, e.playerId, e.tableId}
    /\ e.type = "Credit Repayment" => IsCredit(e.playerId) /\ e.sessionId = None
    /\ e.type \in DealerEntries => e.tableId # None
    /\ e.type = "Reversal" <=> e.reversesId # None

-----------------------------------------------------------------------------
(* Requests and the entries posted for them.                               *)

EntriesSound ==
    \A t \in DOMAIN transactions :
        LET tx == transactions[t]
            q  == approvals[tx.approvalId]
        IN  /\ LinksSound(tx)
            /\ \A u \in DOMAIN transactions \ {t} :
                  /\ transactions[u].approvalId # tx.approvalId
                  /\ tx.reversesId # None => transactions[u].reversesId # tx.reversesId
            /\ tx.approvalId \in DOMAIN approvals /\ q.status = "APPROVED"
            /\ \A f \in {"type", "dayId", "playerId", "sessionId", "tableId", "reversesId"} :
                  tx[f] = q[f]

\* The votes up to the i-th complete the review.
CompleteAt(q, i) == i > 0 /\ ReviewComplete(q.level, SubSeq(q.votes, 1, i))

VotesSound(q) ==
    \A i \in DOMAIN q.votes :
        /\ ~CompleteAt(q, i - 1)
        /\ q.votes[i].staffId # q.requestedById
        /\ \A j \in 1 .. (i - 1) : q.votes[j].staffId # q.votes[i].staffId
        /\ q.votes[i].role \in (IF q.level = "ADMIN" THEN {"ADMIN"} ELSE Supervisors)

PendingSound(r) ==
    LET q == approvals[r]
        buyIn == q.reversesId # None /\ transactions[q.reversesId].type = "Buy-in"
    IN  /\ DayIsOpen /\ q.dayId = Today
        /\ q.type \in SessionEntries \/ buyIn => q.sessionId \in ActiveVisits
        /\ q.type \in SessionEntries => sessions[q.sessionId].tableId = q.tableId
        /\ q.reversesId # None =>
              /\ ReversalsOf(q.reversesId) = {}
              /\ \A s \in PendingRequests \ {r} : approvals[s].reversesId # q.reversesId

\* A reversal repeats the entry it undoes, which is an original one.
ReversalSound(q) ==
    LET tx == transactions[q.reversesId] IN
    /\ q.reversesId \in DOMAIN transactions /\ tx.reversesId = None
    /\ \A f \in {"dayId", "playerId", "sessionId", "tableId", "amount"} : q[f] = tx[f]

RequestsSound ==
    \A r \in DOMAIN approvals :
        LET q == approvals[r] IN
        /\ LinksSound(q) /\ VotesSound(q)
        /\ q.amount > 0 \/ q.type \in {"Cash-out", "Reversal"}
        /\ q.status = "APPROVED" <=> CompleteAt(q, Len(q.votes))
        /\ q.status = "APPROVED" <=> \E t \in DOMAIN transactions : transactions[t].approvalId = r
        /\ q.status = "PENDING" => PendingSound(r)
        /\ q.reversesId # None => ReversalSound(q)

-----------------------------------------------------------------------------
(* The replay of the ledger, in posting order.                             *)

Before(t) == 1 .. (t - 1)

\* The player's debt before the entry, from the entries alone.
BalanceBefore(p, t) ==
    MapThenSumSet(LAMBDA u : transactions[u].creditDelta, LedgerOf(p) \cap Before(t))

\* The cash-outs of the visit that stand just before the entry.
SettledBefore(v, t) ==
    {u \in Before(t) :
        /\ transactions[u].type = "Cash-out" /\ transactions[u].sessionId = v
        /\ ReversalsOf(u) \cap Before(t) = {}}

ReplaySound ==
    \A t \in DOMAIN transactions :
        LET tx == transactions[t]
            q  == approvals[tx.approvalId]
            undone == IF tx.reversesId = None THEN "" ELSE transactions[tx.reversesId].type
            debt == IF tx.playerId = None THEN 0 ELSE BalanceBefore(tx.playerId, t)
            impact == IF tx.reversesId # None THEN ReversalImpact(transactions[tx.reversesId])
                      ELSE EntryImpact(q.type, q.amount, IsCredit(tx.playerId), debt)
        IN  /\ tx.reversesId # None => tx.reversesId \in Before(t) /\ undone # "Reversal"
            /\ (tx.type \in SessionEntries \/ undone = "Buy-in") /\ tx.sessionId # None
                  => SettledBefore(tx.sessionId, t) = {}
            /\ undone = "Cash-out" => SettledBefore(tx.sessionId, t) = {tx.reversesId}
            /\ \A f \in {"amount", "cashReceived", "cashPayout", "creditDelta"} : tx[f] = impact[f]
            /\ tx.playerId # None => debt + tx.creditDelta >= 0

Last == Len(transactions) + 1

\* What the replay leaves: credit, settled visits and closing totals.
BalancesSound ==
    /\ \A p \in Players :
          BalanceBefore(p, Last) + (IF IsCredit(p) THEN ReservedCredit(p) ELSE 0)
            <= profiles[p].creditLimit
    /\ \A v \in DOMAIN sessions :
          Cardinality(SettledBefore(v, Last)) = IF sessions[v].status = "OUT" THEN 1 ELSE 0
    /\ \A d \in DOMAIN days : days[d].status = "CLOSED" =>
          days[d].closes[Len(days[d].closes)].expectedCash = days[d].openingCash + CashOn(d)

-----------------------------------------------------------------------------

\* Backups: whatever the staff did, the records it leaves pass every check a
\* backup of them must pass before it is restored; no sequence of legal commands
\* makes a backup that is refused when it is needed
\* (backup.ts:244-301, store-integrity.ts:95-593).
BackupAccepted ==
    /\ ProfilesSound /\ DaysSound /\ TablesSound /\ VisitsSound
    /\ EntriesSound /\ RequestsSound
    /\ ReplaySound /\ BalancesSound
=============================================================================
