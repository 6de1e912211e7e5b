----------------------------- MODULE VenueLedger -----------------------------
(***************************************************************************)
(* The saved summaries of a venue against sums over its whole ledger.      *)
(***************************************************************************)
EXTENDS VenueProperties, FiniteSetsExt

LedgerOf(p) == {t \in DOMAIN transactions : transactions[t].playerId = p}
LedgerOn(d) == {t \in DOMAIN transactions : transactions[t].dayId = d}
CashOn(d) == MapThenSumSet(LAMBDA t : transactions[t].cashReceived - transactions[t].cashPayout,
                           LedgerOn(d))

\* Summaries: the rollups the commands read and update one entry at a time equal
\* the sums over the complete ledger (ledger-rollups.ts against selectors.ts).
RollupsMatchLedger ==
    /\ \A p \in Players :
          outstanding[p] = MapThenSumSet(LAMBDA t : transactions[t].creditDelta, LedgerOf(p))
    /\ \A d \in DOMAIN days : dayCash[d] = CashOn(d)

\* The entry's type, or the type of the entry it reverses.
EntryTypeOf(t) ==
    IF transactions[t].reversesId = None THEN transactions[t].type
    ELSE transactions[transactions[t].reversesId].type

\* What an entry means at the cage: chips or services sold count positive, chips
\* and prizes bought back negative; a repayment only turns debt into cash.
CageValue(t) ==
    IF EntryTypeOf(t) \in Payouts THEN -transactions[t].amount
    ELSE IF EntryTypeOf(t) = "Credit Repayment" THEN 0
    ELSE transactions[t].amount

\* Conservation: the cash all days took in, plus the debt all players owe, is the
\* value of what was sold less what was bought back - whatever was settled
\* against credit, paid in cash, or reversed.
MoneyConserved ==
    MapThenSumSet(LAMBDA d : dayCash[d], DOMAIN dayCash)
      + MapThenSumSet(LAMBDA p : outstanding[p], Players)
        = MapThenSumSet(CageValue, DOMAIN transactions)
=============================================================================
