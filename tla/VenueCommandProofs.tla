-------------------------- MODULE VenueCommandProofs --------------------------
(***************************************************************************)
(* Proofs about how a command is decided.                                  *)
(*                                                                         *)
(* That the keys of command-concurrency.ts name enough: a command whose    *)
(* keys nobody has changed is decided as when its author looked.  First    *)
(* what any step leaves alone and what links requests and entries to       *)
(* visits; then what each kind of key vouches for; then, command by        *)
(* command, that its keys vouch for everything its verdict reads.          *)
(*                                                                         *)
(* And that the rows loadCommandStore (command-store.ts) reads suffice: a  *)
(* command is decided on them as on the complete records.                  *)
(***************************************************************************)
EXTENDS VenueScope, VenueReviewProofs, WellFoundedInduction

-----------------------------------------------------------------------------
(* What any step leaves of the records there are.                          *)

\* Visits keep their player, day and start, requests all but status and votes,
\* entries everything; a balance or the day's cash moves only with an entry.
Grows ==
    /\ \A v \in DOMAIN sessions :
          /\ v \in DOMAIN sessions'
          /\ sessions'[v].playerId = sessions[v].playerId
          /\ sessions'[v].dayId = sessions[v].dayId
          /\ sessions'[v].start = sessions[v].start
    /\ \A r \in DOMAIN approvals : r \in DOMAIN approvals' /\ SameBut(approvals[r], approvals'[r])
    /\ \A t \in DOMAIN transactions : t \in DOMAIN transactions' /\ transactions'[t] = transactions[t]
    /\ \A p \in Players : outstanding'[p] = outstanding[p]
                            \/ \E t \in NewEntries : transactions'[t].playerId = p
    /\ dayCash' = dayCash \/ NewEntries # {} \/ days' # days

LEMMA SameAsItself == ASSUME NEW q \in RequestType PROVE SameBut(q, q)
BY DEF SameBut

LEMMA QuietGrows ==
    ASSUME TypeInv, UNCHANGED <<approvals, transactions, outstanding>>,
           dayCash' = dayCash \/ days' # days,
           \A v \in DOMAIN sessions :
              /\ v \in DOMAIN sessions'
              /\ sessions'[v].playerId = sessions[v].playerId
              /\ sessions'[v].dayId = sessions[v].dayId
              /\ sessions'[v].start = sessions[v].start
    PROVE  Grows
<1>1. \A r \in DOMAIN approvals : approvals[r] \in RequestType
  BY ElementOfSeq, LenProperties, RecordsTyped DEF TypesNow
<1> QED
  BY <1>1, SameAsItself DEF Grows

\* Seating changes nothing but seats, and those of active visits only.
LEMMA SeatingMoves ==
    ASSUME TypeInv, NEW a \in Staff, SeatingStep(a)
    PROVE  /\ UNCHANGED <<settings, tables, days, approvals, transactions, outstanding, dayCash>>
           /\ \A v \in DOMAIN sessions :
                 /\ v \in DOMAIN sessions'
                 /\ sessions'[v].playerId = sessions[v].playerId
                 /\ sessions'[v].dayId = sessions[v].dayId
                 /\ sessions'[v].start = sessions[v].start
                 /\ sessions'[v].status = sessions[v].status
                 /\ v \notin ActiveVisits => sessions'[v] = sessions[v]
<1>1. UNCHANGED <<settings, tables, days, approvals, transactions, outstanding, dayCash>>
  BY DEF SeatingStep, CheckInKnown, CheckInNew, Move, SwapSeats
<1>2. ASSUME NEW p \in Players, NEW t \in Tables, NEW seat \in Seats, StartVisit(p, t, seat)
      PROVE  \A v \in DOMAIN sessions : v \in DOMAIN sessions' /\ sessions'[v] = sessions[v]
  BY <1>2, CheckInAdds
<1>3. ASSUME NEW v \in DOMAIN sessions, NEW w \in DOMAIN sessions, NEW t \in Tables,
             NEW seat \in Seats, v \in ActiveVisits, w \in ActiveVisits,
             \/ w = v /\ Move(a, v, t, seat)
             \/ SwapSeats(a, v, w) /\ t = sessions[w].tableId /\ seat = sessions[w].seat
      PROVE  \A u \in DOMAIN sessions :
                 /\ u \in DOMAIN sessions'
                 /\ sessions'[u].playerId = sessions[u].playerId
                 /\ sessions'[u].dayId = sessions[u].dayId
                 /\ sessions'[u].start = sessions[u].start
                 /\ sessions'[u].status = sessions[u].status
                 /\ u \notin ActiveVisits => sessions'[u] = sessions[u]
  BY <1>3, Reseated
<1>4. ASSUME NEW v \in DOMAIN sessions, NEW t \in Tables, NEW seat \in Seats, Move(a, v, t, seat)
      PROVE  v \in ActiveVisits
  BY <1>4 DEF Move
<1>5. ASSUME NEW v \in DOMAIN sessions, NEW w \in DOMAIN sessions, SwapSeats(a, v, w)
      PROVE  /\ v \in ActiveVisits /\ w \in ActiveVisits
             /\ sessions[w].tableId \in Tables /\ sessions[w].seat \in Seats
  <2>1. sessions[w] \in VisitType
    BY ElementOfSeq, LenProperties, RecordsTyped DEF TypesNow
  <2> QED
    BY <1>5, <2>1 DEF SwapSeats, VisitType
<1> QED
  BY <1>1, <1>2, <1>3, <1>4, <1>5 DEF SeatingStep, CheckInKnown, CheckInNew

\* A decision, with what it does to visits, entries and balances.
LEMMA DecisionGrows ==
    ASSUME TypeInv, NEW a \in Staff, NEW s \in DOMAIN approvals, Reject(a, s) \/ Approve(a, s)
    PROVE  Grows
<1>1. PICK new \in RequestType :
         /\ approvals' = [approvals EXCEPT ![s] = new]
         /\ SameBut(approvals[s], new)
         /\ \/ UNCHANGED <<sessions, transactions>>
            \/ Post(s) /\ ValidEntry(approvals[s], s) /\ new.status = "APPROVED"
  BY DecisionMade
<1>2. \A r \in DOMAIN approvals : r \in DOMAIN approvals' /\ SameBut(approvals[r], approvals'[r])
  <2>1. \A r \in DOMAIN approvals : approvals[r] \in RequestType
    BY ElementOfSeq, LenProperties, RecordsTyped DEF TypesNow
  <2> QED
    BY <1>1, <2>1, SameAsItself
<1>3. CASE Post(s)
  <2>1. PICK q, last : q = approvals[s] /\ last = Len(transactions) + 1
    OBVIOUS
  <2>2. /\ DOMAIN transactions' = DOMAIN transactions \cup {last}
        /\ last \notin DOMAIN transactions
        /\ \A t \in DOMAIN transactions : transactions'[t] = transactions[t]
        /\ DOMAIN sessions' = DOMAIN sessions
        /\ \A v \in DOMAIN sessions :
              /\ sessions'[v].playerId = sessions[v].playerId
              /\ sessions'[v].dayId = sessions[v].dayId
              /\ sessions'[v].start = sessions[v].start
    BY <1>3, <2>1, PostMoves
  <2>3. last \in NewEntries
    BY <2>2 DEF NewEntries
  <2>4. transactions'[last].playerId = q.playerId
    <3>1. transactions \in Seq(TxType) /\ Posting(s) \in TxType
      BY PostingType, RecordsTyped DEF TypesNow
    <3>2. transactions' = Append(transactions, Posting(s))
      BY <1>3 DEF Post
    <3>3. transactions'[last] = Posting(s)
      BY <2>1, <3>1, <3>2, AppendToSeq
    <3> QED
      BY <2>1, <3>3 DEF Posting
  <2>5. \A p \in Players : p # q.playerId => outstanding'[p] = outstanding[p]
    <3>1. outstanding \in [Players -> Int]
      BY DEF TypeInv, TypeOK
    <3> QED
      BY <1>3, <2>1, <3>1 DEF Post
  <2> QED
    BY <1>2, <2>2, <2>3, <2>4, <2>5 DEF Grows
<1>4. CASE ~Post(s)
  <2>1. UNCHANGED <<sessions, transactions, outstanding, dayCash>>
    BY <1>4 DEF Reject, Approve
  <2> QED
    BY <1>2, <2>1 DEF Grows
<1> QED
  BY <1>3, <1>4

LEMMA RequestGrows ==
    ASSUME TypeInv, NEW q \in RequestType, Submit(q)
    PROVE  Grows
<1>1. \A r \in DOMAIN approvals : approvals[r] \in RequestType
  BY ElementOfSeq, LenProperties, RecordsTyped DEF TypesNow
<1>2. \A r \in DOMAIN approvals : r \in DOMAIN approvals' /\ approvals'[r] = approvals[r]
  BY AppendToSeq, RecordsTyped DEF Submit, TypesNow
<1>3. UNCHANGED <<sessions, transactions, outstanding, dayCash>>
  BY DEF Submit
<1> QED
  BY <1>1, <1>2, <1>3, SameAsItself DEF Grows

LEMMA NextGrows ==
    ASSUME TypeInv, [Next]_vars
    PROVE  Grows
<1>1. CASE UNCHANGED vars
  BY <1>1, QuietGrows DEF vars
<1>2. ASSUME NEW a \in Staff, SetupStep(a)
      PROVE  Grows
  <2>1. UNCHANGED <<days, sessions, approvals, transactions, outstanding, dayCash>>
    BY <1>2 DEF SetupStep, UpdateSettings, CompleteSetup, CreateTable, UpdateTable, UpdateProfile
  <2> QED
    BY <2>1, QuietGrows
<1>3. ASSUME NEW a \in Staff, DayStep(a)
      PROVE  Grows
  <2>1. UNCHANGED <<sessions, approvals, transactions, outstanding>>
    BY <1>3 DEF DayStep, OpenDay, ReopenDay, CloseDay
  <2>2. dayCash' = dayCash \/ days' # days
    <3>1. ASSUME NEW cash \in OpeningCash, OpenDay(a, cash)
          PROVE  days' # days
      <4>1. days \in Seq(DayType)
        BY RecordsTyped DEF TypesNow
      <4>2. PICK day : day = [status |-> "OPEN", openingCash |-> cash, closes |-> <<>>]
        OBVIOUS
      <4>3. days' = Append(days, day)
        BY <3>1, <4>2 DEF OpenDay
      <4>4. Len(days') = Len(days) + 1 /\ Len(days) \in Nat
        BY <4>1, <4>3, LenProperties
      <4> QED
        BY <4>4
    <3> QED
      BY <1>3, <3>1 DEF DayStep, ReopenDay, CloseDay
  <2> QED
    BY <2>1, <2>2, QuietGrows
<1>4. ASSUME NEW a \in Staff, SeatingStep(a)
      PROVE  Grows
  BY <1>4, SeatingMoves, QuietGrows
<1>5. ASSUME NEW a \in Staff, EntryStep(a)
      PROVE  Grows
  BY <1>5, RequestMade, RequestGrows, DecisionGrows DEF EntryStep
<1> QED
  BY <1>1, <1>2, <1>3, <1>4, <1>5 DEF Next

-----------------------------------------------------------------------------
(* What links requests and entries to visits.                              *)

VisitKnown(e) ==
    e.sessionId # None =>
        e.sessionId \in DOMAIN sessions /\ sessions[e.sessionId].playerId = e.playerId

\* A cash-out nobody has reversed.
Standing(t) == transactions[t].type = "Cash-out" /\ ReversalsOf(t) = {}

\* A visit has at most one such cash-out; it is over then, at the table it was cashed out at.
CashOutsStand ==
    \A t \in DOMAIN transactions : Standing(t) =>
        LET v == transactions[t].sessionId
        IN  /\ v \in DOMAIN sessions \ ActiveVisits
            /\ sessions[v].tableId = transactions[t].tableId
            /\ \A u \in DOMAIN transactions :
                  Standing(u) /\ transactions[u].sessionId = v => u = t

LinkInv ==
    /\ \A r \in DOMAIN approvals : VisitKnown(approvals[r])
    /\ \A t \in DOMAIN transactions : VisitKnown(transactions[t])
    /\ ReversalsMatch
    /\ CashOutsStand

\* Visits that are over stay as they are, unless an entry is posted.
LEMMA UnpostedLinks ==
    ASSUME TypeInv, LinkInv, Grows, UNCHANGED transactions,
           \A v \in DOMAIN sessions :
              v \notin ActiveVisits => v \notin ActiveVisits' /\ sessions'[v].tableId = sessions[v].tableId,
           \A r \in DOMAIN approvals' \ DOMAIN approvals :
              \E e : e = approvals'[r] /\ VisitKnown(e) /\ ReversalMatches(e)
    PROVE  LinkInv'
<1>1. \A e : VisitKnown(e) => VisitKnown(e)'
  BY DEF VisitKnown, Grows
<1>2. \A e : ReversalMatches(e) => ReversalMatches(e)'
  BY DEF ReversalMatches
<1>3. \A r \in DOMAIN approvals :
         /\ approvals'[r].sessionId = approvals[r].sessionId
         /\ approvals'[r].playerId = approvals[r].playerId
         /\ approvals'[r].dayId = approvals[r].dayId
         /\ approvals'[r].reversesId = approvals[r].reversesId
  BY DEF Grows, SameBut
<1>4. \A r \in DOMAIN approvals' : \E e : e = approvals'[r] /\ VisitKnown(e) /\ ReversalMatches(e)
  <2>1. \A r \in DOMAIN approvals : VisitKnown(approvals[r]) /\ ReversalMatches(approvals[r])
    BY DEF LinkInv, ReversalsMatch
  <2>2. \A r \in DOMAIN approvals :
           \A e : e = approvals'[r] => VisitKnown(e) /\ ReversalMatches(e)
    BY <1>3, <2>1 DEF VisitKnown, ReversalMatches
  <2> QED
    BY <2>2
<1>5. \A r \in DOMAIN approvals' : \E e : e = approvals'[r] /\ VisitKnown(e)' /\ ReversalMatches(e)'
  BY <1>1, <1>2, <1>4
<1>6. (\A r \in DOMAIN approvals : VisitKnown(approvals[r]) /\ ReversalMatches(approvals[r]))'
  BY <1>5 DEF VisitKnown, ReversalMatches
<1>7. (\A t \in DOMAIN transactions : VisitKnown(transactions[t]))'
  BY <1>1 DEF LinkInv, VisitKnown
<1>8. CashOutsStand'
  <2>1. \A t : Standing(t)' <=> Standing(t)
    BY DEF Standing, ReversalsOf
  <2>2. \A v \in DOMAIN sessions \ ActiveVisits :
           v \in (DOMAIN sessions \ ActiveVisits)' /\ sessions'[v].tableId = sessions[v].tableId
    BY DEF Grows
  <2> QED
    BY <2>1, <2>2 DEF LinkInv, CashOutsStand
<1> QED
  BY <1>6, <1>7, <1>8 DEF LinkInv, ReversalsMatch

\* The request a command appends names its visit's player.
LEMMA RequestKnown ==
    ASSUME TypeInv, LinkInv, NEW a \in Staff, NEW q \in RequestType, Submit(q),
           \/ \E type \in Types \cap SessionEntries, amount \in Amounts, v \in DOMAIN sessions :
                RequestForVisit(a, type, amount, v)
           \/ \E type \in Types \ SessionEntries, amount \in Amounts,
                 p \in Players \cup {None}, t \in Tables \cup {None} :
                RequestEntry(a, type, amount, p, t)
           \/ \E t \in DOMAIN transactions : Correct(a, t)
    PROVE  VisitKnown(q)
<1>1. PICK last : last = Len(approvals) + 1
  OBVIOUS
<1>2. approvals'[last] = q
  BY <1>1, AppendToSeq, RecordsTyped DEF Submit, TypesNow
<1>3. ASSUME NEW e, Submit(e)
      PROVE  e = q
  <2>1. approvals \in Seq(RequestType) /\ approvals' = Append(approvals, e)
    BY <1>3, RecordsTyped DEF Submit, TypesNow
  <2>2. approvals'[last] = e
    BY <1>1, <2>1, LenProperties
  <2> QED
    BY <1>2, <2>2
<1>4. ASSUME NEW type \in Types \cap SessionEntries, NEW amount \in Amounts,
             NEW v \in DOMAIN sessions, RequestForVisit(a, type, amount, v)
      PROVE  q.sessionId = v /\ q.playerId = sessions[v].playerId
  <2>1. PICK e : e = NewRequest(a, type, amount, sessions[v].playerId, v, sessions[v].tableId, None)
    OBVIOUS
  <2>2. e = q
    BY <1>3, <1>4, <2>1 DEF RequestForVisit
  <2> QED
    BY <2>1, <2>2 DEF NewRequest
<1>5. ASSUME NEW type \in Types \ SessionEntries, NEW amount \in Amounts,
             NEW p \in Players \cup {None}, NEW t \in Tables \cup {None},
             RequestEntry(a, type, amount, p, t)
      PROVE  q.sessionId = None
  <2>1. PICK e : e = NewRequest(a, type, amount, p, None, t, None)
    OBVIOUS
  <2>2. e = q
    BY <1>3, <1>5, <2>1 DEF RequestEntry
  <2> QED
    BY <2>1, <2>2 DEF NewRequest
<1>6. ASSUME NEW t \in DOMAIN transactions, Correct(a, t)
      PROVE  q.sessionId = transactions[t].sessionId /\ q.playerId = transactions[t].playerId
  <2>1. PICK e : e = NewRequest(a, "Reversal", transactions[t].amount, transactions[t].playerId,
                                transactions[t].sessionId, transactions[t].tableId, t)
    OBVIOUS
  <2>2. e = q
    BY <1>3, <1>6, <2>1 DEF Correct
  <2> QED
    BY <2>1, <2>2 DEF NewRequest
<1> QED
  BY <1>4, <1>5, <1>6 DEF VisitKnown, LinkInv

\* Posting a cash-out ends its visit, which had none standing; posting the
\* reversal of one opens the visit again and leaves none.
LEMMA PostLinks ==
    ASSUME TypeInv, LinkInv, Grows, NEW s \in DOMAIN approvals, Post(s),
           ValidEntry(approvals[s], s), DOMAIN approvals' = DOMAIN approvals
    PROVE  LinkInv'
<1>1. PICK q, last : q = approvals[s] /\ last = Len(transactions) + 1
  OBVIOUS
<1>2. /\ DOMAIN transactions' = DOMAIN transactions \cup {last}
      /\ last \notin DOMAIN transactions
      /\ \A t \in DOMAIN transactions : transactions'[t] = transactions[t]
      /\ transactions'[last].type = q.type
      /\ transactions'[last].sessionId = q.sessionId
      /\ DOMAIN sessions' = DOMAIN sessions
      /\ \A v \in DOMAIN sessions :
            /\ v # q.sessionId \/ Settles(q) = "SAME" => sessions'[v] = sessions[v]
            /\ v = q.sessionId /\ Settles(q) # "SAME" => sessions'[v].status = Settles(q)
            /\ sessions'[v].playerId = sessions[v].playerId
            /\ sessions'[v].tableId = sessions[v].tableId
  BY <1>1, PostMoves
<1>3. /\ transactions'[last].playerId = q.playerId
      /\ transactions'[last].tableId = q.tableId
      /\ transactions'[last].reversesId = q.reversesId
  <2>1. transactions \in Seq(TxType) /\ Posting(s) \in TxType
    BY PostingType, RecordsTyped DEF TypesNow
  <2>2. transactions' = Append(transactions, Posting(s))
    BY DEF Post
  <2>3. transactions'[last] = Posting(s)
    BY <1>1, <2>1, <2>2, AppendToSeq
  <2> QED
    BY <1>1, <2>3 DEF Posting
<1>4. \A e : VisitKnown(e) => VisitKnown(e)'
  BY <1>2 DEF VisitKnown
<1>5. VisitKnown(q) /\ ReversalMatches(q) /\ ReversalLinked(q)
  BY <1>1 DEF LinkInv, ReversalsMatch, TypeInv, Linked
<1>6. (\A r \in DOMAIN approvals : VisitKnown(approvals[r]))'
  <2>1. \A r \in DOMAIN approvals :
           /\ approvals'[r].sessionId = approvals[r].sessionId
           /\ approvals'[r].playerId = approvals[r].playerId
    BY DEF Grows, SameBut
  <2> QED
    BY <1>4, <2>1 DEF LinkInv, VisitKnown
<1>7. (\A t \in DOMAIN transactions : VisitKnown(transactions[t]))'
  BY <1>2, <1>3, <1>4, <1>5 DEF LinkInv, VisitKnown
<1>8. ReversalsMatch'
  <2>1. \A r \in DOMAIN approvals :
           /\ approvals'[r].sessionId = approvals[r].sessionId
           /\ approvals'[r].dayId = approvals[r].dayId
           /\ approvals'[r].reversesId = approvals[r].reversesId
    BY DEF Grows, SameBut
  <2>2. \A r \in DOMAIN approvals : ReversalLinked(approvals[r]) /\ ReversalMatches(approvals[r])
    BY DEF TypeInv, Linked, LinkInv, ReversalsMatch
  <2> QED
    BY <1>2, <2>1, <2>2 DEF ReversalsMatch, ReversalMatches, ReversalLinked
<1>9. /\ \A t \in DOMAIN transactions : Standing(t)' => Standing(t)
      /\ q.reversesId \in DOMAIN transactions => ~Standing(q.reversesId)'
  BY <1>2, <1>3 DEF Standing, ReversalsOf
<1>10. CASE Settles(q) = "SAME"
  <2>1. q.type # "Cash-out"
    BY <1>10 DEF Settles
  <2>2. ~Standing(last)'
    BY <1>2, <2>1 DEF Standing
  <2>3. \A v \in DOMAIN sessions : sessions'[v] = sessions[v]
    BY <1>2, <1>10
  <2>4. CashOutsStand'
    BY <1>2, <1>9, <2>2, <2>3 DEF LinkInv, CashOutsStand, ActiveVisits
  <2> QED
    BY <1>6, <1>7, <1>8, <2>4 DEF LinkInv
<1>11. CASE Settles(q) = "OUT"
  <2>1. PICK v : v = q.sessionId
    OBVIOUS
  <2>2. q.type = "Cash-out"
    BY <1>11 DEF Settles
  <2>3. v \in ActiveVisits /\ sessions[v].tableId = q.tableId
    BY <1>1, <2>1, <2>2 DEF ValidEntry, ValidSessionEntry, SessionEntries
  <2>4. \A t \in DOMAIN transactions : Standing(t)' => transactions[t].sessionId # v
    BY <1>9, <2>3 DEF LinkInv, CashOutsStand
  <2>5. v \in DOMAIN sessions /\ v \notin ActiveVisits'
    BY <1>2, <1>11, <2>1, <2>3 DEF ActiveVisits
  <2>6. \A w \in DOMAIN sessions : w # v => sessions'[w] = sessions[w]
    BY <1>2, <2>1
  <2>7. CashOutsStand'
    <3>1. SUFFICES ASSUME NEW t \in DOMAIN transactions', Standing(t)', NEW w,
                          w = transactions'[t].sessionId
                   PROVE  /\ w \in (DOMAIN sessions \ ActiveVisits)'
                          /\ sessions'[w].tableId = transactions'[t].tableId
                          /\ \A u \in DOMAIN transactions' :
                                Standing(u)' /\ transactions'[u].sessionId = w => u = t
      BY DEF CashOutsStand
    <3>2. CASE t = last
      BY <1>2, <1>3, <2>1, <2>3, <2>4, <2>5, <3>1, <3>2
    <3>3. CASE t \in DOMAIN transactions
      <4>1. w # v /\ w = transactions[t].sessionId
        BY <1>2, <2>4, <3>1, <3>3
      <4>2. /\ w \in DOMAIN sessions \ ActiveVisits
            /\ sessions[w].tableId = transactions[t].tableId
            /\ \A u \in DOMAIN transactions :
                  Standing(u) /\ transactions[u].sessionId = w => u = t
        BY <1>9, <3>1, <3>3, <4>1 DEF LinkInv, CashOutsStand
      <4>3. w \in (DOMAIN sessions \ ActiveVisits)'
        BY <1>2, <2>6, <4>1, <4>2 DEF ActiveVisits
      <4>4. \A u \in DOMAIN transactions' : Standing(u)' /\ transactions'[u].sessionId = w => u = t
        BY <1>2, <1>9, <2>1, <4>1, <4>2
      <4> QED
        BY <1>2, <2>6, <3>3, <4>1, <4>2, <4>3, <4>4
    <3> QED
      BY <1>2, <3>2, <3>3
  <2> QED
    BY <1>6, <1>7, <1>8, <2>7 DEF LinkInv
<1>12. CASE Settles(q) = "ACTIVE"
  <2>1. PICK v, back : v = q.sessionId /\ back = q.reversesId
    OBVIOUS
  <2>2. q.type = "Reversal" /\ transactions[back].type = "Cash-out"
    BY <1>12, <2>1 DEF Settles
  <2>3. back \in DOMAIN transactions /\ transactions[back].sessionId = v
    BY <1>5, <2>1, <2>2 DEF ReversalLinked, ReversalMatches
  <2>4. Standing(back)
    BY <1>1, <2>1, <2>2 DEF Standing, ValidEntry, ValidReversal
  <2>5. ~Standing(last)' /\ ~Standing(back)'
    BY <1>2, <1>9, <2>1, <2>2, <2>3 DEF Standing
  <2>6. \A t \in DOMAIN transactions : Standing(t)' => Standing(t) /\ transactions[t].sessionId # v
    BY <1>9, <2>3, <2>4, <2>5 DEF LinkInv, CashOutsStand
  <2>7. \A w \in DOMAIN sessions : w # v => sessions'[w] = sessions[w]
    BY <1>2, <2>1
  <2>8. CashOutsStand'
    <3>1. SUFFICES ASSUME NEW t \in DOMAIN transactions', Standing(t)', NEW w,
                          w = transactions'[t].sessionId
                   PROVE  /\ w \in (DOMAIN sessions \ ActiveVisits)'
                          /\ sessions'[w].tableId = transactions'[t].tableId
                          /\ \A u \in DOMAIN transactions' :
                                Standing(u)' /\ transactions'[u].sessionId = w => u = t
      BY DEF CashOutsStand
    <3>2. t \in DOMAIN transactions /\ w # v /\ w = transactions[t].sessionId /\ Standing(t)
      BY <1>2, <2>5, <2>6, <3>1
    <3>3. /\ w \in DOMAIN sessions \ ActiveVisits
          /\ sessions[w].tableId = transactions[t].tableId
          /\ \A u \in DOMAIN transactions :
                Standing(u) /\ transactions[u].sessionId = w => u = t
      BY <3>2 DEF LinkInv, CashOutsStand
    <3>4. w \in (DOMAIN sessions \ ActiveVisits)'
      BY <1>2, <2>7, <3>2, <3>3 DEF ActiveVisits
    <3>5. \A u \in DOMAIN transactions' : Standing(u)' /\ transactions'[u].sessionId = w => u = t
      BY <1>2, <2>5, <2>6, <3>3
    <3> QED
      BY <1>2, <2>7, <3>2, <3>3, <3>4, <3>5
  <2> QED
    BY <1>6, <1>7, <1>8, <2>8 DEF LinkInv
<1> QED
  BY <1>10, <1>11, <1>12 DEF Settles

LEMMA NextLinkInv ==
    ASSUME TypeInv, LinkInv, [Next]_vars
    PROVE  LinkInv'
<1>1. Grows
  BY NextGrows
<1>2. \A r \in DOMAIN approvals : r \in DOMAIN approvals'
  BY <1>1 DEF Grows
<1>3. CASE UNCHANGED <<sessions, approvals, transactions>>
  BY <1>1, <1>3, UnpostedLinks DEF ActiveVisits
<1>4. ASSUME NEW a \in Staff, SeatingStep(a)
      PROVE  LinkInv'
  <2>1. /\ UNCHANGED <<approvals, transactions>>
        /\ \A v \in DOMAIN sessions : v \notin ActiveVisits => sessions'[v] = sessions[v]
    BY <1>4, SeatingMoves
  <2> QED
    BY <1>1, <2>1, UnpostedLinks DEF ActiveVisits
<1>5. ASSUME NEW a \in Staff, NEW s \in DOMAIN approvals, Reject(a, s) \/ Approve(a, s)
      PROVE  LinkInv'
  <2>1. PICK new \in RequestType :
           /\ approvals' = [approvals EXCEPT ![s] = new]
           /\ \/ UNCHANGED <<sessions, transactions>>
              \/ Post(s) /\ ValidEntry(approvals[s], s)
    BY <1>5, DecisionMade
  <2>2. DOMAIN approvals' = DOMAIN approvals
    BY <2>1
  <2>3. CASE UNCHANGED <<sessions, transactions>>
    BY <1>1, <2>2, <2>3, UnpostedLinks DEF ActiveVisits
  <2> QED
    BY <1>1, <2>1, <2>2, <2>3, PostLinks
<1>6. ASSUME NEW a \in Staff, EntryStep(a)
      PROVE  LinkInv'
  <2>1. CASE \E r \in DOMAIN approvals : Reject(a, r) \/ Approve(a, r)
    BY <1>5, <2>1
  <2>2. CASE ~\E r \in DOMAIN approvals : Reject(a, r) \/ Approve(a, r)
    <3>1. PICK q \in RequestType : Submit(q) /\ ReversalMatches(q)
      BY <1>6, <2>2, RequestMade DEF EntryStep
    <3>2. VisitKnown(q)
      BY <1>6, <2>2, <3>1, RequestKnown DEF EntryStep
    <3>3. UNCHANGED <<sessions, transactions>>
      BY <3>1 DEF Submit
    <3>4. \A r \in DOMAIN approvals' \ DOMAIN approvals : approvals'[r] = q
      BY <3>1, AppendToSeq, RecordsTyped DEF Submit, TypesNow
    <3> QED
      BY <1>1, <3>1, <3>2, <3>3, <3>4, UnpostedLinks DEF ActiveVisits
  <2> QED
    BY <2>1, <2>2
<1>7. ASSUME NEW a \in Staff, SetupStep(a) \/ DayStep(a)
      PROVE  UNCHANGED <<sessions, approvals, transactions>>
  BY <1>7 DEF SetupStep, UpdateSettings, CompleteSetup, CreateTable, UpdateTable, UpdateProfile,
              DayStep, OpenDay, ReopenDay, CloseDay
<1> QED
  BY <1>3, <1>4, <1>6, <1>7 DEF Next, vars

LEMMA LinkInvAlways == Spec => []LinkInv
<1>1. Init => LinkInv
  <2> SUFFICES ASSUME Init PROVE LinkInv
    OBVIOUS
  <2>1. DOMAIN transactions = {} /\ DOMAIN approvals = {}
    BY EmptySeq DEF Init
  <2> QED
    BY <2>1 DEF LinkInv, ReversalsMatch, CashOutsStand
<1>2. TypeInv /\ LinkInv /\ [Next]_vars => LinkInv'
  BY NextLinkInv
<1> QED
  BY <1>1, <1>2, TypeInvAlways, PTL DEF Spec

-----------------------------------------------------------------------------
(* What a key that was not changed vouches for.                            *)

RequestChange(r) ==
    {<<"approval", r>>, Activity} \cup PlayerKey(approvals'[r].playerId) \cup ReversalKey(approvals'[r])
EntryChange(t) ==
    {<<"transaction", t>>, Activity} \cup PlayerKey(transactions'[t].playerId)
    \cup ReversalKey(transactions'[t])

LEMMA ChangesHaveKeys ==
    /\ \A v \in ChangedVisits : VisitKeys(v) \subseteq ChangedKeys
    /\ \A r \in ChangedRequests : RequestChange(r) \subseteq ChangedKeys
    /\ \A t \in NewEntries : EntryChange(t) \subseteq ChangedKeys
<1>1. UNION {VisitKeys(v) : v \in ChangedVisits} \subseteq ChangedKeys
  BY DEF ChangedKeys
<1>2. UNION {RequestChange(r) : r \in ChangedRequests} \subseteq ChangedKeys
  BY DEF ChangedKeys, RequestChange
<1>3. UNION {EntryChange(t) : t \in NewEntries} \subseteq ChangedKeys
  BY DEF ChangedKeys, EntryChange
<1>4. \A v \in ChangedVisits : VisitKeys(v) \subseteq ChangedKeys
  BY <1>1
<1>5. \A r \in ChangedRequests : RequestChange(r) \subseteq ChangedKeys
  BY <1>2
<1>6. \A t \in NewEntries : EntryChange(t) \subseteq ChangedKeys
  BY <1>3
<1> QED
  BY <1>4, <1>5, <1>6

LEMMA SettingsStill ==
    ASSUME Settings \notin ChangedKeys PROVE settings' = settings
BY DEF ChangedKeys

LEMMA DayStill ==
    ASSUME Day \notin ChangedKeys
    PROVE  days' = days /\ Today' = Today /\ (DayIsOpen' <=> DayIsOpen)
<1>1. days' = days
  BY DEF ChangedKeys
<1> QED
  BY <1>1 DEF Today, DayIsOpen

LEMMA TableStill ==
    ASSUME NEW t \in Tables, <<"table", t>> \notin ChangedKeys
    PROVE  tables'[t] = tables[t]
BY DEF ChangedKeys

LEMMA RequestStill ==
    ASSUME Grows, NEW r \in DOMAIN approvals, <<"approval", r>> \notin ChangedKeys
    PROVE  r \in DOMAIN approvals' /\ approvals'[r] = approvals[r]
<1>1. <<"approval", r>> \in RequestChange(r)
  BY DEF RequestChange
<1> QED
  BY <1>1, ChangesHaveKeys DEF ChangedRequests, Grows

LEMMA ActivityStill ==
    ASSUME Grows, Activity \notin ChangedKeys
    PROVE  /\ \A v : v \in DOMAIN sessions' <=> v \in DOMAIN sessions
           /\ \A v \in DOMAIN sessions : sessions'[v] = sessions[v]
           /\ \A r : r \in DOMAIN approvals' <=> r \in DOMAIN approvals
           /\ \A r \in DOMAIN approvals : approvals'[r] = approvals[r]
           /\ NewEntries = {}
<1>1. ChangedVisits = {}
  <2>1. \A v \in ChangedVisits : Activity \in VisitKeys(v)
    BY DEF VisitKeys
  <2> QED
    BY <2>1, ChangesHaveKeys
<1>2. ChangedRequests = {} /\ NewEntries = {}
  BY ChangesHaveKeys DEF RequestChange, EntryChange
<1> QED
  BY <1>1, <1>2 DEF ChangedVisits, ChangedRequests, Grows

\* player: his profile, balance, visits and requests.
LEMMA PlayerStill ==
    ASSUME Grows, NEW p \in Players, <<"player", p>> \notin ChangedKeys
    PROVE  /\ profiles'[p] = profiles[p]
           /\ outstanding'[p] = outstanding[p]
           /\ \A v : v \in VisitsOf(p)' <=> v \in VisitsOf(p)
           /\ \A v \in VisitsOf(p) : sessions'[v] = sessions[v]
           /\ \A r : r \in DOMAIN approvals' /\ approvals'[r].playerId = p
                       <=> r \in DOMAIN approvals /\ approvals[r].playerId = p
           /\ \A r \in DOMAIN approvals : approvals[r].playerId = p => approvals'[r] = approvals[r]
<1>0. PlayerKey(p) = {<<"player", p>>}
  BY VenueAssumption DEF PlayerKey
<1>1. profiles'[p] = profiles[p]
  BY DEF ChangedKeys
<1>2. \A v \in ChangedVisits : sessions'[v].playerId # p
  <2>1. \A v \in ChangedVisits : PlayerKey(sessions'[v].playerId) \subseteq ChangedKeys
    BY ChangesHaveKeys DEF VisitKeys
  <2> QED
    BY <1>0, <2>1
<1>3. \A r \in ChangedRequests : approvals'[r].playerId # p
  <2>1. \A r \in ChangedRequests : PlayerKey(approvals'[r].playerId) \subseteq ChangedKeys
    BY ChangesHaveKeys DEF RequestChange
  <2> QED
    BY <1>0, <2>1
<1>4. \A t \in NewEntries : transactions'[t].playerId # p
  <2>1. \A t \in NewEntries : PlayerKey(transactions'[t].playerId) \subseteq ChangedKeys
    BY ChangesHaveKeys DEF EntryChange
  <2> QED
    BY <1>0, <2>1
<1>5. outstanding'[p] = outstanding[p]
  BY <1>4 DEF Grows
<1>6. /\ \A v : v \in VisitsOf(p)' <=> v \in VisitsOf(p)
      /\ \A v \in VisitsOf(p) : sessions'[v] = sessions[v]
  BY <1>2 DEF Grows, VisitsOf, ChangedVisits
<1>7. \A r \in DOMAIN approvals : r \in DOMAIN approvals' /\ approvals'[r].playerId = approvals[r].playerId
  BY DEF Grows, SameBut
<1>8. /\ \A r : r \in DOMAIN approvals' /\ approvals'[r].playerId = p
                 <=> r \in DOMAIN approvals /\ approvals[r].playerId = p
      /\ \A r \in DOMAIN approvals : approvals[r].playerId = p => approvals'[r] = approvals[r]
  BY <1>3, <1>7 DEF ChangedRequests
<1> QED
  BY <1>1, <1>5, <1>6, <1>8

\* Hence what he has reserved, and whether he is checked in.
LEMMA CreditStill ==
    ASSUME Grows, NEW p \in Players, <<"player", p>> \notin ChangedKeys
    PROVE  /\ ReservedCredit(p)' = ReservedCredit(p)
           /\ NotCheckedIn(p)' <=> NotCheckedIn(p)
           /\ IsCredit(p)' <=> IsCredit(p)
<1>1. /\ profiles'[p] = profiles[p]
      /\ \A v : v \in VisitsOf(p)' <=> v \in VisitsOf(p)
      /\ \A v \in VisitsOf(p) : sessions'[v] = sessions[v]
      /\ \A r : r \in DOMAIN approvals' /\ approvals'[r].playerId = p
                  <=> r \in DOMAIN approvals /\ approvals[r].playerId = p
      /\ \A r \in DOMAIN approvals : approvals[r].playerId = p => approvals'[r] = approvals[r]
  BY PlayerStill
<1>2. \A r : r \in PendingBuyIns(p)' <=> r \in PendingBuyIns(p)
  BY <1>1 DEF PendingBuyIns, PendingRequests
<1>3. PendingBuyIns(p)' = PendingBuyIns(p)
  BY <1>2
<1>4. \A r \in PendingBuyIns(p) : approvals'[r].amount = approvals[r].amount
  BY <1>1 DEF PendingBuyIns, PendingRequests
<1>5. Units(PendingBuyIns(p))' = Units(PendingBuyIns(p))
  <2>1. PICK S : S = PendingBuyIns(p)
    OBVIOUS
  <2>2. UNION {{r} \X (1 .. approvals'[r].amount) : r \in S}
          = UNION {{r} \X (1 .. approvals[r].amount) : r \in S}
    BY <1>4, <2>1
  <2> QED
    BY <1>3, <2>1, <2>2 DEF Units
<1>6. ReservedCredit(p)' = ReservedCredit(p)
  BY <1>5 DEF ReservedCredit
<1>7. NotCheckedIn(p)' <=> NotCheckedIn(p)
  BY <1>1 DEF NotCheckedIn, ActiveVisits, VisitsOf
<1> QED
  BY <1>1, <1>6, <1>7 DEF IsCredit

\* Who sits where, and whether somebody else may.
At(v, t, seat) == v \in ActiveVisits /\ sessions[v].tableId = t /\ sessions[v].seat = seat

LEMMA SeatStill ==
    ASSUME Grows, NEW t \in Tables, NEW seat, SeatKey(t, seat) \notin ChangedKeys
    PROVE  \A v : At(v, t, seat)' <=> At(v, t, seat)
<1>1. \A v \in ChangedVisits : SeatOf(v)' \in VisitKeys(v) /\ (v \in DOMAIN sessions => SeatOf(v) \in VisitKeys(v))
  BY DEF VisitKeys
<1>2. \A v \in ChangedVisits : SeatOf(v)' # SeatKey(t, seat) /\ (v \in DOMAIN sessions => SeatOf(v) # SeatKey(t, seat))
  BY <1>1, ChangesHaveKeys
<1>3. \A v \in ChangedVisits : ~(sessions'[v].tableId = t /\ sessions'[v].seat = seat)
  BY <1>2 DEF SeatOf
<1>4. \A v \in ChangedVisits \cap DOMAIN sessions : ~(sessions[v].tableId = t /\ sessions[v].seat = seat)
  BY <1>2 DEF SeatOf
<1> QED
  BY <1>3, <1>4 DEF At, ActiveVisits, ChangedVisits, Grows

LEMMA EnsureSeatStill ==
    ASSUME Grows, NEW t \in Tables, NEW seat, NEW except, SeatKey(t, seat) \notin ChangedKeys,
           <<"table", t>> \notin ChangedKeys
    PROVE  EnsureSeat(t, seat, except)' <=> EnsureSeat(t, seat, except)
<1>1. tables'[t] = tables[t] /\ \A v : At(v, t, seat)' <=> At(v, t, seat)
  BY TableStill, SeatStill
<1> QED
  BY <1>1 DEF EnsureSeat, TableOpen, At

\* reversal: an entry's reversals, and who has asked for one.
LEMMA ReversalStill ==
    ASSUME Grows, NEW t, t # None, <<"reversal", t>> \notin ChangedKeys
    PROVE  /\ ReversalsOf(t)' = ReversalsOf(t)
           /\ NotBeingReversed(t)' <=> NotBeingReversed(t)
<1>1. \A u \in NewEntries : transactions'[u].reversesId # t
  <2>1. \A u \in NewEntries : ReversalKey(transactions'[u]) \subseteq ChangedKeys
    BY ChangesHaveKeys DEF EntryChange
  <2> QED
    BY <2>1 DEF ReversalKey
<1>2. \A r \in ChangedRequests : approvals'[r].reversesId # t
  <2>1. \A r \in ChangedRequests : ReversalKey(approvals'[r]) \subseteq ChangedKeys
    BY ChangesHaveKeys DEF RequestChange
  <2> QED
    BY <2>1 DEF ReversalKey
<1>3. ReversalsOf(t)' = ReversalsOf(t)
  BY <1>1 DEF ReversalsOf, NewEntries, Grows
<1>4. \A r \in DOMAIN approvals : r \in DOMAIN approvals' /\ approvals'[r].reversesId = approvals[r].reversesId
  BY DEF Grows, SameBut
<1>5. \A r : r \in PendingRequests' /\ approvals'[r].reversesId = t
               <=> r \in PendingRequests /\ approvals[r].reversesId = t
  BY <1>2, <1>4 DEF PendingRequests, ChangedRequests
<1> QED
  BY <1>3, <1>5 DEF NotBeingReversed

-----------------------------------------------------------------------------
(* Commands on the floor.                                                  *)

LEMMA PreparedIs ==
    ASSUME NEW c \in Prepared
    PROVE  \/ c.kind = "CHECK_IN" /\ c.player \in Players /\ c.table \in Tables
           \/ c.kind = "MOVE" /\ c.visit \in ActiveVisits /\ c.table \in Tables
           \/ c.kind = "SWAP_SEATS" /\ c.visit \in ActiveVisits /\ c.other \in DOMAIN sessions
           \/ c.kind = "REQUEST" /\ c.visit \in ActiveVisits /\ c.type \in SessionEntries
           \/ c.kind = "UPDATE_PROFILE" /\ c.player \in Players
           \/ c.kind = "TABLE" /\ c.table \in Tables
           \/ c.kind = "CREATE_TABLE" /\ c.status = "OPEN"
           \/ /\ c.kind = "ENTRY" /\ c.type \in EntryTypes \ SessionEntries
              /\ c.player \in Players \cup {None} /\ c.table \in Tables \cup {None}
           \/ c.kind = "CORRECT" /\ c.entry \in DOMAIN transactions
           \/ c.kind = "DECIDE" /\ c.request \in DOMAIN approvals
           \/ c.kind \in {"CLOSE_DAY", "REOPEN_DAY", "OPEN_DAY", "COMPLETE_SETUP"}
<1>1. ASSUME NEW v \in ActiveVisits, c \in VisitCommands(v)
      PROVE  \/ c.kind = "MOVE" /\ c.visit \in ActiveVisits /\ c.table \in Tables
             \/ c.kind = "SWAP_SEATS" /\ c.visit \in ActiveVisits /\ c.other \in DOMAIN sessions
             \/ c.kind = "REQUEST" /\ c.visit \in ActiveVisits /\ c.type \in SessionEntries
  BY <1>1 DEF VisitCommands
<1>2. ASSUME NEW r \in PendingRequests, c \in Decisions(r)
      PROVE  c.kind = "DECIDE" /\ c.request \in DOMAIN approvals
  BY <1>2 DEF Decisions, PendingRequests
<1>3. CASE c \in UNION {VisitCommands(v) : v \in ActiveVisits}
  BY <1>1, <1>3
<1>4. CASE c \in UNION {Decisions(r) : r \in PendingRequests}
  BY <1>2, <1>4
<1>5. CASE c \in {[kind |-> "ENTRY", type |-> type, amount |-> n, player |-> p, table |-> t] :
                     type \in Types \ SessionEntries, n \in Amounts,
                     p \in Players \cup {None}, t \in Tables \cup {None}}
  BY <1>5, VenueAssumption
<1> QED
  BY <1>3, <1>4, <1>5 DEF Prepared

Untouched(c) == Dependencies(c)' \cap ChangedKeys = {}
Stands(c) == Dependencies(c)' = Dependencies(c) /\ Verdict(c)' = Verdict(c)

\* What every lemma below starts from.
Calm(c) == TypeInv /\ TypeInv' /\ LinkInv /\ Grows /\ Untouched(c)

LEMMA DayUntouched ==
    ASSUME NEW c, Untouched(c)
    PROVE  days' = days /\ Today' = Today /\ (DayIsOpen' <=> DayIsOpen)
<1>1. Day \notin ChangedKeys
  BY DEF Untouched, Dependencies
<1> QED
  BY <1>1, DayStill

LEMMA KeyOfPlayer == ASSUME NEW p \in Players PROVE PlayerKey(p) = {<<"player", p>>}
BY VenueAssumption DEF PlayerKey
LEMMA KeyOfTable == ASSUME NEW t \in Tables PROVE TableKey(t) = {<<"table", t>>}
BY VenueAssumption DEF TableKey

LEMMA CheckInStands ==
    ASSUME NEW c, Calm(c), c.kind = "CHECK_IN", c.player \in Players, c.table \in Tables
    PROVE  Stands(c)
<1>1. /\ <<"player", c.player>> \notin ChangedKeys /\ <<"table", c.table>> \notin ChangedKeys
      /\ SeatKey(c.table, c.seat) \notin ChangedKeys /\ Settings \notin ChangedKeys
  BY KeyOfPlayer, KeyOfTable DEF Calm, Untouched, Dependencies
<1>2. Dependencies(c)' = Dependencies(c)
  BY DEF Dependencies, SeatKey, PlayerKey, TableKey
<1>3. /\ EnsureSeat(c.table, c.seat, None)' <=> EnsureSeat(c.table, c.seat, None)
      /\ NotCheckedIn(c.player)' <=> NotCheckedIn(c.player)
      /\ IsCredit(c.player)' <=> IsCredit(c.player)
      /\ profiles'[c.player] = profiles[c.player]
      /\ settings' = settings /\ (DayIsOpen' <=> DayIsOpen)
  BY <1>1, EnsureSeatStill, CreditStill, PlayerStill, SettingsStill, DayUntouched DEF Calm
<1>4. MayCheckIn(c.player, c.table, c.seat)' <=> MayCheckIn(c.player, c.table, c.seat)
  BY <1>3 DEF MayCheckIn, SeatFree
<1>5. Verdict(c)' = Verdict(c)
  BY <1>3, <1>4 DEF Verdict, Accepted, Refused
<1> QED
  BY <1>2, <1>5 DEF Stands

\* A visit whose player's key was not changed.
LEMMA VisitStill ==
    ASSUME TypeInv, Grows, NEW v \in DOMAIN sessions,
           <<"player", sessions[v].playerId>> \notin ChangedKeys
    PROVE  /\ v \in DOMAIN sessions' /\ sessions'[v] = sessions[v]
           /\ v \in ActiveVisits' <=> v \in ActiveVisits
<1>0. sessions[v] \in VisitType
  BY ElementOfSeq, LenProperties, RecordsTyped DEF TypesNow
<1>1. PICK p \in Players : p = sessions[v].playerId
  BY <1>0 DEF VisitType
<1> QED
  BY <1>1, PlayerStill DEF VisitsOf, ActiveVisits

\* The requests of such a visit.
LEMMA RequestsStill ==
    ASSUME TypeInv, LinkInv, Grows, NEW v \in DOMAIN sessions,
           <<"player", sessions[v].playerId>> \notin ChangedKeys,
           TypeInv', LinkInv'
    PROVE  /\ \A r : r \in PendingFor(v)' <=> r \in PendingFor(v)
<1>0. sessions[v] \in VisitType
  BY ElementOfSeq, LenProperties, RecordsTyped DEF TypesNow
<1>1. PICK p \in Players : p = sessions[v].playerId
  BY <1>0 DEF VisitType
<1>2. /\ \A r : r \in DOMAIN approvals' /\ approvals'[r].playerId = p
                  <=> r \in DOMAIN approvals /\ approvals[r].playerId = p
      /\ \A r \in DOMAIN approvals : approvals[r].playerId = p => approvals'[r] = approvals[r]
  BY <1>1, PlayerStill
<1>3. v \in DOMAIN sessions' /\ sessions'[v].playerId = p /\ v # None
  BY <1>1, LenProperties, RecordsTyped, VenueAssumption DEF Grows, TypesNow
<1>4. \A r \in DOMAIN approvals : approvals[r].sessionId = v => approvals[r].playerId = p
  BY <1>1, <1>3 DEF LinkInv, VisitKnown
<1>5. \A r \in DOMAIN approvals' : approvals'[r].sessionId = v => approvals'[r].playerId = p
  BY <1>3 DEF LinkInv, VisitKnown
<1> QED
  BY <1>2, <1>4, <1>5 DEF PendingFor, PendingRequests

LEMMA VisitFields ==
    ASSUME TypeInv, NEW v \in DOMAIN sessions
    PROVE  /\ v \in Nat /\ v # None
           /\ sessions[v].playerId \in Players /\ sessions[v].tableId \in Tables
<1>1. sessions[v] \in VisitType /\ v \in Nat
  BY ElementOfSeq, LenProperties, RecordsTyped DEF TypesNow
<1> QED
  BY <1>1, VenueAssumption DEF VisitType

LEMMA MoveStands ==
    ASSUME NEW c, Calm(c), LinkInv', c.kind = "MOVE", c.visit \in ActiveVisits, c.table \in Tables
    PROVE  Stands(c)
<1>0. TypeInv /\ TypeInv' /\ LinkInv /\ LinkInv' /\ Grows /\ Untouched(c)
  BY DEF Calm
<1>1. PICK v, p : v = c.visit /\ p = sessions[v].playerId
  OBVIOUS
<1>2. v \in DOMAIN sessions /\ p \in Players
  BY <1>0, <1>1, VisitFields DEF ActiveVisits
<1>3. sessions'[v].playerId = p
  BY <1>0, <1>1, <1>2 DEF Grows
<1>4. /\ <<"player", p>> \notin ChangedKeys /\ <<"table", c.table>> \notin ChangedKeys
      /\ SeatKey(c.table, c.seat) \notin ChangedKeys
  BY <1>0, <1>1, <1>2, <1>3, VenueAssumption DEF Untouched, Dependencies, PlayerKey, TableKey, SeatKey
<1>5. Dependencies(c)' = Dependencies(c)
  BY <1>1, <1>3 DEF Dependencies, SeatKey, PlayerKey, TableKey
<1>6. /\ sessions'[v] = sessions[v] /\ (v \in ActiveVisits' <=> v \in ActiveVisits)
      /\ EnsureSeat(c.table, c.seat, v)' <=> EnsureSeat(c.table, c.seat, v)
      /\ DayIsOpen' <=> DayIsOpen
  BY <1>0, <1>1, <1>2, <1>4, VisitStill, EnsureSeatStill, DayUntouched
<1>7. Movable(v)' <=> Movable(v)
  <2>1. \A r : r \in PendingFor(v)' <=> r \in PendingFor(v)
    BY <1>0, <1>1, <1>2, <1>4, RequestsStill
  <2> QED
    BY <2>1 DEF Movable
<1>8. Verdict(c)' = Verdict(c)
  BY <1>1, <1>6, <1>7 DEF Verdict, Accepted, Refused
<1> QED
  BY <1>5, <1>8 DEF Stands

\* What is pending for a player whose key was not changed.
LEMMA PendingOfStill ==
    ASSUME Grows, NEW p \in Players, <<"player", p>> \notin ChangedKeys
    PROVE  \A r : /\ r \in PendingRequests' /\ approvals'[r].playerId = p
                       <=> r \in PendingRequests /\ approvals[r].playerId = p
                  /\ r \in PendingRequests /\ approvals[r].playerId = p => approvals'[r] = approvals[r]
BY PlayerStill DEF PendingRequests

LEMMA SwapStands ==
    ASSUME NEW c, Calm(c), LinkInv', c.kind = "SWAP_SEATS", c.visit \in ActiveVisits, c.other \in DOMAIN sessions
    PROVE  Stands(c)
<1>0. TypeInv /\ TypeInv' /\ LinkInv /\ LinkInv' /\ Grows /\ Untouched(c)
  BY DEF Calm
<1>1. PICK v, w : v = c.visit /\ w = c.other
  OBVIOUS
<1>2. v \in DOMAIN sessions /\ w \in DOMAIN sessions
  BY <1>1 DEF ActiveVisits
<1>3. \A x \in {v, w} :
         /\ x \in DOMAIN sessions /\ sessions[x].playerId \in Players /\ sessions[x].tableId \in Tables
         /\ sessions'[x].playerId = sessions[x].playerId
  BY <1>0, <1>2, VisitFields DEF Grows
<1>4. \A x \in {v, w} :
         /\ SeatOf(x)' \notin ChangedKeys
         /\ \A k \in PlayerKey(sessions[x].playerId) : k \notin ChangedKeys
         /\ \A k \in TableKey(sessions[x].tableId)' : k \notin ChangedKeys
  <2>1. Dependencies(c)' = ({Day} \cup
            UNION {{SeatOf(x)} \cup PlayerKey(sessions[x].playerId) \cup TableKey(sessions[x].tableId) :
                      x \in {v, w}})'
    BY <1>1 DEF Dependencies
  <2>2. \A x \in {v, w} :
           /\ SeatOf(x)' \in Dependencies(c)'
           /\ PlayerKey(sessions[x].playerId)' \subseteq Dependencies(c)'
           /\ TableKey(sessions[x].tableId)' \subseteq Dependencies(c)'
    BY <2>1
  <2> QED
    BY <1>0, <1>3, <2>2 DEF Untouched, PlayerKey
<1>5. \A x \in {v, w} : <<"player", sessions[x].playerId>> \notin ChangedKeys
  BY <1>3, <1>4, KeyOfPlayer
<1>6. \A x \in {v, w} : sessions'[x] = sessions[x] /\ (x \in ActiveVisits' <=> x \in ActiveVisits)
  BY <1>0, <1>3, <1>5, VisitStill
<1>7. \A x \in {v, w} :
         /\ <<"table", sessions[x].tableId>> \notin ChangedKeys
         /\ SeatKey(sessions[x].tableId, sessions[x].seat) \notin ChangedKeys
  BY <1>3, <1>4, <1>6, VenueAssumption DEF SeatOf, TableKey
<1>8. Dependencies(c)' = Dependencies(c)
  BY <1>1, <1>6 DEF Dependencies, SeatOf, SeatKey, PlayerKey, TableKey
<1>9. \A x \in {v, w} :
         /\ \A r : r \in PendingFor(x)' <=> r \in PendingFor(x)
         /\ \A r : r \in PendingRequests' /\ approvals'[r].playerId = sessions[x].playerId
                     <=> r \in PendingRequests /\ approvals[r].playerId = sessions[x].playerId
         /\ \A u : At(u, sessions[x].tableId, sessions[x].seat)'
                     <=> At(u, sessions[x].tableId, sessions[x].seat)
         /\ TableOpen(sessions[x].tableId)' <=> TableOpen(sessions[x].tableId)
  <2> SUFFICES ASSUME NEW x \in {v, w}
               PROVE  /\ \A r : r \in PendingFor(x)' <=> r \in PendingFor(x)
                      /\ \A r : r \in PendingRequests' /\ approvals'[r].playerId = sessions[x].playerId
                                  <=> r \in PendingRequests /\ approvals[r].playerId = sessions[x].playerId
                      /\ \A u : At(u, sessions[x].tableId, sessions[x].seat)'
                                  <=> At(u, sessions[x].tableId, sessions[x].seat)
                      /\ TableOpen(sessions[x].tableId)' <=> TableOpen(sessions[x].tableId)
    OBVIOUS
  <2>1. \A r : r \in PendingFor(x)' <=> r \in PendingFor(x)
    BY <1>0, <1>3, <1>5, RequestsStill
  <2>2. PICK p, t, seat : p = sessions[x].playerId /\ t = sessions[x].tableId /\ seat = sessions[x].seat
    OBVIOUS
  <2>3. \A r : r \in PendingRequests' /\ approvals'[r].playerId = p
                 <=> r \in PendingRequests /\ approvals[r].playerId = p
    BY <1>0, <1>3, <1>5, <2>2, PendingOfStill
  <2>4. /\ \A u : At(u, t, seat)' <=> At(u, t, seat)
        /\ tables'[t] = tables[t]
    BY <1>0, <1>3, <1>7, <2>2, SeatStill, TableStill
  <2>5. \A u : At(u, sessions[x].tableId, sessions[x].seat)' <=> At(u, sessions[x].tableId, sessions[x].seat)
    BY <1>6, <2>2, <2>4 DEF At
  <2>6. TableOpen(sessions[x].tableId)' <=> TableOpen(sessions[x].tableId)
    BY <1>6, <2>2, <2>4 DEF TableOpen
  <2> QED
    BY <2>1, <2>2, <2>3, <2>5, <2>6
<1>10. Swappable(v, w)' <=> Swappable(v, w)
  <2>1. (\A r \in PendingRequests : approvals[r].sessionId \notin {v, w})'
          <=> \A r \in PendingRequests : approvals[r].sessionId \notin {v, w}
    BY <1>9 DEF PendingFor
  <2>2. (\A r \in PendingRequests : approvals[r].playerId \notin {sessions[v].playerId, sessions[w].playerId})'
          <=> \A r \in PendingRequests : approvals[r].playerId \notin {sessions[v].playerId, sessions[w].playerId}
    BY <1>6, <1>9
  <2>3. (\A u \in ActiveVisits \ {v, w} : \A x \in {v, w} :
            sessions[u].tableId # sessions[x].tableId \/ sessions[u].seat # sessions[x].seat)'
          <=> \A u \in ActiveVisits \ {v, w} : \A x \in {v, w} :
                 sessions[u].tableId # sessions[x].tableId \/ sessions[u].seat # sessions[x].seat
    BY <1>9 DEF At
  <2> QED
    BY <2>1, <2>2, <2>3 DEF Swappable
<1>11. Verdict(c)' = Verdict(c)
  <2>1. DayIsOpen' <=> DayIsOpen
    BY <1>0, DayUntouched
  <2> QED
    BY <1>1, <1>6, <1>9, <1>10, <2>1 DEF Verdict, Accepted, Refused
<1> QED
  BY <1>8, <1>11 DEF Stands

-----------------------------------------------------------------------------
(* Commands on the ledger.                                                 *)

\* validateEntry() of an entry that is no reversal: settings aside, it looks at
\* the player, the table and what the player's visit says.
LEMMA PlainEntryStill ==
    ASSUME TypeInv, TypeInv', LinkInv, LinkInv', Grows,
           NEW q, NEW self, q.type # "Reversal", VisitKnown(q),
           q.playerId \in Players \cup {None}, q.tableId \in Tables \cup {None},
           q.playerId \in Players => <<"player", q.playerId>> \notin ChangedKeys,
           q.tableId \in Tables => <<"table", q.tableId>> \notin ChangedKeys
    PROVE  ValidEntry(q, self)' <=> ValidEntry(q, self)
<1>1. IsCredit(q.playerId)' <=> IsCredit(q.playerId)
  <2>1. CASE q.playerId \in Players
    BY <2>1, CreditStill
  <2>2. CASE q.playerId = None
    BY <2>2 DEF IsCredit
  <2> QED
    BY <2>1, <2>2
<1>2. q.playerId \in Players => /\ profiles'[q.playerId] = profiles[q.playerId]
                                /\ outstanding'[q.playerId] = outstanding[q.playerId]
  BY PlayerStill
<1>3. IsCredit(q.playerId) => q.playerId \in Players
  BY DEF IsCredit
<1>4. ValidRepayment(q)' <=> ValidRepayment(q)
  BY <1>1, <1>2, <1>3 DEF ValidRepayment
<1>5. q.tableId # None => (TableOpen(q.tableId)' <=> TableOpen(q.tableId))
  BY TableStill DEF TableOpen
<1>6. ValidSessionEntry(q, self)' <=> ValidSessionEntry(q, self)
  <2>1. CASE q.sessionId = None
    <3>1. sessions \in Seq(VisitType) /\ sessions' \in Seq(VisitType)
      BY DEF TypeInv, TypeOK
    <3>2. None \notin DOMAIN sessions /\ None \notin DOMAIN sessions'
      BY <3>1, LenProperties, VenueAssumption
    <3> QED
      BY <2>1, <3>2 DEF ValidSessionEntry, ActiveVisits
  <2>2. CASE q.sessionId # None
    <3>1. PICK v : v = q.sessionId
      OBVIOUS
    <3>2. v \in DOMAIN sessions /\ sessions[v].playerId = q.playerId
      BY <2>2, <3>1 DEF VisitKnown
    <3>3. q.playerId \in Players
      BY <3>2, VisitFields
    <3>4. /\ sessions'[v] = sessions[v] /\ (v \in ActiveVisits' <=> v \in ActiveVisits)
          /\ \A r : r \in PendingFor(v)' <=> r \in PendingFor(v)
      BY <3>2, <3>3, VisitStill, RequestsStill
    <3>5. NoOtherPending(q, self)' <=> NoOtherPending(q, self)
      BY <3>1, <3>4 DEF NoOtherPending
    <3> QED
      BY <1>1, <1>2, <3>1, <3>3, <3>4, <3>5 DEF ValidSessionEntry
  <2> QED
    BY <2>1, <2>2
<1> QED
  BY <1>4, <1>5, <1>6 DEF ValidEntry

\* The verdict on a request, in terms of what the records say of its visit.
RequestReads ==
    \A c, v, q : 
        /\ c.kind = "REQUEST" /\ v = c.visit
        /\ q = [dayId |-> Today, type |-> c.type, amount |-> c.amount, playerId |-> sessions[v].playerId,
                sessionId |-> v, tableId |-> sessions[v].tableId, reversesId |-> None]
        => Verdict(c) = Accepted(/\ DayIsOpen /\ v \in ActiveVisits
                                 /\ (c.type = "Buy-in" => MayBuyIn(v, c.amount))
                                 /\ ValidEntry(q, None), q)
LEMMA RequestRead == RequestReads
<1> SUFFICES ASSUME NEW c, NEW v, NEW q, c.kind = "REQUEST", v = c.visit,
                    q = [dayId |-> Today, type |-> c.type, amount |-> c.amount,
                         playerId |-> sessions[v].playerId, sessionId |-> v,
                         tableId |-> sessions[v].tableId, reversesId |-> None]
             PROVE  Verdict(c) = Accepted(/\ DayIsOpen /\ v \in ActiveVisits
                                          /\ (c.type = "Buy-in" => MayBuyIn(v, c.amount))
                                          /\ ValidEntry(q, None), q)
  BY DEF RequestReads
<1> QED
  BY DEF Verdict

BuyInReads ==
    \A v, n, p, t :
        p = sessions[v].playerId /\ t = sessions[v].tableId =>
            (MayBuyIn(v, n) <=>
                /\ BuyInAllowed(EffectiveRules(settings.rules, tables[t].rules), n)
                /\ IsCredit(p) => "credit" \in settings.features
                /\ ~profiles[p].banned
                /\ \A r \in PendingRequests : ~(approvals[r].playerId = p /\ approvals[r].type = "Cash-out")
                /\ CreditAvailable(p, n))
LEMMA BuyInRead == BuyInReads
BY DEF BuyInReads, MayBuyIn

LEMMA BuyInStill ==
    ASSUME TypeInv, TypeInv', Grows, NEW v \in DOMAIN sessions, NEW n,
           <<"player", sessions[v].playerId>> \notin ChangedKeys,
           <<"table", sessions[v].tableId>> \notin ChangedKeys, Settings \notin ChangedKeys
    PROVE  MayBuyIn(v, n)' <=> MayBuyIn(v, n)
<1>1. PICK p, t : p = sessions[v].playerId /\ t = sessions[v].tableId
  OBVIOUS
<1>2. p \in Players /\ t \in Tables
  BY <1>1, VisitFields
<1>3. sessions'[v] = sessions[v]
  BY VisitStill
<1>4. settings' = settings /\ tables'[t] = tables[t]
  BY <1>1, <1>2, SettingsStill, TableStill
<1>5. PICK rules : rules = EffectiveRules(settings.rules, tables[t].rules)
  OBVIOUS
<1>6. EffectiveRules(settings.rules, tables[t].rules)' = rules
  BY <1>4, <1>5 DEF EffectiveRules
<1>7. /\ profiles'[p] = profiles[p] /\ outstanding'[p] = outstanding[p]
      /\ ReservedCredit(p)' = ReservedCredit(p)
      /\ IsCredit(p)' <=> IsCredit(p)
  BY <1>1, <1>2, PlayerStill, CreditStill
<1>8. CreditAvailable(p, n)' <=> CreditAvailable(p, n)
  BY <1>7 DEF CreditAvailable
<1>9. (\A r \in PendingRequests : ~(approvals[r].playerId = p /\ approvals[r].type = "Cash-out"))'
        <=> \A r \in PendingRequests : ~(approvals[r].playerId = p /\ approvals[r].type = "Cash-out")
  BY <1>1, <1>2, PendingOfStill
<1>10. MayBuyIn(v, n) <=>
           /\ BuyInAllowed(rules, n)
           /\ IsCredit(p) => "credit" \in settings.features
           /\ ~profiles[p].banned
           /\ \A r \in PendingRequests : ~(approvals[r].playerId = p /\ approvals[r].type = "Cash-out")
           /\ CreditAvailable(p, n)
  BY <1>1, <1>5, BuyInRead DEF BuyInReads
<1>11. BuyInReads'
  BY BuyInRead, PTL
<1>12. MayBuyIn(v, n)' <=>
           /\ BuyInAllowed(rules, n)
           /\ IsCredit(p)' => "credit" \in settings.features
           /\ ~profiles[p].banned
           /\ (\A r \in PendingRequests : ~(approvals[r].playerId = p /\ approvals[r].type = "Cash-out"))'
           /\ CreditAvailable(p, n)'
  BY <1>1, <1>3, <1>4, <1>6, <1>7, <1>11 DEF BuyInReads, BuyInAllowed
<1> QED
  BY <1>7, <1>8, <1>9, <1>10, <1>12

LEMMA RequestStands ==
    ASSUME NEW c, Calm(c), LinkInv', c.kind = "REQUEST", c.visit \in ActiveVisits,
           c.type \in SessionEntries
    PROVE  Stands(c)
<1>0. TypeInv /\ TypeInv' /\ LinkInv /\ LinkInv' /\ Grows /\ Untouched(c)
  BY DEF Calm
<1>1. PICK v, p, t, d : v = c.visit /\ p = sessions[v].playerId /\ t = sessions[v].tableId /\ d = Today
  OBVIOUS
<1>2. v \in DOMAIN sessions /\ p \in Players /\ t \in Tables /\ v # None
  BY <1>0, <1>1, VisitFields DEF ActiveVisits
<1>3. sessions'[v].playerId = p
  BY <1>0, <1>1, <1>2 DEF Grows
<1>4. <<"player", p>> \notin ChangedKeys /\ Settings \notin ChangedKeys
  BY <1>0, <1>1, <1>2, <1>3, VenueAssumption DEF Untouched, Dependencies, PlayerKey
<1>5. sessions'[v] = sessions[v] /\ (v \in ActiveVisits' <=> v \in ActiveVisits)
  BY <1>0, <1>1, <1>2, <1>4, VisitStill
<1>6. <<"table", t>> \notin ChangedKeys
  BY <1>0, <1>1, <1>2, <1>5, VenueAssumption DEF Untouched, Dependencies, TableKey
<1>7. Dependencies(c)' = Dependencies(c)
  BY <1>1, <1>5 DEF Dependencies, PlayerKey, TableKey
<1>8. PICK q : q = [dayId |-> d, type |-> c.type, amount |-> c.amount, playerId |-> p,
                    sessionId |-> v, tableId |-> t, reversesId |-> None]
  OBVIOUS
<1>9. ValidEntry(q, None)' <=> ValidEntry(q, None)
  <2>1. /\ q.type # "Reversal" /\ VisitKnown(q) /\ q.playerId = p /\ q.tableId = t
    BY <1>1, <1>2, <1>8 DEF VisitKnown, SessionEntries
  <2> QED
    BY <1>0, <1>2, <1>4, <1>6, <2>1, PlainEntryStill
<1>10. MayBuyIn(v, c.amount)' <=> MayBuyIn(v, c.amount)
  BY <1>0, <1>1, <1>2, <1>4, <1>6, BuyInStill
<1>11. (DayIsOpen' <=> DayIsOpen) /\ Today' = d
  BY <1>0, <1>1, DayUntouched
<1>12. Verdict(c) = Accepted(/\ DayIsOpen /\ v \in ActiveVisits
                             /\ (c.type = "Buy-in" => MayBuyIn(v, c.amount))
                             /\ ValidEntry(q, None), q)
  BY <1>1, <1>8, RequestRead DEF RequestReads
<1>13. RequestReads'
  BY RequestRead, PTL
<1>14. Verdict(c)' = Accepted(/\ DayIsOpen /\ v \in ActiveVisits
                             /\ (c.type = "Buy-in" => MayBuyIn(v, c.amount))
                             /\ ValidEntry(q, None), q)'
  BY <1>1, <1>5, <1>8, <1>11, <1>13 DEF RequestReads
<1>15. Verdict(c)' = Verdict(c)
  BY <1>5, <1>9, <1>10, <1>11, <1>12, <1>14 DEF Accepted, Refused
<1> QED
  BY <1>7, <1>15 DEF Stands

EntryReads ==
    \A c, q :
        /\ c.kind = "ENTRY"
        /\ q = [dayId |-> Today, type |-> c.type, amount |-> c.amount, playerId |-> c.player,
                sessionId |-> None, tableId |-> c.table, reversesId |-> None]
        => Verdict(c) = Accepted(/\ DayIsOpen /\ RequiredFeatures(c.type) \subseteq settings.features
                                 /\ (c.player # None => profiles[c.player].type # "ABSENT")
                                 /\ ValidEntry(q, None), q)
LEMMA EntryRead == EntryReads
<1> SUFFICES ASSUME NEW c, NEW q, c.kind = "ENTRY",
                    q = [dayId |-> Today, type |-> c.type, amount |-> c.amount, playerId |-> c.player,
                         sessionId |-> None, tableId |-> c.table, reversesId |-> None]
             PROVE  Verdict(c) = Accepted(/\ DayIsOpen /\ RequiredFeatures(c.type) \subseteq settings.features
                                          /\ (c.player # None => profiles[c.player].type # "ABSENT")
                                          /\ ValidEntry(q, None), q)
  BY DEF EntryReads
<1> QED
  BY DEF Verdict

LEMMA EntryStands ==
    ASSUME NEW c, Calm(c), LinkInv', c.kind = "ENTRY", c.type \in EntryTypes \ SessionEntries,
           c.player \in Players \cup {None}, c.table \in Tables \cup {None}
    PROVE  Stands(c)
<1>0. TypeInv /\ TypeInv' /\ LinkInv /\ LinkInv' /\ Grows /\ Untouched(c)
  BY DEF Calm
<1>1. /\ Settings \notin ChangedKeys
      /\ c.player \in Players => <<"player", c.player>> \notin ChangedKeys
      /\ c.table \in Tables => <<"table", c.table>> \notin ChangedKeys
  BY <1>0, VenueAssumption DEF Untouched, Dependencies, PlayerKey, TableKey
<1>2. Dependencies(c)' = Dependencies(c)
  BY DEF Dependencies, PlayerKey, TableKey
<1>3. PICK q, d : /\ d = Today
                  /\ q = [dayId |-> d, type |-> c.type, amount |-> c.amount, playerId |-> c.player,
                          sessionId |-> None, tableId |-> c.table, reversesId |-> None]
  OBVIOUS
<1>4. ValidEntry(q, None)' <=> ValidEntry(q, None)
  <2>1. /\ q.type # "Reversal" /\ VisitKnown(q) /\ q.playerId = c.player /\ q.tableId = c.table
    BY <1>3 DEF VisitKnown, EntryTypes, SessionEntries, DealerEntries
  <2> QED
    BY <1>0, <1>1, <2>1, PlainEntryStill
<1>5. settings' = settings /\ (DayIsOpen' <=> DayIsOpen) /\ Today' = d
  BY <1>0, <1>1, <1>3, SettingsStill, DayUntouched
<1>6. c.player # None => profiles'[c.player] = profiles[c.player]
  BY <1>0, <1>1, PlayerStill
<1>7. Verdict(c) = Accepted(/\ DayIsOpen /\ RequiredFeatures(c.type) \subseteq settings.features
                            /\ (c.player # None => profiles[c.player].type # "ABSENT")
                            /\ ValidEntry(q, None), q)
  BY <1>3, EntryRead DEF EntryReads
<1>8. EntryReads'
  BY EntryRead, PTL
<1>9. Verdict(c)' = Accepted(/\ DayIsOpen /\ RequiredFeatures(c.type) \subseteq settings.features
                             /\ (c.player # None => profiles[c.player].type # "ABSENT")
                             /\ ValidEntry(q, None), q)'
  BY <1>3, <1>5, <1>8 DEF EntryReads
<1>10. Verdict(c)' = Verdict(c)
  BY <1>4, <1>5, <1>6, <1>7, <1>9 DEF Accepted, Refused
<1> QED
  BY <1>2, <1>10 DEF Stands

-----------------------------------------------------------------------------
(* Reversals and decisions.                                                *)

\* The keys of an entry are the same as before, and vouch for its visit.
LEMMA EntryKeysStill ==
    ASSUME TypeInv, TypeInv', LinkInv, Grows, NEW t \in DOMAIN transactions,
           EntryKeys(t)' \cap ChangedKeys = {}
    PROVE  /\ EntryKeys(t)' = EntryKeys(t)
           /\ transactions'[t] = transactions[t] /\ t # None
           /\ <<"reversal", t>> \notin ChangedKeys
           /\ transactions[t].playerId \in Players => <<"player", transactions[t].playerId>> \notin ChangedKeys
           /\ transactions[t].tableId \in Tables => <<"table", transactions[t].tableId>> \notin ChangedKeys
           /\ transactions[t].sessionId # None =>
                 /\ sessions'[transactions[t].sessionId] = sessions[transactions[t].sessionId]
                 /\ SeatOf(transactions[t].sessionId) \notin ChangedKeys
<1>1. PICK tx, v : tx = transactions[t] /\ v = tx.sessionId
  OBVIOUS
<1>2. transactions'[t] = tx
  BY <1>1 DEF Grows
<1>3. t # None /\ t \in Nat
  BY LenProperties, RecordsTyped, VenueAssumption DEF TypesNow
<1>4. /\ <<"reversal", t>> \notin ChangedKeys
      /\ tx.playerId \in Players => <<"player", tx.playerId>> \notin ChangedKeys
      /\ tx.tableId \in Tables => <<"table", tx.tableId>> \notin ChangedKeys
      /\ v # None => SeatOf(v)' \notin ChangedKeys
  BY <1>1, <1>2, VenueAssumption DEF EntryKeys, PlayerKey, TableKey
<1>5. v # None => v \in DOMAIN sessions /\ sessions[v].playerId = tx.playerId /\ tx.playerId \in Players
  <2>1. VisitKnown(tx)
    BY <1>1 DEF LinkInv
  <2> QED
    BY <1>1, <2>1, VisitFields DEF VisitKnown
<1>6. v # None => sessions'[v] = sessions[v]
  BY <1>4, <1>5, VisitStill
<1>7. v # None => SeatOf(v)' = SeatOf(v)
  BY <1>6 DEF SeatOf, SeatKey
<1>8. EntryKeys(t)' = EntryKeys(t)
  BY <1>1, <1>2, <1>7 DEF EntryKeys, PlayerKey, TableKey
<1> QED
  BY <1>1, <1>2, <1>3, <1>4, <1>6, <1>7, <1>8

\* The seat a reversed cash-out gives back to its visit.
GivesBack(v) == NoLaterVisit(v) /\ EnsureSeat(sessions[v].tableId, sessions[v].seat, v)

ReversalReads ==
    \A q, t, tx, v :
        t = q.reversesId /\ tx = transactions[t] /\ v = q.sessionId =>
            (ValidReversal(q) <=>
                /\ ReversalsOf(t) = {}
                /\ tx.playerId # None => outstanding[tx.playerId] - tx.creditDelta >= 0
                /\ ReversalWithinLimit(tx)
                /\ tx.type = "Buy-in" => BuyInVisitOpen(v)
                /\ tx.type = "Cash-out" => GivesBack(v))
LEMMA ReversalRead == ReversalReads
BY DEF ReversalReads, ValidReversal, GivesBack

LEMMA GivesBackStill ==
    ASSUME TypeInv, TypeInv', LinkInv, Grows, NEW t \in DOMAIN transactions, Standing(t),
           EntryKeys(t)' \cap ChangedKeys = {}, NEW v, v = transactions[t].sessionId
    PROVE  GivesBack(v)' <=> GivesBack(v)
<1>1. /\ v \in DOMAIN sessions
      /\ sessions[v].tableId = transactions[t].tableId
      /\ sessions[v].playerId = transactions[t].playerId
  <2>1. PICK tx : tx = transactions[t]
    OBVIOUS
  <2>2. VisitKnown(tx) /\ v \in DOMAIN sessions /\ sessions[v].tableId = tx.tableId
    BY <2>1 DEF LinkInv, CashOutsStand
  <2> QED
    BY <2>1, <2>2, VisitFields DEF VisitKnown
<1>2. PICK p, tb, st : p = sessions[v].playerId /\ tb = sessions[v].tableId /\ st = sessions[v].seat
  OBVIOUS
<1>3. p \in Players /\ tb \in Tables /\ v # None
  BY <1>1, <1>2, VisitFields
<1>4. /\ sessions'[v] = sessions[v] /\ SeatKey(tb, st) \notin ChangedKeys
      /\ <<"player", p>> \notin ChangedKeys /\ <<"table", tb>> \notin ChangedKeys
  BY <1>1, <1>2, <1>3, EntryKeysStill DEF SeatOf
<1>5. EnsureSeat(tb, st, v)' <=> EnsureSeat(tb, st, v)
  BY <1>3, <1>4, EnsureSeatStill
<1>6. EnsureSeat(sessions[v].tableId, sessions[v].seat, v)'
        <=> EnsureSeat(sessions[v].tableId, sessions[v].seat, v)
  BY <1>2, <1>4, <1>5 DEF EnsureSeat
<1>7. /\ \A w : w \in VisitsOf(p)' <=> w \in VisitsOf(p)
      /\ \A w \in VisitsOf(p) : sessions'[w] = sessions[w]
  BY <1>3, <1>4, PlayerStill
<1>8. NoLaterVisit(v) <=> \A w \in VisitsOf(p) : w # v => sessions[w].start < sessions[v].start
  BY <1>2 DEF NoLaterVisit
<1>9. NoLaterVisit(v)' <=> \A w \in VisitsOf(p)' : w # v => sessions'[w].start < sessions'[v].start
  BY <1>2, <1>4 DEF NoLaterVisit, VisitsOf
<1>10. NoLaterVisit(v)' <=> NoLaterVisit(v)
  BY <1>4, <1>7, <1>8, <1>9
<1> QED
  BY <1>6, <1>10 DEF GivesBack

LEMMA ReversalEntryStill ==
    ASSUME TypeInv, TypeInv', LinkInv, Grows, NEW t \in DOMAIN transactions,
           EntryKeys(t)' \cap ChangedKeys = {}, NEW q, NEW self, q.type = "Reversal",
           q.reversesId = t, q.sessionId = transactions[t].sessionId
    PROVE  ValidEntry(q, self)' <=> ValidEntry(q, self)
<1>1. PICK tx, v : tx = transactions[t] /\ v = q.sessionId
  OBVIOUS
<1>2. tx \in TxType
  BY <1>1, ElementOfSeq, LenProperties, RecordsTyped DEF TypesNow
<1>3. /\ transactions'[t] = tx /\ t # None /\ <<"reversal", t>> \notin ChangedKeys
      /\ tx.playerId \in Players => <<"player", tx.playerId>> \notin ChangedKeys
  BY <1>1, EntryKeysStill
<1>4. ReversalsOf(t)' = ReversalsOf(t)
  BY <1>3, ReversalStill
<1>5. tx.playerId \in Players \cup {None}
  BY <1>2 DEF TxType
<1>6. tx.playerId # None => /\ outstanding'[tx.playerId] = outstanding[tx.playerId]
                            /\ profiles'[tx.playerId] = profiles[tx.playerId]
                            /\ ReservedCredit(tx.playerId)' = ReservedCredit(tx.playerId)
  BY <1>3, <1>5, PlayerStill, CreditStill
<1>7. ReversalWithinLimit(tx)' <=> ReversalWithinLimit(tx)
  BY <1>6 DEF ReversalWithinLimit, IsCredit
<1>8. BuyInVisitOpen(v)' <=> BuyInVisitOpen(v)
  <2>1. CASE v = None
    <3>1. sessions \in Seq(VisitType) /\ sessions' \in Seq(VisitType)
      BY DEF TypeInv, TypeOK
    <3>2. None \notin DOMAIN sessions /\ None \notin DOMAIN sessions'
      BY <3>1, LenProperties, VenueAssumption
    <3> QED
      BY <2>1, <3>2 DEF BuyInVisitOpen, ActiveVisits
  <2>2. CASE v # None
    <3>1. VisitKnown(tx)
      BY <1>1 DEF LinkInv
    <3>2. v \in DOMAIN sessions
      BY <1>1, <2>2, <3>1 DEF VisitKnown
    <3>3. sessions'[v] = sessions[v]
      BY <1>1, <2>2, EntryKeysStill
    <3>4. v \in DOMAIN sessions'
      BY <3>2 DEF Grows
    <3> QED
      BY <3>2, <3>3, <3>4 DEF BuyInVisitOpen, ActiveVisits
  <2> QED
    BY <2>1, <2>2
<1>9. tx.type = "Cash-out" /\ ReversalsOf(t) = {} => (GivesBack(v)' <=> GivesBack(v))
  BY <1>1, GivesBackStill DEF Standing
<1>10. ReversalReads /\ ReversalReads'
  BY ReversalRead, PTL
<1>11. ValidReversal(q)' <=> ValidReversal(q)
  <2>1. ValidReversal(q) <=>
                /\ ReversalsOf(t) = {}
                /\ tx.playerId # None => outstanding[tx.playerId] - tx.creditDelta >= 0
                /\ ReversalWithinLimit(tx)
                /\ tx.type = "Buy-in" => BuyInVisitOpen(v)
                /\ tx.type = "Cash-out" => GivesBack(v)
    BY <1>1, <1>10 DEF ReversalReads
  <2>2. ValidReversal(q)' <=>
                /\ ReversalsOf(t)' = {}
                /\ tx.playerId # None => outstanding'[tx.playerId] - tx.creditDelta >= 0
                /\ ReversalWithinLimit(tx)'
                /\ tx.type = "Buy-in" => BuyInVisitOpen(v)'
                /\ tx.type = "Cash-out" => GivesBack(v)'
    BY <1>1, <1>3, <1>10 DEF ReversalReads
  <2> QED
    BY <1>4, <1>6, <1>7, <1>8, <1>9, <2>1, <2>2
<1> QED
  BY <1>11 DEF ValidEntry

\* The request a CORRECT makes of an entry.
ReversalOf(tx, t) == [tx EXCEPT !.type = "Reversal", !.reversesId = t]

CorrectReads ==
    \A c, t, tx, q :
        c.kind = "CORRECT" /\ t = c.entry /\ tx = transactions[t] /\ q = ReversalOf(tx, t)
        => Verdict(c) = Accepted(/\ DayIsOpen /\ tx.dayId = Today /\ tx.reversesId = None
                                 /\ NotBeingReversed(t) /\ ValidEntry(q, None), q)
LEMMA CorrectRead == CorrectReads
<1> SUFFICES ASSUME NEW c, c.kind = "CORRECT"
             PROVE  Verdict(c) = Accepted(/\ DayIsOpen /\ transactions[c.entry].dayId = Today
                                          /\ transactions[c.entry].reversesId = None
                                          /\ NotBeingReversed(c.entry)
                                          /\ ValidEntry(ReversalOf(transactions[c.entry], c.entry), None),
                                          ReversalOf(transactions[c.entry], c.entry))
  BY DEF CorrectReads
<1> QED
  BY DEF Verdict, ReversalOf

LEMMA CorrectStands ==
    ASSUME NEW c, Calm(c), LinkInv', c.kind = "CORRECT", c.entry \in DOMAIN transactions
    PROVE  Stands(c)
<1>0. TypeInv /\ TypeInv' /\ LinkInv /\ LinkInv' /\ Grows /\ Untouched(c)
  BY DEF Calm
<1>1. PICK t, tx : t = c.entry /\ tx = transactions[t]
  OBVIOUS
<1>2. tx \in TxType
  BY <1>0, <1>1, ElementOfSeq, LenProperties, RecordsTyped DEF TypesNow
<1>3. EntryKeys(t)' \cap ChangedKeys = {}
  BY <1>0, <1>1 DEF Untouched, Dependencies
<1>4. /\ EntryKeys(t)' = EntryKeys(t) /\ transactions'[t] = tx /\ t # None
      /\ <<"reversal", t>> \notin ChangedKeys
  BY <1>0, <1>1, <1>3, EntryKeysStill
<1>5. Dependencies(c)' = Dependencies(c)
  BY <1>1, <1>4 DEF Dependencies
<1>6. PICK q : q = ReversalOf(tx, t)
  OBVIOUS
<1>7. ValidEntry(q, None)' <=> ValidEntry(q, None)
  <2>1. q.type = "Reversal" /\ q.reversesId = t /\ q.sessionId = transactions[t].sessionId
    BY <1>1, <1>2, <1>6 DEF TxType, ReversalOf
  <2> QED
    BY <1>0, <1>1, <1>3, <2>1, ReversalEntryStill
<1>8. /\ DayIsOpen' <=> DayIsOpen
      /\ Today' = Today
      /\ NotBeingReversed(t)' <=> NotBeingReversed(t)
  BY <1>0, <1>4, DayUntouched, ReversalStill
<1>9. CorrectReads'
  BY CorrectRead, PTL
<1>10. Verdict(c) = Accepted(/\ DayIsOpen /\ tx.dayId = Today /\ tx.reversesId = None
                             /\ NotBeingReversed(t) /\ ValidEntry(q, None), q)
  BY <1>1, <1>6, CorrectRead DEF CorrectReads
<1>11. Verdict(c)' = Accepted(/\ DayIsOpen /\ tx.dayId = Today /\ tx.reversesId = None
                              /\ NotBeingReversed(t) /\ ValidEntry(q, None), q)'
  BY <1>1, <1>4, <1>6, <1>9 DEF CorrectReads
<1>12. Verdict(c)' = Verdict(c)
  BY <1>7, <1>8, <1>10, <1>11 DEF Accepted, Refused
<1> QED
  BY <1>5, <1>12 DEF Stands

RequestKeysRead ==
    \A r, q : q = approvals[r] =>
        RequestKeys(r) = {Settings, <<"approval", r>>}
                         \cup PlayerKey(q.playerId) \cup TableKey(q.tableId)
                         \cup (IF q.reversesId = None THEN {} ELSE EntryKeys(q.reversesId))
LEMMA RequestKeysAre == RequestKeysRead
BY DEF RequestKeysRead, RequestKeys

\* The keys of a request are the same as before, and vouch for what it names.
LEMMA RequestKeysStill ==
    ASSUME TypeInv, TypeInv', LinkInv, Grows, NEW r \in DOMAIN approvals,
           RequestKeys(r)' \cap ChangedKeys = {}
    PROVE  /\ RequestKeys(r)' = RequestKeys(r)
           /\ approvals'[r] = approvals[r]
           /\ approvals[r].playerId \in Players => <<"player", approvals[r].playerId>> \notin ChangedKeys
           /\ approvals[r].tableId \in Tables => <<"table", approvals[r].tableId>> \notin ChangedKeys
           /\ approvals[r].reversesId # None => EntryKeys(approvals[r].reversesId)' \cap ChangedKeys = {}
<1>1. PICK q : q = approvals[r]
  OBVIOUS
<1>2. <<"approval", r>> \notin ChangedKeys
  BY DEF RequestKeys
<1>3. approvals'[r] = q
  BY <1>1, <1>2, RequestStill
<1>4. RequestKeysRead'
  BY RequestKeysAre, PTL
<1>5. RequestKeys(r)' = {Settings, <<"approval", r>>}
                        \cup PlayerKey(q.playerId) \cup TableKey(q.tableId)
                        \cup (IF q.reversesId = None THEN {} ELSE EntryKeys(q.reversesId)')
  BY <1>3, <1>4 DEF RequestKeysRead
<1>6. RequestKeys(r) = {Settings, <<"approval", r>>}
                       \cup PlayerKey(q.playerId) \cup TableKey(q.tableId)
                       \cup (IF q.reversesId = None THEN {} ELSE EntryKeys(q.reversesId))
  BY <1>1, RequestKeysAre DEF RequestKeysRead
<1>7. /\ q.playerId \in Players => <<"player", q.playerId>> \notin ChangedKeys
      /\ q.tableId \in Tables => <<"table", q.tableId>> \notin ChangedKeys
      /\ q.reversesId # None => EntryKeys(q.reversesId)' \cap ChangedKeys = {}
  BY <1>5, VenueAssumption DEF PlayerKey, TableKey
<1>8. q.reversesId # None => EntryKeys(q.reversesId)' = EntryKeys(q.reversesId)
  <2>1. q.reversesId # None => q.reversesId \in DOMAIN transactions
    BY <1>1 DEF TypeInv, Linked, ReversalLinked
  <2> QED
    BY <1>7, <2>1, EntryKeysStill
<1> QED
  BY <1>1, <1>3, <1>5, <1>6, <1>7, <1>8

\* What posting a request would write, from its player's balance or the entry it reverses.
EntryOf(r, q, impact) ==
    [dayId |-> q.dayId, type |-> q.type, amount |-> impact.amount,
     playerId |-> q.playerId, sessionId |-> q.sessionId, tableId |-> q.tableId,
     cashReceived |-> impact.cashReceived, cashPayout |-> impact.cashPayout,
     creditDelta |-> impact.creditDelta, approvalId |-> r, reversesId |-> q.reversesId]

PostingReads ==
    \A r, q : q = approvals[r] =>
        /\ \A tx : q.type = "Reversal" /\ tx = transactions[q.reversesId] =>
              Posting(r) = EntryOf(r, q, ReversalImpact(tx))
        /\ \A credit \in BOOLEAN : \A owed :
              /\ q.type # "Reversal" /\ (credit <=> IsCredit(q.playerId))
              /\ owed = (IF q.playerId = None THEN 0 ELSE outstanding[q.playerId])
              => Posting(r) = EntryOf(r, q, EntryImpact(q.type, q.amount, credit, owed))
LEMMA PostingRead == PostingReads
<1> SUFFICES ASSUME NEW r, NEW q, q = approvals[r]
             PROVE  /\ \A tx : q.type = "Reversal" /\ tx = transactions[q.reversesId] =>
                          Posting(r) = EntryOf(r, q, ReversalImpact(tx))
                    /\ \A credit \in BOOLEAN : \A owed :
                          /\ q.type # "Reversal" /\ (credit <=> IsCredit(q.playerId))
                          /\ owed = (IF q.playerId = None THEN 0 ELSE outstanding[q.playerId])
                          => Posting(r) = EntryOf(r, q, EntryImpact(q.type, q.amount, credit, owed))
  BY DEF PostingReads
<1>1. ASSUME NEW tx, q.type = "Reversal", tx = transactions[q.reversesId]
      PROVE  Posting(r) = EntryOf(r, q, ReversalImpact(tx))
  BY <1>1 DEF Posting, EntryOf
<1>2. ASSUME NEW credit \in BOOLEAN, NEW owed, q.type # "Reversal", credit <=> IsCredit(q.playerId),
             owed = (IF q.playerId = None THEN 0 ELSE outstanding[q.playerId])
      PROVE  Posting(r) = EntryOf(r, q, EntryImpact(q.type, q.amount, credit, owed))
  <2>1. IsCredit(q.playerId) = credit
    BY <1>2 DEF IsCredit
  <2>2. EntryImpact(q.type, q.amount, IsCredit(q.playerId),
                    IF q.playerId = None THEN 0 ELSE outstanding[q.playerId])
          = EntryImpact(q.type, q.amount, credit, owed)
    BY <1>2, <2>1
  <2> QED
    BY <1>2, <2>2 DEF Posting, EntryOf
<1> QED
  BY <1>1, <1>2

LEMMA PostingStill ==
    ASSUME TypeInv, Grows, NEW r \in DOMAIN approvals, approvals'[r] = approvals[r],
           approvals[r].playerId \in Players => <<"player", approvals[r].playerId>> \notin ChangedKeys
    PROVE  Posting(r)' = Posting(r)
<1>1. PICK q : q = approvals[r]
  OBVIOUS
<1>2. q \in RequestType /\ ReversalLinked(q)
  BY <1>1, ElementOfSeq, LenProperties DEF TypeInv, TypeOK, Linked
<1>3. PostingReads'
  BY PostingRead, PTL
<1>4. CASE q.type = "Reversal"
  <2>1. PICK tx : tx = transactions[q.reversesId]
    OBVIOUS
  <2>2. q.reversesId \in DOMAIN transactions
    BY <1>2, <1>4, VenueAssumption DEF ReversalLinked
  <2>3. transactions'[q.reversesId] = tx
    BY <2>1, <2>2 DEF Grows
  <2>4. Posting(r) = EntryOf(r, q, ReversalImpact(tx))
    BY <1>1, <1>4, <2>1, PostingRead DEF PostingReads
  <2>5. Posting(r)' = EntryOf(r, q, ReversalImpact(tx))
    BY <1>1, <1>3, <1>4, <2>3 DEF PostingReads
  <2> QED
    BY <2>4, <2>5
<1>5. CASE q.type # "Reversal"
  <2>1. PICK credit \in BOOLEAN : credit <=> IsCredit(q.playerId)
    <3>1. IsCredit(q.playerId) \in BOOLEAN
      BY DEF IsCredit
    <3> QED
      BY <3>1
  <2>2. PICK owed : owed = (IF q.playerId = None THEN 0 ELSE outstanding[q.playerId])
    OBVIOUS
  <2>3. q.playerId \in Players \cup {None}
    BY <1>2 DEF RequestType
  <2>4. credit <=> IsCredit(q.playerId)'
    <3>1. CASE q.playerId \in Players
      BY <1>1, <2>1, <3>1, CreditStill
    <3>2. CASE q.playerId = None
      BY <2>1, <3>2 DEF IsCredit
    <3> QED
      BY <2>3, <3>1, <3>2
  <2>5. owed = (IF q.playerId = None THEN 0 ELSE outstanding'[q.playerId])
    BY <1>1, <2>2, <2>3, PlayerStill
  <2>6. Posting(r) = EntryOf(r, q, EntryImpact(q.type, q.amount, credit, owed))
    BY <1>1, <1>5, <2>1, <2>2, PostingRead DEF PostingReads
  <2>7. Posting(r)' = EntryOf(r, q, EntryImpact(q.type, q.amount, credit, owed))
    BY <1>1, <1>3, <1>5, <2>4, <2>5 DEF PostingReads
  <2> QED
    BY <2>6, <2>7
<1> QED
  BY <1>4, <1>5

DecideReads ==
    \A c, r, q, tx :
        c.kind = "DECIDE" /\ r = c.request /\ q = approvals[r] /\ tx = Posting(r)
        => Verdict(c) = Accepted(DayIsOpen /\ CanApprove(c.by, q) /\ ValidEntry(q, r), <<q, tx>>)
LEMMA DecideRead == DecideReads
<1> SUFFICES ASSUME NEW c, c.kind = "DECIDE"
             PROVE  Verdict(c) = Accepted(DayIsOpen /\ CanApprove(c.by, approvals[c.request])
                                            /\ ValidEntry(approvals[c.request], c.request),
                                          <<approvals[c.request], Posting(c.request)>>)
  BY DEF DecideReads
<1> QED
  BY DEF Verdict

LEMMA DecideStands ==
    ASSUME NEW c, Calm(c), LinkInv', c.kind = "DECIDE", c.request \in DOMAIN approvals
    PROVE  Stands(c)
<1>0. TypeInv /\ TypeInv' /\ LinkInv /\ LinkInv' /\ Grows /\ Untouched(c)
  BY DEF Calm
<1>1. PICK r, q, tx : r = c.request /\ q = approvals[r] /\ tx = Posting(r)
  OBVIOUS
<1>2. q \in RequestType /\ ReversalLinked(q) /\ VisitKnown(q) /\ ReversalMatches(q)
  <2>1. q \in RequestType
    BY <1>0, <1>1, ElementOfSeq, LenProperties, RecordsTyped DEF TypesNow
  <2>2. ReversalLinked(q)
    BY <1>0, <1>1 DEF TypeInv, Linked
  <2> QED
    BY <1>0, <1>1, <2>1, <2>2 DEF LinkInv, ReversalsMatch
<1>3. RequestKeys(r)' \cap ChangedKeys = {}
  BY <1>0, <1>1 DEF Untouched, Dependencies
<1>4. /\ RequestKeys(r)' = RequestKeys(r) /\ approvals'[r] = q
      /\ q.playerId \in Players => <<"player", q.playerId>> \notin ChangedKeys
      /\ q.tableId \in Tables => <<"table", q.tableId>> \notin ChangedKeys
      /\ q.reversesId # None => EntryKeys(q.reversesId)' \cap ChangedKeys = {}
  BY <1>0, <1>1, <1>3, RequestKeysStill
<1>5. Dependencies(c)' = Dependencies(c)
  BY <1>1, <1>4 DEF Dependencies
<1>6. ValidEntry(q, r)' <=> ValidEntry(q, r)
  <2>1. CASE q.type = "Reversal"
    <3>1. /\ q.reversesId # None /\ q.reversesId \in DOMAIN transactions
          /\ q.sessionId = transactions[q.reversesId].sessionId
      BY <1>2, <2>1 DEF ReversalLinked, ReversalMatches
    <3> QED
      BY <1>0, <1>4, <2>1, <3>1, ReversalEntryStill
  <2>2. CASE q.type # "Reversal"
    <3>1. q.playerId \in Players \cup {None} /\ q.tableId \in Tables \cup {None}
      BY <1>2 DEF RequestType
    <3> QED
      BY <1>0, <1>2, <1>4, <2>2, <3>1, PlainEntryStill
  <2> QED
    BY <2>1, <2>2
<1>7. Posting(r)' = tx
  BY <1>0, <1>1, <1>4, PostingStill
<1>8. DayIsOpen' <=> DayIsOpen
  BY <1>0, DayUntouched
<1>9. DecideReads'
  BY DecideRead, PTL
<1>10. Verdict(c) = Accepted(DayIsOpen /\ CanApprove(c.by, q) /\ ValidEntry(q, r), <<q, tx>>)
  BY <1>1, DecideRead DEF DecideReads
<1>11. Verdict(c)' = Accepted(DayIsOpen /\ CanApprove(c.by, q) /\ ValidEntry(q, r), <<q, tx>>)'
  BY <1>1, <1>4, <1>7, <1>9 DEF DecideReads
<1>12. Verdict(c)' = Verdict(c)
  BY <1>6, <1>8, <1>10, <1>11 DEF Accepted, Refused, CanApprove
<1> QED
  BY <1>5, <1>12 DEF Stands

-----------------------------------------------------------------------------
(* Administration and business days.                                       *)

LEMMA TableCommandStands ==
    ASSUME NEW c, Calm(c), c.kind = "TABLE", c.table \in Tables
    PROVE  Stands(c)
<1>1. Settings \notin ChangedKeys /\ <<"table", c.table>> \notin ChangedKeys
  BY KeyOfTable DEF Calm, Untouched, Dependencies
<1>2. settings' = settings /\ tables'[c.table] = tables[c.table]
  BY <1>1, SettingsStill, TableStill
<1>3. PICK rules : rules = settings.rules
  OBVIOUS
<1>4. Verdict(c) = Accepted(TableRulesOK(rules, c.rules), tables[c.table])
  BY <1>3 DEF Verdict
<1>5. Verdict(c)' = Accepted(TableRulesOK(settings'.rules, c.rules), tables'[c.table])
  BY DEF Verdict, Accepted, TableRulesOK, RulesConsistent, EffectiveRules
<1>6. Verdict(c)' = Verdict(c)
  BY <1>2, <1>3, <1>4, <1>5
<1>7. Dependencies(c)' = Dependencies(c)
  BY DEF Dependencies
<1> QED
  BY <1>6, <1>7 DEF Stands

LEMMA CreateTableStands ==
    ASSUME NEW c, Calm(c), c.kind = "CREATE_TABLE", c.status = "OPEN"
    PROVE  Stands(c)
<1>1. Settings \notin ChangedKeys
  BY DEF Calm, Untouched, Dependencies
<1>2. settings' = settings
  BY <1>1, SettingsStill
<1>3. PICK rules : rules = settings.rules
  OBVIOUS
<1>4. Verdict(c) = Accepted(TableRulesOK(rules, c.rules), {})
  BY <1>3 DEF Verdict, Accepted
<1>5. Verdict(c)' = Accepted(TableRulesOK(settings'.rules, c.rules), {})
  BY DEF Verdict, Accepted, TableRulesOK, RulesConsistent, EffectiveRules
<1>6. Verdict(c)' = Verdict(c)
  BY <1>2, <1>3, <1>4, <1>5
<1>7. Dependencies(c)' = Dependencies(c)
  BY DEF Dependencies
<1> QED
  BY <1>6, <1>7 DEF Stands

LEMMA ProfileStands ==
    ASSUME NEW c, Calm(c), c.kind = "UPDATE_PROFILE", c.player \in Players
    PROVE  Stands(c)
<1>1. <<"player", c.player>> \notin ChangedKeys
  BY KeyOfPlayer DEF Calm, Untouched, Dependencies
<1>2. /\ profiles'[c.player] = profiles[c.player] /\ outstanding'[c.player] = outstanding[c.player]
      /\ ReservedCredit(c.player)' = ReservedCredit(c.player)
      /\ IsCredit(c.player)' <=> IsCredit(c.player)
  BY <1>1, PlayerStill, CreditStill DEF Calm
<1>3. LimitCovers(c.player, c.limit)' <=> LimitCovers(c.player, c.limit)
  BY <1>2 DEF LimitCovers
<1>4. Verdict(c)' = Verdict(c)
  BY <1>2, <1>3 DEF Verdict, Accepted, Refused
<1>5. Dependencies(c)' = Dependencies(c)
  BY DEF Dependencies
<1> QED
  BY <1>4, <1>5 DEF Stands

LEMMA DayStands ==
    ASSUME NEW c, Calm(c), c.kind \in {"CLOSE_DAY", "OPEN_DAY", "REOPEN_DAY"}
    PROVE  Stands(c)
<1>0. Grows /\ Untouched(c)
  BY DEF Calm
<1>1. days' = days /\ Today' = Today /\ (DayIsOpen' <=> DayIsOpen)
  BY <1>0, DayUntouched
<1>2. Dependencies(c)' = Dependencies(c)
  BY DEF Dependencies
<1>3. CASE c.kind = "CLOSE_DAY"
  <2>1. Activity \notin ChangedKeys
    BY <1>0, <1>3 DEF Untouched, Dependencies
  <2>2. DaySettled' <=> DaySettled
    BY <1>0, <2>1, ActivityStill DEF DaySettled, ActiveVisits, PendingRequests
  <2>3. dayCash' = dayCash
    BY <1>0, <1>1, <2>1, ActivityStill DEF Grows
  <2>4. PICK d : d = Today
    OBVIOUS
  <2>5. ExpectedCash(d)' = ExpectedCash(d)
    BY <1>1, <2>3 DEF ExpectedCash
  <2>6. ExpectedCash(Today)' = ExpectedCash(Today)
    BY <1>1, <2>4, <2>5 DEF ExpectedCash
  <2>7. Verdict(c)' = Verdict(c)
    BY <1>1, <1>3, <2>2, <2>6 DEF Verdict, Accepted, Refused
  <2> QED
    BY <1>2, <2>7 DEF Stands
<1>4. CASE c.kind = "OPEN_DAY"
  <2>1. settings' = settings
    BY <1>0, <1>4, SettingsStill DEF Untouched, Dependencies
  <2>2. Verdict(c)' = Verdict(c)
    BY <1>1, <1>4, <2>1 DEF Verdict, Accepted, Refused
  <2> QED
    BY <1>2, <2>2 DEF Stands
<1>5. CASE c.kind = "REOPEN_DAY"
  <2>1. Verdict(c)' = Verdict(c)
    BY <1>1, <1>5 DEF Verdict, Accepted, Refused
  <2> QED
    BY <1>2, <2>1 DEF Stands
<1> QED
  BY <1>3, <1>4, <1>5

\* Any change at all counts against completing the setup.
LEMMA SetupUntouched ==
    ASSUME NEW c, c.kind = "COMPLETE_SETUP"
    PROVE  ~Untouched(c)
BY DEF Untouched, Dependencies, ChangedKeys

-----------------------------------------------------------------------------

LEMMA CommandStands ==
    ASSUME TypeInv, TypeInv', LinkInv, LinkInv', Grows, NEW c \in Prepared, Untouched(c)
    PROVE  Stands(c)
<1>1. Calm(c)
  BY DEF Calm
<1>2. CASE c.kind \in {"CLOSE_DAY", "REOPEN_DAY", "OPEN_DAY", "COMPLETE_SETUP"}
  BY <1>1, <1>2, DayStands, SetupUntouched
<1>3. CASE c.kind = "CHECK_IN" /\ c.player \in Players /\ c.table \in Tables
  BY <1>1, <1>3, CheckInStands
<1>4. CASE c.kind = "MOVE" /\ c.visit \in ActiveVisits /\ c.table \in Tables
  BY <1>1, <1>4, MoveStands
<1>5. CASE c.kind = "SWAP_SEATS" /\ c.visit \in ActiveVisits /\ c.other \in DOMAIN sessions
  BY <1>1, <1>5, SwapStands
<1>6. CASE c.kind = "REQUEST" /\ c.visit \in ActiveVisits /\ c.type \in SessionEntries
  BY <1>1, <1>6, RequestStands
<1>7. CASE /\ c.kind = "ENTRY" /\ c.type \in EntryTypes \ SessionEntries
           /\ c.player \in Players \cup {None} /\ c.table \in Tables \cup {None}
  BY <1>1, <1>7, EntryStands
<1>8. CASE c.kind = "CORRECT" /\ c.entry \in DOMAIN transactions
  BY <1>1, <1>8, CorrectStands
<1>9. CASE c.kind = "DECIDE" /\ c.request \in DOMAIN approvals
  BY <1>1, <1>9, DecideStands
<1>10. CASE c.kind = "TABLE" /\ c.table \in Tables
  BY <1>1, <1>10, TableCommandStands
<1>11. CASE c.kind = "UPDATE_PROFILE" /\ c.player \in Players
  BY <1>1, <1>11, ProfileStands
<1>12. CASE c.kind = "CREATE_TABLE" /\ c.status = "OPEN"
  BY <1>1, <1>12, CreateTableStands
<1> QED
  BY <1>2, <1>3, <1>4, <1>5, <1>6, <1>7, <1>8, <1>9, <1>10, <1>11, <1>12, PreparedIs

LEMMA NextReview ==
    ASSUME TypeInv, TypeInv', LinkInv, LinkInv', [Next]_vars
    PROVE  ReviewStep
<1>1. Grows
  BY NextGrows
<1> SUFFICES ASSUME NEW c \in Prepared, Dependencies(c)' \cap ChangedKeys = {}
             PROVE  Dependencies(c)' = Dependencies(c) /\ Verdict(c)' = Verdict(c)
  BY DEF ReviewStep
<1>2. Stands(c)
  BY <1>1, CommandStands DEF Untouched
<1> QED
  BY <1>2 DEF Stands

\* Reviews (ReviewStands): a command whose keys nobody has changed is decided as
\* if nothing had happened since its author looked - it depends on the same
\* keys, is accepted or refused as before, and does what it would have done
\* (command-concurrency.ts, repository.ts:121-140).
THEOREM UntouchedReviewStands == Spec => ReviewStands
<1>1. TypeInv /\ TypeInv' /\ LinkInv /\ LinkInv' /\ [Next]_vars => [ReviewStep]_vars
  BY NextReview
<1> QED
  BY <1>1, TypeInvAlways, LinkInvAlways, PTL DEF Spec, ReviewStands

-----------------------------------------------------------------------------
(* Second part: the rows that are read for a command decide it.            *)
(*                                                                         *)
(* A least and a greatest element, by well-founded induction on <.         *)

\* The smaller of two naturals; there is a least one in every set of them.
Less == {ss \in Nat \X Nat : ss[1] < ss[2]}
LEMMA LessIsWellFounded == IsWellFoundedOn(Less, Nat)
BY NatLessThanWellFounded DEF OpToRel, Less

LEMMA LeastOf ==
    ASSUME NEW S \in SUBSET Nat, S # {}
    PROVE  \E m \in S : \A n \in S : m <= n
<1>1. PICK m \in S : \A n \in S : ~(<<n, m>> \in Less)
  BY LessIsWellFounded, WFMin
<1>2. ASSUME NEW n \in S, n < m
      PROVE  <<n, m>> \in Less
  BY <1>2 DEF Less
<1>3. \A n \in S : ~(n < m)
  BY <1>1, <1>2
<1> QED
  BY <1>3

\* In a finite set something has the largest value: otherwise so would a smaller set.
LEMMA GreatestOf ==
    ASSUME NEW S, IsFiniteSet(S), S # {}, NEW F, \A x \in S : F[x] \in Int
    PROVE  \E m \in S : \A x \in S : F[x] <= F[m]
<1> DEFINE HasNone(A) == ~\E m \in A : \A x \in A : F[x] <= F[m]
           Sizes == {n \in Nat : \E A \in SUBSET S : A # {} /\ Cardinality(A) = n /\ HasNone(A)}
<1> SUFFICES ASSUME HasNone(S) PROVE FALSE
  OBVIOUS
<1>1. Cardinality(S) \in Sizes
  <2>1. Cardinality(S) \in Nat
    BY FS_CardinalityType
  <2> QED
    BY <2>1
<1>2. PICK n \in Sizes : \A k \in Sizes : n <= k
  BY <1>1, LeastOf
<1>3. PICK A \in SUBSET S : A # {} /\ Cardinality(A) = n /\ HasNone(A)
  OBVIOUS
<1>4. PICK a \in A : TRUE
  BY <1>3
<1>5. A \ {a} # {}
  BY <1>3, <1>4
<1>6. IsFiniteSet(A) /\ Cardinality(A \ {a}) = n - 1 /\ n \in Nat
  BY <1>3, <1>4, FS_Subset, FS_RemoveElement
<1>7. ~HasNone(A \ {a})
  <2>1. n - 1 \notin Sizes
    BY <1>2, <1>6
  <2>2. n - 1 \in Nat
    BY <1>6, FS_CardinalityType, FS_Subset, FS_RemoveElement
  <2> QED
    BY <1>3, <1>5, <1>6, <2>1, <2>2
<1>8. PICK m \in A \ {a} : \A x \in A \ {a} : F[x] <= F[m]
  BY <1>7
<1>9. F[m] \in Int /\ F[a] \in Int /\ \A x \in A : F[x] \in Int
  BY <1>3, <1>4, <1>8
<1>10. CASE F[a] <= F[m]
  BY <1>3, <1>8, <1>10
<1>11. CASE ~(F[a] <= F[m])
  BY <1>3, <1>4, <1>8, <1>9, <1>11
<1> QED
  BY <1>10, <1>11

-----------------------------------------------------------------------------
(* What a command sees of the records.                                     *)

LEMMA VisitsSeen ==
    ASSUME NEW c
    PROVE  /\ \A v \in ScopedVisits(c) \cap DOMAIN sessions : SeenVisits(c)[v] = sessions[v]
           /\ \A v : v \in Scoped(c)!ActiveVisits <=> v \in ActiveVisits /\ v \in ScopedVisits(c)
           /\ \A p \in Players : \A v :
                 v \in Scoped(c)!VisitsOf(p) <=> v \in VisitsOf(p) /\ v \in ScopedVisits(c)
<1>1. /\ DOMAIN SeenVisits(c) = DOMAIN sessions
      /\ \A v \in DOMAIN sessions :
            SeenVisits(c)[v] = IF v \in ScopedVisits(c) THEN sessions[v] ELSE NoVisit
  BY DEF SeenVisits
<1>2. NoVisit.status = "OUT" /\ NoVisit.playerId = None
  BY DEF NoVisit
<1>3. \A v : v \in Scoped(c)!ActiveVisits <=> v \in ActiveVisits /\ v \in ScopedVisits(c)
  BY <1>1, <1>2 DEF Scoped!ActiveVisits, ActiveVisits
<1>4. None \notin Players
  BY VenueAssumption
<1>5. \A p \in Players : \A v : v \in Scoped(c)!VisitsOf(p) <=> v \in VisitsOf(p) /\ v \in ScopedVisits(c)
  BY <1>1, <1>2, <1>4 DEF Scoped!VisitsOf, VisitsOf
<1> QED
  BY <1>1, <1>3, <1>5

\* A request is seen whole, or as a buy-in that reserves credit, or not at all.
LEMMA RequestsSeen ==
    ASSUME NEW c
    PROVE  /\ \A r \in ScopedRequests(c) \cap DOMAIN approvals : SeenRequests(c)[r] = approvals[r]
           /\ \A r \in DOMAIN approvals \ ScopedRequests(c) :
                 /\ SeenRequests(c)[r].sessionId = None /\ SeenRequests(c)[r].tableId = None
                 /\ SeenRequests(c)[r].reversesId = None
                 /\ Summed(c, r) =>
                       /\ SeenRequests(c)[r].status = "PENDING"
                       /\ SeenRequests(c)[r].type = "Buy-in"
                       /\ SeenRequests(c)[r].playerId = approvals[r].playerId
                       /\ SeenRequests(c)[r].amount = approvals[r].amount
                 /\ ~Summed(c, r) => SeenRequests(c)[r].status = "REJECTED"
           /\ \A r : r \in Scoped(c)!PendingRequests
                       <=> r \in PendingRequests /\ (r \in ScopedRequests(c) \/ Summed(c, r))
<1>1. /\ DOMAIN SeenRequests(c) = DOMAIN approvals
      /\ \A r \in DOMAIN approvals : SeenRequests(c)[r] = RequestSeen(c, r)
  BY DEF SeenRequests
<1>2. \A r \in ScopedRequests(c) \cap DOMAIN approvals : SeenRequests(c)[r] = approvals[r]
  BY <1>1 DEF RequestSeen
<1>3. \A r \in DOMAIN approvals \ ScopedRequests(c) :
         SeenRequests(c)[r] =
            IF Summed(c, r)
            THEN [NoRequest EXCEPT !.status = "PENDING", !.type = "Buy-in",
                                   !.playerId = approvals[r].playerId, !.amount = approvals[r].amount]
            ELSE NoRequest
  BY <1>1 DEF RequestSeen
<1>4. \A r \in DOMAIN approvals \ ScopedRequests(c) :
         /\ SeenRequests(c)[r].sessionId = None /\ SeenRequests(c)[r].tableId = None
         /\ SeenRequests(c)[r].reversesId = None
         /\ Summed(c, r) =>
               /\ SeenRequests(c)[r].status = "PENDING"
               /\ SeenRequests(c)[r].type = "Buy-in"
               /\ SeenRequests(c)[r].playerId = approvals[r].playerId
               /\ SeenRequests(c)[r].amount = approvals[r].amount
         /\ ~Summed(c, r) => SeenRequests(c)[r].status = "REJECTED"
  <2>1. \A p, n :
           LET e == [NoRequest EXCEPT !.status = "PENDING", !.type = "Buy-in",
                                      !.playerId = p, !.amount = n]
           IN  /\ e.sessionId = None /\ e.tableId = None /\ e.reversesId = None
               /\ e.status = "PENDING" /\ e.type = "Buy-in" /\ e.playerId = p /\ e.amount = n
    BY DEF NoRequest
  <2>2. /\ NoRequest.sessionId = None /\ NoRequest.tableId = None
        /\ NoRequest.reversesId = None /\ NoRequest.status = "REJECTED"
    BY DEF NoRequest
  <2>3. ASSUME NEW r \in DOMAIN approvals \ ScopedRequests(c), Summed(c, r)
        PROVE  /\ SeenRequests(c)[r].sessionId = None /\ SeenRequests(c)[r].tableId = None
               /\ SeenRequests(c)[r].reversesId = None
               /\ SeenRequests(c)[r].status = "PENDING"
               /\ SeenRequests(c)[r].type = "Buy-in"
               /\ SeenRequests(c)[r].playerId = approvals[r].playerId
               /\ SeenRequests(c)[r].amount = approvals[r].amount
    <3>1. SeenRequests(c)[r] = [NoRequest EXCEPT !.status = "PENDING", !.type = "Buy-in",
                                   !.playerId = approvals[r].playerId, !.amount = approvals[r].amount]
      BY <1>3, <2>3
    <3>2. PICK p, n : p = approvals[r].playerId /\ n = approvals[r].amount
      OBVIOUS
    <3>3. PICK e : e = [NoRequest EXCEPT !.status = "PENDING", !.type = "Buy-in",
                                         !.playerId = p, !.amount = n]
      OBVIOUS
    <3>4. /\ e.sessionId = None /\ e.tableId = None /\ e.reversesId = None
          /\ e.status = "PENDING" /\ e.type = "Buy-in" /\ e.playerId = p /\ e.amount = n
      BY <2>1, <3>3
    <3>5. SeenRequests(c)[r] = e
      BY <3>1, <3>2, <3>3
    <3> QED
      BY <3>2, <3>4, <3>5
  <2>4. ASSUME NEW r \in DOMAIN approvals \ ScopedRequests(c), ~Summed(c, r)
        PROVE  SeenRequests(c)[r] = NoRequest
    BY <1>3, <2>4
  <2> QED
    BY <2>2, <2>3, <2>4
<1>5. \A r : Summed(c, r) => r \in PendingRequests
  BY DEF Summed
<1>6. \A r : r \in Scoped(c)!PendingRequests
               <=> r \in PendingRequests /\ (r \in ScopedRequests(c) \/ Summed(c, r))
  BY <1>1, <1>2, <1>4, <1>5 DEF Scoped!PendingRequests, PendingRequests
<1> QED
  BY <1>2, <1>4, <1>6

\* If anything stands in the way, something that is read does.
LEMMA BlockersSeen ==
    ASSUME TypeInv, NEW c
    PROVE  /\ Blockers(c) \subseteq PendingRequests
           /\ Blockers(c) # {} => \E r \in Blockers(c) : r \in ScopedRequests(c)
<1>1. Blockers(c) \subseteq PendingRequests
  BY DEF Blockers, PendingFor
<1>2. PICK S : S = Blockers(c)
  OBVIOUS
<1>3. /\ S \subseteq DOMAIN approvals /\ IsFiniteSet(DOMAIN approvals)
      /\ \A r \in S : r \in Nat
  <2>1. approvals \in Seq(RequestType)
    BY RecordsTyped DEF TypesNow
  <2>2. DOMAIN approvals = 1 .. Len(approvals) /\ Len(approvals) \in Nat
    BY <2>1, LenProperties
  <2>3. IsFiniteSet(1 .. Len(approvals))
    BY <2>2, FS_Interval
  <2> QED
    BY <1>1, <1>2, <2>2, <2>3 DEF PendingRequests
<1>4. CASE S # {}
  <2>1. PICK F : F = [r \in S |-> r]
    OBVIOUS
  <2>2. \A r \in S : F[r] \in Int
    BY <1>3, <2>1
  <2>3. PICK m \in S : \A r \in S : F[r] <= F[m]
    BY <1>3, <1>4, <2>2, FS_Subset, GreatestOf
  <2>4. \A r \in S : r <= m
    BY <2>1, <2>3
  <2> QED
    BY <1>1, <1>2, <2>4 DEF ScopedRequests
<1> QED
  BY <1>1, <1>2, <1>4

LEMMA EntriesSeen ==
    ASSUME NEW c
    PROVE  /\ \A t \in ScopedEntries(c) : SeenEntries(c)[t] = transactions[t]
           /\ \A t \in Originals(c) \cap DOMAIN transactions : SeenEntries(c)[t] = transactions[t]
           /\ \A t \in Originals(c) : t # None => Scoped(c)!ReversalsOf(t) = ReversalsOf(t)
<1>1. /\ DOMAIN SeenEntries(c) = DOMAIN transactions
      /\ \A t \in DOMAIN transactions :
            SeenEntries(c)[t] = IF t \in ScopedEntries(c) THEN transactions[t] ELSE NoEntry
  BY DEF SeenEntries
<1>2. \A t \in ScopedEntries(c) : t \in DOMAIN transactions
  BY DEF ScopedEntries
<1>3. \A t \in Originals(c) \cap DOMAIN transactions : t \in ScopedEntries(c)
  BY DEF ScopedEntries
<1>4. \A t \in Originals(c) : t # None => Scoped(c)!ReversalsOf(t) = ReversalsOf(t)
  <2>1. NoEntry.reversesId = None
    BY DEF NoEntry
  <2> QED
    BY <1>1, <2>1 DEF Scoped!ReversalsOf, ReversalsOf, ScopedEntries
<1> QED
  BY <1>1, <1>2, <1>3, <1>4

\* The instance brings a copy of the standard operator along.
LEMMA CountSeen == ASSUME NEW c, NEW S PROVE Scoped(c)!Cardinality(S) = Cardinality(S)
BY DEF Scoped!Cardinality, Cardinality

\* A player whose profile is read.
LEMMA PlayerSeen ==
    ASSUME NEW c, NEW p \in Players, p \in ScopedPlayers(c)
    PROVE  /\ SeenProfiles(c)[p] = profiles[p] /\ SeenDebts(c)[p] = outstanding[p]
           /\ Scoped(c)!IsCredit(p) <=> IsCredit(p)
           /\ c.kind # "SWAP_SEATS" => Scoped(c)!ReservedCredit(p) = ReservedCredit(p)
<1>1. SeenProfiles(c)[p] = profiles[p] /\ SeenDebts(c)[p] = outstanding[p]
  BY DEF SeenProfiles, SeenDebts
<1>2. Scoped(c)!IsCredit(p) <=> IsCredit(p)
  BY <1>1 DEF Scoped!IsCredit, IsCredit
<1>3. ASSUME c.kind # "SWAP_SEATS"
      PROVE  Scoped(c)!ReservedCredit(p) = ReservedCredit(p)
  <2>1. \A r : r \in PendingBuyIns(p) => r \in PendingRequests /\ Summed(c, r)
    BY <1>3 DEF PendingBuyIns, Summed
  <2>2. \A r \in DOMAIN approvals : r \in PendingRequests /\ Summed(c, r) =>
           /\ SeenRequests(c)[r].type = "Buy-in"
           /\ SeenRequests(c)[r].playerId = approvals[r].playerId
           /\ SeenRequests(c)[r].amount = approvals[r].amount
    BY RequestsSeen DEF Summed
  <2>3. \A r : r \in Scoped(c)!PendingRequests
                 <=> r \in PendingRequests /\ (r \in ScopedRequests(c) \/ Summed(c, r))
    BY RequestsSeen
  <2>4. \A r \in PendingRequests : r \in DOMAIN approvals
    BY DEF PendingRequests
  <2>5. \A r \in PendingRequests : r \in ScopedRequests(c) => SeenRequests(c)[r] = approvals[r]
    BY <2>4, RequestsSeen
  <2>6. \A r \in PendingRequests : r \in ScopedRequests(c) \/ Summed(c, r) =>
           /\ SeenRequests(c)[r].type = approvals[r].type
           /\ SeenRequests(c)[r].playerId = approvals[r].playerId
           /\ SeenRequests(c)[r].amount = approvals[r].amount
    BY <2>2, <2>4, <2>5 DEF Summed
  <2>7. Scoped(c)!PendingBuyIns(p)
           = {r \in Scoped(c)!PendingRequests :
                SeenRequests(c)[r].type = "Buy-in" /\ SeenRequests(c)[r].playerId = p}
    BY DEF Scoped!PendingBuyIns
  <2>8. PendingBuyIns(p) = {r \in PendingRequests :
                              approvals[r].type = "Buy-in" /\ approvals[r].playerId = p}
    BY DEF PendingBuyIns
  <2>9. Scoped(c)!PendingBuyIns(p) = PendingBuyIns(p)
    BY <2>1, <2>3, <2>6, <2>7, <2>8
  <2>10. \A r \in PendingBuyIns(p) : SeenRequests(c)[r].amount = approvals[r].amount
    BY <2>1, <2>2, <2>4
  <2>11. Scoped(c)!Units(PendingBuyIns(p)) = Units(PendingBuyIns(p))
    BY <2>10 DEF Scoped!Units, Units
  <2> QED
    BY <2>9, <2>11, CountSeen DEF Scoped!ReservedCredit, ReservedCredit
<1> QED
  BY <1>1, <1>2, <1>3

\* A visit that is active and whose player or seat is asked for is read.
LEMMA ScopedVisitsRead ==
    ASSUME NEW c, c.kind \notin {"CLOSE_DAY", "CLOSE_TABLE"}
    PROVE  /\ NamedVisits(c) \subseteq ScopedVisits(c)
           /\ \A v \in ActiveVisits : sessions[v].playerId \in ScopedPlayers(c) => v \in ScopedVisits(c)
           /\ \A v \in ActiveVisits : SeatOf(v) \in NamedSeats(c) => v \in ScopedVisits(c)
           /\ \A p \in ScopedPlayers(c) : LatestOther(p, NamedVisits(c)) \subseteq ScopedVisits(c)
<1>1. ScopedVisits(c) =
         NamedVisits(c)
         \cup {v \in ActiveVisits : sessions[v].playerId \in ScopedPlayers(c) \/ SeatOf(v) \in NamedSeats(c)}
         \cup UNION {LatestOther(p, NamedVisits(c)) : p \in ScopedPlayers(c)}
  BY DEF ScopedVisits
<1> QED
  BY <1>1

LEMMA SeatSeen ==
    ASSUME NEW c, c.kind \notin {"CLOSE_DAY", "CLOSE_TABLE"}, NEW t, NEW seat, NEW except,
           SeatKey(t, seat) \in NamedSeats(c)
    PROVE  Scoped(c)!EnsureSeat(t, seat, except) <=> EnsureSeat(t, seat, except)
<1>1. \A v \in ActiveVisits : sessions[v].tableId = t /\ sessions[v].seat = seat => v \in ScopedVisits(c)
  BY ScopedVisitsRead DEF SeatOf
<1>2. \A v : v \in Scoped(c)!ActiveVisits <=> v \in ActiveVisits /\ v \in ScopedVisits(c)
  BY VisitsSeen
<1>3. \A v \in ActiveVisits : v \in ScopedVisits(c) => SeenVisits(c)[v] = sessions[v]
  BY VisitsSeen DEF ActiveVisits
<1>4. Scoped(c)!TableOpen(t) <=> TableOpen(t)
  BY DEF Scoped!TableOpen, TableOpen
<1> QED
  BY <1>1, <1>2, <1>3, <1>4 DEF Scoped!EnsureSeat, EnsureSeat

-----------------------------------------------------------------------------
(* Administration and business days.                                       *)

\* What no command is denied a look at, and what is computed from nothing else.
LEMMA AlwaysRead ==
    ASSUME NEW c
    PROVE  /\ Scoped(c)!Today = Today /\ (Scoped(c)!DayIsOpen <=> DayIsOpen)
           /\ \A t : Scoped(c)!TableOpen(t) <=> TableOpen(t)
           /\ \A p : Scoped(c)!PlayerKey(p) = PlayerKey(p)
           /\ \A t : Scoped(c)!TableKey(t) = TableKey(t)
           /\ \A t, seat : Scoped(c)!SeatKey(t, seat) = SeatKey(t, seat)
           /\ Scoped(c)!Day = Day /\ Scoped(c)!Settings = Settings
           /\ Scoped(c)!Activity = Activity /\ Scoped(c)!Anything = Anything
<1>1. Scoped(c)!Today = Today
  BY DEF Scoped!Today, Today
<1>2. Scoped(c)!DayIsOpen <=> DayIsOpen
  BY <1>1 DEF Scoped!DayIsOpen, DayIsOpen
<1>3. \A t : Scoped(c)!TableOpen(t) <=> TableOpen(t)
  BY DEF Scoped!TableOpen, TableOpen
<1>4. /\ \A p : Scoped(c)!PlayerKey(p) = PlayerKey(p)
      /\ \A t : Scoped(c)!TableKey(t) = TableKey(t)
      /\ \A t, seat : Scoped(c)!SeatKey(t, seat) = SeatKey(t, seat)
  BY DEF Scoped!PlayerKey, PlayerKey, Scoped!TableKey, TableKey, Scoped!SeatKey, SeatKey
<1>5. /\ Scoped(c)!Day = Day /\ Scoped(c)!Settings = Settings
      /\ Scoped(c)!Activity = Activity /\ Scoped(c)!Anything = Anything
  BY DEF Scoped!Day, Day, Scoped!Settings, Settings, Scoped!Activity, Activity,
         Scoped!Anything, Anything
<1> QED
  BY <1>1, <1>2, <1>3, <1>4, <1>5

\* A command decides alike on what it sees and on the complete records.
SeesEnough(c) ==
    Scoped(c)!Verdict(c) = Verdict(c) /\ Scoped(c)!Dependencies(c) = Dependencies(c)

\* Acceptance is the same when the conditions and the effects are.
LEMMA AcceptedAlike ==
    ASSUME NEW c, NEW b1, NEW b2, NEW e1, NEW e2, b1 <=> b2, b2 => e1 = e2
    PROVE  Scoped(c)!Accepted(b1, e1) = Accepted(b2, e2)
BY DEF Scoped!Accepted, Accepted, Scoped!Refused, Refused

LEMMA RulesSeen ==
    ASSUME NEW c
    PROVE  /\ \A venue, overrides :
                 Scoped(c)!EffectiveRules(venue, overrides) = EffectiveRules(venue, overrides)
           /\ \A venue, overrides :
                 Scoped(c)!TableRulesOK(venue, overrides) <=> TableRulesOK(venue, overrides)
           /\ \A rules, n : Scoped(c)!BuyInAllowed(rules, n) <=> BuyInAllowed(rules, n)
<1>1. Scoped(c)!RuleFields = RuleFields
  BY DEF Scoped!RuleFields, RuleFields
<1>2. \A venue, overrides :
         Scoped(c)!EffectiveRules(venue, overrides) = EffectiveRules(venue, overrides)
  BY <1>1 DEF Scoped!EffectiveRules, EffectiveRules
<1>3. \A rules : Scoped(c)!RulesConsistent(rules) <=> RulesConsistent(rules)
  BY DEF Scoped!RulesConsistent, RulesConsistent, Scoped!CeilDiv, CeilDiv
<1>4. \A venue, overrides :
         Scoped(c)!TableRulesOK(venue, overrides) <=> TableRulesOK(venue, overrides)
  BY <1>2, <1>3 DEF Scoped!TableRulesOK, TableRulesOK
<1>5. \A rules, n : Scoped(c)!BuyInAllowed(rules, n) <=> BuyInAllowed(rules, n)
  BY DEF Scoped!BuyInAllowed, BuyInAllowed
<1> QED
  BY <1>2, <1>4, <1>5

LEMMA SetupSees ==
    ASSUME NEW c, c.kind \in {"TABLE", "UPDATE_SETTINGS", "OPEN_DAY", "REOPEN_DAY", "COMPLETE_SETUP"}
    PROVE  SeesEnough(c)
<1>1. Scoped(c)!Dependencies(c) = Dependencies(c)
  BY AlwaysRead DEF Scoped!Dependencies, Dependencies
<1>2. CASE c.kind = "TABLE"
  <2>1. /\ Verdict(c) = Accepted(TableRulesOK(settings.rules, c.rules), tables[c.table])
        /\ Scoped(c)!Verdict(c)
              = Scoped(c)!Accepted(Scoped(c)!TableRulesOK(settings.rules, c.rules), tables[c.table])
    BY <1>2 DEF Scoped!Verdict, Verdict
  <2> QED
    BY <1>1, <2>1, RulesSeen, AcceptedAlike DEF SeesEnough
<1>3. CASE c.kind = "UPDATE_SETTINGS"
  <2>1. PICK b1, b2 :
           /\ b1 <=> \A t \in Tables : tables[t].status # "ABSENT" =>
                                          TableRulesOK(c.rules, tables[t].rules)
           /\ b2 <=> \A t \in Tables : tables[t].status # "ABSENT" =>
                                          Scoped(c)!TableRulesOK(c.rules, tables[t].rules)
    OBVIOUS
  <2>2. Verdict(c) = Accepted(b1, {}) /\ Scoped(c)!Verdict(c) = Scoped(c)!Accepted(b2, {})
    BY <1>3, <2>1 DEF Scoped!Verdict, Verdict, Scoped!Accepted, Accepted
  <2>3. b1 <=> b2
    BY <2>1, RulesSeen
  <2> QED
    BY <1>1, <2>2, <2>3, AcceptedAlike DEF SeesEnough
<1>4. CASE c.kind \in {"OPEN_DAY", "REOPEN_DAY", "COMPLETE_SETUP"}
  <2>1. Scoped(c)!Verdict(c) = Verdict(c)
    BY <1>4, AlwaysRead
       DEF Scoped!Verdict, Verdict, Scoped!Accepted, Accepted, Scoped!Refused, Refused
  <2> QED
    BY <1>1, <2>1 DEF SeesEnough
<1> QED
  BY <1>2, <1>3, <1>4

\* The oldest of a set of visits is there when any is.
LEMMA OldestThere ==
    ASSUME TypeInv, NEW S, S \subseteq DOMAIN sessions, S # {}
    PROVE  \E v \in S : \A w \in S : v <= w
<1>1. DOMAIN sessions \subseteq Nat
  BY LenProperties, RecordsTyped DEF TypesNow
<1> QED
  BY <1>1, LeastOf

LEMMA CloseDaySees ==
    ASSUME TypeInv, NEW c, c.kind = "CLOSE_DAY"
    PROVE  SeesEnough(c)
<1>1. Scoped(c)!Dependencies(c) = Dependencies(c)
  BY AlwaysRead DEF Scoped!Dependencies, Dependencies
<1>2. Scoped(c)!ActiveVisits = {} <=> ActiveVisits = {}
  <2>1. ScopedVisits(c) = {v \in ActiveVisits : \A w \in ActiveVisits : v <= w}
    BY DEF ScopedVisits
  <2>2. ActiveVisits # {} => \E v \in ActiveVisits : v \in ScopedVisits(c)
    BY <2>1, OldestThere DEF ActiveVisits
  <2> QED
    BY <2>2, VisitsSeen
<1>3. Scoped(c)!PendingRequests = {} <=> PendingRequests = {}
  <2>1. Blockers(c) = PendingRequests
    BY DEF Blockers
  <2> QED
    BY <2>1, BlockersSeen, RequestsSeen
<1>4. Scoped(c)!DaySettled <=> DaySettled
  BY <1>2, <1>3 DEF Scoped!DaySettled, DaySettled
<1>5. Scoped(c)!ExpectedCash(Today) = ExpectedCash(Today)
  BY DEF Scoped!ExpectedCash, ExpectedCash
<1>6. /\ Verdict(c) = Accepted(DayIsOpen /\ DaySettled, ExpectedCash(Today))
      /\ Scoped(c)!Verdict(c) = Scoped(c)!Accepted(Scoped(c)!DayIsOpen /\ Scoped(c)!DaySettled,
                                                   Scoped(c)!ExpectedCash(Scoped(c)!Today))
  BY DEF Scoped!Verdict, Verdict
<1>7. /\ Scoped(c)!DayIsOpen /\ Scoped(c)!DaySettled <=> DayIsOpen /\ DaySettled
      /\ Scoped(c)!ExpectedCash(Scoped(c)!Today) = ExpectedCash(Today)
  BY <1>4, <1>5, AlwaysRead
<1> QED
  BY <1>1, <1>6, <1>7, AcceptedAlike DEF SeesEnough

LEMMA CloseTableSees ==
    ASSUME TypeInv, NEW c, c.kind = "CLOSE_TABLE", c.table \in Tables
    PROVE  SeesEnough(c)
<1>1. Scoped(c)!Dependencies(c) = Dependencies(c)
  BY AlwaysRead DEF Scoped!Dependencies, Dependencies
<1>2. PICK S : S = {v \in ActiveVisits : sessions[v].tableId = c.table}
  OBVIOUS
<1>3. (\A v \in Scoped(c)!ActiveVisits : SeenVisits(c)[v].tableId # c.table) <=> S = {}
  <2>1. ScopedVisits(c) = {v \in S : \A w \in S : v <= w}
    BY <1>2 DEF ScopedVisits
  <2>2. S # {} => \E v \in S : v \in ScopedVisits(c)
    BY <1>2, <2>1, OldestThere DEF ActiveVisits
  <2>3. \A v \in Scoped(c)!ActiveVisits : v \in S /\ SeenVisits(c)[v] = sessions[v]
    BY <1>2, <2>1, VisitsSeen DEF ActiveVisits
  <2>4. \A v \in S : v \in ScopedVisits(c) => v \in Scoped(c)!ActiveVisits
    BY <1>2, VisitsSeen
  <2> QED
    BY <1>2, <2>2, <2>3, <2>4
<1>4. (\A r \in Scoped(c)!PendingRequests : SeenRequests(c)[r].tableId # c.table)
        <=> \A r \in PendingRequests : approvals[r].tableId # c.table
  <2>1. Blockers(c) = {r \in PendingRequests : approvals[r].tableId = c.table}
    BY DEF Blockers
  <2>2. \A r \in PendingRequests : r \in DOMAIN approvals
    BY DEF PendingRequests
  <2>3. None # c.table
    BY VenueAssumption
  <2>4. \A r \in Scoped(c)!PendingRequests : SeenRequests(c)[r].tableId = c.table => r \in Blockers(c)
    BY <2>1, <2>2, <2>3, RequestsSeen
  <2>5. Blockers(c) # {} => \E r \in Scoped(c)!PendingRequests : SeenRequests(c)[r].tableId = c.table
    BY <2>1, <2>2, BlockersSeen, RequestsSeen
  <2> QED
    BY <2>1, <2>4, <2>5
<1>5. Scoped(c)!TableIdle(c.table) <=> TableIdle(c.table)
  BY <1>2, <1>3, <1>4 DEF Scoped!TableIdle, TableIdle
<1>6. /\ Verdict(c) = Accepted(TableIdle(c.table), tables[c.table])
      /\ Scoped(c)!Verdict(c) = Scoped(c)!Accepted(Scoped(c)!TableIdle(c.table), tables[c.table])
  BY DEF Scoped!Verdict, Verdict
<1> QED
  BY <1>1, <1>5, <1>6, AcceptedAlike DEF SeesEnough

LEMMA ProfileSees ==
    ASSUME NEW c, c.kind = "UPDATE_PROFILE", c.player \in Players
    PROVE  SeesEnough(c)
<1>1. Scoped(c)!Dependencies(c) = Dependencies(c)
  BY AlwaysRead DEF Scoped!Dependencies, Dependencies
<1>2. PICK p : p = c.player
  OBVIOUS
<1>3. p \in Players /\ p \in ScopedPlayers(c)
  BY <1>2 DEF ScopedPlayers, NamedPlayers
<1>4. /\ SeenProfiles(c)[p] = profiles[p] /\ SeenDebts(c)[p] = outstanding[p]
      /\ Scoped(c)!IsCredit(p) <=> IsCredit(p)
      /\ Scoped(c)!ReservedCredit(p) = ReservedCredit(p)
  BY <1>3, PlayerSeen
<1>5. Scoped(c)!LimitCovers(p, c.limit) <=> LimitCovers(p, c.limit)
  BY <1>4 DEF Scoped!LimitCovers, LimitCovers
<1>6. /\ Verdict(c) = Accepted(IsCredit(p) => LimitCovers(p, c.limit), profiles[p])
      /\ Scoped(c)!Verdict(c)
            = Scoped(c)!Accepted(Scoped(c)!IsCredit(p) => Scoped(c)!LimitCovers(p, c.limit),
                                 SeenProfiles(c)[p])
  BY <1>2 DEF Scoped!Verdict, Verdict
<1> QED
  BY <1>1, <1>4, <1>5, <1>6, AcceptedAlike DEF SeesEnough

-----------------------------------------------------------------------------
(* Seating.                                                                *)

\* Requests for a visit: those that are read are there, and if any other stands
\* in the way, one that is read does.
LEMMA PendingForSeen ==
    ASSUME NEW c, NEW v, v # None
    PROVE  \A r : r \in Scoped(c)!PendingFor(v) <=> r \in PendingFor(v) /\ r \in ScopedRequests(c)
<1>1. Scoped(c)!PendingFor(v) = {r \in Scoped(c)!PendingRequests : SeenRequests(c)[r].sessionId = v}
  BY DEF Scoped!PendingFor
<1>2. \A r \in PendingRequests : r \in DOMAIN approvals
  BY DEF PendingRequests
<1>3. \A r \in PendingRequests : r \in ScopedRequests(c) => SeenRequests(c)[r] = approvals[r]
  BY <1>2, RequestsSeen
<1>4. \A r \in PendingRequests : r \notin ScopedRequests(c) => SeenRequests(c)[r].sessionId # v
  BY <1>2, RequestsSeen
<1> QED
  BY <1>1, <1>3, <1>4, RequestsSeen DEF PendingFor

LEMMA CheckInSees ==
    ASSUME NEW c, c.kind = "CHECK_IN", c.player \in Players
    PROVE  SeesEnough(c)
<1>1. Scoped(c)!Dependencies(c) = Dependencies(c)
  BY AlwaysRead DEF Scoped!Dependencies, Dependencies
<1>2. PICK p, t, seat : p = c.player /\ t = c.table /\ seat = c.seat
  OBVIOUS
<1>3. p \in Players /\ p \in ScopedPlayers(c) /\ SeatKey(t, seat) \in NamedSeats(c)
  BY <1>2 DEF ScopedPlayers, NamedPlayers, NamedSeats
<1>4. SeenProfiles(c)[p] = profiles[p] /\ (Scoped(c)!IsCredit(p) <=> IsCredit(p))
  BY <1>3, PlayerSeen
<1>5. Scoped(c)!EnsureSeat(t, seat, None) <=> EnsureSeat(t, seat, None)
  BY <1>3, SeatSeen
<1>6. Scoped(c)!NotCheckedIn(p) <=> NotCheckedIn(p)
  <2>1. \A v \in ActiveVisits : sessions[v].playerId = p => v \in ScopedVisits(c)
    BY <1>3, ScopedVisitsRead
  <2>2. \A v : v \in VisitsOf(p) /\ v \in ActiveVisits => sessions[v].playerId = p
    BY DEF VisitsOf
  <2>3. \A v : v \in Scoped(c)!VisitsOf(p) <=> v \in VisitsOf(p) /\ v \in ScopedVisits(c)
    BY <1>3, VisitsSeen
  <2>4. \A v : v \in Scoped(c)!ActiveVisits <=> v \in ActiveVisits /\ v \in ScopedVisits(c)
    BY VisitsSeen
  <2> QED
    BY <2>1, <2>2, <2>3, <2>4 DEF Scoped!NotCheckedIn, NotCheckedIn
<1>7. Scoped(c)!MayCheckIn(p, t, seat) <=> MayCheckIn(p, t, seat)
  BY <1>4, <1>5, <1>6, AlwaysRead
     DEF Scoped!MayCheckIn, MayCheckIn, Scoped!SeatFree, SeatFree
<1>8. /\ Verdict(c) = Accepted(MayCheckIn(p, t, seat), profiles[p])
      /\ Scoped(c)!Verdict(c) = Scoped(c)!Accepted(Scoped(c)!MayCheckIn(p, t, seat), SeenProfiles(c)[p])
  BY <1>2 DEF Scoped!Verdict, Verdict
<1> QED
  BY <1>1, <1>4, <1>7, <1>8, AcceptedAlike DEF SeesEnough

LEMMA MoveSees ==
    ASSUME TypeInv, NEW c, c.kind = "MOVE", c.visit \in ActiveVisits
    PROVE  SeesEnough(c)
<1>1. PICK v, t, seat, p : v = c.visit /\ t = c.table /\ seat = c.seat /\ p = sessions[v].playerId
  OBVIOUS
<1>2. v \in DOMAIN sessions /\ v # None /\ p \in ScopedPlayers(c) /\ SeatKey(t, seat) \in NamedSeats(c)
  <2>1. v \in DOMAIN sessions /\ v # None
    BY <1>1, VisitFields DEF ActiveVisits
  <2> QED
    BY <1>1, <2>1 DEF ScopedPlayers, NamedPlayers, NamedSeats
<1>3. v \in ScopedVisits(c)
  BY <1>1, <1>2, ScopedVisitsRead
<1>4. SeenVisits(c)[v] = sessions[v] /\ v \in Scoped(c)!ActiveVisits
  BY <1>1, <1>2, <1>3, VisitsSeen
<1>5. Scoped(c)!EnsureSeat(t, seat, v) <=> EnsureSeat(t, seat, v)
  BY <1>2, SeatSeen
<1>6. Scoped(c)!Movable(v) <=> Movable(v)
  <2>1. Blockers(c) = PendingFor(v)
    BY <1>1 DEF Blockers
  <2> QED
    BY <1>2, <2>1, BlockersSeen, PendingForSeen DEF Scoped!Movable, Movable
<1>7. Scoped(c)!Dependencies(c) = Dependencies(c)
  BY <1>1, <1>4, AlwaysRead DEF Scoped!Dependencies, Dependencies
<1>8. /\ Verdict(c) = Accepted(DayIsOpen /\ v \in ActiveVisits /\ Movable(v)
                                 /\ EnsureSeat(t, seat, v), sessions[v])
      /\ Scoped(c)!Verdict(c)
            = Scoped(c)!Accepted(Scoped(c)!DayIsOpen /\ v \in Scoped(c)!ActiveVisits
                                   /\ Scoped(c)!Movable(v) /\ Scoped(c)!EnsureSeat(t, seat, v),
                                 SeenVisits(c)[v])
  BY <1>1 DEF Scoped!Verdict, Verdict
<1>9. Scoped(c)!DayIsOpen /\ v \in Scoped(c)!ActiveVisits
            /\ Scoped(c)!Movable(v) /\ Scoped(c)!EnsureSeat(t, seat, v)
        <=> DayIsOpen /\ v \in ActiveVisits /\ Movable(v) /\ EnsureSeat(t, seat, v)
  BY <1>1, <1>4, <1>5, <1>6, AlwaysRead
<1> QED
  BY <1>4, <1>7, <1>8, <1>9, AcceptedAlike DEF SeesEnough

LEMMA SwappableSeen ==
    ASSUME TypeInv, LinkInv, NEW c, c.kind = "SWAP_SEATS", NEW v \in DOMAIN sessions, NEW w \in DOMAIN sessions,
           v = c.visit, w = c.other
    PROVE  Scoped(c)!Swappable(v, w) <=> Swappable(v, w)
<1>1. PICK p, o : p = sessions[v].playerId /\ o = sessions[w].playerId
  OBVIOUS
<1>2. p \in Players /\ o \in Players /\ v # None /\ w # None /\ None \notin Players
  BY <1>1, VisitFields, VenueAssumption
<1>3. ScopedPlayers(c) = {p, o}
  <2>1. ScopedEntries(c) = {}
    BY DEF ScopedEntries, Originals
  <2>2. NamedPlayers(c) = {p, o}
    BY <1>1 DEF NamedPlayers
  <2> QED
    BY <2>1, <2>2 DEF ScopedPlayers
<1>4. NamedVisits(c) = {v, w}
  BY DEF NamedVisits, ScopedEntries, Originals
<1>5. v \in ScopedVisits(c) /\ w \in ScopedVisits(c)
  BY <1>4, ScopedVisitsRead
<1>6. SeenVisits(c)[v] = sessions[v] /\ SeenVisits(c)[w] = sessions[w]
  BY <1>5, VisitsSeen
<1>9. ScopedVisits(c) \subseteq DOMAIN sessions
  <2>1. ScopedVisits(c) =
           NamedVisits(c)
           \cup {x \in ActiveVisits : sessions[x].playerId \in ScopedPlayers(c)
                                       \/ SeatOf(x) \in NamedSeats(c)}
           \cup UNION {LatestOther(q, NamedVisits(c)) : q \in ScopedPlayers(c)}
    BY DEF ScopedVisits
  <2>2. \A q : LatestOther(q, NamedVisits(c)) \subseteq DOMAIN sessions
    BY DEF LatestOther, VisitsOf
  <2> QED
    BY <1>4, <2>1, <2>2 DEF ActiveVisits
<1>7. \A r \in PendingRequests :
         r \in Blockers(c) <=> \/ approvals[r].playerId \in {p, o}
                               \/ \E x \in ScopedVisits(c) : /\ approvals[r].sessionId = x
                                                             /\ sessions[x].playerId \in {p, o}
  BY <1>3 DEF Blockers
<1>8. \A r \in Blockers(c) : r \in DOMAIN approvals /\ approvals[r].playerId \in {p, o}
  <2>1. \A r \in Blockers(c) : r \in PendingRequests /\ r \in DOMAIN approvals
    BY BlockersSeen DEF PendingRequests
  <2>2. ASSUME NEW r \in Blockers(c), NEW x \in ScopedVisits(c),
               approvals[r].sessionId = x, sessions[x].playerId \in {p, o}
        PROVE  approvals[r].playerId \in {p, o}
    <3>1. VisitKnown(approvals[r])
      BY <2>1 DEF LinkInv
    <3>2. x \in DOMAIN sessions /\ x # None
      BY <1>2, <1>9, VisitFields
    <3> QED
      BY <2>2, <3>1, <3>2 DEF VisitKnown
  <2> QED
    BY <1>7, <2>1, <2>2
<1>10. (\A r \in Scoped(c)!PendingRequests :
            /\ SeenRequests(c)[r].playerId \notin {p, o}
            /\ SeenRequests(c)[r].sessionId \notin {v, w})
          <=> \A r \in PendingRequests : /\ approvals[r].playerId \notin {p, o}
                                         /\ approvals[r].sessionId \notin {v, w}
  <2>1. \A r : ~Summed(c, r)
    BY DEF Summed
  <2>2. \A r \in Scoped(c)!PendingRequests :
           r \in PendingRequests /\ r \in ScopedRequests(c) /\ r \in DOMAIN approvals
    BY <2>1, RequestsSeen DEF PendingRequests
  <2>3. \A r \in Scoped(c)!PendingRequests : SeenRequests(c)[r] = approvals[r]
    BY <2>2, RequestsSeen
  <2>4. \A r \in PendingRequests :
           approvals[r].playerId \in {p, o} \/ approvals[r].sessionId \in {v, w} => r \in Blockers(c)
    BY <1>1, <1>5, <1>7
  <2>5. Blockers(c) # {} => \E r \in Scoped(c)!PendingRequests : r \in Blockers(c)
    BY BlockersSeen, RequestsSeen
  <2> QED
    BY <1>8, <2>2, <2>3, <2>4, <2>5
<1>11. ASSUME NEW x \in {v, w}
       PROVE  (\A u \in Scoped(c)!ActiveVisits \ {v, w} :
                  SeenVisits(c)[u].tableId # sessions[x].tableId \/ SeenVisits(c)[u].seat # sessions[x].seat)
              <=> \A u \in ActiveVisits \ {v, w} :
                     sessions[u].tableId # sessions[x].tableId \/ sessions[u].seat # sessions[x].seat
  <2>1. NamedSeats(c) = {SeatOf(y) : y \in {v, w}}
    BY <1>4 DEF NamedSeats
  <2>2. \A u \in ActiveVisits :
           sessions[u].tableId = sessions[x].tableId /\ sessions[u].seat = sessions[x].seat
           => SeatOf(u) \in NamedSeats(c)
    BY <2>1 DEF SeatOf
  <2>3. \A u \in ActiveVisits : SeatOf(u) \in NamedSeats(c) => u \in ScopedVisits(c)
    BY ScopedVisitsRead
  <2>4. \A u \in ActiveVisits : u \in ScopedVisits(c) => SeenVisits(c)[u] = sessions[u]
    BY VisitsSeen DEF ActiveVisits
  <2>5. \A u : u \in Scoped(c)!ActiveVisits <=> u \in ActiveVisits /\ u \in ScopedVisits(c)
    BY VisitsSeen
  <2> QED
    BY <2>2, <2>3, <2>4, <2>5
<1>12. Swappable(v, w) <=>
         /\ \A r \in PendingRequests : /\ approvals[r].playerId \notin {p, o}
                                        /\ approvals[r].sessionId \notin {v, w}
         /\ \A x \in {v, w} : \A u \in ActiveVisits \ {v, w} :
               sessions[u].tableId # sessions[x].tableId \/ sessions[u].seat # sessions[x].seat
  BY <1>1 DEF Swappable
<1>13. Scoped(c)!Swappable(v, w) <=>
         /\ \A r \in Scoped(c)!PendingRequests : /\ SeenRequests(c)[r].playerId \notin {p, o}
                                                  /\ SeenRequests(c)[r].sessionId \notin {v, w}
         /\ \A x \in {v, w} : \A u \in Scoped(c)!ActiveVisits \ {v, w} :
               SeenVisits(c)[u].tableId # sessions[x].tableId \/ SeenVisits(c)[u].seat # sessions[x].seat
  BY <1>1, <1>6 DEF Scoped!Swappable
<1> QED
  BY <1>10, <1>11, <1>12, <1>13

LEMMA SwapSees ==
    ASSUME TypeInv, LinkInv, NEW c, c.kind = "SWAP_SEATS",
           c.visit \in DOMAIN sessions, c.other \in DOMAIN sessions
    PROVE  SeesEnough(c)
<1>1. PICK v, w : v = c.visit /\ w = c.other
  OBVIOUS
<1>2. v \in ScopedVisits(c) /\ w \in ScopedVisits(c)
  BY <1>1, ScopedVisitsRead DEF NamedVisits
<1>3. /\ SeenVisits(c)[v] = sessions[v] /\ SeenVisits(c)[w] = sessions[w]
      /\ v \in Scoped(c)!ActiveVisits <=> v \in ActiveVisits
      /\ w \in Scoped(c)!ActiveVisits <=> w \in ActiveVisits
  BY <1>1, <1>2, VisitsSeen
<1>4. Scoped(c)!Swappable(v, w) <=> Swappable(v, w)
  BY <1>1, SwappableSeen
<1>5. Scoped(c)!Dependencies(c) = Dependencies(c)
  <2>1. \A x \in {v, w} : SeenVisits(c)[x] = sessions[x]
    BY <1>3
  <2>2. Dependencies(c) = {Day} \cup
           UNION {{SeatKey(sessions[x].tableId, sessions[x].seat)}
                    \cup PlayerKey(sessions[x].playerId) \cup TableKey(sessions[x].tableId) : x \in {v, w}}
    BY <1>1 DEF Dependencies, SeatOf
  <2>3. Scoped(c)!Dependencies(c) = {Day} \cup
           UNION {{SeatKey(SeenVisits(c)[x].tableId, SeenVisits(c)[x].seat)}
                    \cup PlayerKey(SeenVisits(c)[x].playerId) \cup TableKey(SeenVisits(c)[x].tableId) :
                      x \in {v, w}}
    BY <1>1, AlwaysRead DEF Scoped!Dependencies, Scoped!SeatOf
  <2> QED
    BY <2>1, <2>2, <2>3
<1>6. Verdict(c) = Accepted(/\ DayIsOpen /\ {v, w} \subseteq ActiveVisits /\ Swappable(v, w)
                            /\ TableOpen(sessions[v].tableId) /\ TableOpen(sessions[w].tableId),
                            {sessions[v], sessions[w]})
  BY <1>1 DEF Verdict
<1>7. Scoped(c)!Verdict(c)
        = Scoped(c)!Accepted(/\ Scoped(c)!DayIsOpen /\ {v, w} \subseteq Scoped(c)!ActiveVisits
                             /\ Scoped(c)!Swappable(v, w)
                             /\ Scoped(c)!TableOpen(SeenVisits(c)[v].tableId)
                             /\ Scoped(c)!TableOpen(SeenVisits(c)[w].tableId),
                             {SeenVisits(c)[v], SeenVisits(c)[w]})
  BY <1>1 DEF Scoped!Verdict
<1>8. /\ Scoped(c)!DayIsOpen /\ {v, w} \subseteq Scoped(c)!ActiveVisits
      /\ Scoped(c)!Swappable(v, w)
      /\ Scoped(c)!TableOpen(SeenVisits(c)[v].tableId) /\ Scoped(c)!TableOpen(SeenVisits(c)[w].tableId)
      <=> /\ DayIsOpen /\ {v, w} \subseteq ActiveVisits /\ Swappable(v, w)
          /\ TableOpen(sessions[v].tableId) /\ TableOpen(sessions[w].tableId)
  BY <1>3, <1>4, AlwaysRead
<1>9. {SeenVisits(c)[v], SeenVisits(c)[w]} = {sessions[v], sessions[w]}
  BY <1>3
<1>10. PICK b, d, e :
          /\ b <=> /\ DayIsOpen /\ {v, w} \subseteq ActiveVisits /\ Swappable(v, w)
                    /\ TableOpen(sessions[v].tableId) /\ TableOpen(sessions[w].tableId)
          /\ d <=> /\ Scoped(c)!DayIsOpen /\ {v, w} \subseteq Scoped(c)!ActiveVisits
                    /\ Scoped(c)!Swappable(v, w)
                    /\ Scoped(c)!TableOpen(SeenVisits(c)[v].tableId)
                    /\ Scoped(c)!TableOpen(SeenVisits(c)[w].tableId)
          /\ e = {sessions[v], sessions[w]}
  OBVIOUS
<1>11. Verdict(c) = Accepted(b, e)
  BY <1>6, <1>10 DEF Accepted
<1>12. Scoped(c)!Verdict(c) = Scoped(c)!Accepted(d, e)
  BY <1>7, <1>9, <1>10 DEF Scoped!Accepted
<1>13. d <=> b
  BY <1>8, <1>10
<1> QED
  BY <1>5, <1>11, <1>12, <1>13, AcceptedAlike DEF SeesEnough

-----------------------------------------------------------------------------
(* What an entry is checked against.                                       *)

\* Of the visits that are not named, the latest is read: none starts after it.
LEMMA LatestThere ==
    ASSUME TypeInv, NEW p, NEW named, NEW w \in VisitsOf(p) \ named
    PROVE  \E m \in LatestOther(p, named) :
              m \in VisitsOf(p) \ named /\ sessions[w].start <= sessions[m].start
<1>1. PICK S : S = VisitsOf(p) \ named
  OBVIOUS
<1>2. /\ S \subseteq DOMAIN sessions /\ IsFiniteSet(DOMAIN sessions) /\ DOMAIN sessions \subseteq Nat
      /\ \A v \in S : sessions[v].start \in Nat
  <2>1. sessions \in Seq(VisitType)
    BY RecordsTyped DEF TypesNow
  <2>2. DOMAIN sessions = 1 .. Len(sessions) /\ Len(sessions) \in Nat
    BY <2>1, LenProperties
  <2>3. IsFiniteSet(1 .. Len(sessions))
    BY <2>2, FS_Interval
  <2>4. \A v \in DOMAIN sessions : sessions[v] \in VisitType
    BY <2>1, <2>2, ElementOfSeq
  <2> QED
    BY <1>1, <2>2, <2>3, <2>4 DEF VisitsOf, VisitType
<1>3. PICK F : F = [v \in S |-> sessions[v].start]
  OBVIOUS
<1>4. PICK m1 \in S : \A v \in S : F[v] <= F[m1]
  <2>1. \A v \in S : F[v] \in Int
    BY <1>2, <1>3
  <2> QED
    BY <1>1, <1>2, <2>1, FS_Subset, GreatestOf
<1>5. PICK T : T = {v \in S : sessions[v].start = sessions[m1].start}
  OBVIOUS
<1>6. PICK G : G = [v \in T |-> v]
  OBVIOUS
<1>7. PICK m \in T : \A v \in T : G[v] <= G[m]
  <2>1. T \subseteq DOMAIN sessions /\ T # {} /\ \A v \in T : G[v] \in Int
    BY <1>2, <1>4, <1>5, <1>6
  <2> QED
    BY <1>2, <2>1, FS_Subset, GreatestOf
<1>8. m \in S /\ \A v \in S : sessions[v].start <= sessions[m].start
  BY <1>3, <1>4, <1>5, <1>7
<1>9. \A v \in S \ {m} : \/ sessions[v].start < sessions[m].start
                         \/ sessions[v].start = sessions[m].start /\ v < m
  BY <1>2, <1>5, <1>6, <1>7, <1>8
<1>10. m \in LatestOther(p, named)
  BY <1>1, <1>8, <1>9 DEF LatestOther
<1> QED
  BY <1>1, <1>8, <1>10

LEMMA NoLaterSeen ==
    ASSUME TypeInv, NEW c, c.kind \in {"CORRECT", "DECIDE"}, NEW v \in DOMAIN sessions,
           v \in NamedVisits(c), sessions[v].playerId \in ScopedPlayers(c)
    PROVE  Scoped(c)!NoLaterVisit(v) <=> NoLaterVisit(v)
<1>1. PICK p : p = sessions[v].playerId
  OBVIOUS
<1>2. p \in Players /\ v \in ScopedVisits(c) /\ SeenVisits(c)[v] = sessions[v]
  BY <1>1, VisitFields, ScopedVisitsRead, VisitsSeen
<1>3. NoLaterVisit(v) <=> \A w \in VisitsOf(p) \ {v} : sessions[w].start < sessions[v].start
  BY <1>1 DEF NoLaterVisit
<1>4. Scoped(c)!NoLaterVisit(v)
        <=> \A w \in Scoped(c)!VisitsOf(p) \ {v} : SeenVisits(c)[w].start < sessions[v].start
  BY <1>1, <1>2 DEF Scoped!NoLaterVisit
<1>5. \A w : w \in Scoped(c)!VisitsOf(p) <=> w \in VisitsOf(p) /\ w \in ScopedVisits(c)
  BY <1>2, VisitsSeen
<1>6. \A w \in VisitsOf(p) : w \in ScopedVisits(c) => SeenVisits(c)[w] = sessions[w]
  BY VisitsSeen DEF VisitsOf
<1>7. \A w \in VisitsOf(p) : w \in Nat /\ sessions[w].start \in Nat
  <2>1. sessions \in Seq(VisitType)
    BY RecordsTyped DEF TypesNow
  <2>2. DOMAIN sessions = 1 .. Len(sessions) /\ Len(sessions) \in Nat
    BY <2>1, LenProperties
  <2>3. \A w \in DOMAIN sessions : sessions[w] \in VisitType
    BY <2>1, <2>2, ElementOfSeq
  <2> QED
    BY <2>2, <2>3 DEF VisitsOf, VisitType
<1>8. ASSUME NEW w \in VisitsOf(p), w \notin ScopedVisits(c), ~(sessions[w].start < sessions[v].start)
      PROVE  \E m \in VisitsOf(p) \ {v} : m \in ScopedVisits(c) /\ ~(sessions[m].start < sessions[v].start)
  <2>1. w \notin NamedVisits(c)
    BY <1>8, ScopedVisitsRead
  <2>2. PICK m \in LatestOther(p, NamedVisits(c)) :
           m \in VisitsOf(p) \ NamedVisits(c) /\ sessions[w].start <= sessions[m].start
    BY <2>1, LatestThere
  <2>3. m \in ScopedVisits(c)
    BY <1>1, <2>2, ScopedVisitsRead
  <2>4. v \in VisitsOf(p)
    BY <1>1 DEF VisitsOf
  <2>5. ~(sessions[m].start < sessions[v].start)
    BY <1>7, <1>8, <2>2, <2>4
  <2> QED
    BY <2>2, <2>3, <2>5
<1> QED
  BY <1>3, <1>4, <1>5, <1>6, <1>8

\* validateEntry() of an entry that is no reversal.
LEMMA PlainEntrySeen ==
    ASSUME TypeInv, NEW c, c.kind \notin {"CLOSE_DAY", "CLOSE_TABLE", "SWAP_SEATS"},
           NEW q, NEW self, q.type # "Reversal", VisitKnown(q),
           q.playerId \in Players \cup {None}, q.playerId \in Players => q.playerId \in ScopedPlayers(c),
           q.type = "Cash-out" /\ q.sessionId # None => Blockers(c) = PendingFor(q.sessionId) \ {self}
    PROVE  Scoped(c)!ValidEntry(q, self) <=> ValidEntry(q, self)
<1>1. q.playerId \in Players =>
         /\ SeenProfiles(c)[q.playerId] = profiles[q.playerId]
         /\ SeenDebts(c)[q.playerId] = outstanding[q.playerId]
         /\ Scoped(c)!IsCredit(q.playerId) <=> IsCredit(q.playerId)
  BY PlayerSeen
<1>2. Scoped(c)!IsCredit(q.playerId) <=> IsCredit(q.playerId)
  <2>1. CASE q.playerId = None
    BY <2>1 DEF Scoped!IsCredit, IsCredit
  <2> QED
    BY <1>1, <2>1
<1>3. Scoped(c)!ValidRepayment(q) <=> ValidRepayment(q)
  <2>1. CASE q.playerId = None
    BY <1>2, <2>1 DEF Scoped!ValidRepayment, ValidRepayment, IsCredit
  <2>2. CASE q.playerId \in Players
    BY <1>1, <2>2 DEF Scoped!ValidRepayment, ValidRepayment
  <2> QED
    BY <2>1, <2>2
<1>4. Scoped(c)!ValidSessionEntry(q, self) <=> ValidSessionEntry(q, self)
  <2>1. PICK v : v = q.sessionId
    OBVIOUS
  <2>2. CASE v \notin ActiveVisits
    <3>1. v \notin Scoped(c)!ActiveVisits
      BY <2>2, VisitsSeen
    <3> QED
      BY <2>1, <2>2, <3>1 DEF Scoped!ValidSessionEntry, ValidSessionEntry
  <2>3. CASE v \in ActiveVisits
    <3>1. v \in DOMAIN sessions /\ v # None
      BY <2>3, VisitFields DEF ActiveVisits
    <3>2. sessions[v].playerId = q.playerId /\ q.playerId \in Players
      BY <2>1, <3>1, VisitFields DEF VisitKnown
    <3>3. v \in ScopedVisits(c)
      BY <2>3, <3>2, ScopedVisitsRead
    <3>4. SeenVisits(c)[v] = sessions[v] /\ v \in Scoped(c)!ActiveVisits
      BY <2>3, <3>1, <3>3, VisitsSeen
    <3>5. q.type = "Cash-out" => (Scoped(c)!NoOtherPending(q, self) <=> NoOtherPending(q, self))
      <4>1. \A r : r \in Scoped(c)!PendingFor(v) <=> r \in PendingFor(v) /\ r \in ScopedRequests(c)
        BY <3>1, PendingForSeen
      <4>2. Blockers(c) # {} => \E r \in Blockers(c) : r \in ScopedRequests(c)
        BY BlockersSeen
      <4> QED
        BY <2>1, <3>1, <4>1, <4>2 DEF Scoped!NoOtherPending, NoOtherPending
    <3>6. ValidSessionEntry(q, self) <=>
             /\ sessions[v].dayId = q.dayId /\ sessions[v].tableId = q.tableId
             /\ q.type = "Buy-in" =>
                   /\ ~profiles[q.playerId].banned
                   /\ IsCredit(q.playerId) =>
                         outstanding[q.playerId] + q.amount <= profiles[q.playerId].creditLimit
             /\ q.type = "Cash-out" => NoOtherPending(q, self)
      BY <2>1, <2>3 DEF ValidSessionEntry
    <3>7. Scoped(c)!ValidSessionEntry(q, self) <=>
             /\ SeenVisits(c)[v].dayId = q.dayId /\ SeenVisits(c)[v].tableId = q.tableId
             /\ q.type = "Buy-in" =>
                   /\ ~SeenProfiles(c)[q.playerId].banned
                   /\ Scoped(c)!IsCredit(q.playerId) =>
                         SeenDebts(c)[q.playerId] + q.amount <= SeenProfiles(c)[q.playerId].creditLimit
             /\ q.type = "Cash-out" => Scoped(c)!NoOtherPending(q, self)
      BY <2>1, <3>4 DEF Scoped!ValidSessionEntry
    <3> QED
      BY <1>1, <1>2, <3>2, <3>4, <3>5, <3>6, <3>7
  <2> QED
    BY <2>2, <2>3
<1>5. Scoped(c)!SessionEntries = SessionEntries
  BY DEF Scoped!SessionEntries, SessionEntries
<1>6. ValidEntry(q, self) <=>
         /\ q.type \in SessionEntries => ValidSessionEntry(q, self)
         /\ q.type = "Credit Repayment" => ValidRepayment(q)
         /\ q.tableId # None => TableOpen(q.tableId)
  BY DEF ValidEntry
<1>7. Scoped(c)!ValidEntry(q, self) <=>
         /\ q.type \in SessionEntries => Scoped(c)!ValidSessionEntry(q, self)
         /\ q.type = "Credit Repayment" => Scoped(c)!ValidRepayment(q)
         /\ q.tableId # None => Scoped(c)!TableOpen(q.tableId)
  BY <1>5 DEF Scoped!ValidEntry
<1> QED
  BY <1>3, <1>4, <1>6, <1>7, AlwaysRead

\* Of an entry to be reversed, the entry, its player and its visit are read.
LEMMA OriginalRead ==
    ASSUME TypeInv, LinkInv, NEW c, c.kind \in {"CORRECT", "DECIDE"},
           NEW t \in DOMAIN transactions, t \in Originals(c)
    PROVE  /\ t # None /\ SeenEntries(c)[t] = transactions[t]
           /\ Scoped(c)!ReversalsOf(t) = ReversalsOf(t)
           /\ transactions[t].playerId \in Players \cup {None}
           /\ transactions[t].playerId \in Players => transactions[t].playerId \in ScopedPlayers(c)
           /\ transactions[t].sessionId # None =>
                 /\ transactions[t].sessionId \in DOMAIN sessions
                 /\ transactions[t].sessionId \in NamedVisits(c)
                 /\ sessions[transactions[t].sessionId].playerId = transactions[t].playerId
                 /\ transactions[t].playerId \in Players
                 /\ SeenVisits(c)[transactions[t].sessionId] = sessions[transactions[t].sessionId]
<1>1. PICK tx, v : tx = transactions[t] /\ v = tx.sessionId
  OBVIOUS
<1>2. t # None /\ tx \in TxType
  BY <1>1, ElementOfSeq, LenProperties, RecordsTyped, VenueAssumption DEF TypesNow
<1>3. t \in ScopedEntries(c)
  BY DEF ScopedEntries
<1>4. tx.playerId \in Players => tx.playerId \in ScopedPlayers(c)
  BY <1>1, <1>3, VenueAssumption DEF ScopedPlayers, Known
<1>5. v # None => v \in NamedVisits(c)
  BY <1>1, <1>3 DEF NamedVisits, Known
<1>6. v # None => v \in DOMAIN sessions /\ sessions[v].playerId = tx.playerId /\ tx.playerId \in Players
  <2>1. VisitKnown(tx)
    BY <1>1 DEF LinkInv
  <2> QED
    BY <1>1, <2>1, VisitFields DEF VisitKnown
<1>7. v # None => SeenVisits(c)[v] = sessions[v]
  BY <1>5, <1>6, ScopedVisitsRead, VisitsSeen
<1>8. SeenEntries(c)[t] = tx /\ Scoped(c)!ReversalsOf(t) = ReversalsOf(t)
  BY <1>1, <1>2, <1>3, EntriesSeen
<1> QED
  BY <1>1, <1>2, <1>4, <1>5, <1>6, <1>7, <1>8 DEF TxType

\* validateEntry() of a reversal.
LEMMA ReversalEntrySeen ==
    ASSUME TypeInv, LinkInv, NEW c, c.kind \in {"CORRECT", "DECIDE"},
           NEW t \in DOMAIN transactions, t \in Originals(c), NEW q, NEW self, q.type = "Reversal",
           q.reversesId = t, q.sessionId = transactions[t].sessionId
    PROVE  Scoped(c)!ValidEntry(q, self) <=> ValidEntry(q, self)
<1>1. PICK tx, v : tx = transactions[t] /\ v = q.sessionId
  OBVIOUS
<1>2. /\ SeenEntries(c)[t] = tx /\ Scoped(c)!ReversalsOf(t) = ReversalsOf(t)
      /\ tx.playerId \in Players \cup {None}
      /\ tx.playerId \in Players => tx.playerId \in ScopedPlayers(c)
      /\ v # None => /\ v \in DOMAIN sessions /\ v \in NamedVisits(c)
                     /\ sessions[v].playerId = tx.playerId /\ tx.playerId \in Players
                     /\ SeenVisits(c)[v] = sessions[v]
  BY <1>1, OriginalRead
<1>3. tx.playerId # None =>
         /\ SeenProfiles(c)[tx.playerId] = profiles[tx.playerId]
         /\ SeenDebts(c)[tx.playerId] = outstanding[tx.playerId]
         /\ Scoped(c)!IsCredit(tx.playerId) <=> IsCredit(tx.playerId)
         /\ Scoped(c)!ReservedCredit(tx.playerId) = ReservedCredit(tx.playerId)
  BY <1>2, PlayerSeen
<1>4. Scoped(c)!ReversalWithinLimit(tx) <=> ReversalWithinLimit(tx)
  <2>1. CASE tx.playerId = None
    BY <2>1 DEF Scoped!ReversalWithinLimit, ReversalWithinLimit, Scoped!IsCredit, IsCredit
  <2>2. CASE tx.playerId # None
    BY <1>3, <2>2 DEF Scoped!ReversalWithinLimit, ReversalWithinLimit
  <2> QED
    BY <2>1, <2>2
<1>5. Scoped(c)!BuyInVisitOpen(v) <=> BuyInVisitOpen(v)
  <2>1. v \in ActiveVisits => v # None
    BY VisitFields DEF ActiveVisits
  <2>2. v \in ActiveVisits => v \in ScopedVisits(c)
    BY <1>2, <2>1, ScopedVisitsRead
  <2> QED
    BY <2>2, VisitsSeen DEF Scoped!BuyInVisitOpen, BuyInVisitOpen
<1>6. ASSUME tx.type = "Cash-out", ReversalsOf(t) = {}
      PROVE  /\ SeenVisits(c)[v] = sessions[v]
             /\ Scoped(c)!NoLaterVisit(v) <=> NoLaterVisit(v)
             /\ Scoped(c)!EnsureSeat(sessions[v].tableId, sessions[v].seat, v)
                  <=> EnsureSeat(sessions[v].tableId, sessions[v].seat, v)
  <2>1. v \in DOMAIN sessions
    BY <1>1, <1>6 DEF LinkInv, CashOutsStand, Standing
  <2>2. v # None
    BY <2>1, VisitFields
  <2>3. SeatKey(sessions[v].tableId, sessions[v].seat) \in NamedSeats(c)
    BY <1>2, <2>2 DEF NamedSeats, SeatOf
  <2> QED
    BY <1>2, <2>1, <2>2, <2>3, NoLaterSeen, SeatSeen
<1>7. ValidReversal(q) <=>
         /\ ReversalsOf(t) = {}
         /\ tx.playerId # None => outstanding[tx.playerId] - tx.creditDelta >= 0
         /\ ReversalWithinLimit(tx)
         /\ tx.type = "Buy-in" => BuyInVisitOpen(v)
         /\ tx.type = "Cash-out" =>
               NoLaterVisit(v) /\ EnsureSeat(sessions[v].tableId, sessions[v].seat, v)
  BY <1>1 DEF ValidReversal
<1>8. Scoped(c)!ValidReversal(q) <=>
         /\ Scoped(c)!ReversalsOf(t) = {}
         /\ tx.playerId # None => SeenDebts(c)[tx.playerId] - tx.creditDelta >= 0
         /\ Scoped(c)!ReversalWithinLimit(tx)
         /\ tx.type = "Buy-in" => Scoped(c)!BuyInVisitOpen(v)
         /\ tx.type = "Cash-out" =>
               /\ Scoped(c)!NoLaterVisit(v)
               /\ Scoped(c)!EnsureSeat(SeenVisits(c)[v].tableId, SeenVisits(c)[v].seat, v)
  BY <1>1, <1>2 DEF Scoped!ValidReversal
<1>9. Scoped(c)!ValidReversal(q) <=> ValidReversal(q)
  BY <1>2, <1>3, <1>4, <1>5, <1>6, <1>7, <1>8
<1> QED
  BY <1>9 DEF Scoped!ValidEntry, ValidEntry

-----------------------------------------------------------------------------
(* Requests, corrections and decisions.                                    *)

LEMMA BuyInSeen ==
    ASSUME TypeInv, NEW c, c.kind = "REQUEST", c.type = "Buy-in", NEW v \in DOMAIN sessions,
           c.visit = v, SeenVisits(c)[v] = sessions[v], NEW n
    PROVE  Scoped(c)!MayBuyIn(v, n) <=> MayBuyIn(v, n)
<1>1. PICK p, t : p = sessions[v].playerId /\ t = sessions[v].tableId
  OBVIOUS
<1>2. p \in Players /\ ScopedPlayers(c) = {p}
  <2>1. ScopedEntries(c) = {}
    BY DEF ScopedEntries, Originals
  <2> QED
    BY <1>1, <2>1, VisitFields DEF ScopedPlayers, NamedPlayers
<1>3. /\ SeenProfiles(c)[p] = profiles[p] /\ SeenDebts(c)[p] = outstanding[p]
      /\ Scoped(c)!IsCredit(p) <=> IsCredit(p)
      /\ Scoped(c)!ReservedCredit(p) = ReservedCredit(p)
  BY <1>2, PlayerSeen
<1>4. Scoped(c)!CreditAvailable(p, n) <=> CreditAvailable(p, n)
  BY <1>3 DEF Scoped!CreditAvailable, CreditAvailable
<1>5. (\A r \in Scoped(c)!PendingRequests :
          ~(SeenRequests(c)[r].playerId = p /\ SeenRequests(c)[r].type = "Cash-out"))
        <=> \A r \in PendingRequests : ~(approvals[r].playerId = p /\ approvals[r].type = "Cash-out")
  <2>1. Blockers(c) = {r \in PendingRequests : approvals[r].playerId = p /\ approvals[r].type = "Cash-out"}
    BY <1>2 DEF Blockers
  <2>2. \A r \in PendingRequests : r \in DOMAIN approvals
    BY DEF PendingRequests
  <2>3. \A r \in Scoped(c)!PendingRequests : r \in PendingRequests
    BY RequestsSeen
  <2>4. \A r \in Scoped(c)!PendingRequests :
           SeenRequests(c)[r].type = "Cash-out" => SeenRequests(c)[r] = approvals[r]
    <3>1. \A r \in Scoped(c)!PendingRequests :
             r \in ScopedRequests(c) \/ SeenRequests(c)[r].type = "Buy-in"
      BY <2>2, <2>3, RequestsSeen
    <3> QED
      BY <2>2, <2>3, <3>1, RequestsSeen
  <2>5. \A r \in Blockers(c) : r \in ScopedRequests(c) =>
           r \in Scoped(c)!PendingRequests /\ SeenRequests(c)[r] = approvals[r]
    BY <2>1, <2>2, RequestsSeen
  <2> QED
    BY <2>1, <2>3, <2>4, <2>5, BlockersSeen
<1>6. MayBuyIn(v, n) <=>
         /\ BuyInAllowed(EffectiveRules(settings.rules, tables[t].rules), n)
         /\ IsCredit(p) => "credit" \in settings.features
         /\ ~profiles[p].banned
         /\ \A r \in PendingRequests : ~(approvals[r].playerId = p /\ approvals[r].type = "Cash-out")
         /\ CreditAvailable(p, n)
  BY <1>1 DEF MayBuyIn
<1>7. Scoped(c)!MayBuyIn(v, n) <=>
         /\ Scoped(c)!BuyInAllowed(Scoped(c)!EffectiveRules(settings.rules, tables[t].rules), n)
         /\ Scoped(c)!IsCredit(p) => "credit" \in settings.features
         /\ ~SeenProfiles(c)[p].banned
         /\ \A r \in Scoped(c)!PendingRequests :
               ~(SeenRequests(c)[r].playerId = p /\ SeenRequests(c)[r].type = "Cash-out")
         /\ Scoped(c)!CreditAvailable(p, n)
  BY <1>1 DEF Scoped!MayBuyIn
<1> QED
  BY <1>3, <1>4, <1>5, <1>6, <1>7, RulesSeen

LEMMA RequestSees ==
    ASSUME TypeInv, NEW c, c.kind = "REQUEST", c.visit \in ActiveVisits, c.type \in SessionEntries
    PROVE  SeesEnough(c)
<1>1. PICK v, p, t : v = c.visit /\ p = sessions[v].playerId /\ t = sessions[v].tableId
  OBVIOUS
<1>2. v \in DOMAIN sessions /\ v # None /\ p \in Players /\ p \in ScopedPlayers(c)
  <2>1. v \in DOMAIN sessions /\ v # None /\ p \in Players
    BY <1>1, VisitFields DEF ActiveVisits
  <2> QED
    BY <1>1, <2>1 DEF ScopedPlayers, NamedPlayers
<1>3. SeenVisits(c)[v] = sessions[v] /\ v \in Scoped(c)!ActiveVisits /\ v \in ActiveVisits
  BY <1>1, <1>2, ScopedVisitsRead, VisitsSeen
<1>4. Scoped(c)!Dependencies(c) = Dependencies(c)
  BY <1>1, <1>3, AlwaysRead DEF Scoped!Dependencies, Dependencies
<1>5. PICK q : q = [dayId |-> Today, type |-> c.type, amount |-> c.amount, playerId |-> p,
                    sessionId |-> v, tableId |-> t, reversesId |-> None]
  OBVIOUS
<1>6. Scoped(c)!ValidEntry(q, None) <=> ValidEntry(q, None)
  <2>1. q.type = c.type /\ q.playerId = p /\ q.sessionId = v
    BY <1>5
  <2>2. q.type # "Reversal" /\ VisitKnown(q)
    BY <1>1, <1>2, <2>1 DEF VisitKnown, SessionEntries
  <2>3. None \notin DOMAIN approvals
    <3>1. approvals \in Seq(RequestType)
      BY RecordsTyped DEF TypesNow
    <3> QED
      BY <3>1, LenProperties, VenueAssumption
  <2>4. c.type = "Cash-out" => Blockers(c) = PendingFor(v) \ {None}
    <3>1. None \notin PendingFor(v)
      BY <2>3 DEF PendingFor, PendingRequests
    <3>2. c.type = "Cash-out" => Blockers(c) = PendingFor(v)
      BY <1>1 DEF Blockers
    <3> QED
      BY <3>1, <3>2
  <2> QED
    BY <1>2, <2>1, <2>2, <2>4, PlainEntrySeen
<1>7. c.type = "Buy-in" => (Scoped(c)!MayBuyIn(v, c.amount) <=> MayBuyIn(v, c.amount))
  BY <1>1, <1>2, <1>3, BuyInSeen
<1>8. Verdict(c) = Accepted(/\ DayIsOpen /\ v \in ActiveVisits
                            /\ (c.type = "Buy-in" => MayBuyIn(v, c.amount))
                            /\ ValidEntry(q, None), q)
  BY <1>1, <1>5, RequestRead DEF RequestReads
<1>9. Scoped(c)!Verdict(c)
        = Scoped(c)!Accepted(/\ Scoped(c)!DayIsOpen /\ v \in Scoped(c)!ActiveVisits
                             /\ (c.type = "Buy-in" => Scoped(c)!MayBuyIn(v, c.amount))
                             /\ Scoped(c)!ValidEntry(q, None), q)
  <2>1. q = [dayId |-> Scoped(c)!Today, type |-> c.type, amount |-> c.amount,
             playerId |-> SeenVisits(c)[c.visit].playerId,
             sessionId |-> c.visit, tableId |-> SeenVisits(c)[c.visit].tableId, reversesId |-> None]
    BY <1>1, <1>3, <1>5, AlwaysRead
  <2>2. Scoped(c)!Verdict(c) =
          LET e == [dayId |-> Scoped(c)!Today, type |-> c.type, amount |-> c.amount,
                    playerId |-> SeenVisits(c)[c.visit].playerId,
                    sessionId |-> c.visit, tableId |-> SeenVisits(c)[c.visit].tableId, reversesId |-> None]
          IN  Scoped(c)!Accepted(/\ Scoped(c)!DayIsOpen /\ c.visit \in Scoped(c)!ActiveVisits
                                 /\ (c.type = "Buy-in" => Scoped(c)!MayBuyIn(c.visit, c.amount))
                                 /\ Scoped(c)!ValidEntry(e, None), e)
    BY DEF Scoped!Verdict
  <2> QED
    BY <1>1, <2>1, <2>2
<1>10. PICK b, d :
          /\ b <=> /\ DayIsOpen /\ v \in ActiveVisits
                   /\ (c.type = "Buy-in" => MayBuyIn(v, c.amount)) /\ ValidEntry(q, None)
          /\ d <=> /\ Scoped(c)!DayIsOpen /\ v \in Scoped(c)!ActiveVisits
                   /\ (c.type = "Buy-in" => Scoped(c)!MayBuyIn(v, c.amount))
                   /\ Scoped(c)!ValidEntry(q, None)
  OBVIOUS
<1>11. Verdict(c) = Accepted(b, q) /\ Scoped(c)!Verdict(c) = Scoped(c)!Accepted(d, q)
  BY <1>8, <1>9, <1>10 DEF Accepted, Scoped!Accepted
<1>12. d <=> b
  BY <1>3, <1>6, <1>7, <1>10, AlwaysRead
<1> QED
  BY <1>4, <1>11, <1>12, AcceptedAlike DEF SeesEnough

LEMMA EntrySees ==
    ASSUME TypeInv, NEW c, c.kind = "ENTRY", c.type \in EntryTypes \ SessionEntries,
           c.player \in Players \cup {None}
    PROVE  SeesEnough(c)
<1>1. Scoped(c)!Dependencies(c) = Dependencies(c)
  BY AlwaysRead DEF Scoped!Dependencies, Dependencies
<1>2. c.player \in Players => c.player \in ScopedPlayers(c)
  BY VenueAssumption DEF ScopedPlayers, NamedPlayers, Known
<1>3. c.player # None => SeenProfiles(c)[c.player] = profiles[c.player]
  BY <1>2, PlayerSeen
<1>4. PICK q : q = [dayId |-> Today, type |-> c.type, amount |-> c.amount, playerId |-> c.player,
                    sessionId |-> None, tableId |-> c.table, reversesId |-> None]
  OBVIOUS
<1>5. Scoped(c)!ValidEntry(q, None) <=> ValidEntry(q, None)
  <2>1. q.type = c.type /\ q.playerId = c.player /\ q.sessionId = None
    BY <1>4
  <2>2. q.type # "Reversal" /\ VisitKnown(q)
    BY <2>1 DEF VisitKnown, EntryTypes, SessionEntries, DealerEntries
  <2> QED
    BY <1>2, <2>1, <2>2, PlainEntrySeen
<1>6. Scoped(c)!RequiredFeatures(c.type) = RequiredFeatures(c.type)
  BY DEF Scoped!RequiredFeatures, RequiredFeatures
<1>7. Verdict(c) = Accepted(/\ DayIsOpen /\ RequiredFeatures(c.type) \subseteq settings.features
                            /\ (c.player # None => profiles[c.player].type # "ABSENT")
                            /\ ValidEntry(q, None), q)
  BY <1>4, EntryRead DEF EntryReads
<1>8. Scoped(c)!Verdict(c)
        = Scoped(c)!Accepted(/\ Scoped(c)!DayIsOpen
                             /\ Scoped(c)!RequiredFeatures(c.type) \subseteq settings.features
                             /\ (c.player # None => SeenProfiles(c)[c.player].type # "ABSENT")
                             /\ Scoped(c)!ValidEntry(q, None), q)
  <2>1. q = [dayId |-> Scoped(c)!Today, type |-> c.type, amount |-> c.amount, playerId |-> c.player,
             sessionId |-> None, tableId |-> c.table, reversesId |-> None]
    BY <1>4, AlwaysRead
  <2>2. Scoped(c)!Verdict(c) =
          LET e == [dayId |-> Scoped(c)!Today, type |-> c.type, amount |-> c.amount,
                    playerId |-> c.player, sessionId |-> None, tableId |-> c.table, reversesId |-> None]
          IN  Scoped(c)!Accepted(/\ Scoped(c)!DayIsOpen
                                 /\ Scoped(c)!RequiredFeatures(c.type) \subseteq settings.features
                                 /\ (c.player # None => SeenProfiles(c)[c.player].type # "ABSENT")
                                 /\ Scoped(c)!ValidEntry(e, None), e)
    BY DEF Scoped!Verdict
  <2> QED
    BY <2>1, <2>2
<1>9. PICK b, d :
         /\ b <=> /\ DayIsOpen /\ RequiredFeatures(c.type) \subseteq settings.features
                  /\ (c.player # None => profiles[c.player].type # "ABSENT")
                  /\ ValidEntry(q, None)
         /\ d <=> /\ Scoped(c)!DayIsOpen
                  /\ Scoped(c)!RequiredFeatures(c.type) \subseteq settings.features
                  /\ (c.player # None => SeenProfiles(c)[c.player].type # "ABSENT")
                  /\ Scoped(c)!ValidEntry(q, None)
  OBVIOUS
<1>10. Verdict(c) = Accepted(b, q) /\ Scoped(c)!Verdict(c) = Scoped(c)!Accepted(d, q)
  BY <1>7, <1>8, <1>9 DEF Accepted, Scoped!Accepted
<1>11. d <=> b
  BY <1>3, <1>5, <1>6, <1>9, AlwaysRead
<1> QED
  BY <1>1, <1>10, <1>11, AcceptedAlike DEF SeesEnough

\* An entry's keys are those of a record and a visit that are read.
LEMMA EntryKeysSeen ==
    ASSUME TypeInv, LinkInv, NEW c, c.kind \in {"CORRECT", "DECIDE"},
           NEW t \in DOMAIN transactions, t \in Originals(c)
    PROVE  Scoped(c)!EntryKeys(t) = EntryKeys(t)
<1>1. PICK tx, v : tx = transactions[t] /\ v = tx.sessionId
  OBVIOUS
<1>2. SeenEntries(c)[t] = tx /\ (v # None => SeenVisits(c)[v] = sessions[v])
  BY <1>1, OriginalRead
<1>3. v # None => Scoped(c)!SeatOf(v) = SeatOf(v)
  BY <1>2, AlwaysRead DEF Scoped!SeatOf, SeatOf
<1>4. EntryKeys(t) = {<<"transaction", t>>, <<"reversal", t>>}
                     \cup PlayerKey(tx.playerId) \cup TableKey(tx.tableId)
                     \cup (IF v = None THEN {} ELSE {SeatOf(v)})
  BY <1>1 DEF EntryKeys
<1>5. Scoped(c)!EntryKeys(t) = {<<"transaction", t>>, <<"reversal", t>>}
                     \cup Scoped(c)!PlayerKey(tx.playerId) \cup Scoped(c)!TableKey(tx.tableId)
                     \cup (IF v = None THEN {} ELSE {Scoped(c)!SeatOf(v)})
  BY <1>1, <1>2 DEF Scoped!EntryKeys
<1> QED
  BY <1>3, <1>4, <1>5, AlwaysRead

LEMMA CorrectSees ==
    ASSUME TypeInv, LinkInv, NEW c, c.kind = "CORRECT", c.entry \in DOMAIN transactions
    PROVE  SeesEnough(c)
<1>1. PICK t, tx : t = c.entry /\ tx = transactions[t]
  OBVIOUS
<1>2. t \in DOMAIN transactions /\ t \in Originals(c)
  BY <1>1 DEF Originals
<1>3. SeenEntries(c)[t] = tx /\ t # None /\ Scoped(c)!ReversalsOf(t) = ReversalsOf(t)
  BY <1>1, <1>2, OriginalRead
<1>4. Scoped(c)!Dependencies(c) = Dependencies(c)
  BY <1>1, <1>2, AlwaysRead, EntryKeysSeen DEF Scoped!Dependencies, Dependencies
<1>5. PICK q : q = ReversalOf(tx, t)
  OBVIOUS
<1>6. Scoped(c)!ValidEntry(q, None) <=> ValidEntry(q, None)
  <2>1. tx \in TxType
    BY <1>1, <1>2, ElementOfSeq, LenProperties, RecordsTyped DEF TypesNow
  <2>2. q.type = "Reversal" /\ q.reversesId = t /\ q.sessionId = tx.sessionId
    BY <1>5, <2>1 DEF TxType, ReversalOf
  <2> QED
    BY <1>1, <1>2, <2>2, ReversalEntrySeen
<1>7. Scoped(c)!NotBeingReversed(t) <=> NotBeingReversed(t)
  <2>1. Blockers(c) = {r \in PendingRequests : approvals[r].reversesId = t}
    BY <1>1 DEF Blockers
  <2>2. \A r \in PendingRequests : r \in DOMAIN approvals
    BY DEF PendingRequests
  <2>3. \A r \in Scoped(c)!PendingRequests : r \in PendingRequests
    BY RequestsSeen
  <2>4. \A r \in Scoped(c)!PendingRequests :
           SeenRequests(c)[r].reversesId = t => SeenRequests(c)[r] = approvals[r]
    BY <1>3, <2>2, <2>3, RequestsSeen
  <2>5. \A r \in Blockers(c) : r \in ScopedRequests(c) =>
           r \in Scoped(c)!PendingRequests /\ SeenRequests(c)[r] = approvals[r]
    BY <2>1, <2>2, RequestsSeen
  <2> QED
    BY <1>3, <2>1, <2>3, <2>4, <2>5, BlockersSeen DEF Scoped!NotBeingReversed, NotBeingReversed
<1>8. Verdict(c) = Accepted(/\ DayIsOpen /\ tx.dayId = Today /\ tx.reversesId = None
                            /\ NotBeingReversed(t) /\ ValidEntry(q, None), q)
  BY <1>1, <1>5, CorrectRead DEF CorrectReads
<1>9. Scoped(c)!Verdict(c)
        = Scoped(c)!Accepted(/\ Scoped(c)!DayIsOpen /\ tx.dayId = Scoped(c)!Today /\ tx.reversesId = None
                             /\ Scoped(c)!NotBeingReversed(t) /\ Scoped(c)!ValidEntry(q, None), q)
  <2>1. SeenEntries(c)[c.entry] = tx /\ q = [tx EXCEPT !.type = "Reversal", !.reversesId = c.entry]
    BY <1>1, <1>3, <1>5 DEF ReversalOf
  <2>2. Scoped(c)!Verdict(c) =
          LET e == SeenEntries(c)[c.entry]
              f == [e EXCEPT !.type = "Reversal", !.reversesId = c.entry]
          IN  Scoped(c)!Accepted(/\ Scoped(c)!DayIsOpen /\ e.dayId = Scoped(c)!Today
                                 /\ e.reversesId = None /\ Scoped(c)!NotBeingReversed(c.entry)
                                 /\ Scoped(c)!ValidEntry(f, None), f)
    BY DEF Scoped!Verdict
  <2> QED
    BY <1>1, <2>1, <2>2
<1>10. PICK b, d :
          /\ b <=> /\ DayIsOpen /\ tx.dayId = Today /\ tx.reversesId = None
                   /\ NotBeingReversed(t) /\ ValidEntry(q, None)
          /\ d <=> /\ Scoped(c)!DayIsOpen /\ tx.dayId = Scoped(c)!Today /\ tx.reversesId = None
                   /\ Scoped(c)!NotBeingReversed(t) /\ Scoped(c)!ValidEntry(q, None)
  OBVIOUS
<1>11. Verdict(c) = Accepted(b, q) /\ Scoped(c)!Verdict(c) = Scoped(c)!Accepted(d, q)
  BY <1>8, <1>9, <1>10 DEF Accepted, Scoped!Accepted
<1>12. d <=> b
  BY <1>6, <1>7, <1>10, AlwaysRead
<1> QED
  BY <1>4, <1>11, <1>12, AcceptedAlike DEF SeesEnough

\* What posting a request would write.
LEMMA PostingSeen ==
    ASSUME TypeInv, LinkInv, NEW c, c.kind = "DECIDE", NEW r \in DOMAIN approvals,
           c.request = r, SeenRequests(c)[r] = approvals[r]
    PROVE  Scoped(c)!Posting(r) = Posting(r)
<1>1. PICK q : q = approvals[r]
  OBVIOUS
<1>2. q \in RequestType /\ ReversalLinked(q)
  BY <1>1, ElementOfSeq, LenProperties DEF TypeInv, TypeOK, Linked
<1>3. /\ \A tx : Scoped(c)!ReversalImpact(tx) = ReversalImpact(tx)
      /\ \A type, n, credit, owed :
            Scoped(c)!EntryImpact(type, n, credit, owed) = EntryImpact(type, n, credit, owed)
  BY DEF Scoped!ReversalImpact, ReversalImpact, Scoped!EntryImpact, EntryImpact, Scoped!Impact, Impact,
         Scoped!Smaller, Smaller, Scoped!CashPayouts, CashPayouts
<1>4. CASE q.type = "Reversal"
  <2>1. PICK t, tx : t = q.reversesId /\ tx = transactions[t]
    OBVIOUS
  <2>2. t \in DOMAIN transactions /\ t # None
    BY <1>2, <1>4, <2>1 DEF ReversalLinked
  <2>3. t \in Originals(c)
    BY <1>1, <2>1, <2>2 DEF Originals, Known
  <2>4. SeenEntries(c)[t] = tx
    BY <2>1, <2>2, <2>3, OriginalRead
  <2>5. Posting(r) = EntryOf(r, q, ReversalImpact(tx))
    BY <1>1, <1>4, <2>1, PostingRead DEF PostingReads
  <2>6. Scoped(c)!Posting(r) = EntryOf(r, q, Scoped(c)!ReversalImpact(tx))
    BY <1>1, <1>4, <2>1, <2>4 DEF Scoped!Posting, EntryOf
  <2> QED
    BY <1>3, <2>5, <2>6
<1>5. CASE q.type # "Reversal"
  <2>1. PICK credit \in BOOLEAN : credit <=> IsCredit(q.playerId)
    <3>1. IsCredit(q.playerId) \in BOOLEAN
      BY DEF IsCredit
    <3> QED
      BY <3>1
  <2>2. PICK owed : owed = (IF q.playerId = None THEN 0 ELSE outstanding[q.playerId])
    OBVIOUS
  <2>3. q.playerId # None => q.playerId \in Players /\ q.playerId \in ScopedPlayers(c)
    BY <1>1, <1>2 DEF RequestType, ScopedPlayers, NamedPlayers, Known
  <2>4. Scoped(c)!IsCredit(q.playerId) = credit
    <3>1. CASE q.playerId = None
      BY <2>1, <3>1 DEF IsCredit, Scoped!IsCredit
    <3>2. CASE q.playerId # None
      <4>1. Scoped(c)!IsCredit(q.playerId) \in BOOLEAN
        BY DEF Scoped!IsCredit
      <4> QED
        BY <2>1, <2>3, <3>2, <4>1, PlayerSeen
    <3> QED
      BY <3>1, <3>2
  <2>5. owed = (IF q.playerId = None THEN 0 ELSE SeenDebts(c)[q.playerId])
    BY <2>2, <2>3, PlayerSeen
  <2>6. Posting(r) = EntryOf(r, q, EntryImpact(q.type, q.amount, credit, owed))
    BY <1>1, <1>5, <2>1, <2>2, PostingRead DEF PostingReads
  <2>7. Scoped(c)!Posting(r) = EntryOf(r, q, Scoped(c)!EntryImpact(q.type, q.amount, credit, owed))
    <3>1. Scoped(c)!EntryImpact(q.type, q.amount, Scoped(c)!IsCredit(q.playerId),
                                IF q.playerId = None THEN 0 ELSE SeenDebts(c)[q.playerId])
            = Scoped(c)!EntryImpact(q.type, q.amount, credit, owed)
      BY <2>4, <2>5
    <3> QED
      BY <1>1, <1>5, <3>1 DEF Scoped!Posting, EntryOf
  <2> QED
    BY <1>3, <2>6, <2>7
<1> QED
  BY <1>4, <1>5

LEMMA DecideSees ==
    ASSUME TypeInv, LinkInv, NEW c, c.kind = "DECIDE", c.request \in DOMAIN approvals
    PROVE  SeesEnough(c)
<1>1. PICK r, q, t : r = c.request /\ q = approvals[r] /\ t = q.reversesId
  OBVIOUS
<1>2. /\ q \in RequestType /\ VisitKnown(q) /\ ReversalMatches(q)
      /\ t = None <=> q.type # "Reversal"
      /\ t # None => t \in DOMAIN transactions
  <2>1. q \in RequestType
    BY <1>1, ElementOfSeq, LenProperties, RecordsTyped DEF TypesNow
  <2>2. ReversalLinked(q)
    BY <1>1 DEF TypeInv, Linked
  <2> QED
    BY <1>1, <2>1, <2>2 DEF LinkInv, ReversalsMatch, ReversalLinked
<1>3. SeenRequests(c)[r] = q
  <2>1. r \in ScopedRequests(c)
    BY <1>1 DEF ScopedRequests
  <2> QED
    BY <1>1, <2>1, RequestsSeen
<1>4. t # None => t \in Originals(c)
  BY <1>1 DEF Originals, Known
<1>5. Scoped(c)!Dependencies(c) = Dependencies(c)
  <2>1. t # None => Scoped(c)!EntryKeys(t) = EntryKeys(t)
    BY <1>2, <1>4, EntryKeysSeen
  <2>2. RequestKeys(r) = {Settings, <<"approval", r>>} \cup PlayerKey(q.playerId) \cup TableKey(q.tableId)
                         \cup (IF t = None THEN {} ELSE EntryKeys(t))
    BY <1>1 DEF RequestKeys
  <2>3. Scoped(c)!RequestKeys(r)
          = {Scoped(c)!Settings, <<"approval", r>>}
            \cup Scoped(c)!PlayerKey(q.playerId) \cup Scoped(c)!TableKey(q.tableId)
            \cup (IF t = None THEN {} ELSE Scoped(c)!EntryKeys(t))
    BY <1>1, <1>3 DEF Scoped!RequestKeys
  <2>4. Scoped(c)!RequestKeys(r) = RequestKeys(r)
    BY <2>1, <2>2, <2>3, AlwaysRead
  <2> QED
    BY <1>1, <2>4, AlwaysRead DEF Scoped!Dependencies, Dependencies
<1>6. Scoped(c)!ValidEntry(q, r) <=> ValidEntry(q, r)
  <2>1. CASE t # None
    <3>1. q.sessionId = transactions[t].sessionId
      BY <1>1, <1>2, <2>1 DEF ReversalMatches
    <3> QED
      BY <1>1, <1>2, <1>4, <2>1, <3>1, ReversalEntrySeen
  <2>2. CASE t = None
    <3>1. q.playerId \in Players \cup {None}
      BY <1>2 DEF RequestType
    <3>2. q.playerId \in Players => q.playerId \in ScopedPlayers(c)
      BY <1>1, VenueAssumption DEF ScopedPlayers, NamedPlayers, Known
    <3>3. q.type = "Cash-out" => Blockers(c) = PendingFor(q.sessionId) \ {r}
      BY <1>1 DEF Blockers
    <3> QED
      BY <1>2, <2>2, <3>1, <3>2, <3>3, PlainEntrySeen
  <2> QED
    BY <2>1, <2>2
<1>7. Scoped(c)!Posting(r) = Posting(r)
  BY <1>1, <1>3, PostingSeen
<1>8. Scoped(c)!CanApprove(c.by, q) <=> CanApprove(c.by, q)
  BY DEF Scoped!CanApprove, CanApprove, Scoped!Supervisors, Supervisors
<1>9. Verdict(c) = Accepted(DayIsOpen /\ CanApprove(c.by, q) /\ ValidEntry(q, r), <<q, Posting(r)>>)
  BY <1>1, DecideRead DEF DecideReads
<1>10. Scoped(c)!Verdict(c)
         = Scoped(c)!Accepted(/\ Scoped(c)!DayIsOpen /\ Scoped(c)!CanApprove(c.by, q)
                              /\ Scoped(c)!ValidEntry(q, r), <<q, Scoped(c)!Posting(r)>>)
  BY <1>1, <1>3 DEF Scoped!Verdict
<1>11. PICK b, d, e :
          /\ b <=> DayIsOpen /\ CanApprove(c.by, q) /\ ValidEntry(q, r)
          /\ d <=> Scoped(c)!DayIsOpen /\ Scoped(c)!CanApprove(c.by, q) /\ Scoped(c)!ValidEntry(q, r)
          /\ e = <<q, Posting(r)>>
  OBVIOUS
<1>12. Verdict(c) = Accepted(b, e) /\ Scoped(c)!Verdict(c) = Scoped(c)!Accepted(d, e)
  BY <1>7, <1>9, <1>10, <1>11 DEF Accepted, Scoped!Accepted
<1>13. d <=> b
  BY <1>6, <1>8, <1>11, AlwaysRead
<1> QED
  BY <1>5, <1>12, <1>13, AcceptedAlike DEF SeesEnough

-----------------------------------------------------------------------------

\* Nothing is read for the creation of a table but tables and settings.
LEMMA CreateTableSees ==
    ASSUME NEW c, c.kind = "CREATE_TABLE"
    PROVE  /\ Scoped(c)!Verdict(c)
                 = IF Unread(c) THEN Accepted(TableRulesOK(settings.rules, c.rules), {})
                                ELSE Verdict(c)
           /\ Scoped(c)!Dependencies(c) = Dependencies(c)
<1>1. Scoped(c)!Dependencies(c) = Dependencies(c)
  BY AlwaysRead DEF Scoped!Dependencies, Dependencies
<1>2. ScopedEntries(c) = {} /\ NamedPlayers(c) = {}
  BY DEF ScopedEntries, Originals, NamedPlayers
<1>3. ScopedPlayers(c) = {} /\ NamedVisits(c) = {}
  BY <1>2 DEF ScopedPlayers, NamedVisits
<1>4. NamedSeats(c) = {}
  BY <1>3 DEF NamedSeats
<1>5. ScopedVisits(c) = {}
  BY <1>3, <1>4 DEF ScopedVisits
<1>6. Scoped(c)!ActiveVisits = {}
  BY <1>5, VisitsSeen
<1>7. ScopedRequests(c) = {}
  BY DEF ScopedRequests, Blockers
<1>8. \A r \in DOMAIN approvals : ~Summed(c, r)
  BY <1>3 DEF Summed
<1>9. Scoped(c)!PendingRequests = {}
  BY <1>7, <1>8, RequestsSeen DEF PendingRequests
<1>10. Scoped(c)!TableIdle(None)
  BY <1>6, <1>9 DEF Scoped!TableIdle
<1>11. PICK ok, idle : ok = TableRulesOK(settings.rules, c.rules) /\ idle = TableIdle(None)
  OBVIOUS
<1>12. PICK seen : seen = Scoped(c)!TableRulesOK(settings.rules, c.rules) /\ (seen <=> ok)
  BY <1>11, RulesSeen
<1>13. Scoped(c)!Verdict(c) = Scoped(c)!Accepted(seen, {})
  BY <1>10, <1>12 DEF Scoped!Verdict, Scoped!Accepted
<1>14. Verdict(c) = Accepted(ok /\ (c.status = "CLOSED" => idle), {})
  BY <1>11 DEF Verdict, Accepted
<1>15. Unread(c) <=> c.status = "CLOSED" /\ ~idle
  BY <1>11 DEF Unread
<1>16. Scoped(c)!Accepted(seen, {}) = Accepted(ok, {})
  BY <1>12, AcceptedAlike
<1>17. ~Unread(c) => Verdict(c) = Accepted(ok, {})
  BY <1>14, <1>15 DEF Accepted
<1> QED
  BY <1>1, <1>11, <1>13, <1>16, <1>17

LEMMA CommandSees ==
    ASSUME TypeInv, LinkInv, NEW c \in Prepared \cup Reconfigurations, c.kind # "CREATE_TABLE"
    PROVE  SeesEnough(c)
<1>1. CASE c \in Reconfigurations
  <2>1. \/ c.kind = "CLOSE_TABLE" /\ c.table \in Tables
        \/ c.kind = "UPDATE_SETTINGS"
    BY <1>1 DEF Reconfigurations
  <2> QED
    BY <2>1, SetupSees, CloseTableSees
<1>2. CASE c \in Prepared
  <2>1. CASE c.kind \in {"CLOSE_DAY", "REOPEN_DAY", "OPEN_DAY", "COMPLETE_SETUP"}
    BY <2>1, CloseDaySees, SetupSees
  <2>2. CASE c.kind = "CHECK_IN" /\ c.player \in Players /\ c.table \in Tables
    BY <2>2, CheckInSees
  <2>3. CASE c.kind = "MOVE" /\ c.visit \in ActiveVisits /\ c.table \in Tables
    BY <2>3, MoveSees
  <2>4. CASE c.kind = "SWAP_SEATS" /\ c.visit \in ActiveVisits /\ c.other \in DOMAIN sessions
    BY <2>4, SwapSees DEF ActiveVisits
  <2>5. CASE c.kind = "REQUEST" /\ c.visit \in ActiveVisits /\ c.type \in SessionEntries
    BY <2>5, RequestSees
  <2>6. CASE /\ c.kind = "ENTRY" /\ c.type \in EntryTypes \ SessionEntries
             /\ c.player \in Players \cup {None} /\ c.table \in Tables \cup {None}
    BY <2>6, EntrySees
  <2>7. CASE c.kind = "CORRECT" /\ c.entry \in DOMAIN transactions
    BY <2>7, CorrectSees
  <2>8. CASE c.kind = "DECIDE" /\ c.request \in DOMAIN approvals
    BY <2>8, DecideSees
  <2>9. CASE c.kind = "TABLE" /\ c.table \in Tables
    BY <2>9, SetupSees
  <2>10. CASE c.kind = "UPDATE_PROFILE" /\ c.player \in Players
    BY <2>10, ProfileSees
  <2> QED
    BY <1>2, <2>1, <2>2, <2>3, <2>4, <2>5, <2>6, <2>7, <2>8, <2>9, <2>10, PreparedIs
<1> QED
  BY <1>1, <1>2

\* Scopes (ScopeDecides): a command is accepted or refused, has its effect, and
\* is taken to depend on the same keys, on the few rows loadCommandStore reads
\* for it as on the complete records of a venue of any size, but for one check:
\* a table may be created closed while a request without a table is pending, which
\* is refused on the complete records (command-store.ts, repository.ts:127-134,
\* operations.ts:269-276).
THEOREM FewRowsDecide == Spec => []ScopeDecides
<1>1. TypeInv /\ LinkInv => ScopeDecides
  <2> SUFFICES ASSUME TypeInv, LinkInv, NEW c \in Prepared \cup Reconfigurations
               PROVE  /\ Scoped(c)!Verdict(c)
                            = IF Unread(c) THEN Accepted(TableRulesOK(settings.rules, c.rules), {})
                                           ELSE Verdict(c)
                      /\ Scoped(c)!Dependencies(c) = Dependencies(c)
    BY DEF ScopeDecides
  <2>1. CASE c.kind = "CREATE_TABLE"
    BY <2>1, CreateTableSees
  <2>2. CASE c.kind # "CREATE_TABLE"
    BY <2>2, CommandSees DEF SeesEnough, Unread
  <2> QED
    BY <2>1, <2>2
<1> QED
  BY <1>1, TypeInvAlways, LinkInvAlways, PTL
=============================================================================
