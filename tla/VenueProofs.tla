------------------------------ MODULE VenueProofs ------------------------------
(***************************************************************************)
(* Proofs about every venue: any players, tables, staff, amounts, limits,  *)
(* thresholds and any number of commands.  First that every record keeps   *)
(* its shape; then that no sequence of commands takes a player's debt      *)
(* below zero or, together with what his pending buy-ins reserve, over his *)
(* credit limit.                                                           *)
(***************************************************************************)
EXTENDS VenueProperties, SequenceTheorems, FiniteSetTheorems, TLAPS

-----------------------------------------------------------------------------
(* The type invariant is inductive together with the references between    *)
(* records: a request to reverse an entry names an original entry that is  *)
(* in the ledger, and original entries have natural amounts.               *)

ReversalLinked(q) ==
    /\ q.reversesId = None <=> q.type # "Reversal"
    /\ q.reversesId # None =>
          /\ q.reversesId \in DOMAIN transactions
          /\ transactions[q.reversesId].reversesId = None

OriginalCounted(tx) == tx.reversesId = None => tx.amount \in Nat

Linked ==
    /\ Len(dayCash) = Len(days)
    /\ \A r \in DOMAIN approvals : ReversalLinked(approvals[r])
    /\ \A t \in DOMAIN transactions : OriginalCounted(transactions[t])

TypeInv == TypeOK /\ Linked

LEMMA InitTypeInv == Init => TypeInv
<1> SUFFICES ASSUME Init PROVE TypeInv
  OBVIOUS
<1>1. settings \in SettingsType
  BY VenueAssumption DEF Init, SettingsType
<1>2. tables \in [Tables -> TableType]
  BY DEF Init, TableType
<1>3. profiles \in [Players -> ProfileType]
  BY DEF Init, ProfileType
<1>4. outstanding \in [Players -> Int]
  BY DEF Init
<1>5. /\ days \in Seq(DayType)
      /\ sessions \in Seq(VisitType)
      /\ approvals \in Seq(RequestType)
      /\ transactions \in Seq(TxType)
      /\ dayCash \in Seq(Int)
  BY EmptySeq DEF Init
<1>6. Linked
  BY EmptySeq DEF Init, Linked
<1> QED
  BY <1>1, <1>2, <1>3, <1>4, <1>5, <1>6 DEF TypeInv, TypeOK

\* Lemmas about changing one element of a sequence.
LEMMA ExceptInSeq ==
    ASSUME NEW S, NEW s \in Seq(S), NEW i, NEW e, i \in DOMAIN s => e \in S
    PROVE  /\ [s EXCEPT ![i] = e] \in Seq(S)
           /\ Len([s EXCEPT ![i] = e]) = Len(s)
           /\ DOMAIN [s EXCEPT ![i] = e] = DOMAIN s
<1>1. DOMAIN s = 1 .. Len(s)
  BY LenProperties
<1>2. CASE i \in DOMAIN s
  BY <1>1, <1>2, ExceptSeq, LenProperties
<1>3. CASE i \notin DOMAIN s
  <2>1. [s EXCEPT ![i] = e] = s
    BY <1>3, LenProperties
  <2> QED
    BY <2>1
<1> QED
  BY <1>2, <1>3

LEMMA AppendToSeq ==
    ASSUME NEW S, NEW s \in Seq(S), NEW e \in S
    PROVE  /\ Append(s, e) \in Seq(S)
           /\ Len(Append(s, e)) = Len(s) + 1
           /\ DOMAIN Append(s, e) = DOMAIN s \cup {Len(s) + 1}
           /\ Len(s) + 1 \notin DOMAIN s
           /\ \A i \in DOMAIN s : Append(s, e)[i] = s[i]
           /\ Append(s, e)[Len(s) + 1] = e
<1>1. /\ DOMAIN s = 1 .. Len(s)
      /\ Len(s) \in Nat
  BY LenProperties
<1>2. DOMAIN Append(s, e) = 1 .. (Len(s) + 1)
  BY AppendProperties, LenProperties
<1> QED
  BY <1>1, <1>2, AppendProperties

LEMMA NewRequestType ==
    ASSUME NEW a \in Staff, NEW type \in TxTypes, NEW amount \in Nat,
           NEW p \in Players \cup {None}, NEW v \in Nat \cup {None},
           NEW t \in Tables \cup {None}, NEW reverses \in Nat \cup {None},
           TypeOK
    PROVE  NewRequest(a, type, amount, p, v, t, reverses) \in RequestType
<1>1. Today \in Nat
  BY LenProperties DEF TypeOK, Today
<1>2. Policy(type, amount) \in ApprovalLevels
  BY DEF Policy, ApprovalLevels
<1>3. a.id \in StaffIds
  BY DEF StaffIds
<1>4. <<>> \in Seq(VoteType)
  BY EmptySeq
<1> QED
  BY <1>1, <1>2, <1>3, <1>4 DEF NewRequest, RequestType

LEMMA SubmitTypeInv ==
    ASSUME TypeInv, NEW q \in RequestType, ReversalLinked(q), Submit(q)
    PROVE  TypeInv'
<1>1. approvals \in Seq(RequestType)
  BY DEF TypeInv, TypeOK
<1>2. approvals' = Append(approvals, q)
  BY DEF Submit
<1>3. TypeOK'
  BY <1>1, <1>2, AppendToSeq DEF TypeInv, TypeOK, Submit, TableType, VisitType
<1>4. \A r \in DOMAIN approvals' : ReversalLinked(approvals[r])' 
  BY <1>1, <1>2, AppendToSeq DEF TypeInv, Linked, ReversalLinked, Submit
<1> QED
  BY <1>3, <1>4 DEF TypeInv, Linked, OriginalCounted, Submit

-----------------------------------------------------------------------------
(* What a posted entry is.                                                 *)

LEMMA EntryImpactType ==
    ASSUME NEW type, NEW amount \in Nat, NEW credit \in BOOLEAN, NEW owed \in Int
    PROVE  /\ EntryImpact(type, amount, credit, owed).amount = amount
           /\ EntryImpact(type, amount, credit, owed).cashReceived \in Int
           /\ EntryImpact(type, amount, credit, owed).cashPayout \in Int
           /\ EntryImpact(type, amount, credit, owed).creditDelta \in Int
BY DEF EntryImpact, Impact, Smaller

LEMMA ReversalImpactType ==
    ASSUME NEW tx \in TxType
    PROVE  /\ ReversalImpact(tx).amount \in Int
           /\ ReversalImpact(tx).cashReceived \in Int
           /\ ReversalImpact(tx).cashPayout \in Int
           /\ ReversalImpact(tx).creditDelta = -tx.creditDelta
           /\ ReversalImpact(tx).creditDelta \in Int
BY DEF ReversalImpact, Impact, TxType

LEMMA PostingType ==
    ASSUME TypeInv, NEW r \in DOMAIN approvals
    PROVE  /\ Posting(r) \in TxType
           /\ OriginalCounted(Posting(r))
<1> DEFINE q == approvals[r]
<1> DEFINE owed == IF q.playerId = None THEN 0 ELSE outstanding[q.playerId]
<1> DEFINE impact == IF q.type = "Reversal" THEN ReversalImpact(transactions[q.reversesId])
                     ELSE EntryImpact(q.type, q.amount, IsCredit(q.playerId), owed)
<1>1. q \in RequestType
  BY ElementOfSeq, LenProperties DEF TypeInv, TypeOK
<1>2. r \in Nat
  BY LenProperties DEF TypeInv, TypeOK
<1>3. ReversalLinked(q)
  BY DEF TypeInv, Linked
<1>4. /\ impact.amount \in Int
      /\ impact.cashReceived \in Int
      /\ impact.cashPayout \in Int
      /\ impact.creditDelta \in Int
      /\ q.type # "Reversal" => impact.amount \in Nat
  <2>1. CASE q.type = "Reversal"
    <3>1. transactions[q.reversesId] \in TxType
      BY <1>3, <2>1, ElementOfSeq, LenProperties DEF ReversalLinked, TypeInv, TypeOK
    <3> QED
      BY <2>1, <3>1, ReversalImpactType
  <2>2. CASE q.type # "Reversal"
    <3>1. owed \in Int /\ q.amount \in Nat
      BY <1>1 DEF RequestType, TypeInv, TypeOK
    <3>2. IsCredit(q.playerId) \in BOOLEAN
      BY DEF IsCredit
    <3> HIDE DEF owed, q
    <3> QED
      BY <2>2, <3>1, <3>2, EntryImpactType
  <2> QED
    BY <2>1, <2>2
<1>5. Posting(r) = [dayId |-> q.dayId, type |-> q.type, amount |-> impact.amount,
         playerId |-> q.playerId, sessionId |-> q.sessionId, tableId |-> q.tableId,
         cashReceived |-> impact.cashReceived, cashPayout |-> impact.cashPayout,
         creditDelta |-> impact.creditDelta,
         approvalId |-> r, reversesId |-> q.reversesId]
  BY DEF Posting
<1> HIDE DEF impact
<1>6. Posting(r) \in TxType
  BY <1>1, <1>2, <1>4, <1>5 DEF RequestType, TxType
<1>7. OriginalCounted(Posting(r))
  BY <1>3, <1>4, <1>5 DEF OriginalCounted, ReversalLinked
<1> QED
  BY <1>6, <1>7

\* A record of a sequence changed by EXCEPT keeps its type.
LEMMA VisitStatusType ==
    ASSUME NEW s \in Seq(VisitType), NEW v, NEW status \in {"ACTIVE", "OUT"}
    PROVE  [s EXCEPT ![v].status = status] \in Seq(VisitType)
<1>1. v \in DOMAIN s => [s[v] EXCEPT !.status = status] \in VisitType
  <2>1. v \in DOMAIN s => s[v] \in VisitType
    BY ElementOfSeq, LenProperties
  <2>2. ASSUME NEW visit \in VisitType
        PROVE  [visit EXCEPT !.status = status] \in VisitType
    BY DEF VisitType
  <2> QED
    BY <2>1, <2>2
<1>2. [s EXCEPT ![v].status = status] = [s EXCEPT ![v] = [s[v] EXCEPT !.status = status]]
  OBVIOUS
<1> DEFINE visit == [s[v] EXCEPT !.status = status]
<1> HIDE DEF visit
<1>3. [s EXCEPT ![v] = visit] \in Seq(VisitType)
  BY <1>1, ExceptInSeq DEF visit
<1> QED
  BY <1>2, <1>3 DEF visit

LEMMA PostTypes ==
    ASSUME TypeInv, NEW r \in DOMAIN approvals, Post(r)
    PROVE  /\ transactions' \in Seq(TxType)
           /\ DOMAIN transactions \subseteq DOMAIN transactions'
           /\ \A t \in DOMAIN transactions : transactions'[t] = transactions[t]
           /\ \A t \in DOMAIN transactions' : OriginalCounted(transactions'[t])
           /\ sessions' \in Seq(VisitType)
           /\ outstanding' \in [Players -> Int]
           /\ dayCash' \in Seq(Int)
           /\ Len(dayCash') = Len(dayCash)
<1> DEFINE q == approvals[r]
           tx == Posting(r)
<1>1. tx \in TxType /\ OriginalCounted(tx)
  BY PostingType
<1>2. transactions' = Append(transactions, tx)
  BY DEF Post
<1>3. transactions \in Seq(TxType)
  BY DEF TypeInv, TypeOK
<1>4. \A t \in DOMAIN transactions : OriginalCounted(transactions[t])
  BY DEF TypeInv, Linked
<1> HIDE DEF tx
<1>5. /\ transactions' \in Seq(TxType)
      /\ DOMAIN transactions \subseteq DOMAIN transactions'
      /\ \A t \in DOMAIN transactions : transactions'[t] = transactions[t]
  BY <1>1, <1>2, <1>3, AppendToSeq
<1>6. \A t \in DOMAIN transactions' : OriginalCounted(transactions'[t])
  BY <1>1, <1>2, <1>3, <1>4, AppendToSeq
<1>7. sessions' \in Seq(VisitType)
  BY VisitStatusType DEF Post, Settles, TypeInv, TypeOK
<1>8. tx.creditDelta \in Int /\ CashMoved(tx) \in Int
  BY <1>1 DEF TxType, CashMoved
<1>9. outstanding' \in [Players -> Int]
  <2>1. q.playerId \in Players \cup {None}
    <3>1. q \in RequestType
      BY ElementOfSeq, LenProperties DEF TypeInv, TypeOK
    <3> QED
      BY <3>1 DEF RequestType
  <2>2. outstanding' = IF q.playerId = None THEN outstanding
                       ELSE [outstanding EXCEPT ![q.playerId] = @ + tx.creditDelta]
    BY DEF Post, tx
  <2> HIDE DEF q
  <2> QED
    BY <1>8, <2>1, <2>2 DEF TypeInv, TypeOK
<1>10. dayCash' \in Seq(Int) /\ Len(dayCash') = Len(dayCash)
  <2>1. dayCash \in Seq(Int)
    BY DEF TypeInv, TypeOK
  <2> DEFINE d == q.dayId
             cash == dayCash[d] + CashMoved(tx)
  <2>2. dayCash' = [dayCash EXCEPT ![d] = cash]
    BY DEF Post, tx
  <2>3. d \in DOMAIN dayCash => cash \in Int
    BY <1>8, <2>1, ElementOfSeq, LenProperties
  <2> HIDE DEF d, cash
  <2> QED
    BY <2>1, <2>2, <2>3, ExceptInSeq
<1> QED
  BY <1>5, <1>6, <1>7, <1>9, <1>10

LEMMA DecidedType ==
    ASSUME NEW q \in RequestType, NEW a \in Staff,
           NEW status \in {"PENDING", "APPROVED", "REJECTED"}
    PROVE  /\ [q EXCEPT !.status = status] \in RequestType
           /\ [q EXCEPT !.votes = Append(q.votes, [staffId |-> a.id, role |-> a.role])]
                \in RequestType
           /\ [q EXCEPT !.votes = Append(q.votes, [staffId |-> a.id, role |-> a.role]),
                        !.status = status] \in RequestType
<1> DEFINE vote == [staffId |-> a.id, role |-> a.role]
<1>1. vote \in VoteType
  BY VenueAssumption DEF VoteType, StaffIds
<1>2. q.votes \in Seq(VoteType)
  BY DEF RequestType
<1>3. Append(q.votes, vote) \in Seq(VoteType)
  BY <1>1, <1>2, AppendToSeq
<1> QED
  BY <1>3 DEF RequestType

-----------------------------------------------------------------------------
(* Every command preserves the type invariant.                             *)

LEMMA SetupTypeInv ==
    ASSUME TypeInv, NEW a \in Staff, SetupStep(a)
    PROVE  TypeInv'
<1>1. ASSUME NEW features \in FeatureSets, NEW rules \in VenueRules,
             UpdateSettings(a, features, rules)
      PROVE  TypeInv'
  <2>1. settings' \in SettingsType
    BY <1>1, VenueAssumption DEF UpdateSettings, TypeInv, TypeOK, SettingsType
  <2> QED
    BY <1>1, <2>1 DEF UpdateSettings, TypeInv, TypeOK, Linked, ReversalLinked, OriginalCounted
<1>2. ASSUME CompleteSetup(a)
      PROVE  TypeInv'
  <2>1. settings' \in SettingsType
    BY <1>2 DEF CompleteSetup, TypeInv, TypeOK, SettingsType
  <2> QED
    BY <1>2, <2>1 DEF CompleteSetup, TypeInv, TypeOK, Linked, ReversalLinked, OriginalCounted
<1>3. ASSUME NEW t \in Tables, NEW status \in {"OPEN", "CLOSED"},
             NEW overrides \in TableOverrides,
             CreateTable(a, t, status, overrides) \/ UpdateTable(a, t, status, overrides)
      PROVE  TypeInv'
  <2>1. tables' \in [Tables -> TableType]
    BY <1>3 DEF CreateTable, UpdateTable, TypeInv, TypeOK, TableType
  <2> QED
    BY <1>3, <2>1 DEF CreateTable, UpdateTable, TypeInv, TypeOK, Linked, ReversalLinked,
                      OriginalCounted
<1>4. ASSUME NEW p \in Players, NEW limit \in CreditLimits, NEW banned \in Bans,
             UpdateProfile(a, p, limit, banned)
      PROVE  TypeInv'
  <2> DEFINE profile == [profiles[p] EXCEPT !.banned = banned,
                                            !.creditLimit = IF IsCredit(p) THEN limit ELSE 0]
  <2>1. profile \in ProfileType
    <3>1. profiles[p] \in ProfileType
      BY DEF TypeInv, TypeOK
    <3>2. limit \in Nat /\ banned \in BOOLEAN
      BY VenueAssumption
    <3> QED
      BY <3>1, <3>2 DEF ProfileType
  <2>2. profiles' = [profiles EXCEPT ![p] = profile]
    BY <1>4 DEF UpdateProfile
  <2> HIDE DEF profile
  <2>3. profiles' \in [Players -> ProfileType]
    BY <2>1, <2>2 DEF TypeInv, TypeOK
  <2> QED
    BY <1>4, <2>3 DEF UpdateProfile, TypeInv, TypeOK, Linked, ReversalLinked, OriginalCounted
<1> QED
  BY <1>1, <1>2, <1>3, <1>4 DEF SetupStep

LEMMA DayChangedType ==
    ASSUME NEW s \in Seq(DayType), NEW d, NEW day \in DayType
    PROVE  /\ [s EXCEPT ![d] = day] \in Seq(DayType)
           /\ Len([s EXCEPT ![d] = day]) = Len(s)
BY ExceptInSeq

LEMMA DayTypeInv ==
    ASSUME TypeInv, NEW a \in Staff, DayStep(a)
    PROVE  TypeInv'
<1> USE DEF TypeInv, TypeOK
<1>1. /\ days \in Seq(DayType)
      /\ dayCash \in Seq(Int)
      /\ Len(dayCash) = Len(days)
  BY DEF Linked
<1>2. ASSUME NEW cash \in OpeningCash, OpenDay(a, cash)
      PROVE  TypeInv'
  <2> DEFINE day == [status |-> "OPEN", openingCash |-> cash, closes |-> <<>>]
  <2>1. day \in DayType
    BY VenueAssumption, EmptySeq DEF DayType
  <2>2. days' \in Seq(DayType) /\ Len(days') = Len(days) + 1
    BY <1>1, <1>2, <2>1, AppendToSeq DEF OpenDay
  <2>3. dayCash' \in Seq(Int) /\ Len(dayCash') = Len(dayCash) + 1
    BY <1>1, <1>2, AppendToSeq DEF OpenDay
  <2> QED
    BY <1>1, <1>2, <2>2, <2>3 DEF OpenDay, Linked, ReversalLinked, OriginalCounted
<1>3. ASSUME NEW day \in DayType, days' = [days EXCEPT ![Today] = day], Today > 0,
             UNCHANGED <<settings, tables, profiles, sessions, approvals, transactions,
                         outstanding, dayCash>>
      PROVE  TypeInv'
  <2>1. /\ [days EXCEPT ![Today] = day] \in Seq(DayType)
        /\ Len([days EXCEPT ![Today] = day]) = Len(days)
    BY <1>1, <1>3, DayChangedType
  <2>2. days' \in Seq(DayType) /\ Len(days') = Len(days)
    BY <1>3, <2>1
  <2> QED
    BY <1>1, <1>3, <2>2 DEF Linked, ReversalLinked, OriginalCounted
<1>4. Today > 0 => days[Today] \in DayType
  BY <1>1, ElementOfSeq, LenProperties DEF Today
<1>5. ASSUME ReopenDay(a)
      PROVE  TypeInv'
  <2> DEFINE day == [days[Today] EXCEPT !.status = "OPEN"]
  <2>1. Today > 0
    BY <1>5 DEF ReopenDay
  <2>2. day \in DayType
    BY <1>4, <2>1 DEF DayType
  <2>3. days' = [days EXCEPT ![Today] = day]
    BY <1>5 DEF ReopenDay
  <2> HIDE DEF day
  <2> QED
    BY <1>3, <1>5, <2>1, <2>2, <2>3 DEF ReopenDay
<1>6. ASSUME NEW counted \in CountedCash, CloseDay(a, counted)
      PROVE  TypeInv'
  <2> DEFINE old == days[Today]
             close == [countedCash |-> counted, expectedCash |-> ExpectedCash(Today)]
             day == [old EXCEPT !.status = "CLOSED", !.closes = Append(old.closes, close)]
  <2>1. Today > 0
    BY <1>6 DEF CloseDay, DayIsOpen
  <2>2. old \in DayType
    BY <1>4, <2>1
  <2>3. dayCash[Today] \in Int
    BY <1>1, <2>1, ElementOfSeq, LenProperties DEF Today
  <2>4. close \in CloseType
    <3>1. counted \in Nat
      BY VenueAssumption
    <3>2. days[Today].openingCash \in Nat
      BY <2>2 DEF DayType
    <3>3. ExpectedCash(Today) \in Int
      BY <2>3, <3>2 DEF ExpectedCash
    <3> QED
      BY <3>1, <3>3 DEF CloseType
  <2>5. old.closes \in Seq(CloseType)
    BY <2>2 DEF DayType
  <2>6. Append(old.closes, close) \in Seq(CloseType)
    BY <2>4, <2>5, AppendToSeq
  <2>7. day \in DayType
    BY <2>2, <2>6 DEF DayType
  <2>8. days' = [days EXCEPT ![Today] = day]
    BY <1>6 DEF CloseDay
  <2> HIDE DEF day
  <2> QED
    BY <1>3, <1>6, <2>1, <2>7, <2>8 DEF CloseDay
<1> QED
  BY <1>2, <1>5, <1>6 DEF DayStep

\* A visit of the current day, and a change of seat, keep the visits' type.
LEMMA SeatedType ==
    ASSUME NEW s \in Seq(VisitType), NEW v, NEW t \in Tables, NEW seat \in Seats
    PROVE  [s EXCEPT ![v].tableId = t, ![v].seat = seat] \in Seq(VisitType)
<1> DEFINE visit == [s[v] EXCEPT !.tableId = t, !.seat = seat]
<1>1. v \in DOMAIN s => visit \in VisitType
  <2>1. v \in DOMAIN s => s[v] \in VisitType
    BY ElementOfSeq, LenProperties
  <2>2. ASSUME NEW old \in VisitType
        PROVE  [old EXCEPT !.tableId = t, !.seat = seat] \in VisitType
    BY DEF VisitType
  <2> QED
    BY <2>1, <2>2
<1>2. [s EXCEPT ![v].tableId = t, ![v].seat = seat] = [s EXCEPT ![v] = visit]
  OBVIOUS
<1> HIDE DEF visit
<1> QED
  BY <1>1, <1>2, ExceptInSeq

LEMMA StartVisitType ==
    ASSUME TypeInv, NEW p \in Players, NEW t \in Tables, NEW seat \in Seats,
           StartVisit(p, t, seat)
    PROVE  sessions' \in Seq(VisitType)
<1>1. Today \in Nat
  BY LenProperties DEF TypeInv, TypeOK, Today
<1>2. Len(sessions) \in Nat
  BY LenProperties DEF TypeInv, TypeOK
<1>3. PICK start \in ClockReadings :
        sessions' = Append(sessions, [playerId |-> p, dayId |-> Today, status |-> "ACTIVE",
                                      tableId |-> t, seat |-> seat, start |-> start])
  BY DEF StartVisit
<1>4. start \in Nat
  BY <1>2, VenueAssumption DEF ClockReadings
<1> DEFINE visit == [playerId |-> p, dayId |-> Today, status |-> "ACTIVE",
                     tableId |-> t, seat |-> seat, start |-> start]
<1>5. visit \in VisitType
  BY <1>1, <1>4 DEF VisitType
<1> QED
  BY <1>3, <1>5, AppendToSeq DEF TypeInv, TypeOK

LEMMA SeatingTypeInv ==
    ASSUME TypeInv, NEW a \in Staff, SeatingStep(a)
    PROVE  TypeInv'
<1> USE DEF TypeInv, TypeOK
<1>1. ASSUME sessions' \in Seq(VisitType), profiles' \in [Players -> ProfileType],
             UNCHANGED <<settings, tables, days, approvals, transactions, outstanding, dayCash>>
      PROVE  TypeInv'
  BY <1>1 DEF Linked, ReversalLinked, OriginalCounted
<1>2. ASSUME NEW p \in Players, NEW t \in Tables, NEW seat \in Seats,
             CheckInKnown(a, p, t, seat)
      PROVE  TypeInv'
  <2>1. sessions' \in Seq(VisitType)
    BY <1>2, StartVisitType DEF CheckInKnown
  <2> QED
    BY <1>1, <1>2, <2>1 DEF CheckInKnown
<1>3. ASSUME NEW p \in Players, NEW t \in Tables, NEW seat \in Seats,
             NEW type \in AccountTypes, NEW limit \in CreditLimits,
             CheckInNew(a, p, type, limit, t, seat)
      PROVE  TypeInv'
  <2>1. sessions' \in Seq(VisitType)
    BY <1>3, StartVisitType DEF CheckInNew
  <2>2. profiles' \in [Players -> ProfileType]
    BY <1>3, VenueAssumption DEF CheckInNew, ProfileType
  <2> QED
    BY <1>1, <1>3, <2>1, <2>2 DEF CheckInNew
<1>4. ASSUME NEW v \in DOMAIN sessions, NEW t \in Tables, NEW seat \in Seats,
             Move(a, v, t, seat)
      PROVE  TypeInv'
  <2>1. sessions' \in Seq(VisitType)
    BY <1>4, SeatedType DEF Move
  <2> QED
    BY <1>1, <1>4, <2>1 DEF Move
<1>5. ASSUME NEW v \in DOMAIN sessions, NEW w \in DOMAIN sessions, SwapSeats(a, v, w)
      PROVE  TypeInv'
  <2> DEFINE half == [sessions EXCEPT ![v].tableId = sessions[w].tableId,
                                      ![v].seat = sessions[w].seat]
  <2>1. /\ sessions[v].tableId \in Tables /\ sessions[v].seat \in Seats
        /\ sessions[w].tableId \in Tables /\ sessions[w].seat \in Seats
    <3>1. sessions[v] \in VisitType /\ sessions[w] \in VisitType
      BY <1>5, ElementOfSeq, LenProperties
    <3> QED
      BY <3>1 DEF VisitType
  <2>2. half \in Seq(VisitType)
    BY <2>1, SeatedType
  <2>3. sessions' = [half EXCEPT ![w].tableId = sessions[v].tableId,
                                 ![w].seat = sessions[v].seat]
    BY <1>5 DEF SwapSeats
  <2> HIDE DEF half
  <2>4. sessions' \in Seq(VisitType)
    BY <2>1, <2>2, <2>3, SeatedType
  <2> QED
    BY <1>1, <1>5, <2>4 DEF SwapSeats
<1> QED
  BY <1>2, <1>3, <1>4, <1>5 DEF SeatingStep

LEMMA RequestChangedType ==
    ASSUME NEW s \in Seq(RequestType), NEW r, NEW q \in RequestType
    PROVE  /\ [s EXCEPT ![r] = q] \in Seq(RequestType)
           /\ DOMAIN [s EXCEPT ![r] = q] = DOMAIN s
BY ExceptInSeq

\* The request each of the three requesting commands submits.
LEMMA VisitRequest ==
    ASSUME TypeInv, NEW a \in Staff, NEW type \in Types \cap SessionEntries,
           NEW amount \in Amounts, NEW v \in DOMAIN sessions,
           RequestForVisit(a, type, amount, v),
           NEW q, q = NewRequest(a, type, amount, sessions[v].playerId, v,
                                 sessions[v].tableId, None)
    PROVE  q \in RequestType /\ ReversalLinked(q) /\ Submit(q)
<1>1. sessions[v] \in VisitType /\ v \in Nat
  BY ElementOfSeq, LenProperties DEF TypeInv, TypeOK
<1>2. type \in TxTypes /\ type # "Reversal" /\ amount \in Nat
  BY VenueAssumption DEF TxTypes, EntryTypes, SessionEntries
<1>3. q \in RequestType
  BY <1>1, <1>2, NewRequestType DEF VisitType, TypeInv
<1>4. ReversalLinked(q)
  BY <1>2 DEF NewRequest, ReversalLinked
<1>5. Submit(q)
  BY DEF RequestForVisit
<1> QED
  BY <1>3, <1>4, <1>5

LEMMA OtherRequest ==
    ASSUME TypeInv, NEW a \in Staff, NEW type \in Types \ SessionEntries,
           NEW amount \in Amounts, NEW p \in Players \cup {None},
           NEW t \in Tables \cup {None},
           RequestEntry(a, type, amount, p, t),
           NEW q, q = NewRequest(a, type, amount, p, None, t, None)
    PROVE  q \in RequestType /\ ReversalLinked(q) /\ Submit(q)
<1>1. type \in TxTypes /\ type # "Reversal" /\ amount \in Nat
  BY VenueAssumption DEF TxTypes, EntryTypes, SessionEntries, DealerEntries
<1>2. q \in RequestType
  BY <1>1, NewRequestType DEF TypeInv
<1>3. ReversalLinked(q)
  BY <1>1 DEF NewRequest, ReversalLinked
<1>4. Submit(q)
  BY DEF RequestEntry
<1> QED
  BY <1>2, <1>3, <1>4

LEMMA ReversalRequest ==
    ASSUME TypeInv, NEW a \in Staff, NEW t \in DOMAIN transactions, Correct(a, t),
           NEW tx, tx = transactions[t],
           NEW q, q = NewRequest(a, "Reversal", tx.amount, tx.playerId, tx.sessionId,
                                 tx.tableId, t)
    PROVE  q \in RequestType /\ ReversalLinked(q) /\ Submit(q)
<1>1. tx \in TxType /\ t \in Nat
  BY ElementOfSeq, LenProperties DEF TypeInv, TypeOK
<1>2. tx.reversesId = None /\ tx.amount \in Nat
  BY DEF Correct, TypeInv, Linked, OriginalCounted
<1>3. "Reversal" \in TxTypes /\ t # None
  BY <1>1, VenueAssumption DEF TxTypes
<1>4. q \in RequestType
  <2>1. /\ tx.playerId \in Players \cup {None}
        /\ tx.sessionId \in Nat \cup {None}
        /\ tx.tableId \in Tables \cup {None}
    BY <1>1 DEF TxType
  <2>2. t \in Nat \cup {None}
    BY <1>1
  <2>3. TypeOK
    BY DEF TypeInv
  <2>4. /\ Today \in Nat
        /\ Policy("Reversal", tx.amount) \in ApprovalLevels
        /\ a.id \in StaffIds
        /\ <<>> \in Seq(VoteType)
    BY <2>3, LenProperties, EmptySeq DEF TypeOK, Today, Policy, ApprovalLevels, StaffIds
  <2> QED
    BY <1>2, <1>3, <2>1, <2>2, <2>4 DEF NewRequest, RequestType
<1>5. ReversalLinked(q)
  BY <1>2, <1>3 DEF NewRequest, ReversalLinked
<1>6. Submit(q)
  BY DEF Correct
<1> QED
  BY <1>4, <1>5, <1>6

LEMMA EntryTypeInv ==
    ASSUME TypeInv, NEW a \in Staff, EntryStep(a)
    PROVE  TypeInv'
<1> USE DEF TypeInv, TypeOK
<1>1. ASSUME NEW type \in Types \cap SessionEntries, NEW amount \in Amounts,
             NEW v \in DOMAIN sessions, RequestForVisit(a, type, amount, v)
      PROVE  TypeInv'
  BY <1>1, VisitRequest, SubmitTypeInv
<1>2. ASSUME NEW type \in Types \ SessionEntries, NEW amount \in Amounts,
             NEW p \in Players \cup {None}, NEW t \in Tables \cup {None},
             RequestEntry(a, type, amount, p, t)
      PROVE  TypeInv'
  BY <1>2, OtherRequest, SubmitTypeInv
<1>3. ASSUME NEW t \in DOMAIN transactions, Correct(a, t)
      PROVE  TypeInv'
  <2> DEFINE tx == transactions[t]
             q == NewRequest(a, "Reversal", tx.amount, tx.playerId, tx.sessionId, tx.tableId, t)
  <2>1. q \in RequestType /\ ReversalLinked(q) /\ Submit(q)
    BY <1>3, ReversalRequest
  <2> HIDE DEF q
  <2> QED
    BY <2>1, SubmitTypeInv
<1>4. ASSUME NEW r \in DOMAIN approvals, NEW q \in RequestType,
             approvals' = [approvals EXCEPT ![r] = q],
             q.type = approvals[r].type, q.reversesId = approvals[r].reversesId,
             transactions' \in Seq(TxType),
             DOMAIN transactions \subseteq DOMAIN transactions',
             \A t \in DOMAIN transactions : transactions'[t] = transactions[t],
             \A t \in DOMAIN transactions' : OriginalCounted(transactions'[t]),
             sessions' \in Seq(VisitType), outstanding' \in [Players -> Int],
             dayCash' \in Seq(Int), Len(dayCash') = Len(dayCash),
             UNCHANGED <<settings, tables, profiles, days>>
      PROVE  TypeInv'
  <2>1. approvals' \in Seq(RequestType) /\ DOMAIN approvals' = DOMAIN approvals
    BY <1>4, RequestChangedType
  <2>2. ASSUME NEW s \in DOMAIN approvals
        PROVE  /\ approvals'[s].type = approvals[s].type
               /\ approvals'[s].reversesId = approvals[s].reversesId
    BY <1>4, <2>2
  <2>3. \A s \in DOMAIN approvals' : ReversalLinked(approvals[s])'
    BY <1>4, <2>1, <2>2 DEF Linked, ReversalLinked
  <2>4. Linked'
    BY <1>4, <2>3 DEF Linked, OriginalCounted
  <2> QED
    BY <1>4, <2>1, <2>4
<1>5. ASSUME NEW r \in DOMAIN approvals
      PROVE  approvals[r] \in RequestType
  BY <1>5, ElementOfSeq, LenProperties
<1>6. ASSUME NEW r \in DOMAIN approvals, Reject(a, r)
      PROVE  TypeInv'
  <2> DEFINE q == [approvals[r] EXCEPT !.status = "REJECTED"]
  <2>1. q \in RequestType
    BY <1>5, <1>6, DecidedType
  <2>2. approvals' = [approvals EXCEPT ![r] = q]
    BY <1>6 DEF Reject
  <2>3. q.type = approvals[r].type /\ q.reversesId = approvals[r].reversesId
    BY <1>5, <1>6 DEF RequestType
  <2>4. UNCHANGED <<settings, tables, profiles, days, sessions, transactions, outstanding, dayCash>>
    BY <1>6 DEF Reject
  <2>5. \A t \in DOMAIN transactions' : OriginalCounted(transactions'[t])
    BY <2>4 DEF Linked
  <2> HIDE DEF q
  <2> QED
    BY <1>4, <1>6, <2>1, <2>2, <2>3, <2>4, <2>5
<1>7. ASSUME NEW r \in DOMAIN approvals, Approve(a, r)
      PROVE  TypeInv'
  <2> DEFINE votes == Append(approvals[r].votes, [staffId |-> a.id, role |-> a.role])
             voted == [approvals[r] EXCEPT !.votes = votes]
             posted == [approvals[r] EXCEPT !.votes = votes, !.status = "APPROVED"]
  <2>1. voted \in RequestType /\ posted \in RequestType
    BY <1>5, <1>7, DecidedType
  <2>2. /\ voted.type = approvals[r].type /\ voted.reversesId = approvals[r].reversesId
        /\ posted.type = approvals[r].type /\ posted.reversesId = approvals[r].reversesId
    BY <1>5, <1>7 DEF RequestType
  <2>3. UNCHANGED <<settings, tables, profiles, days>>
    BY <1>7 DEF Approve
  <2>4. CASE ReviewComplete(approvals[r].level, votes)
    <3>1. Post(r)
      BY <1>7, <2>4 DEF Approve
    <3>2. approvals' = [approvals EXCEPT ![r] = posted]
      BY <1>7, <2>4 DEF Approve
    <3> HIDE DEF posted, voted, votes
    <3> QED
      BY <1>4, <1>7, <2>1, <2>2, <2>3, <3>1, <3>2, PostTypes
  <2>5. CASE ~ReviewComplete(approvals[r].level, votes)
    <3>1. UNCHANGED <<sessions, transactions, outstanding, dayCash>>
      BY <1>7, <2>5 DEF Approve
    <3>2. approvals' = [approvals EXCEPT ![r] = voted]
      BY <1>7, <2>5 DEF Approve
    <3>3. \A t \in DOMAIN transactions' : OriginalCounted(transactions'[t])
      BY <3>1 DEF Linked
    <3> HIDE DEF posted, voted, votes
    <3> QED
      BY <1>4, <1>7, <2>1, <2>2, <2>3, <3>1, <3>2, <3>3
  <2> QED
    BY <2>4, <2>5
<1> QED
  BY <1>1, <1>2, <1>3, <1>6, <1>7 DEF EntryStep

LEMMA StutterTypeInv == TypeInv /\ UNCHANGED vars => TypeInv'
BY DEF vars, TypeInv, TypeOK, Linked, ReversalLinked, OriginalCounted

LEMMA NextTypeInv == TypeInv /\ [Next]_vars => TypeInv'
BY SetupTypeInv, DayTypeInv, SeatingTypeInv, EntryTypeInv, StutterTypeInv DEF Next

LEMMA TypeInvAlways == Spec => []TypeInv
BY InitTypeInv, NextTypeInv, PTL DEF Spec

\* Whatever commands arrive in whatever order, every record keeps the shape its
\* type in src/domain/model.ts gives it.
THEOREM TypeCorrect == Spec => []TypeOK
<1>1. TypeInv => TypeOK
  BY DEF TypeInv
<1> QED
  BY <1>1, TypeInvAlways, PTL

-----------------------------------------------------------------------------
(* What pending buy-ins reserve, for any list of requests.                 *)

UnitsIn(A, S) == UNION {{r} \X (1 .. A[r].amount) : r \in S}
IsBuyInOf(q, p) == q.status = "PENDING" /\ q.type = "Buy-in" /\ q.playerId = p
BuyInsIn(A, p) == {r \in DOMAIN A : IsBuyInOf(A[r], p)}
ReservedIn(A, p) == Cardinality(UnitsIn(A, BuyInsIn(A, p)))

LEMMA ReservedIsReservedIn ==
    /\ \A p : ReservedCredit(p) = ReservedIn(approvals, p)
    /\ \A p : ReservedCredit(p)' = ReservedIn(approvals', p)
<1>1. \A p : PendingBuyIns(p) = BuyInsIn(approvals, p)
  BY DEF PendingBuyIns, PendingRequests, BuyInsIn, IsBuyInOf
<1>2. \A p : PendingBuyIns(p)' = BuyInsIn(approvals', p)
  BY DEF PendingBuyIns, PendingRequests, BuyInsIn, IsBuyInOf
<1>3. \A S : Units(S) = UnitsIn(approvals, S)
  BY DEF Units, UnitsIn
<1>4. \A p : Units(PendingBuyIns(p))' = UnitsIn(approvals', PendingBuyIns(p)')
  BY DEF Units, UnitsIn
<1> QED
  BY <1>1, <1>2, <1>3, <1>4 DEF ReservedCredit, ReservedIn

LEMMA BlockSize ==
    ASSUME NEW r, NEW n \in Nat
    PROVE  IsFiniteSet({r} \X (1 .. n)) /\ Cardinality({r} \X (1 .. n)) = n
<1> DEFINE block == {r} \X (1 .. n)
           f == [i \in 1 .. n |-> <<r, i>>]
<1>1. IsFiniteSet(1 .. n) /\ Cardinality(1 .. n) = n
  BY FS_Interval
<1>2. f \in Bijection(1 .. n, block)
  <2>1. f \in [1 .. n -> block]
    OBVIOUS
  <2>2. IsInjective(f)
    BY DEF IsInjective
  <2>3. \A x \in block : \E i \in 1 .. n : f[i] = x
    OBVIOUS
  <2> HIDE DEF f, block
  <2> QED
    BY <2>1, <2>2, <2>3 DEF Bijection, Injection, Surjection
<1>3. ExistsBijection(1 .. n, block)
  BY <1>2 DEF ExistsBijection
<1> HIDE DEF block
<1>4. IsFiniteSet(block) /\ Cardinality(block) = n
  BY <1>1, <1>3, FS_Bijection
<1> QED
  BY <1>4 DEF block

LEMMA UnitsFinite ==
    ASSUME NEW A, NEW S, IsFiniteSet(S), \A r \in S : A[r].amount \in Nat
    PROVE  IsFiniteSet(UnitsIn(A, S))
<1> DEFINE f == [r \in S |-> {r} \X (1 .. A[r].amount)]
           T == {f[r] : r \in S}
<1>1. f \in Surjection(S, T)
  BY DEF Surjection
<1>2. IsFiniteSet(T)
  BY <1>1, FS_Surjection
<1>3. \A r \in S : IsFiniteSet(f[r])
  BY BlockSize
<1>4. IsFiniteSet(UNION T)
  BY <1>2, <1>3, FS_UNION
<1>5. UnitsIn(A, S) = UNION T
  BY DEF UnitsIn
<1> QED
  BY <1>4, <1>5

LEMMA UnitsAdded ==
    ASSUME NEW A, NEW S, IsFiniteSet(S), NEW r, r \notin S,
           \A x \in S \cup {r} : A[x].amount \in Nat
    PROVE  Cardinality(UnitsIn(A, S \cup {r})) = Cardinality(UnitsIn(A, S)) + A[r].amount
<1> DEFINE n == A[r].amount
           old == UnitsIn(A, S)
           new == {r} \X (1 .. n)
<1>1. n \in Nat
  OBVIOUS
<1>2. IsFiniteSet(old)
  BY UnitsFinite
<1>3. IsFiniteSet(new) /\ Cardinality(new) = n
  BY <1>1, BlockSize
<1>4. UnitsIn(A, S \cup {r}) = old \cup new
  BY DEF UnitsIn
<1>5. old \cap new = {}
  BY DEF UnitsIn
<1>6. Cardinality(old \cap new) = 0
  BY <1>5, FS_EmptySet
<1>7. Cardinality(old) \in Nat
  BY <1>2, FS_CardinalityType
<1> HIDE DEF n, old, new
<1>8. Cardinality(old \cup new) = Cardinality(old) + Cardinality(new) - Cardinality(old \cap new)
  BY <1>2, <1>3, FS_Union
<1>9. Cardinality(old \cup new) = Cardinality(old) + n
  BY <1>1, <1>3, <1>6, <1>7, <1>8
<1> QED
  BY <1>4, <1>9, Zenon DEF old, n

LEMMA BuyInsFinite ==
    ASSUME NEW A \in Seq(RequestType), NEW p
    PROVE  /\ IsFiniteSet(BuyInsIn(A, p))
           /\ \A r \in DOMAIN A : A[r].amount \in Nat
           /\ ReservedIn(A, p) \in Nat
<1>1. DOMAIN A = 1 .. Len(A) /\ Len(A) \in Nat
  BY LenProperties
<1>2. IsFiniteSet(DOMAIN A)
  BY <1>1, FS_Interval
<1>3. BuyInsIn(A, p) \subseteq DOMAIN A
  BY DEF BuyInsIn
<1>4. IsFiniteSet(BuyInsIn(A, p))
  BY <1>2, <1>3, FS_Subset
<1>5. \A r \in DOMAIN A : A[r] \in RequestType
  BY ElementOfSeq, LenProperties
<1>6. \A r \in DOMAIN A : A[r].amount \in Nat
  BY <1>5 DEF RequestType
<1>7. IsFiniteSet(UnitsIn(A, BuyInsIn(A, p)))
  BY <1>3, <1>4, <1>6, UnitsFinite
<1> QED
  BY <1>4, <1>6, <1>7, FS_CardinalityType DEF ReservedIn

\* A new pending buy-in reserves its amount; no other new request reserves anything.
LEMMA ReservedOfAppended ==
    ASSUME NEW A \in Seq(RequestType), NEW q \in RequestType, NEW p
    PROVE  ReservedIn(Append(A, q), p)
             = ReservedIn(A, p) + (IF IsBuyInOf(q, p) THEN q.amount ELSE 0)
<1> DEFINE B == Append(A, q)
           new == Len(A) + 1
           S == BuyInsIn(A, p)
<1>1. /\ B \in Seq(RequestType)
      /\ DOMAIN B = DOMAIN A \cup {new}
      /\ new \notin DOMAIN A
      /\ \A r \in DOMAIN A : B[r] = A[r]
      /\ B[new] = q
  BY AppendToSeq
<1>2. IsFiniteSet(S) /\ ReservedIn(A, p) \in Nat
  BY BuyInsFinite
<1>3. S \subseteq DOMAIN A
  BY DEF BuyInsIn
<1> HIDE DEF B, new
<1>4. UnitsIn(B, S) = UnitsIn(A, S)
  BY <1>1, <1>3 DEF UnitsIn
<1>5. CASE IsBuyInOf(q, p)
  <2>1. BuyInsIn(B, p) = S \cup {new}
    BY <1>1, <1>5 DEF BuyInsIn
  <2>2. \A x \in S \cup {new} : B[x].amount \in Nat
    <3>1. \A x \in DOMAIN B : B[x].amount \in Nat
      BY <1>1, BuyInsFinite
    <3> QED
      BY <1>1, <1>3, <3>1
  <2>3. new \notin S
    BY <1>1, <1>3
  <2> HIDE DEF S
  <2>4. Cardinality(UnitsIn(B, S \cup {new})) = Cardinality(UnitsIn(B, S)) + B[new].amount
    BY <1>2, <2>2, <2>3, UnitsAdded
  <2> QED
    BY <1>1, <1>4, <1>5, <2>1, <2>4 DEF ReservedIn, S, B
<1>6. CASE ~IsBuyInOf(q, p)
  <2>1. BuyInsIn(B, p) = S
    BY <1>1, <1>6 DEF BuyInsIn
  <2> QED
    BY <1>2, <1>4, <1>6, <2>1 DEF ReservedIn, B
<1> QED
  BY <1>5, <1>6

\* A decided buy-in gives its reservation back; a vote changes no reservation.
LEMMA ReservedOfDecided ==
    ASSUME NEW A \in Seq(RequestType), NEW r \in DOMAIN A, A[r].status = "PENDING",
           NEW q \in RequestType, q.type = A[r].type, q.playerId = A[r].playerId,
           q.amount = A[r].amount, NEW p
    PROVE  ReservedIn([A EXCEPT ![r] = q], p)
             = ReservedIn(A, p)
               - (IF IsBuyInOf(A[r], p) /\ q.status # "PENDING" THEN q.amount ELSE 0)
<1> DEFINE B == [A EXCEPT ![r] = q]
           S == BuyInsIn(B, p)
<1>1. /\ B \in Seq(RequestType)
      /\ DOMAIN B = DOMAIN A
      /\ \A x \in DOMAIN A : x # r => B[x] = A[x]
      /\ B[r] = q
  <2>1. B \in Seq(RequestType) /\ DOMAIN B = DOMAIN A
    BY RequestChangedType
  <2> QED
    BY <2>1
<1>2. /\ IsFiniteSet(S) /\ ReservedIn(B, p) \in Nat
      /\ ReservedIn(A, p) \in Nat
  BY <1>1, BuyInsFinite
<1>3. \A x \in DOMAIN A : A[x].amount \in Nat /\ B[x].amount = A[x].amount
  BY <1>1, BuyInsFinite
<1>4. S \subseteq DOMAIN A
  BY <1>1 DEF BuyInsIn
<1> HIDE DEF B
<1>5. UnitsIn(B, S) = UnitsIn(A, S)
  BY <1>3, <1>4 DEF UnitsIn
<1>6. CASE IsBuyInOf(A[r], p) /\ q.status # "PENDING"
  <2>1. r \notin S /\ BuyInsIn(A, p) = S \cup {r}
    BY <1>1, <1>6 DEF BuyInsIn, IsBuyInOf
  <2>2. \A x \in S \cup {r} : A[x].amount \in Nat
    BY <1>3, <1>4
  <2> HIDE DEF S
  <2>3. Cardinality(UnitsIn(A, S \cup {r})) = Cardinality(UnitsIn(A, S)) + A[r].amount
    BY <1>2, <2>1, <2>2, UnitsAdded
  <2>4. ReservedIn(A, p) = ReservedIn(B, p) + q.amount
    BY <1>5, <2>1, <2>3 DEF ReservedIn, S
  <2>5. q.amount \in Nat
    BY <1>3
  <2> QED
    BY <1>2, <1>6, <2>4, <2>5 DEF B
<1>7. CASE ~(IsBuyInOf(A[r], p) /\ q.status # "PENDING")
  <2>1. BuyInsIn(A, p) = S
    BY <1>1, <1>7 DEF BuyInsIn, IsBuyInOf
  <2> QED
    BY <1>2, <1>5, <1>7, <2>1 DEF ReservedIn, B
<1> QED
  BY <1>6, <1>7

-----------------------------------------------------------------------------
(* The inductive invariant.  A player without credit has no limit and       *)
(* nothing on the ledger; requests and visits name registered players only, *)
(* so a newly registered player has no reservations; and a reversal is      *)
(* requested for the player of the entry it reverses.                       *)

Registered(p) == p \in Players => profiles[p].type # "ABSENT"

PlayersKnown ==
    /\ \A r \in DOMAIN approvals : Registered(approvals[r].playerId)
    /\ \A v \in DOMAIN sessions : Registered(sessions[v].playerId)
    /\ \A t \in DOMAIN transactions : Registered(transactions[t].playerId)

CashLimits == \A p \in Players : ~IsCredit(p) => profiles[p].creditLimit = 0

CashEntries ==
    \A t \in DOMAIN transactions :
        transactions[t].playerId \in Players /\ ~IsCredit(transactions[t].playerId)
            => transactions[t].creditDelta = 0

ReversalsOfPlayer ==
    \A r \in DOMAIN approvals :
        approvals[r].reversesId # None
            => approvals[r].playerId = transactions[approvals[r].reversesId].playerId

Within(debt, reserved, p) ==
    /\ debt >= 0
    /\ debt + (IF IsCredit(p) THEN reserved ELSE 0) <= profiles[p].creditLimit

DebtsWithin == \A p \in Players : Within(outstanding[p], ReservedIn(approvals, p), p)

CreditInv == PlayersKnown /\ CashLimits /\ CashEntries /\ ReversalsOfPlayer /\ DebtsWithin

LEMMA DebtsWithinIsCreditSafe == DebtsWithin <=> CreditSafe
BY ReservedIsReservedIn DEF DebtsWithin, CreditSafe, Within

LEMMA InitCreditInv == Init => CreditInv
<1> SUFFICES ASSUME Init PROVE CreditInv
  OBVIOUS
<1>1. \A p : BuyInsIn(approvals, p) = {}
  BY EmptySeq DEF Init, BuyInsIn
<1>2. \A p : UnitsIn(approvals, BuyInsIn(approvals, p)) = {}
  BY <1>1 DEF UnitsIn
<1>3. \A p : ReservedIn(approvals, p) = 0
  BY <1>2, FS_EmptySet DEF ReservedIn
<1>4. DebtsWithin
  BY <1>3 DEF Init, DebtsWithin, Within, IsCredit
<1>5. PlayersKnown /\ CashLimits /\ CashEntries /\ ReversalsOfPlayer
  BY EmptySeq DEF Init, PlayersKnown, CashLimits, CashEntries, ReversalsOfPlayer
<1> QED
  BY <1>4, <1>5 DEF CreditInv

LEMMA SameCreditInv ==
    ASSUME CreditInv, UNCHANGED <<profiles, approvals, transactions, outstanding>>,
           \A v \in DOMAIN sessions' : Registered(sessions'[v].playerId)
    PROVE  CreditInv'
BY DEF CreditInv, PlayersKnown, Registered, CashLimits, CashEntries, ReversalsOfPlayer,
       DebtsWithin, Within, IsCredit

-----------------------------------------------------------------------------
(* Commands other than decisions.                                          *)

LEMMA SetupCreditInv ==
    ASSUME TypeInv, CreditInv, NEW a \in Staff, SetupStep(a)
    PROVE  CreditInv'
<1>1. ASSUME UNCHANGED <<profiles, sessions, approvals, transactions, outstanding>>
      PROVE  CreditInv'
  BY <1>1, SameCreditInv DEF CreditInv, PlayersKnown
<1>2. ASSUME NEW p \in Players, NEW limit \in CreditLimits, NEW banned \in Bans,
             UpdateProfile(a, p, limit, banned)
      PROVE  CreditInv'
  <2>1. /\ \A x \in Players : profiles'[x].type = profiles[x].type
        /\ \A x \in Players \ {p} : profiles'[x] = profiles[x]
        /\ profiles'[p].creditLimit = IF IsCredit(p) THEN limit ELSE 0
    BY <1>2 DEF UpdateProfile, TypeInv, TypeOK, ProfileType
  <2>2. \A x \in Players : IsCredit(x)' = IsCredit(x)
    BY <2>1 DEF IsCredit
  <2>3. UNCHANGED <<sessions, approvals, transactions, outstanding>>
    BY <1>2 DEF UpdateProfile
  <2>4. IsCredit(p) => limit >= outstanding[p] + ReservedIn(approvals, p)
    BY <1>2, ReservedIsReservedIn DEF UpdateProfile, LimitCovers
  <2>5. /\ outstanding[p] \in Int /\ ReservedIn(approvals, p) \in Nat
        /\ limit \in Nat /\ profiles[p].creditLimit \in Nat
    BY BuyInsFinite, VenueAssumption DEF TypeInv, TypeOK, ProfileType
  <2>6. DebtsWithin'
    <3> SUFFICES ASSUME NEW x \in Players
                 PROVE  Within(outstanding[x], ReservedIn(approvals, x), x)'
      BY DEF DebtsWithin
    <3>1. Within(outstanding[x], ReservedIn(approvals, x), x)
      BY DEF CreditInv, DebtsWithin
    <3>2. CASE x # p
      BY <2>1, <2>2, <2>3, <3>1, <3>2 DEF Within
    <3>3. CASE x = p /\ IsCredit(p)
      BY <2>1, <2>2, <2>3, <2>4, <2>5, <3>1, <3>3 DEF Within
    <3>4. CASE x = p /\ ~IsCredit(p)
      <4>1. profiles[p].creditLimit = 0
        BY <3>4 DEF CreditInv, CashLimits
      <4> QED
        BY <2>1, <2>2, <2>3, <2>5, <3>1, <3>4, <4>1 DEF Within
    <3> QED
      BY <3>2, <3>3, <3>4
  <2>7. CashLimits'
    BY <2>1, <2>2 DEF CreditInv, CashLimits
  <2>8. PlayersKnown' /\ CashEntries' /\ ReversalsOfPlayer'
    BY <2>1, <2>2, <2>3 DEF CreditInv, PlayersKnown, Registered, CashEntries, ReversalsOfPlayer
  <2> QED
    BY <2>6, <2>7, <2>8 DEF CreditInv
<1> QED
  BY <1>1, <1>2 DEF SetupStep, UpdateSettings, CompleteSetup, CreateTable, UpdateTable

LEMMA DayCreditInv ==
    ASSUME CreditInv, NEW a \in Staff, DayStep(a)
    PROVE  CreditInv'
<1>1. UNCHANGED <<profiles, sessions, approvals, transactions, outstanding>>
  BY DEF DayStep, OpenDay, ReopenDay, CloseDay
<1> QED
  BY <1>1, SameCreditInv DEF CreditInv, PlayersKnown

LEMMA StartVisitPlayers ==
    ASSUME TypeInv, NEW p \in Players, NEW t \in Tables, NEW seat \in Seats,
           StartVisit(p, t, seat)
    PROVE  \A v \in DOMAIN sessions' :
              sessions'[v].playerId = p
                \/ (v \in DOMAIN sessions /\ sessions'[v] = sessions[v])
<1>1. PICK start \in ClockReadings :
        sessions' = Append(sessions, [playerId |-> p, dayId |-> Today, status |-> "ACTIVE",
                                      tableId |-> t, seat |-> seat, start |-> start])
  BY DEF StartVisit
<1> DEFINE visit == [playerId |-> p, dayId |-> Today, status |-> "ACTIVE",
                     tableId |-> t, seat |-> seat, start |-> start]
<1>2. visit \in VisitType
  <2>1. Today \in Nat /\ Len(sessions) \in Nat
    BY LenProperties DEF TypeInv, TypeOK, Today
  <2>2. start \in Nat
    BY <2>1, VenueAssumption DEF ClockReadings
  <2> QED
    BY <2>1, <2>2 DEF VisitType
<1>3. sessions' = Append(sessions, visit) /\ visit.playerId = p
  BY <1>1
<1>4. sessions \in Seq(VisitType)
  BY DEF TypeInv, TypeOK
<1> HIDE DEF visit
<1>5. /\ DOMAIN sessions' = DOMAIN sessions \cup {Len(sessions) + 1}
      /\ \A v \in DOMAIN sessions : sessions'[v] = sessions[v]
      /\ sessions'[Len(sessions) + 1] = visit
  BY <1>2, <1>3, <1>4, AppendToSeq
<1> QED
  BY <1>3, <1>5

LEMMA SeatingCreditInv ==
    ASSUME TypeInv, CreditInv, NEW a \in Staff, SeatingStep(a)
    PROVE  CreditInv'
<1>1. \A v \in DOMAIN sessions : Registered(sessions[v].playerId)
  BY DEF CreditInv, PlayersKnown
<1>2. ASSUME NEW p \in Players, NEW t \in Tables, NEW seat \in Seats,
             CheckInKnown(a, p, t, seat)
      PROVE  CreditInv'
  <2>1. Registered(p)
    BY <1>2 DEF CheckInKnown, Registered
  <2>2. \A v \in DOMAIN sessions' : Registered(sessions'[v].playerId)
    BY <1>1, <1>2, <2>1, StartVisitPlayers DEF CheckInKnown
  <2> QED
    BY <1>2, <2>2, SameCreditInv DEF CheckInKnown
<1>3. ASSUME NEW p \in Players, NEW t \in Tables, NEW seat \in Seats,
             NEW type \in AccountTypes, NEW limit \in CreditLimits,
             CheckInNew(a, p, type, limit, t, seat)
      PROVE  CreditInv'
  <2>1. /\ profiles[p].type = "ABSENT"
        /\ \A x \in Players \ {p} : profiles'[x] = profiles[x]
        /\ profiles'[p].type = type
        /\ profiles'[p].creditLimit = IF type = "CREDIT" THEN limit ELSE 0
    BY <1>3 DEF CheckInNew, TypeInv, TypeOK
  <2>2. type \in {"CASH", "CREDIT"} /\ limit \in Nat
    BY <1>3, VenueAssumption
  <2>3. UNCHANGED <<approvals, transactions, outstanding>>
    BY <1>3 DEF CheckInNew
  <2>4. \A x \in Players : Registered(x) => Registered(x)'
    BY <2>1, <2>2 DEF Registered
  <2>5. \A v \in DOMAIN sessions' : Registered(sessions[v].playerId)'
    <3>1. Registered(p)'
      BY <2>1, <2>2 DEF Registered
    <3>2. \A v \in DOMAIN sessions : sessions[v].playerId \in Players
      <4>1. \A v \in DOMAIN sessions : sessions[v] \in VisitType
        BY ElementOfSeq, LenProperties DEF TypeInv, TypeOK
      <4> QED
        BY <4>1 DEF VisitType
    <3>3. \A v \in DOMAIN sessions' :
             sessions'[v].playerId = p \/ (v \in DOMAIN sessions /\ sessions'[v] = sessions[v])
      BY <1>3, StartVisitPlayers DEF CheckInNew
    <3> QED
      BY <1>1, <2>4, <3>1, <3>2, <3>3 DEF Registered
  <2>6. PlayersKnown'
    BY <2>1, <2>2, <2>3, <2>5 DEF CreditInv, PlayersKnown, Registered
  <2>7. BuyInsIn(approvals, p) = {}
    BY <1>3, <2>1 DEF BuyInsIn, IsBuyInOf, CreditInv, PlayersKnown, Registered
  <2>8. ReservedIn(approvals, p) = 0
    <3>1. UnitsIn(approvals, BuyInsIn(approvals, p)) = {}
      BY <2>7 DEF UnitsIn
    <3> QED
      BY <3>1, FS_EmptySet DEF ReservedIn
  <2>9. outstanding[p] = 0
    <3>1. ~IsCredit(p)
      BY <2>1 DEF IsCredit
    <3>2. profiles[p].creditLimit = 0
      BY <1>3, <3>1 DEF CreditInv, CashLimits
    <3>3. outstanding[p] \in Int
      BY <1>3 DEF TypeInv, TypeOK
    <3> QED
      BY <1>3, <3>1, <3>2, <3>3 DEF CreditInv, DebtsWithin, Within
  <2>10. \A x \in Players \ {p} : IsCredit(x)' = IsCredit(x)
    BY <2>1 DEF IsCredit
  <2>11. DebtsWithin'
    <3> SUFFICES ASSUME NEW x \in Players
                 PROVE  Within(outstanding[x], ReservedIn(approvals, x), x)'
      BY DEF DebtsWithin
    <3>1. CASE x = p
      BY <2>1, <2>2, <2>3, <2>8, <2>9, <3>1 DEF Within
    <3>2. CASE x # p
      BY <2>1, <2>3, <2>10, <3>2 DEF CreditInv, DebtsWithin, Within
    <3> QED
      BY <3>1, <3>2
  <2>12. CashLimits'
    BY <1>3, <2>1, <2>2, <2>10, VenueAssumption DEF CreditInv, CashLimits, IsCredit
  <2>13. CashEntries' /\ ReversalsOfPlayer'
    BY <2>1, <2>3, <2>10 DEF CreditInv, CashEntries, ReversalsOfPlayer, IsCredit
  <2> QED
    BY <2>6, <2>11, <2>12, <2>13 DEF CreditInv
<1>4. ASSUME NEW v \in DOMAIN sessions, NEW t \in Tables, NEW seat \in Seats,
             Move(a, v, t, seat)
      PROVE  CreditInv'
  <2>1. \A x \in DOMAIN sessions' :
           x \in DOMAIN sessions /\ sessions'[x].playerId = sessions[x].playerId
    <3>1. sessions[v] \in VisitType
      BY <1>4, ElementOfSeq, LenProperties DEF TypeInv, TypeOK
    <3> QED
      BY <1>4, <3>1 DEF Move, VisitType
  <2> QED
    BY <1>1, <1>4, <2>1, SameCreditInv DEF Move
<1>5. ASSUME NEW v \in DOMAIN sessions, NEW w \in DOMAIN sessions, SwapSeats(a, v, w)
      PROVE  CreditInv'
  <2>1. \A x \in DOMAIN sessions' :
           x \in DOMAIN sessions /\ sessions'[x].playerId = sessions[x].playerId
    <3>1. sessions[v] \in VisitType /\ sessions[w] \in VisitType /\ v # w
      BY <1>5, ElementOfSeq, LenProperties DEF TypeInv, TypeOK, SwapSeats
    <3> QED
      BY <1>5, <3>1 DEF SwapSeats, VisitType
  <2> QED
    BY <1>1, <1>5, <2>1, SameCreditInv DEF SwapSeats
<1> QED
  BY <1>2, <1>3, <1>4, <1>5 DEF SeatingStep

-----------------------------------------------------------------------------
(* Requests.                                                               *)

LEMMA SubmitCreditInv ==
    ASSUME TypeInv, CreditInv, NEW q \in RequestType, Submit(q), Registered(q.playerId),
           q.reversesId # None => q.playerId = transactions[q.reversesId].playerId,
           \A p \in Players : IsBuyInOf(q, p) => CreditAvailable(p, q.amount)
    PROVE  CreditInv'
<1>1. approvals \in Seq(RequestType)
  BY DEF TypeInv, TypeOK
<1>2. approvals' = Append(approvals, q)
  BY DEF Submit
<1>3. UNCHANGED <<profiles, sessions, transactions, outstanding>>
  BY DEF Submit
<1>4. \A r \in DOMAIN approvals' :
         approvals'[r] = q \/ (r \in DOMAIN approvals /\ approvals'[r] = approvals[r])
  BY <1>1, <1>2, AppendToSeq
<1>5. PlayersKnown' /\ CashLimits' /\ CashEntries' /\ ReversalsOfPlayer'
  BY <1>3, <1>4 DEF CreditInv, PlayersKnown, Registered, CashLimits, CashEntries,
                    ReversalsOfPlayer, IsCredit
<1>6. ASSUME NEW p \in Players
      PROVE  Within(outstanding[p], ReservedIn(approvals, p), p)'
  <2> DEFINE debt == outstanding[p]
             old == ReservedIn(approvals, p)
             new == ReservedIn(approvals', p)
  <2>1. Within(debt, old, p)
    BY <1>6 DEF CreditInv, DebtsWithin
  <2>2. new = old + (IF IsBuyInOf(q, p) THEN q.amount ELSE 0)
    BY <1>1, <1>2, ReservedOfAppended
  <2>3. debt \in Int /\ old \in Nat /\ q.amount \in Nat /\ profiles[p].creditLimit \in Nat
    BY <1>1, <1>6, BuyInsFinite DEF TypeInv, TypeOK, RequestType, ProfileType
  <2>4. IsBuyInOf(q, p) /\ IsCredit(p) => debt + old + q.amount <= profiles[p].creditLimit
    BY <1>6, ReservedIsReservedIn DEF CreditAvailable
  <2> HIDE DEF old, new
  <2>5. Within(debt, new, p)
    BY <2>1, <2>2, <2>3, <2>4 DEF Within
  <2> QED
    BY <1>3, <2>5 DEF Within, IsCredit, new
<1> QED
  BY <1>5, <1>6 DEF CreditInv, DebtsWithin

LEMMA RequestCreditInv ==
    ASSUME TypeInv, CreditInv, NEW a \in Staff
    PROVE  /\ \A type \in Types \cap SessionEntries, amount \in Amounts, v \in DOMAIN sessions :
                 RequestForVisit(a, type, amount, v) => CreditInv'
           /\ \A type \in Types \ SessionEntries, amount \in Amounts,
                 p \in Players \cup {None}, t \in Tables \cup {None} :
                 RequestEntry(a, type, amount, p, t) => CreditInv'
           /\ \A t \in DOMAIN transactions : Correct(a, t) => CreditInv'
<1>1. ASSUME NEW type \in Types \cap SessionEntries, NEW amount \in Amounts,
             NEW v \in DOMAIN sessions, RequestForVisit(a, type, amount, v)
      PROVE  CreditInv'
  <2> DEFINE q == NewRequest(a, type, amount, sessions[v].playerId, v,
                             sessions[v].tableId, None)
  <2>1. q \in RequestType /\ Submit(q)
    BY <1>1, VisitRequest
  <2>2. Registered(q.playerId) /\ q.reversesId = None
    BY <1>1 DEF CreditInv, PlayersKnown, NewRequest
  <2>3. q.type = "Buy-in" => CreditAvailable(q.playerId, q.amount)
    BY <1>1 DEF RequestForVisit, MayBuyIn, NewRequest
  <2> HIDE DEF q
  <2> QED
    BY <2>1, <2>2, <2>3, SubmitCreditInv DEF IsBuyInOf
<1>2. ASSUME NEW type \in Types \ SessionEntries, NEW amount \in Amounts,
             NEW p \in Players \cup {None}, NEW t \in Tables \cup {None},
             RequestEntry(a, type, amount, p, t)
      PROVE  CreditInv'
  <2> DEFINE q == NewRequest(a, type, amount, p, None, t, None)
  <2>1. q \in RequestType /\ Submit(q)
    BY <1>2, OtherRequest
  <2>2. Registered(q.playerId) /\ q.reversesId = None /\ q.type # "Buy-in"
    BY <1>2, VenueAssumption DEF RequestEntry, Registered, NewRequest, SessionEntries
  <2> HIDE DEF q
  <2> QED
    BY <2>1, <2>2, SubmitCreditInv DEF IsBuyInOf
<1>3. ASSUME NEW t \in DOMAIN transactions, Correct(a, t)
      PROVE  CreditInv'
  <2> DEFINE tx == transactions[t]
             q == NewRequest(a, "Reversal", tx.amount, tx.playerId, tx.sessionId, tx.tableId, t)
  <2>1. q \in RequestType /\ Submit(q)
    BY <1>3, ReversalRequest
  <2>2. q.playerId = tx.playerId /\ q.reversesId = t /\ q.type # "Buy-in"
    BY DEF NewRequest
  <2>3. Registered(tx.playerId)
    BY <1>3 DEF CreditInv, PlayersKnown
  <2> HIDE DEF q
  <2> QED
    BY <2>1, <2>2, <2>3, SubmitCreditInv DEF IsBuyInOf
<1> QED
  BY <1>1, <1>2, <1>3

-----------------------------------------------------------------------------
(* Decisions.                                                              *)

\* What posting a request that is still valid does to its player's debt.
LEMMA PostedDebt ==
    ASSUME TypeInv, CreditInv, NEW r \in DOMAIN approvals, approvals[r].status = "PENDING",
           ValidEntry(approvals[r], r), NEW p \in Players, approvals[r].playerId = p,
           NEW delta, delta = Posting(r).creditDelta
    PROVE  /\ delta \in Int
           /\ outstanding[p] + delta >= 0
           /\ ~IsCredit(p) => delta = 0
           /\ IsCredit(p) =>
                 outstanding[p] + delta + ReservedIn(approvals, p)
                   - (IF approvals[r].type = "Buy-in" THEN approvals[r].amount ELSE 0)
                     <= profiles[p].creditLimit
<1> DEFINE q == approvals[r]
           owed == outstanding[p]
           reserved == ReservedIn(approvals, p)
           limit == profiles[p].creditLimit
           credit == IsCredit(p)
           freed == IF q.type = "Buy-in" THEN q.amount ELSE 0
           Covered == /\ delta \in Int
                      /\ owed + delta >= 0
                      /\ ~credit => delta = 0
                      /\ credit => owed + delta + reserved - freed <= limit
<1>1. q \in RequestType /\ ReversalLinked(q)
  BY ElementOfSeq, LenProperties DEF TypeInv, TypeOK, Linked
<1>2. /\ owed \in Int /\ reserved \in Nat /\ limit \in Nat /\ q.amount \in Nat
      /\ IsCredit(p) \in BOOLEAN
  BY <1>1, BuyInsFinite DEF TypeInv, TypeOK, RequestType, ProfileType, IsCredit
<1>3. /\ owed >= 0
      /\ IsCredit(p) => owed + reserved <= limit
  BY <1>2 DEF CreditInv, DebtsWithin, Within
<1>4. ASSUME q.type = "Reversal"
      PROVE  Covered
  <2> DEFINE tx == transactions[q.reversesId]
  <2>1. q.reversesId # None /\ q.reversesId \in DOMAIN transactions
    BY <1>1, <1>4 DEF ReversalLinked
  <2>2. tx.playerId = p
    BY <2>1 DEF CreditInv, ReversalsOfPlayer
  <2>3. tx.creditDelta \in Int /\ delta = -tx.creditDelta
    <3>1. tx \in TxType
      BY <2>1, ElementOfSeq, LenProperties DEF TypeInv, TypeOK
    <3> QED
      BY <1>4, <3>1 DEF TxType, Posting, ReversalImpact, Impact
  <2>4. owed - tx.creditDelta >= 0 /\ ReversalWithinLimit(tx)
    BY <1>4, <2>2, VenueAssumption DEF ValidEntry, ValidReversal
  <2>5. tx.creditDelta < 0 /\ IsCredit(p) => owed - tx.creditDelta + reserved <= limit
    BY <2>2, <2>4, ReservedIsReservedIn DEF ReversalWithinLimit
  <2>6. ~IsCredit(p) => tx.creditDelta = 0
    BY <2>1, <2>2 DEF CreditInv, CashEntries
  <2>7. q.type # "Buy-in"
    BY <1>4
  <2> HIDE DEF q, tx, owed, reserved, limit
  <2> QED
    BY <1>2, <1>3, <2>3, <2>4, <2>5, <2>6, <2>7
<1>5. ASSUME q.type # "Reversal"
      PROVE  Covered
  <2>1. delta = EntryImpact(q.type, q.amount, credit, owed).creditDelta
    BY <1>5, VenueAssumption DEF Posting
  <2>2. q.type = "Credit Repayment" => credit /\ q.amount <= owed
    BY <1>5 DEF ValidEntry, ValidRepayment
  <2>3. /\ owed \in Int /\ reserved \in Nat /\ limit \in Nat /\ q.amount \in Nat
        /\ owed >= 0
        /\ credit => owed + reserved <= limit
    BY <1>2, <1>3
  <2> HIDE DEF q, owed, reserved, limit
  <2>4. CASE q.type = "Buy-in" /\ credit
    <3>1. delta = q.amount
      BY <2>1, <2>4 DEF EntryImpact, Impact
    <3>2. Covered
      BY <2>3, <2>4, <3>1
    <3> QED
      BY <3>2
  <2>5. CASE q.type = "Cash-out"
    <3>1. delta = -(IF credit THEN Smaller(owed, q.amount) ELSE 0)
      BY <2>1, <2>5 DEF EntryImpact, Impact
    <3>2. /\ delta \in Int
          /\ owed + delta >= 0
          /\ delta <= 0
          /\ ~credit => delta = 0
      <4> DEFINE settled == IF credit THEN Smaller(owed, q.amount) ELSE 0
      <4>1. /\ settled \in Int /\ settled >= 0 /\ settled <= owed
            /\ ~credit => settled = 0
        BY <2>3 DEF Smaller
      <4> HIDE DEF settled
      <4>2. delta = -settled
        BY <3>1 DEF settled
      <4> QED
        BY <2>3, <4>1, <4>2
    <3>3. freed = 0
      BY <2>5
    <3> HIDE DEF freed
    <3> QED
      BY <2>3, <3>2, <3>3
  <2>6. CASE q.type = "Credit Repayment"
    <3>1. delta = -q.amount
      BY <2>1, <2>6 DEF EntryImpact, Impact
    <3>2. freed = 0
      BY <2>6
    <3>3. credit /\ q.amount <= owed
      BY <2>2, <2>6
    <3> HIDE DEF freed
    <3> QED
      BY <2>3, <3>1, <3>2, <3>3
  <2>7. CASE q.type \notin {"Cash-out", "Credit Repayment"} /\ ~(q.type = "Buy-in" /\ credit)
    <3>1. delta = 0
      BY <2>1, <2>7 DEF EntryImpact, Impact
    <3>2. credit => freed = 0
      BY <2>7
    <3> HIDE DEF freed
    <3> QED
      BY <2>3, <3>1, <3>2
  <2> QED
    BY <2>4, <2>5, <2>6, <2>7
<1>6. Covered
  BY <1>4, <1>5
<1> QED
  BY <1>6, Zenon

\* A rejection or a vote that does not complete the review.
LEMMA UndecidedCreditInv ==
    ASSUME TypeInv, CreditInv, NEW r \in DOMAIN approvals, approvals[r].status = "PENDING",
           NEW q \in RequestType, approvals' = [approvals EXCEPT ![r] = q],
           q.type = approvals[r].type, q.playerId = approvals[r].playerId,
           q.amount = approvals[r].amount, q.reversesId = approvals[r].reversesId,
           UNCHANGED <<profiles, sessions, transactions, outstanding>>
    PROVE  CreditInv'
<1>1. approvals \in Seq(RequestType)
  BY DEF TypeInv, TypeOK
<1>2. /\ DOMAIN approvals' = DOMAIN approvals
      /\ \A x \in DOMAIN approvals :
            /\ approvals'[x].playerId = approvals[x].playerId
            /\ approvals'[x].reversesId = approvals[x].reversesId
  OBVIOUS
<1>3. PlayersKnown' /\ CashLimits' /\ CashEntries' /\ ReversalsOfPlayer'
  BY <1>2 DEF CreditInv, PlayersKnown, Registered, CashLimits, CashEntries,
              ReversalsOfPlayer, IsCredit
<1>4. ASSUME NEW p \in Players
      PROVE  Within(outstanding[p], ReservedIn(approvals, p), p)'
  <2> DEFINE debt == outstanding[p]
             old == ReservedIn(approvals, p)
             new == ReservedIn(approvals', p)
  <2>1. Within(debt, old, p)
    BY <1>4 DEF CreditInv, DebtsWithin
  <2>2. new = old - (IF IsBuyInOf(approvals[r], p) /\ q.status # "PENDING" THEN q.amount ELSE 0)
    BY <1>1, ReservedOfDecided
  <2>3. debt \in Int /\ old \in Nat /\ q.amount \in Nat /\ profiles[p].creditLimit \in Nat
    BY <1>1, <1>4, BuyInsFinite DEF TypeInv, TypeOK, RequestType, ProfileType
  <2> HIDE DEF old, new
  <2>4. Within(debt, new, p)
    BY <2>1, <2>2, <2>3 DEF Within
  <2> QED
    BY <2>4 DEF Within, IsCredit, new
<1> QED
  BY <1>3, <1>4 DEF CreditInv, DebtsWithin

\* The vote that completes the review, and the posting.
LEMMA PostedCreditInv ==
    ASSUME TypeInv, CreditInv, NEW r \in DOMAIN approvals, approvals[r].status = "PENDING",
           ValidEntry(approvals[r], r), Post(r),
           NEW q \in RequestType, approvals' = [approvals EXCEPT ![r] = q],
           q.status = "APPROVED",
           q.type = approvals[r].type, q.playerId = approvals[r].playerId,
           q.amount = approvals[r].amount, q.reversesId = approvals[r].reversesId,
           UNCHANGED profiles
    PROVE  CreditInv'
<1> DEFINE p == q.playerId
           tx == Posting(r)
           delta == tx.creditDelta
<1>1. approvals \in Seq(RequestType) /\ transactions \in Seq(TxType)
  BY DEF TypeInv, TypeOK
<1>2. /\ DOMAIN approvals' = DOMAIN approvals
      /\ \A x \in DOMAIN approvals :
            /\ approvals'[x].playerId = approvals[x].playerId
            /\ approvals'[x].reversesId = approvals[x].reversesId
  OBVIOUS
<1>3. tx \in TxType /\ tx.playerId = p
  BY PostingType DEF Posting
<1>4. transactions' = Append(transactions, tx)
  BY DEF Post
<1>5. p \in Players \cup {None}
  BY DEF RequestType
<1>6. outstanding' = IF p = None THEN outstanding ELSE [outstanding EXCEPT ![p] = @ + delta]
  BY DEF Post
<1>7. p \in Players =>
         /\ delta \in Int
         /\ outstanding[p] + delta >= 0
         /\ ~IsCredit(p) => delta = 0
         /\ IsCredit(p) =>
               outstanding[p] + delta + ReservedIn(approvals, p)
                 - (IF q.type = "Buy-in" THEN q.amount ELSE 0)
                   <= profiles[p].creditLimit
  BY PostedDebt
<1>8. \A t \in DOMAIN transactions' :
         transactions'[t] = tx \/ (t \in DOMAIN transactions /\ transactions'[t] = transactions[t])
  BY <1>1, <1>3, <1>4, AppendToSeq
<1>9. \A t \in DOMAIN transactions : transactions'[t] = transactions[t]
  BY <1>1, <1>3, <1>4, AppendToSeq
<1>10. \A x : IsCredit(x)' = IsCredit(x)
  BY DEF IsCredit
<1>11. PlayersKnown'
  <2>1. Registered(p)
    BY DEF CreditInv, PlayersKnown
  <2>2. \A v \in DOMAIN sessions' :
           v \in DOMAIN sessions /\ sessions'[v].playerId = sessions[v].playerId
    <3>1. \A v \in DOMAIN sessions : sessions[v] \in VisitType
      BY ElementOfSeq, LenProperties DEF TypeInv, TypeOK
    <3> QED
      BY <3>1 DEF Post, VisitType
  <2> HIDE DEF tx, p
  <2> QED
    BY <1>2, <1>3, <1>8, <2>1, <2>2 DEF CreditInv, PlayersKnown, Registered
<1>12. CashLimits'
  BY <1>10 DEF CreditInv, CashLimits
<1>13. CashEntries'
  <2> HIDE DEF tx, p
  <2> QED
    BY <1>3, <1>7, <1>8, <1>10 DEF CreditInv, CashEntries
<1>14. ReversalsOfPlayer'
  <2>1. \A x \in DOMAIN approvals : approvals[x].reversesId # None
                                      => approvals[x].reversesId \in DOMAIN transactions
    BY DEF TypeInv, Linked, ReversalLinked
  <2> QED
    BY <1>2, <1>9, <2>1 DEF CreditInv, ReversalsOfPlayer
<1>15. ASSUME NEW x \in Players
       PROVE  Within(outstanding[x], ReservedIn(approvals, x), x)'
  <2> DEFINE old == ReservedIn(approvals, x)
             new == ReservedIn(approvals', x)
             limit == profiles[x].creditLimit
  <2>1. Within(outstanding[x], old, x)
    BY <1>15 DEF CreditInv, DebtsWithin
  <2>2. new = old - (IF IsBuyInOf(approvals[r], x) THEN q.amount ELSE 0)
    BY <1>1, ReservedOfDecided
  <2>3. outstanding[x] \in Int /\ old \in Nat /\ new \in Nat /\ q.amount \in Nat /\ limit \in Nat
    <3>1. approvals' \in Seq(RequestType)
      BY <1>1, RequestChangedType
    <3> QED
      BY <1>1, <1>15, <3>1, BuyInsFinite DEF TypeInv, TypeOK, RequestType, ProfileType
  <2>4. CASE x # p
    <3>1. outstanding'[x] = outstanding[x] /\ new = old
      <4>1. outstanding'[x] = outstanding[x]
        BY <1>5, <1>6, <1>15, <2>4 DEF TypeInv, TypeOK
      <4>2. ~IsBuyInOf(approvals[r], x)
        BY <2>4 DEF IsBuyInOf
      <4> HIDE DEF old, new
      <4> QED
        BY <2>2, <2>3, <4>1, <4>2
    <3> HIDE DEF old, new
    <3> QED
      BY <1>10, <2>1, <3>1 DEF Within, new
  <2>5. CASE x = p
    <3>1. outstanding'[x] = outstanding[x] + delta
      BY <1>6, <1>15, <2>5, VenueAssumption DEF TypeInv, TypeOK
    <3>2. new = old - (IF q.type = "Buy-in" THEN q.amount ELSE 0)
      BY <2>2, <2>5 DEF IsBuyInOf
    <3>3. /\ delta \in Int
          /\ outstanding[x] + delta >= 0
          /\ ~IsCredit(x) => delta = 0
          /\ IsCredit(x) => outstanding[x] + delta + old
                              - (IF q.type = "Buy-in" THEN q.amount ELSE 0) <= limit
      BY <1>7, <1>15, <2>5
    <3> DEFINE debt == outstanding[x]
               freed == IF q.type = "Buy-in" THEN q.amount ELSE 0
    <3>4. freed \in Nat
      BY <2>3
    <3> HIDE DEF old, new, limit, delta, debt, freed
    <3>5. IsCredit(x) => debt + delta + new <= limit
      BY <2>3, <3>2, <3>3, <3>4 DEF debt, freed
    <3>6. ~IsCredit(x) => debt + delta <= limit
      BY <2>1, <2>3, <3>3 DEF Within, debt, limit
    <3>7. outstanding'[x] >= 0 /\ outstanding'[x] + (IF IsCredit(x) THEN new ELSE 0) <= limit
      BY <2>3, <3>1, <3>3, <3>5, <3>6 DEF debt
    <3> QED
      BY <1>10, <3>7 DEF Within, new, limit
  <2> QED
    BY <2>4, <2>5
<1> QED
  BY <1>11, <1>12, <1>13, <1>14, <1>15 DEF CreditInv, DebtsWithin

LEMMA DecisionCreditInv ==
    ASSUME TypeInv, CreditInv, NEW a \in Staff, NEW r \in DOMAIN approvals,
           Reject(a, r) \/ Approve(a, r)
    PROVE  CreditInv'
<1> DEFINE votes == Append(approvals[r].votes, [staffId |-> a.id, role |-> a.role])
           rejected == [approvals[r] EXCEPT !.status = "REJECTED"]
           voted == [approvals[r] EXCEPT !.votes = votes]
           posted == [approvals[r] EXCEPT !.votes = votes, !.status = "APPROVED"]
<1>1. approvals[r] \in RequestType
  BY ElementOfSeq, LenProperties DEF TypeInv, TypeOK
<1>2. approvals[r].status = "PENDING"
  BY DEF Reject, Approve, CanApprove
<1>3. rejected \in RequestType /\ voted \in RequestType /\ posted \in RequestType
  BY <1>1, DecidedType
<1>4. \A q \in {rejected, voted, posted} :
         /\ q.type = approvals[r].type /\ q.playerId = approvals[r].playerId
         /\ q.amount = approvals[r].amount /\ q.reversesId = approvals[r].reversesId
  BY <1>1 DEF RequestType
<1>5. posted.status = "APPROVED"
  BY <1>1 DEF RequestType
<1>6. CASE Reject(a, r)
  <2>1. approvals' = [approvals EXCEPT ![r] = rejected]
    BY <1>6 DEF Reject
  <2>2. UNCHANGED <<profiles, sessions, transactions, outstanding>>
    BY <1>6 DEF Reject
  <2> HIDE DEF rejected, voted, posted
  <2> QED
    BY <1>2, <1>3, <1>4, <2>1, <2>2, UndecidedCreditInv
<1>7. CASE Approve(a, r) /\ ~ReviewComplete(approvals[r].level, votes)
  <2>1. approvals' = [approvals EXCEPT ![r] = voted]
    BY <1>7 DEF Approve
  <2>2. UNCHANGED <<profiles, sessions, transactions, outstanding>>
    BY <1>7 DEF Approve
  <2> HIDE DEF rejected, voted, posted
  <2> QED
    BY <1>2, <1>3, <1>4, <2>1, <2>2, UndecidedCreditInv
<1>8. CASE Approve(a, r) /\ ReviewComplete(approvals[r].level, votes)
  <2>1. approvals' = [approvals EXCEPT ![r] = posted]
    BY <1>8 DEF Approve
  <2>2. ValidEntry(approvals[r], r) /\ Post(r) /\ UNCHANGED profiles
    BY <1>8 DEF Approve
  <2> HIDE DEF rejected, voted, posted
  <2> QED
    BY <1>2, <1>3, <1>4, <1>5, <2>1, <2>2, PostedCreditInv
<1> QED
  BY <1>6, <1>7, <1>8

LEMMA NextCreditInv == TypeInv /\ CreditInv /\ [Next]_vars => CreditInv'
<1> SUFFICES ASSUME TypeInv, CreditInv, [Next]_vars PROVE CreditInv'
  OBVIOUS
<1>1. ASSUME NEW a \in Staff, EntryStep(a)
      PROVE  CreditInv'
  BY <1>1, RequestCreditInv, DecisionCreditInv DEF EntryStep
<1>2. CASE UNCHANGED vars
  BY <1>2, SameCreditInv DEF vars, CreditInv, PlayersKnown
<1> QED
  BY <1>1, <1>2, SetupCreditInv, DayCreditInv, SeatingCreditInv DEF Next

LEMMA CreditInvAlways == Spec => []CreditInv
<1>1. TypeInv /\ CreditInv /\ [Next]_vars => CreditInv'
  BY NextCreditInv
<1> QED
  BY <1>1, InitCreditInv, TypeInvAlways, PTL DEF Spec

\* However buy-ins, repayments, cash-outs, reversals, reviews and limit changes
\* interleave, nobody owes less than nothing, and debt and reservations together
\* never exceed the credit limit.
THEOREM CreditIsSafe == Spec => []CreditSafe
<1>1. CreditInv => CreditSafe
  BY DebtsWithinIsCreditSafe DEF CreditInv
<1> QED
  BY <1>1, CreditInvAlways, PTL
=============================================================================
