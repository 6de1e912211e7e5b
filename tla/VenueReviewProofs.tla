--------------------------- MODULE VenueReviewProofs ---------------------------
(***************************************************************************)
(* Proofs about review and posting: independent reviewers, one posting per *)
(* approved request, an administrator behind every payout, a ledger that   *)
(* is only extended, pending requests that stay decidable and somebody     *)
(* left to decide them; and about the floor they change: table rules,      *)
(* seats and reopened visits.                                              *)
(***************************************************************************)
EXTENDS VenueProofs

-----------------------------------------------------------------------------
(* What a step does to requests and the ledger.                            *)

NeedsAdmin(type) == type \in Payouts \cup {"Reversal"}

Requested(q) ==
    /\ q.status = "PENDING"
    /\ q.votes = <<>>
    /\ NeedsAdmin(q.type) => q.level \in {"ADMIN", "DUAL"}
    /\ approvals' = Append(approvals, q)
    /\ UNCHANGED transactions

Vote(a) == [staffId |-> a.id, role |-> a.role]
VotesWith(a, r) == Append(approvals[r].votes, Vote(a))
Voted(a, r) == [approvals[r] EXCEPT !.votes = VotesWith(a, r)]
Posted(a, r) == [approvals[r] EXCEPT !.votes = VotesWith(a, r), !.status = "APPROVED"]

Decided(a, r) ==
    /\ CanApprove(a, approvals[r])
    /\ \/ /\ approvals' = [approvals EXCEPT ![r] = [@ EXCEPT !.status = "REJECTED"]]
          /\ UNCHANGED transactions
       \/ /\ ~ReviewComplete(approvals[r].level, VotesWith(a, r))
          /\ approvals' = [approvals EXCEPT ![r] = Voted(a, r)]
          /\ UNCHANGED transactions
       \/ /\ ReviewComplete(approvals[r].level, VotesWith(a, r))
          /\ approvals' = [approvals EXCEPT ![r] = Posted(a, r)]
          /\ \A t \in DOMAIN transactions : transactions[t].approvalId # r
          /\ transactions' = Append(transactions, Posting(r))
          /\ DayIsOpen /\ approvals[r].dayId = Today

LEMMA NewRequestShape ==
    ASSUME NEW a, NEW type, NEW amount, NEW p, NEW v, NEW t, NEW reverses,
           NEW q, q = NewRequest(a, type, amount, p, v, t, reverses), Submit(q)
    PROVE  Requested(q)
BY DEF Submit, Requested, NewRequest, Policy, NeedsAdmin

LEMMA DecisionShape ==
    ASSUME NEW a \in Staff, NEW r \in DOMAIN approvals, Reject(a, r) \/ Approve(a, r)
    PROVE  Decided(a, r)
<1>1. CASE Reject(a, r)
  BY <1>1 DEF Reject, Decided
<1>2. CASE Approve(a, r)
  <2>1. CASE ReviewComplete(approvals[r].level, VotesWith(a, r))
    BY <1>2, <2>1 DEF Approve, Post, Decided, Posted, VotesWith, Vote
  <2>2. CASE ~ReviewComplete(approvals[r].level, VotesWith(a, r))
    BY <1>2, <2>2 DEF Approve, Decided, Voted, VotesWith, Vote
  <2> QED
    BY <2>1, <2>2
<1> QED
  BY <1>1, <1>2

\* Only the entry commands touch requests and the ledger, in one of these ways.
LEMMA StepShape ==
    ASSUME TypeInv, [Next]_vars
    PROVE  \/ UNCHANGED <<approvals, transactions>>
           \/ \E q \in RequestType : Requested(q) /\ ReversalLinked(q)
           \/ \E a \in Staff : \E r \in DOMAIN approvals : Decided(a, r)
<1>1. ASSUME NEW a \in Staff, SetupStep(a) \/ DayStep(a) \/ SeatingStep(a)
      PROVE  UNCHANGED <<approvals, transactions>>
  BY <1>1 DEF SetupStep, UpdateSettings, CompleteSetup, CreateTable, UpdateTable, UpdateProfile,
              DayStep, OpenDay, ReopenDay, CloseDay,
              SeatingStep, CheckInKnown, CheckInNew, Move, SwapSeats
<1>2. ASSUME NEW a \in Staff, EntryStep(a)
      PROVE  \/ \E q \in RequestType : Requested(q) /\ ReversalLinked(q)
             \/ \E r \in DOMAIN approvals : Decided(a, r)
  <2>1. ASSUME NEW type \in Types \cap SessionEntries, NEW amount \in Amounts,
               NEW v \in DOMAIN sessions, RequestForVisit(a, type, amount, v)
        PROVE  \E q \in RequestType : Requested(q) /\ ReversalLinked(q)
    BY <1>2, <2>1, VisitRequest, NewRequestShape
  <2>2. ASSUME NEW type \in Types \ SessionEntries, NEW amount \in Amounts,
               NEW p \in Players \cup {None}, NEW t \in Tables \cup {None},
               RequestEntry(a, type, amount, p, t)
        PROVE  \E q \in RequestType : Requested(q) /\ ReversalLinked(q)
    BY <1>2, <2>2, OtherRequest, NewRequestShape
  <2>3. ASSUME NEW t \in DOMAIN transactions, Correct(a, t)
        PROVE  \E q \in RequestType : Requested(q) /\ ReversalLinked(q)
    <3> DEFINE tx == transactions[t]
               q == NewRequest(a, "Reversal", tx.amount, tx.playerId, tx.sessionId,
                               tx.tableId, t)
    <3>1. q \in RequestType /\ ReversalLinked(q) /\ Submit(q)
      BY <1>2, <2>3, ReversalRequest
    <3>2. Requested(q)
      BY <3>1, NewRequestShape
    <3> QED
      BY <3>1, <3>2
  <2>4. ASSUME NEW r \in DOMAIN approvals, Reject(a, r) \/ Approve(a, r)
        PROVE  Decided(a, r)
    BY <1>2, <2>4, DecisionShape
  <2> QED
    BY <1>2, <2>1, <2>2, <2>3, <2>4 DEF EntryStep
<1>3. CASE UNCHANGED vars
  BY <1>3 DEF vars
<1> QED
  BY <1>1, <1>2, <1>3 DEF Next

-----------------------------------------------------------------------------
(* Independent review.                                                     *)

LEMMA VoteIndependent ==
    ASSUME NEW q \in RequestType, NEW a \in Staff, CanApprove(a, q),
           ReviewedIndependently(q), NEW votes, votes = Append(q.votes, Vote(a))
    PROVE  /\ ReviewedIndependently([q EXCEPT !.votes = votes])
           /\ ReviewComplete(q.level, votes)
                => ReviewedIndependently([q EXCEPT !.votes = votes, !.status = "APPROVED"])
<1>1. Vote(a) \in VoteType
  BY VenueAssumption DEF Vote, VoteType, StaffIds
<1>2. q.votes \in Seq(VoteType)
  BY DEF RequestType
<1>3. /\ votes \in Seq(VoteType)
      /\ DOMAIN votes = DOMAIN q.votes \cup {Len(q.votes) + 1}
      /\ Len(q.votes) + 1 \notin DOMAIN q.votes
      /\ \A i \in DOMAIN q.votes : votes[i] = q.votes[i]
      /\ votes[Len(q.votes) + 1] = Vote(a)
  BY <1>1, <1>2, AppendToSeq
<1>4. \A i \in DOMAIN votes :
         /\ votes[i].staffId # q.requestedById
         /\ votes[i].role \in (IF q.level = "ADMIN" THEN {"ADMIN"} ELSE Supervisors)
  BY <1>3 DEF CanApprove, ReviewedIndependently, Vote
<1>5. \A i, j \in DOMAIN votes : votes[i].staffId = votes[j].staffId => i = j
  BY <1>3 DEF CanApprove, ReviewedIndependently, Vote
<1>6. votes # <<>>
  BY <1>1, <1>2, AppendProperties
<1>7. Len(votes) \in Nat
  BY <1>3, LenProperties
<1>8. q.status = "PENDING"
  BY DEF CanApprove
<1>9. ReviewedIndependently([q EXCEPT !.votes = votes])
  BY <1>4, <1>5, <1>8 DEF ReviewedIndependently, RequestType
<1>10. ASSUME ReviewComplete(q.level, votes)
       PROVE  ReviewedIndependently([q EXCEPT !.votes = votes, !.status = "APPROVED"])
  <2>1. q.level = "DUAL" => Len(votes) > 1 /\ \E i \in DOMAIN votes : votes[i].role = "ADMIN"
    BY <1>7, <1>10 DEF ReviewComplete
  <2> QED
    BY <1>4, <1>5, <1>6, <2>1 DEF ReviewedIndependently, RequestType
<1> QED
  BY <1>9, <1>10

LEMMA NextIndependentReview ==
    ASSUME TypeInv, IndependentReview, [Next]_vars
    PROVE  IndependentReview'
<1>0. approvals \in Seq(RequestType)
  BY DEF TypeInv, TypeOK
<1>1. CASE UNCHANGED <<approvals, transactions>>
  BY <1>1 DEF IndependentReview
<1>2. ASSUME NEW q \in RequestType, Requested(q)
      PROVE  IndependentReview'
  <2>1. ReviewedIndependently(q)
    BY <1>2 DEF Requested, ReviewedIndependently
  <2>2. \A r \in DOMAIN approvals' :
           approvals'[r] = q \/ (r \in DOMAIN approvals /\ approvals'[r] = approvals[r])
    BY <1>0, <1>2, AppendToSeq DEF Requested
  <2> QED
    BY <2>1, <2>2 DEF IndependentReview
<1>3. ASSUME NEW a \in Staff, NEW r \in DOMAIN approvals, Decided(a, r)
      PROVE  IndependentReview'
  <2> DEFINE old == approvals[r]
  <2>1. old \in RequestType
    BY <1>0, <1>3, ElementOfSeq, LenProperties
  <2>2. CanApprove(a, old) /\ ReviewedIndependently(old)
    BY <1>3 DEF Decided, IndependentReview
  <2>3. PICK new : approvals' = [approvals EXCEPT ![r] = new] /\ ReviewedIndependently(new)
    <3>1. ReviewedIndependently([old EXCEPT !.status = "REJECTED"])
      BY <2>1, <2>2 DEF ReviewedIndependently, RequestType
    <3>2. ReviewedIndependently(Voted(a, r))
      BY <1>3, <2>1, <2>2, VoteIndependent DEF Voted, VotesWith
    <3>3. ReviewComplete(old.level, VotesWith(a, r)) => ReviewedIndependently(Posted(a, r))
      BY <1>3, <2>1, <2>2, VoteIndependent DEF Posted, VotesWith
    <3> QED
      BY <1>3, <3>1, <3>2, <3>3 DEF Decided
  <2>4. \A s \in DOMAIN approvals' :
           s \in DOMAIN approvals /\ (approvals'[s] = new \/ approvals'[s] = approvals[s])
    BY <2>3
  <2> QED
    BY <2>3, <2>4 DEF IndependentReview
<1> QED
  BY <1>1, <1>2, <1>3, StepShape

\* Nobody ever reviews his own request or votes twice on one, an ADMIN request
\* has ADMIN votes only, and two people, one of them an administrator, stand
\* behind every approved DUAL request.
THEOREM ReviewIsIndependent == Spec => []IndependentReview
<1>1. Init => IndependentReview
  BY EmptySeq DEF Init, IndependentReview
<1>2. TypeInv /\ IndependentReview /\ [Next]_vars => IndependentReview'
  BY NextIndependentReview
<1> QED
  BY <1>1, <1>2, TypeInvAlways, PTL DEF Spec

-----------------------------------------------------------------------------
(* Posting.  PostedOnce needs to know that the ledger only names requests   *)
(* that exist, with the entry's type, and PayoutsByAdmin that every request *)
(* for a payout or a reversal has the level the policy gives it.            *)

PostingsKnown ==
    \A t \in DOMAIN transactions :
        /\ transactions[t].approvalId \in DOMAIN approvals
        /\ transactions[t].type = approvals[transactions[t].approvalId].type

AdminLevels ==
    \A r \in DOMAIN approvals :
        NeedsAdmin(approvals[r].type) => approvals[r].level \in {"ADMIN", "DUAL"}

PostingInv == PostedOnce /\ PostingsKnown /\ AdminLevels

LEMMA PostingFields ==
    ASSUME NEW r
    PROVE  /\ Posting(r).approvalId = r
           /\ Posting(r).type = approvals[r].type
           /\ Posting(r).dayId = approvals[r].dayId
BY DEF Posting

LEMMA NextPostingInv ==
    ASSUME TypeInv, PostingInv, [Next]_vars
    PROVE  PostingInv'
<1>0. approvals \in Seq(RequestType) /\ transactions \in Seq(TxType)
  BY DEF TypeInv, TypeOK
<1>1. CASE UNCHANGED <<approvals, transactions>>
  BY <1>1 DEF PostingInv, PostedOnce, PostingsKnown, AdminLevels
<1>2. ASSUME NEW q \in RequestType, Requested(q)
      PROVE  PostingInv'
  <2> DEFINE new == Len(approvals) + 1
  <2>1. /\ DOMAIN approvals' = DOMAIN approvals \cup {new}
        /\ new \notin DOMAIN approvals
        /\ \A r \in DOMAIN approvals : approvals'[r] = approvals[r]
        /\ approvals'[new] = q
    BY <1>0, <1>2, AppendToSeq DEF Requested
  <2>2. q.status = "PENDING" /\ transactions' = transactions
    BY <1>2 DEF Requested
  <2>3. \A t \in DOMAIN transactions : transactions[t].approvalId # new
    BY <2>1 DEF PostingInv, PostingsKnown
  <2> HIDE DEF new
  <2>4. PostedOnce'
    BY <2>1, <2>2, <2>3 DEF PostingInv, PostedOnce
  <2>5. PostingsKnown'
    BY <2>1, <2>2 DEF PostingInv, PostingsKnown
  <2>6. AdminLevels'
    BY <1>2, <2>1 DEF PostingInv, AdminLevels, Requested
  <2> QED
    BY <2>4, <2>5, <2>6 DEF PostingInv
<1>3. ASSUME NEW a \in Staff, NEW r \in DOMAIN approvals, Decided(a, r)
      PROVE  PostingInv'
  <2>1. approvals[r] \in RequestType
    BY <1>0, <1>3, ElementOfSeq, LenProperties
  <2>2. approvals[r].status = "PENDING"
    BY <1>3 DEF Decided, CanApprove
  <2>3. ASSUME NEW new, approvals' = [approvals EXCEPT ![r] = new],
               new.status # "APPROVED", new.type = approvals[r].type,
               new.level = approvals[r].level, transactions' = transactions
        PROVE  PostingInv'
    <3>1. DOMAIN approvals' = DOMAIN approvals
      BY <2>3
    <3>2. \A s \in DOMAIN approvals :
             /\ approvals'[s].type = approvals[s].type
             /\ approvals'[s].level = approvals[s].level
             /\ approvals'[s].status = "APPROVED" <=> approvals[s].status = "APPROVED"
      BY <2>2, <2>3
    <3> QED
      BY <2>3, <3>1, <3>2 DEF PostingInv, PostedOnce, PostingsKnown, AdminLevels
  <2>4. ASSUME ReviewComplete(approvals[r].level, VotesWith(a, r)),
               approvals' = [approvals EXCEPT ![r] = Posted(a, r)],
               \A t \in DOMAIN transactions : transactions[t].approvalId # r,
               transactions' = Append(transactions, Posting(r))
        PROVE  PostingInv'
    <3> DEFINE last == Len(transactions) + 1
    <3>1. Posting(r) \in TxType
      BY <1>3, PostingType
    <3>2. /\ DOMAIN transactions' = DOMAIN transactions \cup {last}
          /\ last \notin DOMAIN transactions
          /\ \A t \in DOMAIN transactions : transactions'[t] = transactions[t]
          /\ transactions'[last] = Posting(r)
      BY <1>0, <2>4, <3>1, AppendToSeq
    <3>3. transactions'[last].approvalId = r /\ transactions'[last].type = approvals[r].type
      BY <3>2, PostingFields
    <3>4. /\ DOMAIN approvals' = DOMAIN approvals
          /\ approvals'[r].status = "APPROVED"
          /\ \A s \in DOMAIN approvals :
                /\ approvals'[s].type = approvals[s].type
                /\ approvals'[s].level = approvals[s].level
                /\ s # r => approvals'[s].status = approvals[s].status
      BY <1>3, <2>1, <2>4 DEF Posted, RequestType
    <3> HIDE DEF last
    <3>5. PostedOnce'
      BY <2>4, <3>2, <3>3, <3>4 DEF PostingInv, PostedOnce
    <3>6. PostingsKnown'
      BY <1>3, <3>2, <3>3, <3>4 DEF PostingInv, PostingsKnown
    <3>7. AdminLevels'
      BY <3>4 DEF PostingInv, AdminLevels
    <3> QED
      BY <3>5, <3>6, <3>7 DEF PostingInv
  <2>5. CASE /\ approvals' = [approvals EXCEPT ![r] = [@ EXCEPT !.status = "REJECTED"]]
             /\ UNCHANGED transactions
    <3> DEFINE new == [approvals[r] EXCEPT !.status = "REJECTED"]
    <3>1. approvals' = [approvals EXCEPT ![r] = new]
      BY <2>5
    <3>2. new.status # "APPROVED" /\ new.type = approvals[r].type /\ new.level = approvals[r].level
      BY <2>1 DEF RequestType
    <3> HIDE DEF new
    <3> QED
      BY <2>3, <2>5, <3>1, <3>2
  <2>6. CASE approvals' = [approvals EXCEPT ![r] = Voted(a, r)] /\ UNCHANGED transactions
    <3>1. /\ Voted(a, r).status # "APPROVED"
          /\ Voted(a, r).type = approvals[r].type
          /\ Voted(a, r).level = approvals[r].level
      BY <2>1, <2>2 DEF Voted, RequestType
    <3> QED
      BY <2>3, <2>6, <3>1
  <2> QED
    BY <1>3, <2>4, <2>5, <2>6 DEF Decided
<1> QED
  BY <1>1, <1>2, <1>3, StepShape

LEMMA PostingInvAlways == Spec => []PostingInv
<1>1. Init => PostingInv
  BY EmptySeq DEF Init, PostingInv, PostedOnce, PostingsKnown, AdminLevels
<1>2. TypeInv /\ PostingInv /\ [Next]_vars => PostingInv'
  BY NextPostingInv
<1> QED
  BY <1>1, <1>2, TypeInvAlways, PTL DEF Spec

\* One ledger entry for every approved request, and none for any other.
THEOREM ApprovalPostsOnce == Spec => []PostedOnce
<1>1. PostingInv => PostedOnce
  BY DEF PostingInv
<1> QED
  BY <1>1, PostingInvAlways, PTL

\* Cash leaves the drawer, and entries are undone, only with an administrator's vote.
THEOREM PayoutsNeedAdmin == Spec => []PayoutsByAdmin
<1>1. TypeInv /\ PostingInv /\ IndependentReview => PayoutsByAdmin
  <2> SUFFICES ASSUME TypeInv, PostingInv, IndependentReview, NEW t \in DOMAIN transactions,
                      NeedsAdmin(transactions[t].type)
               PROVE  \E i \in DOMAIN approvals[transactions[t].approvalId].votes :
                         approvals[transactions[t].approvalId].votes[i].role = "ADMIN"
    BY DEF PayoutsByAdmin, NeedsAdmin
  <2> DEFINE r == transactions[t].approvalId
             q == approvals[r]
  <2>1. r \in DOMAIN approvals /\ NeedsAdmin(q.type)
    BY DEF PostingInv, PostingsKnown
  <2>2. q.status = "APPROVED"
    BY <2>1 DEF PostingInv, PostedOnce
  <2>3. q.level \in {"ADMIN", "DUAL"}
    BY <2>1 DEF PostingInv, AdminLevels
  <2>4. ReviewedIndependently(q)
    BY <2>1 DEF IndependentReview
  <2>5. q \in RequestType
    BY <2>1, ElementOfSeq, LenProperties DEF TypeInv, TypeOK
  <2>6. q.votes \in Seq(VoteType)
    BY <2>5 DEF RequestType
  <2> HIDE DEF q
  <2>7. CASE q.level = "DUAL"
    BY <2>2, <2>4, <2>7 DEF ReviewedIndependently, q
  <2>8. CASE q.level = "ADMIN"
    <3>1. q.votes # <<>>
      BY <2>2, <2>4 DEF ReviewedIndependently
    <3>2. 1 \in DOMAIN q.votes
      BY <2>6, <3>1, EmptySeq, LenProperties
    <3> QED
      BY <2>4, <2>8, <3>2 DEF ReviewedIndependently, q
  <2> QED
    BY <2>3, <2>7, <2>8
<1> QED
  BY <1>1, TypeInvAlways, PostingInvAlways, ReviewIsIndependent, PTL

-----------------------------------------------------------------------------
(* History.                                                                *)

LEMMA PrefixOfItself ==
    ASSUME NEW S, NEW s \in Seq(S)
    PROVE  IsPrefixOf(s, s)
BY LenProperties DEF IsPrefixOf

LEMMA PrefixOfAppended ==
    ASSUME NEW S, NEW s \in Seq(S), NEW e \in S
    PROVE  IsPrefixOf(s, Append(s, e))
BY AppendToSeq, LenProperties DEF IsPrefixOf

LEMMA DaysKept ==
    ASSUME TypeInv, [Next]_vars
    PROVE  \A d \in DOMAIN days :
              /\ IsPrefixOf(days[d].closes, days'[d].closes)
              /\ d < Today => days'[d] = days[d]
<1> DEFINE Kept == \A d \in DOMAIN days :
                      /\ IsPrefixOf(days[d].closes, days'[d].closes)
                      /\ d < Today => days'[d] = days[d]
<1>1. days \in Seq(DayType) /\ dayCash \in Seq(Int) /\ Len(dayCash) = Len(days)
  BY DEF TypeInv, TypeOK, Linked
<1>2. \A d \in DOMAIN days : days[d] \in DayType
  BY <1>1, ElementOfSeq, LenProperties
<1>3. \A d \in DOMAIN days : days[d].closes \in Seq(CloseType)
  BY <1>2 DEF DayType
<1>4. \A d \in DOMAIN days : IsPrefixOf(days[d].closes, days[d].closes)
  BY <1>3, PrefixOfItself
<1>5. ASSUME UNCHANGED days
      PROVE  Kept
  BY <1>4, <1>5
<1>6. ASSUME NEW a \in Staff, SetupStep(a) \/ SeatingStep(a) \/ EntryStep(a)
      PROVE  UNCHANGED days
  <2>1. CASE SetupStep(a)
    BY <2>1 DEF SetupStep, UpdateSettings, CompleteSetup, CreateTable, UpdateTable, UpdateProfile
  <2>2. CASE SeatingStep(a)
    BY <2>2 DEF SeatingStep, CheckInKnown, CheckInNew, Move, SwapSeats
  <2>3. CASE EntryStep(a)
    BY <2>3 DEF EntryStep, RequestForVisit, RequestEntry, Correct, Submit, Reject, Approve
  <2> QED
    BY <1>6, <2>1, <2>2, <2>3
<1>7. ASSUME NEW a \in Staff, DayStep(a)
      PROVE  Kept
  <2>1. ASSUME NEW cash \in OpeningCash, OpenDay(a, cash)
        PROVE  Kept
    <3> DEFINE day == [status |-> "OPEN", openingCash |-> cash, closes |-> <<>>]
    <3>1. day \in DayType
      BY <2>1, VenueAssumption, EmptySeq DEF DayType
    <3>2. \A d \in DOMAIN days : days'[d] = days[d]
      BY <1>1, <2>1, <3>1, AppendToSeq DEF OpenDay
    <3> QED
      BY <1>4, <3>2
  <2>2. ASSUME ReopenDay(a)
        PROVE  Kept
    <3>1. Today \in DOMAIN days
      BY <1>1, <2>2, LenProperties DEF ReopenDay, Today
    <3>2. \A d \in DOMAIN days : d # Today => days'[d] = days[d]
      BY <2>2 DEF ReopenDay
    <3>3. days'[Today].closes = days[Today].closes
      BY <1>2, <2>2, <3>1 DEF ReopenDay, DayType
    <3>4. Today \in Nat
      BY <1>1, LenProperties DEF Today
    <3> QED
      BY <1>4, <3>1, <3>2, <3>3, <3>4
  <2>3. ASSUME NEW counted \in CountedCash, CloseDay(a, counted)
        PROVE  Kept
    <3> DEFINE close == [countedCash |-> counted, expectedCash |-> ExpectedCash(Today)]
    <3>1. Today \in DOMAIN days
      BY <1>1, <2>3, LenProperties DEF CloseDay, DayIsOpen, Today
    <3>2. \A d \in DOMAIN days : d # Today => days'[d] = days[d]
      BY <2>3 DEF CloseDay
    <3>3. days'[Today].closes = Append(days[Today].closes, close)
      BY <1>2, <2>3, <3>1 DEF CloseDay, DayType
    <3>4. Today \in Nat
      BY <1>1, LenProperties DEF Today
    <3>5. close \in CloseType
      <4>1. counted \in Nat
        BY <2>3, VenueAssumption
      <4>2. dayCash[Today] \in Int
        BY <1>1, <3>1, ElementOfSeq, LenProperties
      <4>3. days[Today].openingCash \in Nat
        BY <1>2, <3>1 DEF DayType
      <4> QED
        BY <4>1, <4>2, <4>3 DEF CloseType, ExpectedCash
    <3>6. IsPrefixOf(days[Today].closes, days'[Today].closes)
      BY <1>3, <3>1, <3>3, <3>5, PrefixOfAppended
    <3> QED
      BY <1>4, <3>1, <3>2, <3>4, <3>6
  <2> QED
    BY <1>7, <2>1, <2>2, <2>3 DEF DayStep
<1>8. CASE UNCHANGED vars
  BY <1>5, <1>8 DEF vars
<1> QED
  BY <1>5, <1>6, <1>7, <1>8 DEF Next

LEMMA NextHistory ==
    ASSUME TypeInv, [Next]_vars
    PROVE  HistoryStep
<1>0. approvals \in Seq(RequestType) /\ transactions \in Seq(TxType)
  BY DEF TypeInv, TypeOK
<1> DEFINE LedgerExtended ==
             /\ IsPrefixOf(transactions, transactions')
             /\ \A t \in DOMAIN transactions' \ DOMAIN transactions :
                   DayIsOpen /\ transactions'[t].dayId = Today
             /\ \A r \in DOMAIN approvals :
                   approvals[r].status # "PENDING" => approvals'[r] = approvals[r]
<1>1. LedgerExtended
  <2>1. CASE UNCHANGED <<approvals, transactions>>
    BY <1>0, <2>1, PrefixOfItself
  <2>2. ASSUME NEW q \in RequestType, Requested(q)
        PROVE  LedgerExtended
    BY <1>0, <2>2, AppendToSeq, PrefixOfItself DEF Requested
  <2>3. ASSUME NEW a \in Staff, NEW r \in DOMAIN approvals, Decided(a, r)
        PROVE  LedgerExtended
    <3>1. approvals[r].status = "PENDING"
      BY <2>3 DEF Decided, CanApprove
    <3>2. \A s \in DOMAIN approvals : s # r => approvals'[s] = approvals[s]
      BY <2>3 DEF Decided
    <3>3. CASE UNCHANGED transactions
      BY <1>0, <3>1, <3>2, <3>3, PrefixOfItself
    <3>4. CASE /\ transactions' = Append(transactions, Posting(r))
               /\ DayIsOpen /\ approvals[r].dayId = Today
      <4>1. Posting(r) \in TxType
        BY <2>3, PostingType
      <4>2. IsPrefixOf(transactions, transactions')
        BY <1>0, <3>4, <4>1, PrefixOfAppended
      <4>3. \A t \in DOMAIN transactions' \ DOMAIN transactions :
               transactions'[t].dayId = Today
        BY <1>0, <3>4, <4>1, AppendToSeq, PostingFields
      <4> QED
        BY <3>1, <3>2, <3>4, <4>2, <4>3
    <3> QED
      BY <2>3, <3>3, <3>4 DEF Decided
  <2> QED
    BY <2>1, <2>2, <2>3, StepShape
<1> QED
  BY <1>1, DaysKept DEF HistoryStep

\* The ledger, decided requests, earlier days and closing counts are never rewritten.
THEOREM HistoryIsKept == Spec => HistoryKept
<1>1. TypeInv /\ [Next]_vars => [HistoryStep]_vars
  BY NextHistory
<1> QED
  BY <1>1, TypeInvAlways, PTL DEF Spec, HistoryKept

-----------------------------------------------------------------------------
(* Tables and their rules.  Whatever order venue rules and overrides are     *)
(* saved in, the pair a table plays under was checked together.              *)

RulesChecked ==
    /\ settings.rules \in VenueRules \cup {DefaultRules}
    /\ \A t \in Tables : tables[t].status # "ABSENT" =>
          /\ tables[t].rules \in TableOverrides
          /\ TableRulesOK(settings.rules, tables[t].rules)

LEMMA CeilMultiple ==
    ASSUME NEW low \in Nat, NEW step \in Nat \ {0}
    PROVE  LET c == CeilDiv(low, step)
           IN  /\ c \in Nat
               /\ low <= c * step
               /\ (c * step) % step = 0
<1> DEFINE n == low + step - 1
           c == n \div step
           m == n % step
<1>1. n \in Nat
  OBVIOUS
<1>2. c \in Nat /\ m \in 0 .. (step - 1) /\ n = step * c + m
  BY <1>1
<1>3. c * step \in Nat /\ c * step = n - m
  <2> HIDE DEF n, c, m
  <2> QED
    BY <1>1, <1>2
<1>4. low <= c * step
  BY <1>2, <1>3
<1>5. (c * step) % step = 0
  <2> HIDE DEF n, c, m
  <2> QED
    BY <1>2
<1> QED
  BY <1>2, <1>4, <1>5 DEF CeilDiv

\* Consistent rules with a positive maximum leave a positive buy-in.
LEMMA ConsistentIsPlayable ==
    ASSUME NEW rules \in [RuleFields -> Nat], RulesConsistent(rules), rules["maxBuyIn"] > 0
    PROVE  \E amount \in 1 .. rules["maxBuyIn"] : BuyInAllowed(rules, amount)
<1> DEFINE least == rules["minBuyIn"]
           most == rules["maxBuyIn"]
           step == rules["buyInStep"]
           low == IF least = 0 THEN 1 ELSE least
<1>1. least \in Nat /\ most \in Nat /\ step \in Nat /\ least <= most /\ most > 0
  BY DEF RuleFields, RulesConsistent
<1>2. step > 0 => CeilDiv(low, step) * step <= most
  BY DEF RulesConsistent
<1>3. \A amount \in 1 .. most :
         least <= amount /\ (step > 0 => amount % step = 0) => BuyInAllowed(rules, amount)
  BY DEF BuyInAllowed
<1> HIDE DEF least, most, step
<1>4. low \in 1 .. most /\ least <= low /\ low \in Nat
  BY <1>1
<1> HIDE DEF low
<1>5. CASE step = 0
  BY <1>3, <1>4, <1>5 DEF most
<1>6. CASE step > 0
  <2>1. PICK amount \in Nat : amount = CeilDiv(low, step) * step
    BY <1>1, <1>4, <1>6, CeilMultiple
  <2>2. low <= amount /\ amount % step = 0
    BY <1>1, <1>4, <1>6, <2>1, CeilMultiple
  <2>3. amount \in 1 .. most /\ least <= amount
    BY <1>1, <1>2, <1>4, <1>6, <2>1, <2>2
  <2> QED
    BY <1>3, <2>2, <2>3 DEF most
<1> QED
  BY <1>1, <1>5, <1>6

\* Overrides take the place of the venue's rules field by field.
LEMMA EffectiveType ==
    ASSUME NEW venue \in VenueRules \cup {DefaultRules}, NEW overrides \in TableOverrides
    PROVE  /\ EffectiveRules(venue, overrides) \in [RuleFields -> Nat]
           /\ EffectiveRules(venue, overrides)["maxBuyIn"] > 0
<1>1. venue \in [RuleFields -> Nat] /\ venue["maxBuyIn"] > 0
  BY VenueAssumption
<1>2. PICK D \in SUBSET RuleFields :
         overrides \in [D -> Nat] /\ ("maxBuyIn" \in D => overrides["maxBuyIn"] > 0)
  BY VenueAssumption
<1> QED
  BY <1>1, <1>2 DEF EffectiveRules, RuleFields

LEMMA NextRulesChecked ==
    ASSUME TypeInv, RulesChecked, [Next]_vars
    PROVE  RulesChecked'
<1>1. settings \in SettingsType /\ tables \in [Tables -> TableType]
  BY DEF TypeInv, TypeOK
<1>2. ASSUME UNCHANGED <<settings.rules, tables>>
      PROVE  RulesChecked'
  BY <1>2 DEF RulesChecked
<1>3. ASSUME NEW a \in Staff, SetupStep(a)
      PROVE  RulesChecked'
  <2>1. ASSUME NEW features \in FeatureSets, NEW rules \in VenueRules,
               UpdateSettings(a, features, rules)
        PROVE  RulesChecked'
    <3>1. settings'.rules = rules /\ tables' = tables
      BY <1>1, <2>1 DEF UpdateSettings, SettingsType
    <3> QED
      BY <2>1, <3>1 DEF UpdateSettings, RulesChecked
  <2>2. ASSUME CompleteSetup(a)
        PROVE  RulesChecked'
    BY <1>1, <1>2, <2>2 DEF CompleteSetup, SettingsType
  <2>3. ASSUME NEW t \in Tables, NEW status \in {"OPEN", "CLOSED"},
               NEW overrides \in TableOverrides,
               CreateTable(a, t, status, overrides) \/ UpdateTable(a, t, status, overrides)
        PROVE  RulesChecked'
    <3>1. /\ tables' = [tables EXCEPT ![t] = [status |-> status, rules |-> overrides]]
          /\ settings' = settings /\ TableRulesOK(settings.rules, overrides)
      BY <2>3 DEF CreateTable, UpdateTable
    <3>2. \A x \in Tables :
             tables'[x] = IF x = t THEN [status |-> status, rules |-> overrides] ELSE tables[x]
      BY <1>1, <3>1
    <3>3. tables'[t].rules = overrides
      BY <3>2
    <3> QED
      BY <3>1, <3>2, <3>3 DEF RulesChecked
  <2>4. ASSUME NEW p \in Players, NEW limit \in CreditLimits, NEW banned \in Bans,
               UpdateProfile(a, p, limit, banned)
        PROVE  RulesChecked'
    BY <1>2, <2>4 DEF UpdateProfile
  <2> QED
    BY <1>3, <2>1, <2>2, <2>3, <2>4 DEF SetupStep
<1>4. ASSUME NEW a \in Staff, DayStep(a) \/ SeatingStep(a) \/ EntryStep(a)
      PROVE  RulesChecked'
  <2>1. CASE DayStep(a)
    BY <1>2, <2>1 DEF DayStep, OpenDay, ReopenDay, CloseDay
  <2>2. CASE SeatingStep(a)
    BY <1>2, <2>2 DEF SeatingStep, CheckInKnown, CheckInNew, Move, SwapSeats
  <2>3. CASE EntryStep(a)
    <3>1. ASSUME NEW r \in DOMAIN approvals, Reject(a, r) \/ Approve(a, r)
          PROVE  UNCHANGED <<settings, tables>>
      BY <3>1 DEF Reject, Approve
    <3>2. ASSUME NEW q, Submit(q)
          PROVE  UNCHANGED <<settings, tables>>
      BY <3>2 DEF Submit
    <3>3. UNCHANGED <<settings, tables>>
      BY <2>3, <3>1, <3>2 DEF EntryStep, RequestForVisit, RequestEntry, Correct
    <3> QED
      BY <1>2, <3>3
  <2> QED
    BY <1>4, <2>1, <2>2, <2>3
<1>5. CASE UNCHANGED vars
  BY <1>2, <1>5 DEF vars
<1> QED
  BY <1>3, <1>4, <1>5 DEF Next

LEMMA RulesCheckedAlways == Spec => []RulesChecked
<1>1. Init => RulesChecked
  BY DEF Init, RulesChecked
<1>2. TypeInv /\ RulesChecked /\ [Next]_vars => RulesChecked'
  BY NextRulesChecked
<1> QED
  BY <1>1, <1>2, TypeInvAlways, PTL DEF Spec

\* However venue rules and table overrides are saved, every table keeps rules
\* under which some positive buy-in is possible (settings.ts, tableRuleIssue).
THEOREM BuyInStaysPossible == Spec => []BuyInPossible
<1>1. RulesChecked => BuyInPossible
  <2> SUFFICES ASSUME RulesChecked, NEW t \in Tables, tables[t].status # "ABSENT",
                      NEW rules, rules = EffectiveRules(settings.rules, tables[t].rules)
               PROVE  /\ rules["smallBlind"] <= rules["bigBlind"]
                      /\ \E amount \in 1 .. rules["maxBuyIn"] : BuyInAllowed(rules, amount)
    BY DEF BuyInPossible
  <2>1. rules \in [RuleFields -> Nat] /\ rules["maxBuyIn"] > 0
    BY EffectiveType DEF RulesChecked
  <2>2. RulesConsistent(rules)
    BY DEF RulesChecked, TableRulesOK
  <2> QED
    BY <2>1, <2>2, ConsistentIsPlayable DEF RulesConsistent
<1> QED
  BY <1>1, RulesCheckedAlways, PTL

-----------------------------------------------------------------------------
(* What a step leaves of the visits and tables a request needs.             *)

TypesNow ==
    /\ settings \in SettingsType /\ tables \in [Tables -> TableType]
    /\ days \in Seq(DayType) /\ sessions \in Seq(VisitType)
    /\ approvals \in Seq(RequestType) /\ transactions \in Seq(TxType)

LEMMA RecordsTyped == TypeInv => TypesNow
BY DEF TypeInv, TypeOK, TypesNow

\* A table that stops being open had nobody seated and nothing pending.
LEMMA TablesClose ==
    ASSUME TypeInv, NEW a \in Staff, SetupStep(a)
    PROVE  /\ UNCHANGED <<days, sessions, approvals, transactions>>
           /\ \A t \in Tables : TableOpen(t) => TableOpen(t)' \/ TableIdle(t)
<1>1. tables \in [Tables -> TableType]
  BY RecordsTyped DEF TypesNow
<1>2. ASSUME NEW t \in Tables, NEW status \in {"OPEN", "CLOSED"}, NEW overrides \in TableOverrides,
             CreateTable(a, t, status, overrides) \/ UpdateTable(a, t, status, overrides)
      PROVE  \A x \in Tables : TableOpen(x) => TableOpen(x)' \/ TableIdle(x)
  <2>1. tables' = [tables EXCEPT ![t] = [status |-> status, rules |-> overrides]]
    BY <1>2 DEF CreateTable, UpdateTable
  <2>2. /\ tables'[t].status = status
        /\ \A x \in Tables \ {t} : tables'[x] = tables[x]
    BY <1>1, <2>1
  <2>3. TableOpen(t) /\ status = "CLOSED" => TableIdle(t)
    BY <1>2 DEF CreateTable, UpdateTable, TableOpen
  <2> QED
    BY <2>2, <2>3 DEF TableOpen
<1>3. UNCHANGED <<days, sessions, approvals, transactions>>
  BY DEF SetupStep, UpdateSettings, CompleteSetup, CreateTable, UpdateTable, UpdateProfile
<1>4. CASE UNCHANGED tables
  BY <1>3, <1>4 DEF TableOpen
<1> QED
  BY <1>2, <1>3, <1>4 DEF SetupStep, UpdateSettings, CompleteSetup, UpdateProfile

\* The day ends, and another begins, with nobody seated and nothing pending.
LEMMA DaysTurn ==
    ASSUME TypeInv, NEW a \in Staff, DayStep(a)
    PROVE  /\ UNCHANGED <<tables, sessions, approvals, transactions>>
           /\ ~DayIsOpen \/ DaySettled
BY DEF DayStep, OpenDay, ReopenDay, CloseDay, DayIsOpen

\* A check-in adds a visit; nobody with a pending request changes seats.
LEMMA CheckInAdds ==
    ASSUME TypeInv, NEW p \in Players, NEW t \in Tables, NEW seat \in Seats,
           StartVisit(p, t, seat)
    PROVE  LET new == Len(sessions) + 1
           IN  /\ DOMAIN sessions' = DOMAIN sessions \cup {new} /\ new \notin DOMAIN sessions
               /\ \A v \in DOMAIN sessions : sessions'[v] = sessions[v]
               /\ sessions'[new] \in VisitType
               /\ sessions'[new].playerId = p /\ sessions'[new].dayId = Today
               /\ sessions'[new].status = "ACTIVE"
               /\ sessions'[new].tableId = t /\ sessions'[new].seat = seat
               /\ ~ClockMaySlip => sessions'[new].start = new
<1>1. sessions \in Seq(VisitType) /\ sessions' \in Seq(VisitType)
  BY StartVisitType, RecordsTyped DEF TypesNow
<1>2. PICK visit : /\ sessions' = Append(sessions, visit)
                   /\ visit.playerId = p /\ visit.dayId = Today /\ visit.status = "ACTIVE"
                   /\ visit.tableId = t /\ visit.seat = seat
                   /\ ~ClockMaySlip => visit.start = Len(sessions) + 1
  BY DEF StartVisit, ClockReadings
<1>3. /\ DOMAIN sessions = 1 .. Len(sessions) /\ Len(sessions) \in Nat
      /\ Len(sessions') = Len(sessions) + 1
      /\ \A v \in 1 .. Len(sessions) : sessions'[v] = sessions[v]
      /\ sessions'[Len(sessions) + 1] = visit
  BY <1>1, <1>2, LenProperties
<1>4. DOMAIN sessions' = 1 .. (Len(sessions) + 1)
  BY <1>1, <1>3, LenProperties
<1>5. Len(sessions) + 1 \in DOMAIN sessions'
  BY <1>3, <1>4
<1>6. sessions'[Len(sessions) + 1] \in VisitType
  BY <1>1, <1>5, ElementOfSeq, LenProperties
<1> QED
  BY <1>2, <1>3, <1>4, <1>6

\* Visits that only change seats.
LEMMA Reseated ==
    ASSUME TypeInv, NEW a \in Staff, NEW v \in DOMAIN sessions, NEW w \in DOMAIN sessions,
           NEW t \in Tables, NEW seat \in Seats,
           \/ w = v /\ Move(a, v, t, seat)
           \/ SwapSeats(a, v, w) /\ t = sessions[w].tableId /\ seat = sessions[w].seat
    PROVE  /\ DOMAIN sessions' = DOMAIN sessions
           /\ \A u \in DOMAIN sessions :
                 /\ sessions'[u].playerId = sessions[u].playerId
                 /\ sessions'[u].dayId = sessions[u].dayId
                 /\ sessions'[u].status = sessions[u].status
                 /\ sessions'[u].start = sessions[u].start
                 /\ u \notin {v, w} => sessions'[u] = sessions[u]
           /\ sessions'[v].tableId = t /\ sessions'[v].seat = seat
           /\ w # v => /\ sessions'[w].tableId = sessions[v].tableId
                       /\ sessions'[w].seat = sessions[v].seat
<1>1. sessions \in Seq(VisitType)
  BY RecordsTyped DEF TypesNow
<1>2. \A u \in DOMAIN sessions : sessions[u] \in VisitType
  BY <1>1, ElementOfSeq, LenProperties
<1>3. CASE w = v /\ Move(a, v, t, seat)
  <2>1. sessions' = [sessions EXCEPT ![v].tableId = t, ![v].seat = seat]
    BY <1>3 DEF Move
  <2> QED
    BY <1>2, <1>3, <2>1 DEF VisitType
<1>4. CASE SwapSeats(a, v, w) /\ t = sessions[w].tableId /\ seat = sessions[w].seat
  <2>1. /\ v # w
        /\ sessions' = [sessions EXCEPT ![v].tableId = t, ![v].seat = seat,
                            ![w].tableId = sessions[v].tableId, ![w].seat = sessions[v].seat]
    BY <1>4 DEF SwapSeats
  <2> QED
    BY <1>2, <2>1 DEF VisitType
<1> QED
  BY <1>3, <1>4

LEMMA SeatedStay ==
    ASSUME TypeInv, NEW a \in Staff, SeatingStep(a)
    PROVE  /\ UNCHANGED <<tables, days, approvals, transactions>>
           /\ \A v \in ActiveVisits : PendingFor(v) # {} =>
                 v \in DOMAIN sessions' /\ sessions'[v] = sessions[v]
<1>1. UNCHANGED <<tables, days, approvals, transactions>>
  BY DEF SeatingStep, CheckInKnown, CheckInNew, Move, SwapSeats
<1>2. ASSUME NEW p \in Players, NEW t \in Tables, NEW seat \in Seats, StartVisit(p, t, seat)
      PROVE  \A v \in ActiveVisits : v \in DOMAIN sessions' /\ sessions'[v] = sessions[v]
  BY <1>2, CheckInAdds DEF ActiveVisits
<1>3. ASSUME NEW v \in DOMAIN sessions, NEW t \in Tables, NEW seat \in Seats, Move(a, v, t, seat)
      PROVE  \A u \in ActiveVisits : PendingFor(u) # {} =>
                u \in DOMAIN sessions' /\ sessions'[u] = sessions[u]
  BY <1>3, Reseated DEF Move, Movable, ActiveVisits
<1>4. ASSUME NEW v \in DOMAIN sessions, NEW w \in DOMAIN sessions, SwapSeats(a, v, w)
      PROVE  \A u \in ActiveVisits : PendingFor(u) # {} =>
                u \in DOMAIN sessions' /\ sessions'[u] = sessions[u]
  <2>1. PendingFor(v) = {} /\ PendingFor(w) = {}
    BY <1>4 DEF SwapSeats, Swappable, PendingFor
  <2>2. sessions[w].tableId \in Tables /\ sessions[w].seat \in Seats
    <3>1. sessions[w] \in VisitType
      BY ElementOfSeq, LenProperties, RecordsTyped DEF TypesNow
    <3> QED
      BY <3>1 DEF VisitType
  <2> QED
    BY <1>4, <2>1, <2>2, Reseated DEF ActiveVisits
<1> QED
  BY <1>1, <1>2, <1>3, <1>4 DEF SeatingStep, CheckInKnown, CheckInNew

-----------------------------------------------------------------------------
(* Pending requests.                                                         *)

PendingHeld(q) ==
    /\ DayIsOpen
    /\ q.dayId = Today
    /\ q.type \in SessionEntries =>
          /\ q.sessionId \in ActiveVisits
          /\ sessions[q.sessionId].tableId = q.tableId
          /\ sessions[q.sessionId].playerId = q.playerId
    /\ q.type = "Reversal" /\ transactions[q.reversesId].type = "Buy-in"
          => q.sessionId \in ActiveVisits
    /\ q.type # "Reversal" /\ q.tableId # None => tables[q.tableId].status = "OPEN"

\* A reversal concerns the day and the visit of the entry it undoes.
ReversalMatches(q) ==
    q.reversesId # None =>
        /\ q.dayId = transactions[q.reversesId].dayId
        /\ q.sessionId = transactions[q.reversesId].sessionId

LEMMA RequestMade ==
    ASSUME TypeInv, NEW a \in Staff,
           \/ \E type \in Types \cap SessionEntries, amount \in Amounts, v \in DOMAIN sessions :
                RequestForVisit(a, type, amount, v)
           \/ \E type \in Types \ SessionEntries, amount \in Amounts,
                 p \in Players \cup {None}, t \in Tables \cup {None} :
                RequestEntry(a, type, amount, p, t)
           \/ \E t \in DOMAIN transactions : Correct(a, t)
    PROVE  \E q \in RequestType :
              /\ Submit(q) /\ ReversalLinked(q) /\ PendingHeld(q) /\ ReversalMatches(q)
<1>1. ASSUME NEW type \in Types \cap SessionEntries, NEW amount \in Amounts,
             NEW v \in DOMAIN sessions, RequestForVisit(a, type, amount, v)
      PROVE  \E q \in RequestType :
                /\ Submit(q) /\ ReversalLinked(q) /\ PendingHeld(q) /\ ReversalMatches(q)
  <2>1. PICK q : q = NewRequest(a, type, amount, sessions[v].playerId, v, sessions[v].tableId, None)
    OBVIOUS
  <2>2. q \in RequestType /\ ReversalLinked(q) /\ Submit(q)
    BY <1>1, <2>1, VisitRequest
  <2>3. /\ q.dayId = Today /\ q.type = type /\ q.sessionId = v /\ q.reversesId = None
        /\ q.tableId = sessions[v].tableId /\ q.playerId = sessions[v].playerId
    BY <2>1 DEF NewRequest
  <2>4. DayIsOpen /\ v \in ActiveVisits /\ tables[sessions[v].tableId].status = "OPEN"
    BY <1>1 DEF RequestForVisit, TableOpen
  <2>5. type # "Reversal"
    BY DEF SessionEntries
  <2>6. PendingHeld(q) /\ ReversalMatches(q)
    BY <2>3, <2>4, <2>5 DEF PendingHeld, ReversalMatches
  <2> QED
    BY <2>2, <2>6
<1>2. ASSUME NEW type \in Types \ SessionEntries, NEW amount \in Amounts,
             NEW p \in Players \cup {None}, NEW t \in Tables \cup {None},
             RequestEntry(a, type, amount, p, t)
      PROVE  \E q \in RequestType :
                /\ Submit(q) /\ ReversalLinked(q) /\ PendingHeld(q) /\ ReversalMatches(q)
  <2>1. PICK q : q = NewRequest(a, type, amount, p, None, t, None)
    OBVIOUS
  <2>2. q \in RequestType /\ ReversalLinked(q) /\ Submit(q)
    BY <1>2, <2>1, OtherRequest
  <2>3. /\ q.dayId = Today /\ q.type = type /\ q.reversesId = None /\ q.tableId = t
    BY <2>1 DEF NewRequest
  <2>4. DayIsOpen /\ (t # None => tables[t].status = "OPEN")
    BY <1>2 DEF RequestEntry, TableOpen
  <2>5. type # "Reversal" /\ type \notin SessionEntries
    BY VenueAssumption DEF EntryTypes, SessionEntries, DealerEntries
  <2>6. PendingHeld(q) /\ ReversalMatches(q)
    BY <2>3, <2>4, <2>5 DEF PendingHeld, ReversalMatches
  <2> QED
    BY <2>2, <2>6
<1>3. ASSUME NEW t \in DOMAIN transactions, Correct(a, t)
      PROVE  \E q \in RequestType :
                /\ Submit(q) /\ ReversalLinked(q) /\ PendingHeld(q) /\ ReversalMatches(q)
  <2>1. PICK tx, q : /\ tx = transactions[t]
                     /\ q = NewRequest(a, "Reversal", tx.amount, tx.playerId, tx.sessionId,
                                       tx.tableId, t)
    OBVIOUS
  <2>2. q \in RequestType /\ ReversalLinked(q) /\ Submit(q)
    BY <1>3, <2>1, ReversalRequest
  <2>3. /\ q.dayId = Today /\ q.type = "Reversal" /\ q.reversesId = t
        /\ q.sessionId = tx.sessionId
    BY <2>1 DEF NewRequest
  <2>4. DayIsOpen /\ tx.dayId = Today
    BY <1>3, <2>1 DEF Correct
  <2>5. tx.type = "Buy-in" => q.sessionId \in ActiveVisits
    BY <2>1, <2>2, <2>3 DEF Submit, ValidEntry, ValidReversal, BuyInVisitOpen
  <2>6. PendingHeld(q) /\ ReversalMatches(q)
    BY <2>1, <2>3, <2>4, <2>5 DEF PendingHeld, ReversalMatches, SessionEntries
  <2> QED
    BY <2>2, <2>6
<1> QED
  BY <1>1, <1>2, <1>3

\* A decision changes the status or the votes of one request, and nothing else
\* unless it posts.
SameBut(q, new) ==
    /\ new \in RequestType
    /\ \A f \in {"dayId", "type", "amount", "playerId", "sessionId", "tableId", "reversesId"} :
          new[f] = q[f]

LEMMA DecisionMade ==
    ASSUME TypeInv, NEW a \in Staff, NEW r \in DOMAIN approvals, Reject(a, r) \/ Approve(a, r)
    PROVE  /\ approvals[r].status = "PENDING"
           /\ DayIsOpen /\ approvals[r].dayId = Today
           /\ UNCHANGED <<tables, days>>
           /\ \E new \in RequestType :
                 /\ approvals' = [approvals EXCEPT ![r] = new]
                 /\ SameBut(approvals[r], new)
                 /\ \/ UNCHANGED <<sessions, transactions>>
                    \/ Post(r) /\ ValidEntry(approvals[r], r) /\ new.status = "APPROVED"
<1> DEFINE votes == Append(approvals[r].votes, [staffId |-> a.id, role |-> a.role])
<1>1. approvals[r] \in RequestType
  BY ElementOfSeq, LenProperties, RecordsTyped DEF TypesNow
<1>2. /\ approvals[r].status = "PENDING" /\ DayIsOpen /\ approvals[r].dayId = Today
      /\ UNCHANGED <<tables, days>>
  <2>1. CASE Reject(a, r)
    BY <2>1 DEF Reject, CanApprove
  <2>2. CASE Approve(a, r)
    BY <2>2 DEF Approve, CanApprove
  <2> QED
    BY <2>1, <2>2
<1>3. CASE Reject(a, r)
  <2> DEFINE new == [approvals[r] EXCEPT !.status = "REJECTED"]
  <2>1. new \in RequestType /\ SameBut(approvals[r], new)
    BY <1>1, DecidedType DEF SameBut, RequestType
  <2>2. approvals' = [approvals EXCEPT ![r] = new] /\ UNCHANGED <<sessions, transactions>>
    BY <1>3 DEF Reject
  <2> HIDE DEF new
  <2> QED
    BY <1>2, <2>1, <2>2
<1>4. CASE Approve(a, r) /\ ReviewComplete(approvals[r].level, votes)
  <2> DEFINE new == [approvals[r] EXCEPT !.votes = votes, !.status = "APPROVED"]
  <2>1. new \in RequestType
    BY <1>1, DecidedType
  <2>2. SameBut(approvals[r], new) /\ new.status = "APPROVED"
    BY <1>1, <2>1 DEF SameBut, RequestType
  <2>3. approvals' = [approvals EXCEPT ![r] = new] /\ Post(r) /\ ValidEntry(approvals[r], r)
    BY <1>4 DEF Approve
  <2> HIDE DEF new
  <2> QED
    BY <1>2, <2>1, <2>2, <2>3
<1>5. CASE Approve(a, r) /\ ~ReviewComplete(approvals[r].level, votes)
  <2> DEFINE new == [approvals[r] EXCEPT !.votes = votes]
  <2>1. new \in RequestType
    BY <1>1, DecidedType
  <2>2. SameBut(approvals[r], new)
    BY <1>1, <2>1 DEF SameBut, RequestType
  <2>3. approvals' = [approvals EXCEPT ![r] = new] /\ UNCHANGED <<sessions, transactions>>
    BY <1>5 DEF Approve
  <2> HIDE DEF new
  <2> QED
    BY <1>2, <2>1, <2>2, <2>3
<1> QED
  BY <1>3, <1>4, <1>5

\* Posting adds one entry, and changes the status of at most the entry's visit.
LEMMA PostMoves ==
    ASSUME TypeInv, NEW r \in DOMAIN approvals, Post(r)
    PROVE  LET q == approvals[r]
               last == Len(transactions) + 1
           IN  /\ DOMAIN transactions' = DOMAIN transactions \cup {last}
               /\ last \notin DOMAIN transactions
               /\ \A t \in DOMAIN transactions : transactions'[t] = transactions[t]
               /\ transactions'[last].type = q.type /\ transactions'[last].dayId = q.dayId
               /\ transactions'[last].sessionId = q.sessionId
               /\ DOMAIN sessions' = DOMAIN sessions
               /\ \A v \in DOMAIN sessions :
                     /\ v # q.sessionId \/ Settles(q) = "SAME" => sessions'[v] = sessions[v]
                     /\ v = q.sessionId /\ Settles(q) # "SAME" =>
                           sessions'[v].status = Settles(q)
                     /\ sessions'[v].playerId = sessions[v].playerId
                     /\ sessions'[v].dayId = sessions[v].dayId
                     /\ sessions'[v].tableId = sessions[v].tableId
                     /\ sessions'[v].seat = sessions[v].seat
                     /\ sessions'[v].start = sessions[v].start
<1> DEFINE q == approvals[r]
           last == Len(transactions) + 1
<1>1. transactions \in Seq(TxType) /\ Posting(r) \in TxType
  BY PostingType, RecordsTyped DEF TypesNow
<1>2. transactions' = Append(transactions, Posting(r))
  BY DEF Post
<1>3. /\ Posting(r).type = q.type /\ Posting(r).dayId = q.dayId
      /\ Posting(r).sessionId = q.sessionId
  BY DEF Posting
<1>4. /\ DOMAIN transactions' = DOMAIN transactions \cup {last}
      /\ last \notin DOMAIN transactions
      /\ \A t \in DOMAIN transactions : transactions'[t] = transactions[t]
      /\ transactions'[last] = Posting(r)
  BY <1>1, <1>2, AppendToSeq
<1>5. \A v \in DOMAIN sessions : sessions[v] \in VisitType
  BY ElementOfSeq, LenProperties, RecordsTyped DEF TypesNow
<1>6. sessions' = IF Settles(q) = "SAME" THEN sessions
                  ELSE [sessions EXCEPT ![q.sessionId].status = Settles(q)]
  BY DEF Post
<1> HIDE DEF q
<1>7. /\ DOMAIN sessions' = DOMAIN sessions
      /\ \A v \in DOMAIN sessions :
            /\ v # q.sessionId \/ Settles(q) = "SAME" => sessions'[v] = sessions[v]
            /\ v = q.sessionId /\ Settles(q) # "SAME" => sessions'[v].status = Settles(q)
            /\ sessions'[v].playerId = sessions[v].playerId
            /\ sessions'[v].dayId = sessions[v].dayId
            /\ sessions'[v].tableId = sessions[v].tableId
            /\ sessions'[v].seat = sessions[v].seat
            /\ sessions'[v].start = sessions[v].start
  BY <1>5, <1>6 DEF VisitType
<1> QED
  BY <1>3, <1>4, <1>7 DEF q

\* What a pending request needs of its visit and table, step by step.
LEMMA PendingStays ==
    ASSUME TypeInv, NEW q \in RequestType, ReversalLinked(q), PendingHeld(q),
           UNCHANGED days,
           \A t \in DOMAIN transactions : transactions'[t] = transactions[t],
           q.sessionId \in ActiveVisits =>
               /\ q.sessionId \in DOMAIN sessions'
               /\ sessions'[q.sessionId].status = "ACTIVE"
               /\ sessions'[q.sessionId].tableId = sessions[q.sessionId].tableId
               /\ sessions'[q.sessionId].playerId = sessions[q.sessionId].playerId,
           q.tableId \in Tables /\ TableOpen(q.tableId) => TableOpen(q.tableId)'
    PROVE  PendingHeld(q)'
<1>1. DayIsOpen' /\ q.dayId = Today'
  BY DEF PendingHeld, DayIsOpen, Today
<1>2. q.tableId \in Tables \cup {None}
  BY DEF RequestType
<1>3. q.type = "Reversal" => transactions'[q.reversesId] = transactions[q.reversesId]
  BY DEF ReversalLinked
<1>4. q.sessionId \in ActiveVisits => q.sessionId \in ActiveVisits'
  BY DEF ActiveVisits
<1> QED
  BY <1>1, <1>2, <1>3, <1>4 DEF PendingHeld, TableOpen

LEMMA NextPendingCurrent ==
    ASSUME TypeInv, PendingCurrent, [Next]_vars
    PROVE  PendingCurrent'
<1> USE DEF TypesNow
<1>1. /\ \A r \in DOMAIN approvals : approvals[r] \in RequestType /\ ReversalLinked(approvals[r])
      /\ \A r \in PendingRequests : PendingHeld(approvals[r])
  BY ElementOfSeq, LenProperties, RecordsTyped DEF TypeInv, Linked, PendingCurrent, PendingHeld
<1>2. SUFFICES \A r \in DOMAIN approvals' :
                  approvals'[r].status = "PENDING" => PendingHeld(approvals[r])'
  BY DEF PendingCurrent, PendingHeld, PendingRequests
<1>3. ASSUME NEW a \in Staff, SetupStep(a), NEW r \in DOMAIN approvals',
             approvals'[r].status = "PENDING"
      PROVE  PendingHeld(approvals[r])'
  <2>1. /\ UNCHANGED <<days, sessions, approvals, transactions>>
        /\ \A t \in Tables : TableOpen(t) => TableOpen(t)' \/ TableIdle(t)
    BY <1>3, TablesClose
  <2>2. PICK q : q = approvals[r]
    OBVIOUS
  <2>3. r \in PendingRequests /\ q \in RequestType /\ ReversalLinked(q) /\ PendingHeld(q)
    BY <1>1, <1>3, <2>1, <2>2 DEF PendingRequests
  <2>4. q.tableId \in Tables /\ TableOpen(q.tableId) => TableOpen(q.tableId)'
    BY <2>1, <2>2, <2>3 DEF TableIdle
  <2>5. q.sessionId \in ActiveVisits =>
           q.sessionId \in DOMAIN sessions /\ sessions[q.sessionId].status = "ACTIVE"
    BY DEF ActiveVisits
  <2>6. PendingHeld(q)'
    BY <2>1, <2>3, <2>4, <2>5, PendingStays
  <2> QED
    BY <2>1, <2>2, <2>6
<1>4. ASSUME NEW a \in Staff, DayStep(a), NEW r \in DOMAIN approvals',
             approvals'[r].status = "PENDING"
      PROVE  FALSE
  BY <1>1, <1>4, DaysTurn DEF DaySettled, PendingRequests, PendingHeld
<1>5. ASSUME NEW a \in Staff, SeatingStep(a), NEW r \in DOMAIN approvals',
             approvals'[r].status = "PENDING"
      PROVE  PendingHeld(approvals[r])'
  <2>1. /\ UNCHANGED <<tables, days, approvals, transactions>>
        /\ \A v \in ActiveVisits : PendingFor(v) # {} =>
              v \in DOMAIN sessions' /\ sessions'[v] = sessions[v]
    BY <1>5, SeatedStay
  <2>2. PICK q : q = approvals[r]
    OBVIOUS
  <2>3. r \in PendingRequests /\ q \in RequestType /\ ReversalLinked(q) /\ PendingHeld(q)
    BY <1>1, <1>5, <2>1, <2>2 DEF PendingRequests
  <2>4. r \in PendingFor(q.sessionId)
    BY <2>2, <2>3 DEF PendingFor
  <2>5. q.sessionId \in ActiveVisits =>
           /\ q.sessionId \in DOMAIN sessions' /\ sessions'[q.sessionId] = sessions[q.sessionId]
           /\ sessions[q.sessionId].status = "ACTIVE"
    BY <2>1, <2>4 DEF ActiveVisits
  <2>6. TableOpen(q.tableId)' = TableOpen(q.tableId)
    BY <2>1 DEF TableOpen
  <2>7. PendingHeld(q)'
    BY <2>1, <2>3, <2>5, <2>6, PendingStays
  <2> QED
    BY <2>1, <2>2, <2>7
<1>6. ASSUME NEW q \in RequestType, Submit(q), PendingHeld(q),
             NEW r \in DOMAIN approvals', approvals'[r].status = "PENDING"
      PROVE  PendingHeld(approvals[r])'
  <2>1. /\ approvals' = Append(approvals, q)
        /\ UNCHANGED <<settings, tables, days, sessions, transactions>>
    BY <1>6 DEF Submit
  <2>2. approvals'[r] = q \/ (r \in DOMAIN approvals /\ approvals'[r] = approvals[r])
    BY <1>6, <2>1, RecordsTyped, AppendToSeq
  <2>3. PICK new : new = approvals'[r]
    OBVIOUS
  <2>4. PendingHeld(new)
    BY <1>1, <1>6, <2>2, <2>3 DEF PendingRequests
  <2>5. PendingHeld(new)'
    BY <2>1, <2>4 DEF PendingHeld, DayIsOpen, Today, ActiveVisits
  <2> QED
    BY <2>3, <2>5
<1>7. ASSUME NEW a \in Staff, NEW s \in DOMAIN approvals, Reject(a, s) \/ Approve(a, s),
             NEW r \in DOMAIN approvals', approvals'[r].status = "PENDING"
      PROVE  PendingHeld(approvals[r])'
  <2>1. /\ s \in PendingRequests /\ UNCHANGED <<tables, days>>
    BY <1>7, DecisionMade DEF PendingRequests
  <2>2. PICK new \in RequestType :
           /\ approvals' = [approvals EXCEPT ![s] = new]
           /\ SameBut(approvals[s], new)
           /\ \/ UNCHANGED <<sessions, transactions>>
              \/ Post(s) /\ ValidEntry(approvals[s], s) /\ new.status = "APPROVED"
    BY <1>7, DecisionMade
  <2>3. r \in DOMAIN approvals
    BY <1>7, <2>2
  <2>4. PICK old, now : old = approvals[r] /\ now = approvals'[r]
    OBVIOUS
  <2>5. /\ now \in RequestType
        /\ now.dayId = old.dayId /\ now.type = old.type /\ now.sessionId = old.sessionId
        /\ now.tableId = old.tableId /\ now.playerId = old.playerId
        /\ now.reversesId = old.reversesId
        /\ r # s => now = old
    BY <1>1, <2>2, <2>3, <2>4 DEF SameBut
  <2>6. r \in PendingRequests
    BY <1>7, <2>1, <2>3, <2>4, <2>5 DEF PendingRequests
  <2>7. ReversalLinked(now) /\ PendingHeld(now)
    <3>1. ReversalLinked(old) /\ PendingHeld(old)
      BY <1>1, <2>3, <2>4, <2>6
    <3> QED
      BY <2>5, <3>1 DEF ReversalLinked, PendingHeld
  <2>8. CASE UNCHANGED <<sessions, transactions>>
    <3>1. PendingHeld(now)'
      BY <2>1, <2>7, <2>8 DEF PendingHeld, DayIsOpen, Today, ActiveVisits
    <3> QED
      BY <2>4, <3>1
  <2>9. CASE Post(s) /\ ValidEntry(approvals[s], s) /\ new.status = "APPROVED"
    <3>1. r # s
      BY <1>7, <2>2, <2>3, <2>9
    <3>2. \A t \in DOMAIN transactions : transactions'[t] = transactions[t]
      BY <1>7, <2>9, PostMoves
    <3>3. now.sessionId \in ActiveVisits =>
             /\ now.sessionId \in DOMAIN sessions'
             /\ sessions'[now.sessionId].status = "ACTIVE"
             /\ sessions'[now.sessionId].tableId = sessions[now.sessionId].tableId
             /\ sessions'[now.sessionId].playerId = sessions[now.sessionId].playerId
      <4> SUFFICES ASSUME now.sessionId \in ActiveVisits
                   PROVE  /\ now.sessionId \in DOMAIN sessions'
                          /\ sessions'[now.sessionId].status = "ACTIVE"
                          /\ sessions'[now.sessionId].tableId = sessions[now.sessionId].tableId
                          /\ sessions'[now.sessionId].playerId = sessions[now.sessionId].playerId
        OBVIOUS
      <4>1. PICK v \in DOMAIN sessions : v = now.sessionId /\ sessions[v].status = "ACTIVE"
        BY DEF ActiveVisits
      <4>2. Settles(approvals[s]) = "OUT" => v # approvals[s].sessionId
        <5>1. SUFFICES ASSUME approvals[s].type = "Cash-out", v = approvals[s].sessionId
                       PROVE  FALSE
          BY DEF Settles
        <5>2. r \in PendingFor(approvals[s].sessionId)
          BY <2>4, <2>5, <2>6, <4>1, <5>1 DEF PendingFor
        <5>3. PendingFor(approvals[s].sessionId) \ {s} = {}
          BY <2>9, <5>1 DEF ValidEntry, ValidSessionEntry, NoOtherPending, SessionEntries
        <5> QED
          BY <3>1, <5>2, <5>3
      <4>3. Settles(approvals[s]) \in {"OUT", "ACTIVE", "SAME"}
        BY DEF Settles
      <4>4. /\ v \in DOMAIN sessions' /\ sessions'[v].tableId = sessions[v].tableId
            /\ sessions'[v].playerId = sessions[v].playerId
            /\ \/ sessions'[v] = sessions[v]
               \/ v = approvals[s].sessionId /\ sessions'[v].status = Settles(approvals[s])
                    /\ Settles(approvals[s]) # "SAME"
        BY <1>7, <2>9, <4>1, PostMoves
      <4> QED
        BY <4>1, <4>2, <4>3, <4>4
    <3>4. TableOpen(now.tableId)' = TableOpen(now.tableId)
      BY <2>1 DEF TableOpen
    <3>5. PendingHeld(now)'
      BY <2>1, <2>5, <2>7, <3>2, <3>3, <3>4, PendingStays
    <3> QED
      BY <2>4, <3>5
  <2> QED
    BY <2>2, <2>8, <2>9
<1>8. ASSUME NEW a \in Staff, EntryStep(a), NEW r \in DOMAIN approvals',
             approvals'[r].status = "PENDING"
      PROVE  PendingHeld(approvals[r])'
  BY <1>6, <1>7, <1>8, RequestMade DEF EntryStep
<1>9. CASE UNCHANGED vars
  BY <1>1, <1>9 DEF vars, PendingHeld, PendingRequests, DayIsOpen, Today, ActiveVisits
<1> QED
  BY <1>3, <1>4, <1>5, <1>8, <1>9 DEF Next

\* A pending request always belongs to the open day and, where it needs one,
\* meets its visit, active at the table it was made for, though players move,
\* tables close, days end and other requests are decided meanwhile
\* (DAY_LIFECYCLE and SESSION_LIFECYCLE, store-integrity.ts:369-392).
THEOREM PendingStaysCurrent == Spec => []PendingCurrent
<1>1. Init => PendingCurrent
  BY EmptySeq DEF Init, PendingCurrent, PendingRequests
<1>2. TypeInv /\ PendingCurrent /\ [Next]_vars => PendingCurrent'
  BY NextPendingCurrent
<1> QED
  BY <1>1, <1>2, TypeInvAlways, PTL DEF Spec

-----------------------------------------------------------------------------
(* Seats.  A reversed cash-out seats a visit again, so the invariant has to   *)
(* know that an active visit is its player's last one, and that a reversal    *)
(* concerns a visit of the day its entry was posted on.  The first needs the  *)
(* wall clock in order; VenueClock shows a clock that is not.                 *)

Apart(v, w) ==
    /\ sessions[v].playerId # sessions[w].playerId
    /\ sessions[v].tableId # sessions[w].tableId \/ sessions[v].seat # sessions[w].seat
SeatKept(v) ==
    /\ DayIsOpen
    /\ sessions[v].dayId = Today
    /\ tables[sessions[v].tableId].status = "OPEN"
LastOfPlayer(v) == \A w \in VisitsOf(sessions[v].playerId) : w <= v

InOrder == \A v \in DOMAIN sessions : sessions[v].start = v
CashOutsKnown ==
    \A t \in DOMAIN transactions : transactions[t].type = "Cash-out" =>
        /\ transactions[t].sessionId \in DOMAIN sessions
        /\ sessions[transactions[t].sessionId].dayId = transactions[t].dayId
ReversalsMatch == \A r \in DOMAIN approvals : ReversalMatches(approvals[r])

Seated ==
    /\ \A v, w \in ActiveVisits : v # w => Apart(v, w)
    /\ \A v \in ActiveVisits : SeatKept(v) /\ LastOfPlayer(v)

SeatingInv == Seated /\ InOrder /\ CashOutsKnown /\ ReversalsMatch

LEMMA SeatedIsExclusive == SeatingInv => SeatingExclusive
BY DEF SeatingInv, Seated, SeatingExclusive, Apart, SeatKept

\* Visits that are as they were, on the same day, at tables that stay open.
LEMMA SeatedAsBefore ==
    ASSUME Seated, UNCHANGED <<days, sessions>>,
           \A v \in ActiveVisits : tables'[sessions[v].tableId].status = "OPEN"
    PROVE  Seated'
BY DEF Seated, Apart, SeatKept, LastOfPlayer, VisitsOf, ActiveVisits, DayIsOpen, Today

LEMMA SetupSeating ==
    ASSUME TypeInv, SeatingInv, NEW a \in Staff, SetupStep(a)
    PROVE  SeatingInv'
<1>1. /\ UNCHANGED <<days, sessions, approvals, transactions>>
      /\ \A t \in Tables : TableOpen(t) => TableOpen(t)' \/ TableIdle(t)
  BY TablesClose
<1>2. \A v \in ActiveVisits : tables'[sessions[v].tableId].status = "OPEN"
  <2>1. \A v \in ActiveVisits : sessions[v].tableId \in Tables
    <3>1. \A v \in DOMAIN sessions : sessions[v] \in VisitType
      BY ElementOfSeq, LenProperties, RecordsTyped DEF TypesNow
    <3> QED
      BY <3>1 DEF VisitType, ActiveVisits
  <2> QED
    BY <1>1, <2>1 DEF SeatingInv, Seated, SeatKept, TableOpen, TableIdle
<1>3. Seated'
  BY <1>1, <1>2, SeatedAsBefore DEF SeatingInv
<1> QED
  BY <1>1, <1>3 DEF SeatingInv, InOrder, CashOutsKnown, ReversalsMatch, ReversalMatches

LEMMA DaySeating ==
    ASSUME TypeInv, SeatingInv, NEW a \in Staff, DayStep(a)
    PROVE  SeatingInv'
<1>1. /\ UNCHANGED <<tables, sessions, approvals, transactions>>
      /\ ~DayIsOpen \/ DaySettled
  BY DaysTurn
<1>2. ActiveVisits = {}
  BY <1>1 DEF DaySettled, SeatingInv, Seated, SeatKept
<1>3. ActiveVisits' = {}
  BY <1>1, <1>2 DEF ActiveVisits
<1>4. Seated'
  BY <1>3 DEF Seated
<1> QED
  BY <1>1, <1>4 DEF SeatingInv, InOrder, CashOutsKnown, ReversalsMatch, ReversalMatches

\* Visits that were there keep their player, day and start; what else a step
\* has to show of them.
LEMMA SeatingKept ==
    ASSUME TypeInv, SeatingInv, Seated', InOrder',
           DOMAIN sessions \subseteq DOMAIN sessions',
           \A v \in DOMAIN sessions : sessions'[v].dayId = sessions[v].dayId,
           UNCHANGED <<approvals, transactions>>
    PROVE  SeatingInv'
BY DEF SeatingInv, CashOutsKnown, ReversalsMatch, ReversalMatches

LEMMA CheckInSeating ==
    ASSUME TypeInv, SeatingInv, ~ClockMaySlip, NEW p \in Players, NEW t \in Tables,
           NEW seat \in Seats, DayIsOpen, StartVisit(p, t, seat),
           UNCHANGED <<tables, days, approvals, transactions>>
    PROVE  SeatingInv'
<1>0. PICK new : new = Len(sessions) + 1
  OBVIOUS
<1>1. /\ DOMAIN sessions' = DOMAIN sessions \cup {new} /\ new \notin DOMAIN sessions
      /\ \A v \in DOMAIN sessions : sessions'[v] = sessions[v]
      /\ sessions'[new].playerId = p /\ sessions'[new].dayId = Today
      /\ sessions'[new].status = "ACTIVE"
      /\ sessions'[new].tableId = t /\ sessions'[new].seat = seat
      /\ sessions'[new].start = new
  BY <1>0, CheckInAdds
<1>2. new \in Nat /\ \A v \in DOMAIN sessions : v \in Nat /\ v < new
  BY <1>0, LenProperties, RecordsTyped DEF TypesNow
<1>3. /\ TableOpen(t)
      /\ \A v \in ActiveVisits : sessions[v].tableId # t \/ sessions[v].seat # seat
      /\ \A v \in ActiveVisits : sessions[v].playerId # p
  <2>1. None \notin ActiveVisits
    <3>1. \A v \in ActiveVisits : v \in Nat
      BY <1>2 DEF ActiveVisits
    <3> QED
      BY <3>1, VenueAssumption
  <2> QED
    BY <2>1 DEF StartVisit, EnsureSeat, NotCheckedIn, VisitsOf, ActiveVisits
<1>4. ActiveVisits' = ActiveVisits \cup {new}
  BY <1>1 DEF ActiveVisits
<1>5. DayIsOpen' /\ Today' = Today
  BY DEF DayIsOpen, Today
<1>6. \A v \in ActiveVisits : v \in DOMAIN sessions /\ sessions'[v] = sessions[v]
  BY <1>1 DEF ActiveVisits
<1>7. \A v, w \in ActiveVisits' : v # w => Apart(v, w)'
  BY <1>1, <1>3, <1>4, <1>6 DEF SeatingInv, Seated, Apart
<1>8. \A v \in ActiveVisits' : SeatKept(v)'
  BY <1>1, <1>3, <1>4, <1>5, <1>6 DEF SeatingInv, Seated, SeatKept, TableOpen
<1>9. \A v \in ActiveVisits' : LastOfPlayer(v)'
  <2>1. LastOfPlayer(new)'
    BY <1>1, <1>2 DEF LastOfPlayer, VisitsOf
  <2>2. ASSUME NEW v \in ActiveVisits PROVE LastOfPlayer(v)'
    BY <1>1, <1>3, <1>6 DEF SeatingInv, Seated, LastOfPlayer, VisitsOf
  <2> QED
    BY <1>4, <2>1, <2>2
<1>10. InOrder'
  BY <1>1 DEF SeatingInv, InOrder
<1> QED
  BY <1>1, <1>7, <1>8, <1>9, <1>10, SeatingKept DEF Seated

LEMMA ReseatedSeating ==
    ASSUME TypeInv, SeatingInv, NEW a \in Staff, NEW v \in DOMAIN sessions,
           NEW w \in DOMAIN sessions, NEW t \in Tables, NEW seat \in Seats,
           \/ w = v /\ Move(a, v, t, seat)
           \/ SwapSeats(a, v, w) /\ t = sessions[w].tableId /\ seat = sessions[w].seat
    PROVE  SeatingInv'
<1>1. /\ DOMAIN sessions' = DOMAIN sessions
      /\ \A u \in DOMAIN sessions :
            /\ sessions'[u].playerId = sessions[u].playerId
            /\ sessions'[u].dayId = sessions[u].dayId
            /\ sessions'[u].status = sessions[u].status
            /\ sessions'[u].start = sessions[u].start
            /\ u \notin {v, w} => sessions'[u] = sessions[u]
      /\ sessions'[v].tableId = t /\ sessions'[v].seat = seat
      /\ w # v => /\ sessions'[w].tableId = sessions[v].tableId
                  /\ sessions'[w].seat = sessions[v].seat
  BY Reseated
<1>2. UNCHANGED <<tables, days, approvals, transactions>>
  BY DEF Move, SwapSeats
<1>3. ActiveVisits' = ActiveVisits /\ {v, w} \subseteq ActiveVisits
  BY <1>1 DEF ActiveVisits, Move, SwapSeats
<1>4. /\ TableOpen(t)
      /\ w # v => TableOpen(sessions[v].tableId)
      /\ \A u \in ActiveVisits \ {v, w} : sessions[u].tableId # t \/ sessions[u].seat # seat
      /\ w # v => \A u \in ActiveVisits \ {v, w} :
            sessions[u].tableId # sessions[v].tableId \/ sessions[u].seat # sessions[v].seat
  BY DEF Move, SwapSeats, EnsureSeat, Swappable
<1>5. \A x, y \in ActiveVisits : x # y => Apart(x, y)
  BY DEF SeatingInv, Seated
<1>6. \A x, y \in ActiveVisits : x # y => Apart(x, y)'
  <2> SUFFICES ASSUME NEW x \in ActiveVisits, NEW y \in ActiveVisits, x # y
               PROVE  Apart(x, y)'
    OBVIOUS
  <2>1. x \in DOMAIN sessions /\ y \in DOMAIN sessions /\ Apart(x, y)
    BY <1>5 DEF ActiveVisits
  <2>2. sessions'[x].playerId # sessions'[y].playerId
    BY <1>1, <2>1 DEF Apart
  <2>3. CASE x \notin {v, w} /\ y \notin {v, w}
    BY <1>1, <2>1, <2>3 DEF Apart
  <2>4. CASE x \in {v, w} /\ y \notin {v, w}
    BY <1>1, <1>4, <2>1, <2>2, <2>4 DEF Apart
  <2>5. CASE x \notin {v, w} /\ y \in {v, w}
    BY <1>1, <1>4, <2>1, <2>2, <2>5 DEF Apart
  <2>6. CASE x \in {v, w} /\ y \in {v, w}
    <3>1. SwapSeats(a, v, w) /\ t = sessions[w].tableId /\ seat = sessions[w].seat /\ v # w
      BY <2>6 DEF SwapSeats
    <3>2. Apart(v, w)
      BY <1>3, <1>5, <3>1
    <3> QED
      BY <1>1, <2>1, <2>2, <2>6, <3>1, <3>2 DEF Apart
  <2> QED
    BY <2>3, <2>4, <2>5, <2>6
<1>7. \A x \in ActiveVisits : SeatKept(x)'
  <2> SUFFICES ASSUME NEW x \in ActiveVisits PROVE SeatKept(x)'
    OBVIOUS
  <2>1. x \in DOMAIN sessions /\ SeatKept(x)
    BY DEF ActiveVisits, SeatingInv, Seated
  <2>2. TableOpen(sessions'[x].tableId)
    BY <1>1, <1>4, <2>1 DEF SeatKept, TableOpen
  <2> QED
    BY <1>1, <1>2, <2>1, <2>2 DEF SeatKept, DayIsOpen, Today, TableOpen
<1>8. \A x \in ActiveVisits : LastOfPlayer(x)'
  BY <1>1 DEF SeatingInv, Seated, LastOfPlayer, VisitsOf, ActiveVisits
<1>9. Seated'
  BY <1>3, <1>6, <1>7, <1>8 DEF Seated
<1>10. InOrder'
  BY <1>1 DEF SeatingInv, InOrder
<1> QED
  BY <1>1, <1>2, <1>9, <1>10, SeatingKept

LEMMA SeatingSeating ==
    ASSUME TypeInv, SeatingInv, ~ClockMaySlip, NEW a \in Staff, SeatingStep(a)
    PROVE  SeatingInv'
<1>1. ASSUME NEW v \in DOMAIN sessions, NEW w \in DOMAIN sessions, SwapSeats(a, v, w)
      PROVE  SeatingInv'
  <2>1. sessions[w] \in VisitType
    BY ElementOfSeq, LenProperties, RecordsTyped DEF TypesNow
  <2> QED
    BY <1>1, <2>1, ReseatedSeating DEF VisitType
<1>2. ASSUME NEW v \in DOMAIN sessions, NEW t \in Tables, NEW seat \in Seats, Move(a, v, t, seat)
      PROVE  SeatingInv'
  BY <1>2, ReseatedSeating
<1>3. ASSUME NEW p \in Players, NEW t \in Tables, NEW seat \in Seats,
             \/ CheckInKnown(a, p, t, seat)
             \/ \E type \in AccountTypes, limit \in CreditLimits :
                   CheckInNew(a, p, type, limit, t, seat)
      PROVE  SeatingInv'
  BY <1>3, CheckInSeating DEF CheckInKnown, CheckInNew
<1> QED
  BY <1>1, <1>2, <1>3 DEF SeatingStep

LEMMA SubmitSeating ==
    ASSUME TypeInv, SeatingInv, NEW q \in RequestType, Submit(q), ReversalMatches(q)
    PROVE  SeatingInv'
<1>1. approvals' = Append(approvals, q) /\ UNCHANGED <<tables, days, sessions, transactions>>
  BY DEF Submit
<1>2. \A r \in DOMAIN approvals' :
         approvals'[r] = q \/ (r \in DOMAIN approvals /\ approvals'[r] = approvals[r])
  BY <1>1, RecordsTyped, AppendToSeq DEF TypesNow
<1>3. Seated'
  BY <1>1, SeatedAsBefore DEF SeatingInv, Seated, SeatKept
<1> QED
  BY <1>1, <1>2, <1>3 DEF SeatingInv, InOrder, CashOutsKnown, ReversalsMatch, ReversalMatches

\* A reversed cash-out reopens only the player's last visit.
LEMMA OnlyLastReopens ==
    ASSUME TypeInv, InOrder, NEW v \in DOMAIN sessions, NoLaterVisit(v),
           NEW w \in VisitsOf(sessions[v].playerId), w # v
    PROVE  w < v
BY DEF NoLaterVisit, InOrder, VisitsOf

LEMMA PostSeating ==
    ASSUME TypeInv, SeatingInv, NEW s \in DOMAIN approvals, Post(s), ValidEntry(approvals[s], s),
           DayIsOpen, approvals[s].dayId = Today, UNCHANGED <<tables, days>>
    PROVE  Seated' /\ InOrder' /\ CashOutsKnown'
<1>1. PICK q, last : q = approvals[s] /\ last = Len(transactions) + 1
  OBVIOUS
<1>2. /\ DOMAIN transactions' = DOMAIN transactions \cup {last}
      /\ \A t \in DOMAIN transactions : transactions'[t] = transactions[t]
      /\ transactions'[last].type = q.type /\ transactions'[last].dayId = q.dayId
      /\ transactions'[last].sessionId = q.sessionId
      /\ DOMAIN sessions' = DOMAIN sessions
      /\ \A v \in DOMAIN sessions :
            /\ v # q.sessionId \/ Settles(q) = "SAME" => sessions'[v] = sessions[v]
            /\ v = q.sessionId /\ Settles(q) # "SAME" => sessions'[v].status = Settles(q)
            /\ sessions'[v].playerId = sessions[v].playerId
            /\ sessions'[v].dayId = sessions[v].dayId
            /\ sessions'[v].tableId = sessions[v].tableId
            /\ sessions'[v].seat = sessions[v].seat
            /\ sessions'[v].start = sessions[v].start
  BY <1>1, PostMoves
<1>3. InOrder'
  BY <1>2 DEF SeatingInv, InOrder
<1>4. q.type = "Cash-out" => q.sessionId \in ActiveVisits /\ sessions[q.sessionId].dayId = q.dayId
  BY <1>1 DEF ValidEntry, ValidSessionEntry, SessionEntries
<1>5. CashOutsKnown'
  <2> SUFFICES ASSUME NEW t \in DOMAIN transactions', transactions'[t].type = "Cash-out"
               PROVE  /\ transactions'[t].sessionId \in DOMAIN sessions'
                      /\ sessions'[transactions'[t].sessionId].dayId = transactions'[t].dayId
    BY DEF CashOutsKnown
  <2>1. CASE t = last
    BY <1>2, <1>4, <2>1 DEF ActiveVisits
  <2>2. CASE t \in DOMAIN transactions
    BY <1>2, <2>2 DEF SeatingInv, CashOutsKnown
  <2> QED
    BY <1>2, <2>1, <2>2
<1>6. ASSUME ActiveVisits' \subseteq ActiveVisits
      PROVE  Seated'
  <2>1. \A v \in ActiveVisits' : v \in ActiveVisits /\ v \in DOMAIN sessions
    BY <1>6 DEF ActiveVisits
  <2>2. \A v, w \in ActiveVisits' : v # w => Apart(v, w)'
    BY <1>2, <2>1 DEF SeatingInv, Seated, Apart
  <2>3. \A v \in ActiveVisits' : SeatKept(v)'
    BY <1>2, <2>1 DEF SeatingInv, Seated, SeatKept, DayIsOpen, Today
  <2>4. \A v \in ActiveVisits' : LastOfPlayer(v)'
    BY <1>2, <2>1 DEF SeatingInv, Seated, LastOfPlayer, VisitsOf
  <2> QED
    BY <2>2, <2>3, <2>4 DEF Seated
<1>7. CASE Settles(q) = "SAME"
  <2>1. ActiveVisits' \subseteq ActiveVisits
    BY <1>2, <1>7 DEF ActiveVisits
  <2> QED
    BY <1>3, <1>5, <1>6, <2>1
<1>8. CASE Settles(q) = "OUT"
  <2>1. ActiveVisits' \subseteq ActiveVisits
    BY <1>2, <1>8 DEF ActiveVisits
  <2> QED
    BY <1>3, <1>5, <1>6, <2>1
<1>9. CASE Settles(q) = "ACTIVE"
  <2>1. q.type = "Reversal" /\ transactions[q.reversesId].type = "Cash-out"
    BY <1>9 DEF Settles
  <2>2. PICK v : v = q.sessionId
    OBVIOUS
  <2>3. NoLaterVisit(v) /\ EnsureSeat(sessions[v].tableId, sessions[v].seat, v)
    BY <1>1, <2>1, <2>2 DEF ValidEntry, ValidReversal
  <2>4. v \in DOMAIN sessions /\ sessions[v].dayId = Today
    <3>1. q.reversesId # None /\ q.reversesId \in DOMAIN transactions
      BY <1>1, <2>1 DEF TypeInv, Linked, ReversalLinked
    <3>2. ReversalMatches(q)
      BY <1>1 DEF SeatingInv, ReversalsMatch
    <3> QED
      BY <1>1, <2>1, <2>2, <3>1, <3>2 DEF ReversalMatches, SeatingInv, CashOutsKnown
  <2>5. ActiveVisits' \subseteq ActiveVisits \cup {v}
    BY <1>2, <2>2 DEF ActiveVisits
  <2>6. \A w \in VisitsOf(sessions[v].playerId) : w # v => w < v
    BY <2>3, <2>4, OnlyLastReopens DEF SeatingInv
  <2>7. v \in Nat /\ \A w \in DOMAIN sessions : w \in Nat
    BY <2>4, LenProperties, RecordsTyped DEF TypesNow
  <2>8. ASSUME NEW w \in ActiveVisits, w # v
        PROVE  Apart(v, w)
    <3>1. sessions[w].tableId # sessions[v].tableId \/ sessions[w].seat # sessions[v].seat
      BY <2>3, <2>8 DEF EnsureSeat
    <3>2. w \in DOMAIN sessions /\ LastOfPlayer(w)
      BY DEF ActiveVisits, SeatingInv, Seated
    <3>3. sessions[w].playerId # sessions[v].playerId
      <4>1. SUFFICES ASSUME sessions[w].playerId = sessions[v].playerId PROVE FALSE
        OBVIOUS
      <4>2. w < v /\ v <= w
        BY <2>4, <2>6, <2>8, <3>2, <4>1 DEF VisitsOf, LastOfPlayer
      <4> QED
        BY <2>7, <3>2, <4>2
    <3> QED
      BY <3>1, <3>3 DEF Apart
  <2>9. \A x, y \in ActiveVisits \cup {v} : x # y => Apart(x, y)
    <3>1. \A x, y \in ActiveVisits : x # y => Apart(x, y)
      BY DEF SeatingInv, Seated
    <3>2. \A x, y : Apart(x, y) => Apart(y, x)
      BY DEF Apart
    <3> QED
      BY <2>8, <3>1, <3>2
  <2>10. \A x, y \in ActiveVisits' : x # y => Apart(x, y)'
    <3>1. \A x \in ActiveVisits' : x \in ActiveVisits \cup {v} /\ x \in DOMAIN sessions
      BY <2>4, <2>5 DEF ActiveVisits
    <3>2. \A x, y \in DOMAIN sessions : Apart(x, y) => Apart(x, y)'
      BY <1>2 DEF Apart
    <3> QED
      BY <2>9, <3>1, <3>2
  <2>11. \A x \in ActiveVisits \cup {v} : SeatKept(x)
    BY <2>3, <2>4 DEF SeatingInv, Seated, SeatKept, EnsureSeat, TableOpen
  <2>12. \A x \in ActiveVisits' : SeatKept(x)'
    <3>1. \A x \in ActiveVisits' : x \in ActiveVisits \cup {v} /\ x \in DOMAIN sessions
      BY <2>4, <2>5 DEF ActiveVisits
    <3>2. \A x \in DOMAIN sessions : SeatKept(x) => SeatKept(x)'
      BY <1>2 DEF SeatKept, DayIsOpen, Today
    <3> QED
      BY <2>11, <3>1, <3>2
  <2>13. \A x \in ActiveVisits' : LastOfPlayer(x)'
    <3>1. \A x \in ActiveVisits \cup {v} : x \in DOMAIN sessions /\ LastOfPlayer(x)
      <4>1. LastOfPlayer(v)
        BY <2>6, <2>7 DEF LastOfPlayer, VisitsOf
      <4> QED
        BY <2>4, <4>1 DEF SeatingInv, Seated, ActiveVisits
    <3>2. \A x \in DOMAIN sessions : LastOfPlayer(x) => LastOfPlayer(x)'
      BY <1>2 DEF LastOfPlayer, VisitsOf
    <3> QED
      BY <2>5, <3>1, <3>2
  <2> QED
    BY <1>3, <1>5, <2>10, <2>12, <2>13 DEF Seated
<1> QED
  BY <1>7, <1>8, <1>9 DEF Settles

LEMMA DecisionSeating ==
    ASSUME TypeInv, SeatingInv, NEW a \in Staff, NEW s \in DOMAIN approvals,
           Reject(a, s) \/ Approve(a, s)
    PROVE  SeatingInv'
<1>1. DayIsOpen /\ approvals[s].dayId = Today /\ UNCHANGED <<tables, days>>
  BY DecisionMade
<1>2. PICK new \in RequestType :
         /\ approvals' = [approvals EXCEPT ![s] = new]
         /\ SameBut(approvals[s], new)
         /\ \/ UNCHANGED <<sessions, transactions>>
            \/ Post(s) /\ ValidEntry(approvals[s], s) /\ new.status = "APPROVED"
  BY DecisionMade
<1>3. Seated' /\ InOrder' /\ CashOutsKnown'
  <2>1. CASE UNCHANGED <<sessions, transactions>>
    BY <1>1, <2>1, SeatedAsBefore DEF SeatingInv, Seated, SeatKept, InOrder, CashOutsKnown
  <2>2. CASE Post(s) /\ ValidEntry(approvals[s], s)
    BY <1>1, <2>2, PostSeating
  <2> QED
    BY <1>2, <2>1, <2>2
<1>4. ReversalsMatch'
  <2>1. \A t \in DOMAIN transactions : transactions'[t] = transactions[t]
    BY <1>2, PostMoves
  <2>2. \A r \in DOMAIN approvals' :
           /\ r \in DOMAIN approvals
           /\ approvals'[r].reversesId = approvals[r].reversesId
           /\ approvals'[r].dayId = approvals[r].dayId
           /\ approvals'[r].sessionId = approvals[r].sessionId
    BY <1>2 DEF SameBut
  <2>3. \A r \in DOMAIN approvals : ReversalLinked(approvals[r]) /\ ReversalMatches(approvals[r])
    BY DEF TypeInv, Linked, SeatingInv, ReversalsMatch
  <2> QED
    BY <2>1, <2>2, <2>3 DEF ReversalsMatch, ReversalMatches, ReversalLinked
<1> QED
  BY <1>3, <1>4 DEF SeatingInv

LEMMA EntrySeating ==
    ASSUME TypeInv, SeatingInv, NEW a \in Staff, EntryStep(a)
    PROVE  SeatingInv'
BY RequestMade, SubmitSeating, DecisionSeating DEF EntryStep

LEMMA NextSeatingInv ==
    ASSUME TypeInv, SeatingInv, ~ClockMaySlip, [Next]_vars
    PROVE  SeatingInv'
<1>1. CASE UNCHANGED vars
  <2>1. Seated'
    BY <1>1, SeatedAsBefore DEF vars, SeatingInv, Seated, SeatKept
  <2> QED
    BY <1>1, <2>1 DEF vars, SeatingInv, InOrder, CashOutsKnown, ReversalsMatch, ReversalMatches
<1> QED
  BY <1>1, SetupSeating, DaySeating, SeatingSeating, EntrySeating DEF Next

LEMMA SeatingInvAlways == ~ClockMaySlip => (Spec => []SeatingInv)
<1> SUFFICES ASSUME ~ClockMaySlip PROVE Spec => []SeatingInv
  OBVIOUS
<1>1. Init => SeatingInv
  <2> SUFFICES ASSUME Init PROVE SeatingInv
    OBVIOUS
  <2>1. DOMAIN sessions = {} /\ DOMAIN transactions = {} /\ DOMAIN approvals = {}
    BY EmptySeq DEF Init
  <2>2. ActiveVisits = {}
    BY <2>1 DEF ActiveVisits
  <2> QED
    BY <2>1, <2>2 DEF SeatingInv, Seated, InOrder, CashOutsKnown, ReversalsMatch
<1>2. TypeInv /\ SeatingInv /\ [Next]_vars => SeatingInv'
  BY NextSeatingInv
<1> QED
  BY <1>1, <1>2, TypeInvAlways, PTL DEF Spec

\* With a wall clock that never steps back between two check-ins, a player has
\* one active visit and a seat one occupant, on the open day and at an open
\* table, after any moves, swaps, reopened visits, closed tables and days
\* (operations.ts ensureSeat; SESSION_LIFECYCLE).
THEOREM SeatingIsExclusive == ~ClockMaySlip => (Spec => []SeatingExclusive)
BY SeatingInvAlways, SeatedIsExclusive, PTL

\* With such a clock a settled visit is reopened only while it is the player's
\* last one (operations.ts, the "later visit" check of a cash-out reversal).
THEOREM LaterVisitsStay == ~ClockMaySlip => (Spec => NoLaterVisitReopened)
<1> SUFFICES ASSUME ~ClockMaySlip PROVE Spec => NoLaterVisitReopened
  OBVIOUS
<1>1. ASSUME TypeInv, SeatingInv, [Next]_vars, NEW v \in DOMAIN sessions,
             sessions[v].status = "OUT", sessions'[v].status = "ACTIVE",
             NEW w \in VisitsOf(sessions[v].playerId), w > v
      PROVE  FALSE
  <2>1. v \in Nat /\ w \in Nat
    <3>1. \A x \in DOMAIN sessions : x \in Nat
      BY LenProperties, RecordsTyped DEF TypesNow
    <3> QED
      BY <3>1 DEF VisitsOf
  <2>2. ASSUME NEW a \in Staff, SetupStep(a) \/ DayStep(a) PROVE FALSE
    BY <1>1, <2>2, TablesClose, DaysTurn
  <2>3. ASSUME NEW a \in Staff, SeatingStep(a) PROVE FALSE
    <3>1. ASSUME NEW p \in Players, NEW t \in Tables, NEW seat \in Seats, StartVisit(p, t, seat)
          PROVE  FALSE
      BY <1>1, <3>1, CheckInAdds
    <3>2. ASSUME NEW x \in DOMAIN sessions, NEW t \in Tables, NEW seat \in Seats, Move(a, x, t, seat)
          PROVE  FALSE
      BY <1>1, <3>2, Reseated
    <3>3. ASSUME NEW x \in DOMAIN sessions, NEW y \in DOMAIN sessions, SwapSeats(a, x, y)
          PROVE  FALSE
      <4>1. sessions[y] \in VisitType
        BY <1>1, <3>3, ElementOfSeq, LenProperties, RecordsTyped DEF TypesNow
      <4> QED
        BY <1>1, <3>3, <4>1, Reseated DEF VisitType
    <3> QED
      BY <2>3, <3>1, <3>2, <3>3 DEF SeatingStep, CheckInKnown, CheckInNew
  <2>4. ASSUME NEW a \in Staff, NEW s \in DOMAIN approvals, Reject(a, s) \/ Approve(a, s)
        PROVE  FALSE
    <3>1. Post(s) /\ ValidEntry(approvals[s], s)
      BY <1>1, <2>4, DecisionMade
    <3>2. v = approvals[s].sessionId /\ Settles(approvals[s]) = "ACTIVE"
      BY <1>1, <2>4, <3>1, PostMoves
    <3>3. NoLaterVisit(v)
      BY <3>1, <3>2 DEF Settles, ValidEntry, ValidReversal
    <3>4. w < v
      BY <1>1, <2>1, <3>3, OnlyLastReopens DEF SeatingInv
    <3> QED
      BY <1>1, <2>1, <3>4
  <2>5. ASSUME NEW a \in Staff, EntryStep(a) PROVE FALSE
    <3>1. CASE \E q \in RequestType : Submit(q)
      BY <1>1, <3>1 DEF Submit
    <3> QED
      BY <1>1, <2>4, <2>5, <3>1, RequestMade DEF EntryStep
  <2> QED
    BY <1>1, <2>2, <2>3, <2>5 DEF Next, vars
<1>2. TypeInv /\ SeatingInv /\ [Next]_vars => [ReopenStep]_vars
  BY <1>1 DEF ReopenStep, VisitsOf
<1> QED
  BY <1>2, TypeInvAlways, SeatingInvAlways, PTL DEF Spec, NoLaterVisitReopened


-----------------------------------------------------------------------------
(* Reviewers.  Whether somebody is left to decide depends on who has voted:  *)
(* every vote is some member of staff's, and a request that is still pending *)
(* has votes only if they do not complete its review.                        *)

VotesCast(votes) == \A i \in DOMAIN votes : \E a \in Staff : votes[i] = Vote(a)
StillOpen(q) ==
    /\ VotesCast(q.votes)
    /\ q.status = "PENDING" /\ q.votes # <<>> => ~ReviewComplete(q.level, q.votes)
VotesOpen == \A r \in DOMAIN approvals : StillOpen(approvals[r])

LEMMA NextVotesOpen ==
    ASSUME TypeInv, VotesOpen, [Next]_vars
    PROVE  VotesOpen'
<1>0. approvals \in Seq(RequestType)
  BY DEF TypeInv, TypeOK
<1>1. CASE UNCHANGED <<approvals, transactions>>
  BY <1>1 DEF VotesOpen
<1>2. ASSUME NEW q \in RequestType, Requested(q)
      PROVE  VotesOpen'
  <2>1. StillOpen(q)
    BY <1>2, EmptySeq DEF Requested, StillOpen, VotesCast
  <2>2. \A r \in DOMAIN approvals' :
           approvals'[r] = q \/ (r \in DOMAIN approvals /\ approvals'[r] = approvals[r])
    BY <1>0, <1>2, AppendToSeq DEF Requested
  <2> QED
    BY <2>1, <2>2 DEF VotesOpen
<1>3. ASSUME NEW a \in Staff, NEW r \in DOMAIN approvals, Decided(a, r)
      PROVE  VotesOpen'
  <2> DEFINE old == approvals[r]
  <2>1. old \in RequestType /\ StillOpen(old)
    BY <1>0, <1>3, ElementOfSeq, LenProperties DEF VotesOpen
  <2>2. VotesCast(VotesWith(a, r))
    <3>1. old.votes \in Seq(VoteType) /\ Vote(a) \in VoteType
      BY <2>1, VenueAssumption DEF RequestType, Vote, VoteType, StaffIds
    <3>2. \A i \in DOMAIN VotesWith(a, r) :
             VotesWith(a, r)[i] = Vote(a) \/ (i \in DOMAIN old.votes /\ VotesWith(a, r)[i] = old.votes[i])
      BY <3>1, AppendToSeq DEF VotesWith
    <3> QED
      BY <2>1, <3>2 DEF StillOpen, VotesCast
  <2>3. PICK new : approvals' = [approvals EXCEPT ![r] = new] /\ StillOpen(new)
    <3>1. CASE approvals' = [approvals EXCEPT ![r] = [@ EXCEPT !.status = "REJECTED"]]
      <4>1. StillOpen([old EXCEPT !.status = "REJECTED"])
        BY <2>1 DEF StillOpen, RequestType
      <4> QED
        BY <3>1, <4>1
    <3>2. CASE approvals' = [approvals EXCEPT ![r] = Posted(a, r)]
      <4>1. StillOpen(Posted(a, r))
        BY <2>1, <2>2 DEF StillOpen, RequestType, Posted
      <4> QED
        BY <3>2, <4>1
    <3>3. CASE /\ approvals' = [approvals EXCEPT ![r] = Voted(a, r)]
               /\ ~ReviewComplete(old.level, VotesWith(a, r))
      <4>1. StillOpen(Voted(a, r))
        BY <2>1, <2>2, <3>3 DEF StillOpen, RequestType, Voted
      <4> QED
        BY <3>3, <4>1
    <3> QED
      BY <1>3, <3>1, <3>2, <3>3 DEF Decided
  <2>4. \A s \in DOMAIN approvals' :
           s \in DOMAIN approvals /\ (approvals'[s] = new \/ approvals'[s] = approvals[s])
    BY <2>3
  <2> QED
    BY <2>3, <2>4 DEF VotesOpen
<1> QED
  BY <1>1, <1>2, <1>3, StepShape

\* Whoever voted, one of the reviewers a request's level asks for is left.
LEMMA SomebodyLeft ==
    ASSUME NEW q \in RequestType, q.status = "PENDING", StillOpen(q), StaffedFor(q)
    PROVE  Decidable(q)
<1>1. q.votes \in Seq(VoteType) /\ q.level \in {"MANAGER", "ADMIN", "DUAL"}
  BY DEF RequestType, ApprovalLevels
<1>2. Len(q.votes) \in Nat /\ DOMAIN q.votes = 1 .. Len(q.votes)
  BY <1>1, LenProperties
<1>3. CASE q.votes = <<>>
  <2>1. \A i \in DOMAIN q.votes : FALSE
    BY <1>3, EmptySeq
  <2>2. PICK a \in Reviewers(q) : q.level = "ADMIN" => a.role = "ADMIN"
    BY <1>1 DEF StaffedFor
  <2> QED
    BY <2>1, <2>2 DEF Reviewers, CanApprove, Decidable
<1>4. CASE q.votes # <<>>
  <2>1. q.level = "DUAL"
    BY <1>4 DEF StillOpen, ReviewComplete
  <2>2. PICK x \in Reviewers(q), y \in Reviewers(q) :
            x.id # y.id /\ \A a \in Staff : a.id = x.id => a.role = "ADMIN"
    BY <2>1 DEF StaffedFor
  <2>3. \A w \in {x, y} : /\ w \in Staff /\ w.role \in Supervisors
                           /\ w.id # q.requestedById
    BY DEF Reviewers
  <2>4. Len(q.votes) < 2 \/ \A i \in DOMAIN q.votes : q.votes[i].role # "ADMIN"
    BY <1>2, <1>4, <2>1 DEF StillOpen, ReviewComplete
  <2>5. CASE \A i \in DOMAIN q.votes : q.votes[i].role # "ADMIN"
    <3>1. \A i \in DOMAIN q.votes : q.votes[i].staffId # x.id
      <4> SUFFICES ASSUME NEW i \in DOMAIN q.votes
                   PROVE  q.votes[i].staffId # x.id
        OBVIOUS
      <4>1. PICK a \in Staff : q.votes[i] = Vote(a)
        BY DEF StillOpen, VotesCast
      <4>2. q.votes[i].staffId = a.id /\ a.role # "ADMIN"
        BY <2>5, <4>1 DEF Vote
      <4> QED
        BY <2>2, <4>2
    <3> QED
      BY <2>1, <2>3, <3>1 DEF CanApprove, Decidable
  <2>6. CASE Len(q.votes) < 2
    <3>1. \A i, j \in DOMAIN q.votes : i = j
      BY <1>2, <2>6
    <3>2. PICK w \in {x, y} : \A i \in DOMAIN q.votes : q.votes[i].staffId # w.id
      BY <2>2, <3>1
    <3> QED
      BY <2>1, <2>3, <3>2 DEF CanApprove, Decidable
  <2> QED
    BY <2>4, <2>5, <2>6
<1> QED
  BY <1>3, <1>4

\* Whatever staff a venue has and whoever has voted, a pending request whose
\* author has the reviewers its level asks for has one left who may still decide
\* it (canApprove and the DECIDE command, src/domain/operations.ts).
THEOREM ReviewersSuffice == Spec => []ReviewerRemains
<1>1. Init => VotesOpen
  BY EmptySeq DEF Init, VotesOpen
<1>2. TypeInv /\ VotesOpen /\ [Next]_vars => VotesOpen'
  BY NextVotesOpen
<1>3. ASSUME TypeInv, VotesOpen
      PROVE  ReviewerRemains
  <2>1. ASSUME NEW r \in PendingRequests, StaffedFor(approvals[r])
        PROVE  Decidable(approvals[r])
    <3>1. r \in DOMAIN approvals /\ approvals[r].status = "PENDING"
      BY <2>1 DEF PendingRequests
    <3>2. approvals[r] \in RequestType
      BY <1>3, <3>1, ElementOfSeq, LenProperties DEF TypeInv, TypeOK
    <3> QED
      BY <1>3, <2>1, <3>1, <3>2, SomebodyLeft DEF VotesOpen
  <2> QED
    BY <2>1 DEF ReviewerRemains
<1>4. TypeInv /\ VotesOpen => ReviewerRemains
  BY <1>3
<1> QED
  BY <1>1, <1>2, <1>4, TypeInvAlways, PTL DEF Spec
=============================================================================
