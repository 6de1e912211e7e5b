--------------------------- MODULE VenueLedgerProofs ---------------------------
(***************************************************************************)
(* Proofs about the ledger and the summaries kept beside it: balances and  *)
(* a day's cash are what the entries add up to, no money appears or is     *)
(* lost, a replay of the ledger from its first entry finds nothing that    *)
(* would make a backup refused, and the screens, made from few records and *)
(* the server's totals, show what the complete records would, however long *)
(* the ledger is.                                                          *)
(*                                                                         *)
(* The properties add up sets of entries with the folds of the community   *)
(* modules.  Those pick the elements in some order with a CHOOSE; that the *)
(* order does not matter, and that one more element adds one more term, is *)
(* proved first, by well-founded induction on the size of the set.         *)
(***************************************************************************)
EXTENDS VenueCommandProofs, VenueReads

-----------------------------------------------------------------------------
(* A smallest set, by well-founded induction on < (LeastOf).               *)

\* Of some subsets of a finite set, one has none of the others within it.
LEMMA SmallestOf ==
    ASSUME NEW S, IsFiniteSet(S), NEW B \in SUBSET SUBSET S, B # {}
    PROVE  \E s \in B : \A u \in B : u \subseteq s => u = s
<1> DEFINE Sizes == {n \in Nat : \E s \in B : Cardinality(s) = n}
<1>1. \A s \in B : IsFiniteSet(s) /\ Cardinality(s) \in Nat
  BY FS_Subset, FS_CardinalityType
<1>2. Sizes # {}
  BY <1>1
<1>3. PICK n \in Sizes : \A k \in Sizes : n <= k
  BY <1>2, LeastOf
<1>4. PICK s \in B : Cardinality(s) = n
  OBVIOUS
<1>5. ASSUME NEW u \in B, u \subseteq s, u # s
      PROVE  FALSE
  <2>1. Cardinality(u) < Cardinality(s)
    BY <1>1, <1>5, FS_Subset
  <2>2. Cardinality(u) \in Sizes
    BY <1>1, <1>5
  <2> QED
    BY <1>1, <1>3, <1>4, <2>1, <2>2
<1> QED
  BY <1>4, <1>5

\* The order in which a sum takes its elements.
Chosen(S) == CHOOSE x \in S : TRUE

LEMMA ChosenIn == ASSUME NEW S, S # {} PROVE Chosen(S) \in S
BY DEF Chosen

\* it[s] adds up F over s, for every subset s of S.
Adds(it, F, S) ==
    it = [s \in SUBSET S |-> IF s = {} THEN 0 ELSE F[Chosen(s)] + it[s \ {Chosen(s)}]]

\* There is such a function: from any, so many steps as S has elements lead to it.
LEMMA SumExists ==
    ASSUME NEW F, NEW S, IsFiniteSet(S)
    PROVE  \E it : Adds(it, F, S)
<1> DEFINE Step(it) == [s \in SUBSET S |->
                           IF s = {} THEN 0 ELSE F[Chosen(s)] + it[s \ {Chosen(s)}]]
           Reached(it, k) == \A s \in SUBSET S : Cardinality(s) <= k => Step(it)[s] = it[s]
           Missing == {k \in Nat : ~\E it : DOMAIN it = SUBSET S /\ Reached(it, k)}
<1>1. \A s \in SUBSET S : IsFiniteSet(s) /\ Cardinality(s) \in Nat
  BY FS_Subset, FS_CardinalityType
<1>2. SUFFICES ASSUME Missing # {} PROVE FALSE
  <2>1. Cardinality(S) \in Nat /\ \A s \in SUBSET S : Cardinality(s) <= Cardinality(S)
    BY FS_Subset, FS_CardinalityType
  <2>2. PICK it : DOMAIN it = SUBSET S /\ Reached(it, Cardinality(S))
    BY <1>2, <2>1
  <2>3. \A s \in SUBSET S : Step(it)[s] = it[s]
    BY <2>1, <2>2
  <2>4. Adds(Step(it), F, S)
    <3>1. \A s \in SUBSET S : s \ {Chosen(s)} \in SUBSET S
      OBVIOUS
    <3> QED
      BY <2>3, <3>1 DEF Adds
  <2> QED
    BY <2>4
<1>3. PICK k \in Missing : \A n \in Missing : k <= n
  <2>1. Missing \in SUBSET Nat
    OBVIOUS
  <2> HIDE DEF Missing
  <2> QED
    BY <1>2, <2>1, LeastOf
<1>4. CASE k = 0
  <2> DEFINE zero == [s \in SUBSET S |-> 0]
  <2>1. \A s \in SUBSET S : Cardinality(s) <= 0 => s = {}
    BY <1>1, FS_EmptySet
  <2>2. Reached(zero, 0)
    BY <2>1
  <2> QED
    BY <1>4, <2>2
<1>5. CASE k # 0
  <2>1. k - 1 \in Nat /\ k - 1 \notin Missing
    <3>1. k \in Nat
      BY <1>3
    <3> HIDE DEF Missing
    <3> QED
      BY <1>3, <1>5, <3>1
  <2>2. PICK it : DOMAIN it = SUBSET S /\ Reached(it, k - 1)
    BY <2>1
  <2> DEFINE next == Step(it)
  <2>3. ASSUME NEW s \in SUBSET S, Cardinality(s) <= k, s # {}
        PROVE  next[s \ {Chosen(s)}] = it[s \ {Chosen(s)}]
    <3>1. Cardinality(s \ {Chosen(s)}) = Cardinality(s) - 1
      BY <1>1, <2>3, ChosenIn, FS_RemoveElement
    <3>2. s \ {Chosen(s)} \in SUBSET S /\ Cardinality(s \ {Chosen(s)}) <= k - 1
      BY <1>1, <2>3, <3>1
    <3> QED
      BY <2>2, <3>2
  <2>4. Reached(next, k)
    <3> SUFFICES ASSUME NEW s \in SUBSET S, Cardinality(s) <= k PROVE Step(next)[s] = next[s]
      OBVIOUS
    <3>1. CASE s = {}
      BY <3>1
    <3>2. CASE s # {}
      <4>1. Step(next)[s] = F[Chosen(s)] + next[s \ {Chosen(s)}]
        BY <3>2
      <4>2. next[s] = F[Chosen(s)] + it[s \ {Chosen(s)}]
        BY <3>2
      <4> QED
        BY <2>3, <3>2, <4>1, <4>2
    <3> QED
      BY <3>1, <3>2
  <2>5. DOMAIN next = SUBSET S
    OBVIOUS
  <2> QED
    BY <2>4, <2>5
<1> QED
  BY <1>4, <1>5

LEMMA AddsSplits ==
    ASSUME NEW it, NEW F, NEW S, Adds(it, F, S)
    PROVE  \A s \in SUBSET S :
              /\ s = {} => it[s] = 0
              /\ s # {} => /\ it[s] = F[Chosen(s)] + it[s \ {Chosen(s)}]
                           /\ Chosen(s) \in s
BY ChosenIn DEF Adds

\* The sum of integers is one.
LEMMA AddsInt ==
    ASSUME NEW it, NEW F, NEW S, IsFiniteSet(S), Adds(it, F, S), \A x \in S : F[x] \in Int
    PROVE  \A s \in SUBSET S : it[s] \in Int
<1> DEFINE Bad == {s \in SUBSET S : it[s] \notin Int}
<1> SUFFICES ASSUME Bad # {} PROVE FALSE
  OBVIOUS
<1>1. PICK s \in Bad : \A u \in Bad : u \subseteq s => u = s
  <2>1. Bad \in SUBSET SUBSET S
    OBVIOUS
  <2> HIDE DEF Bad
  <2> QED
    BY <2>1, SmallestOf
<1>2. s # {} /\ it[s] = F[Chosen(s)] + it[s \ {Chosen(s)}] /\ Chosen(s) \in s
  <2>1. s \in SUBSET S /\ it[s] \notin Int
    OBVIOUS
  <2>2. s # {}
    <3>1. s = {} => it[s] = 0
      BY <2>1, AddsSplits
    <3> QED
      BY <2>1, <3>1
  <2> HIDE DEF Bad
  <2> QED
    BY <2>1, <2>2, AddsSplits
<1>3. s \ {Chosen(s)} \notin Bad
  BY <1>1, <1>2
<1>4. it[s \ {Chosen(s)}] \in Int /\ F[Chosen(s)] \in Int
  BY <1>2, <1>3
<1> QED
  BY <1>2, <1>4

\* The sum depends on what is added up, not on what else could be.
LEMMA AddsAgree ==
    ASSUME NEW it, NEW F, NEW S, IsFiniteSet(S), Adds(it, F, S),
           NEW jt, NEW G, NEW U, Adds(jt, G, U), U \subseteq S, \A x \in U : F[x] = G[x]
    PROVE  it[U] = jt[U]
<1> DEFINE Bad == {s \in SUBSET U : it[s] # jt[s]}
<1> SUFFICES ASSUME Bad # {} PROVE FALSE
  OBVIOUS
<1>1. PICK s \in Bad : \A u \in Bad : u \subseteq s => u = s
  <2>1. Bad \in SUBSET SUBSET U /\ IsFiniteSet(U)
    BY FS_Subset
  <2> HIDE DEF Bad
  <2> QED
    BY <2>1, SmallestOf
<1>2. /\ s = {} => it[s] = 0
      /\ s # {} => it[s] = F[Chosen(s)] + it[s \ {Chosen(s)}] /\ Chosen(s) \in s
  BY s \in SUBSET S, AddsSplits
<1>3. /\ s = {} => jt[s] = 0
      /\ s # {} => jt[s] = G[Chosen(s)] + jt[s \ {Chosen(s)}] /\ Chosen(s) \in s
  BY s \in SUBSET U, AddsSplits
<1>4. s # {} /\ it[s \ {Chosen(s)}] = jt[s \ {Chosen(s)}]
  <2>1. s # {} /\ Chosen(s) \in s
    BY <1>2, <1>3
  <2> QED
    BY <1>1, <2>1
<1> QED
  BY <1>2, <1>3, <1>4

\* Any element may be taken first.
LEMMA AddsRemove ==
    ASSUME NEW it, NEW F, NEW S, IsFiniteSet(S), Adds(it, F, S), \A x \in S : F[x] \in Int
    PROVE  \A s \in SUBSET S : \A x \in s : it[s] = F[x] + it[s \ {x}]
<1> DEFINE Bad == {s \in SUBSET S : \E x \in s : it[s] # F[x] + it[s \ {x}]}
<1> SUFFICES ASSUME Bad # {} PROVE FALSE
  OBVIOUS
<1>1. PICK s \in Bad : \A u \in Bad : u \subseteq s => u = s
  <2>1. Bad \in SUBSET SUBSET S
    OBVIOUS
  <2> HIDE DEF Bad
  <2> QED
    BY <2>1, SmallestOf
<1>2. PICK x \in s : it[s] # F[x] + it[s \ {x}]
  OBVIOUS
<1>3. PICK c \in s : it[s] = F[c] + it[s \ {c}]
  <2>1. s \in SUBSET S /\ s # {}
    BY <1>2
  <2>2. it[s] = F[Chosen(s)] + it[s \ {Chosen(s)}] /\ Chosen(s) \in s
    BY <2>1, AddsSplits
  <2> QED
    BY <2>2
<1>4. c # x
  BY <1>2, <1>3
<1>5. s \ {c} \notin Bad /\ s \ {x} \notin Bad
  BY <1>1
<1>6. it[s \ {c}] = F[x] + it[(s \ {c}) \ {x}] /\ it[s \ {x}] = F[c] + it[(s \ {x}) \ {c}]
  BY <1>4, <1>5
<1>7. (s \ {c}) \ {x} = (s \ {x}) \ {c}
  OBVIOUS
<1>8. F[c] \in Int /\ F[x] \in Int /\ it[(s \ {c}) \ {x}] \in Int
  BY AddsInt
<1>9. \A a, b, w \in Int : a + (b + w) = b + (a + w)
  OBVIOUS
<1>10. it[s] = F[c] + (F[x] + it[(s \ {c}) \ {x}])
  BY <1>3, <1>6
<1>11. F[x] + it[s \ {x}] = F[x] + (F[c] + it[(s \ {c}) \ {x}])
  BY <1>6, <1>7
<1> HIDE DEF Bad
<1> QED
  BY <1>2, <1>8, <1>9, <1>10, <1>11

-----------------------------------------------------------------------------
(* The operator of the community modules.                                  *)

LEMMA SumIs ==
    ASSUME NEW F, NEW S, IsFiniteSet(S)
    PROVE  \E it : Adds(it, F, S) /\ SumFunctionOnSet(F, S) = it[S]
<1> DEFINE sum == CHOOSE iter : iter = [s \in SUBSET S |->
                     IF s = {} THEN 0
                     ELSE F[CHOOSE x \in s : TRUE] + iter[s \ {CHOOSE x \in s : TRUE}]]
<1>1. SumFunctionOnSet(F, S) = sum[S]
  BY DEF SumFunctionOnSet, FoldFunctionOnSet, MapThenFoldSet
<1>2. Adds(sum, F, S)
  <2>1. PICK it : Adds(it, F, S)
    BY SumExists
  <2>2. it = [s \in SUBSET S |->
                IF s = {} THEN 0
                ELSE F[CHOOSE x \in s : TRUE] + it[s \ {CHOOSE x \in s : TRUE}]]
    BY <2>1 DEF Adds, Chosen
  <2>3. sum = [s \in SUBSET S |->
                IF s = {} THEN 0
                ELSE F[CHOOSE x \in s : TRUE] + sum[s \ {CHOOSE x \in s : TRUE}]]
    BY <2>2
  <2> HIDE DEF sum
  <2> QED
    BY <2>3 DEF Adds, Chosen
<1> QED
  BY <1>1, <1>2

LEMMA SumOfNone == ASSUME NEW F PROVE SumFunctionOnSet(F, {}) = 0
BY SumIs, AddsSplits, FS_EmptySet

LEMMA SumInt ==
    ASSUME NEW F, NEW S, IsFiniteSet(S), \A x \in S : F[x] \in Int
    PROVE  SumFunctionOnSet(F, S) \in Int
BY SumIs, AddsInt

LEMMA SumSame ==
    ASSUME NEW F, NEW G, NEW S, IsFiniteSet(S), \A x \in S : F[x] = G[x]
    PROVE  SumFunctionOnSet(F, S) = SumFunctionOnSet(G, S)
BY SumIs, AddsAgree

LEMMA SumAdd ==
    ASSUME NEW F, NEW S, IsFiniteSet(S), NEW x, x \notin S,
           F[x] \in Int, \A y \in S : F[y] \in Int
    PROVE  SumFunctionOnSet(F, S \cup {x}) = SumFunctionOnSet(F, S) + F[x]
<1> DEFINE all == S \cup {x}
<1>1. IsFiniteSet(all)
  BY FS_AddElement
<1>2. PICK it : Adds(it, F, all) /\ SumFunctionOnSet(F, all) = it[all]
  BY <1>1, SumIs
<1>3. PICK jt : Adds(jt, F, S) /\ SumFunctionOnSet(F, S) = jt[S]
  BY SumIs
<1>4. it[S] = jt[S]
  BY <1>1, <1>2, <1>3, AddsAgree
<1>5. it[all] = F[x] + it[all \ {x}]
  BY <1>1, <1>2, AddsRemove
<1>6. all \ {x} = S
  OBVIOUS
<1>7. jt[S] \in Int
  BY <1>3, AddsInt
<1>8. it[all] = F[x] + jt[S]
  BY <1>4, <1>5, <1>6
<1> HIDE DEF all
<1>9. SumFunctionOnSet(F, all) = SumFunctionOnSet(F, S) + F[x]
  BY <1>2, <1>3, <1>7, <1>8
<1> QED
  BY <1>9 DEF all

LEMMA SumExtended ==
    ASSUME NEW F, NEW G, NEW S, IsFiniteSet(S), NEW x, x \notin S,
           \A y \in S : G[y] = F[y] /\ F[y] \in Int, G[x] \in Int
    PROVE  SumFunctionOnSet(G, S \cup {x}) = SumFunctionOnSet(F, S) + G[x]
BY SumAdd, SumSame

\* A sum of zeros.
LEMMA SumOfZeros ==
    ASSUME NEW S, IsFiniteSet(S)
    PROVE  SumFunctionOnSet([x \in S |-> 0], S) = 0
<1> DEFINE zero == [s \in SUBSET S |-> 0]
           F == [x \in S |-> 0]
<1>1. Adds(zero, F, S)
  <2>1. \A s \in SUBSET S : s # {} => Chosen(s) \in S /\ s \ {Chosen(s)} \in SUBSET S
    BY ChosenIn
  <2> QED
    BY <2>1 DEF Adds
<1> HIDE DEF zero, F
<1>2. SumFunctionOnSet(F, S) = zero[S]
  BY <1>1, SumIs, AddsAgree
<1> QED
  BY <1>2 DEF zero, F

-----------------------------------------------------------------------------
(* The ledger.                                                             *)

\* What each entry moves: debt and cash.
Credits == [t \in DOMAIN transactions |-> transactions[t].creditDelta]
CashFlows == [t \in DOMAIN transactions |-> CashMoved(transactions[t])]

\* Every entry is of a day there is, so a new day has none yet.
EntriesDated == \A t \in DOMAIN transactions : transactions[t].dayId \in DOMAIN days

\* RollupsMatchLedger, as sums of functions.
RollupsAddUp ==
    /\ \A p \in Players : outstanding[p] = SumFunctionOnSet(Credits, LedgerOf(p))
    /\ \A d \in DOMAIN days : dayCash[d] = SumFunctionOnSet(CashFlows, LedgerOn(d))

LedgerInv == EntriesDated /\ RollupsAddUp

\* What a step does to the ledger and its rollups.
LEMMA LedgerStep ==
    ASSUME TypeInv, [Next]_vars
    PROVE  \/ UNCHANGED <<transactions, outstanding, dayCash>> /\ Len(days') = Len(days)
           \/ /\ UNCHANGED <<transactions, outstanding>>
              /\ dayCash' = Append(dayCash, 0) /\ Len(days') = Len(days) + 1
           \/ \E r \in DOMAIN approvals :
                 Post(r) /\ approvals[r].dayId = Today /\ DayIsOpen /\ ValidEntry(approvals[r], r)
                 /\ UNCHANGED days
<1>1. ASSUME NEW a \in Staff, SetupStep(a) \/ SeatingStep(a)
      PROVE  UNCHANGED <<transactions, outstanding, dayCash, days>>
  BY <1>1 DEF SetupStep, UpdateSettings, CompleteSetup, CreateTable, UpdateTable, UpdateProfile,
              SeatingStep, CheckInKnown, CheckInNew, Move, SwapSeats
<1>2. ASSUME NEW a \in Staff, NEW cash \in OpeningCash, OpenDay(a, cash)
      PROVE  /\ UNCHANGED <<transactions, outstanding>>
             /\ dayCash' = Append(dayCash, 0) /\ Len(days') = Len(days) + 1
  <2>1. days \in Seq(DayType)
    BY DEF TypeInv, TypeOK
  <2> QED
    BY <1>2, <2>1, AppendProperties DEF OpenDay
<1>3. ASSUME NEW a \in Staff, NEW counted, ReopenDay(a) \/ CloseDay(a, counted)
      PROVE  UNCHANGED <<transactions, outstanding, dayCash>> /\ Len(days') = Len(days)
  <2>1. DOMAIN days' = DOMAIN days
    BY <1>3 DEF ReopenDay, CloseDay
  <2>2. days \in Seq(DayType) /\ days' \in Seq(DayType)
    BY <1>3, NextTypeInv DEF TypeInv, TypeOK
  <2>3. UNCHANGED <<transactions, outstanding, dayCash>>
    BY <1>3 DEF ReopenDay, CloseDay
  <2> QED
    BY <2>1, <2>2, <2>3, LenProperties
<1>4. ASSUME NEW a \in Staff, EntryStep(a)
      PROVE  \/ UNCHANGED <<transactions, outstanding, dayCash, days>>
             \/ \E r \in DOMAIN approvals :
                   Post(r) /\ approvals[r].dayId = Today /\ DayIsOpen /\ ValidEntry(approvals[r], r)
                   /\ UNCHANGED days
  <2>1. ASSUME NEW q, Submit(q) PROVE UNCHANGED <<transactions, outstanding, dayCash, days>>
    BY <2>1 DEF Submit
  <2>2. ASSUME NEW r \in DOMAIN approvals, Reject(a, r)
        PROVE  UNCHANGED <<transactions, outstanding, dayCash, days>>
    BY <2>2 DEF Reject
  <2>3. ASSUME NEW r \in DOMAIN approvals, Approve(a, r)
        PROVE  \/ UNCHANGED <<transactions, outstanding, dayCash, days>>
               \/ Post(r) /\ approvals[r].dayId = Today /\ DayIsOpen /\ ValidEntry(approvals[r], r)
                  /\ UNCHANGED days
    BY <2>3 DEF Approve
  <2> QED
    BY <1>4, <2>1, <2>2, <2>3 DEF EntryStep, RequestForVisit, RequestEntry, Correct
<1>5. CASE UNCHANGED vars
  BY <1>5 DEF vars
<1> QED
  BY <1>1, <1>2, <1>3, <1>4, <1>5 DEF Next, DayStep

LEMMA LedgerFinite ==
    ASSUME TypeInv
    PROVE  /\ IsFiniteSet(DOMAIN transactions)
           /\ \A t \in DOMAIN transactions : transactions[t] \in TxType
<1>1. transactions \in Seq(TxType)
  BY DEF TypeInv, TypeOK
<1> QED
  BY <1>1, FS_Interval, LenProperties, ElementOfSeq

LEMMA PostLedgerInv ==
    ASSUME TypeInv, LedgerInv, NEW r \in DOMAIN approvals, Post(r),
           approvals[r].dayId = Today, DayIsOpen, UNCHANGED days
    PROVE  LedgerInv'
<1> DEFINE q == approvals[r]
           tx == Posting(r)
           last == Len(transactions) + 1
<1>1. transactions \in Seq(TxType) /\ tx \in TxType
  BY PostingType DEF TypeInv, TypeOK
<1>2. transactions' = Append(transactions, tx)
  BY DEF Post
<1>3. /\ DOMAIN transactions' = DOMAIN transactions \cup {last}
      /\ last \notin DOMAIN transactions
      /\ \A t \in DOMAIN transactions : transactions'[t] = transactions[t]
      /\ transactions'[last] = tx
  <2> HIDE DEF tx
  <2> QED
    BY <1>1, <1>2, AppendToSeq
<1>4. tx.playerId = q.playerId /\ tx.dayId = q.dayId
  BY DEF Posting
<1>5. Today \in DOMAIN days /\ DOMAIN dayCash = DOMAIN days
  BY LenProperties DEF DayIsOpen, Today, TypeInv, TypeOK, Linked
<1>6. q.playerId \in Players \cup {None} /\ None \notin Players
  <2>1. q \in RequestType
    BY ElementOfSeq, LenProperties DEF TypeInv, TypeOK
  <2> QED
    BY <2>1, VenueAssumption DEF RequestType
<1>7. /\ outstanding' = IF q.playerId = None THEN outstanding
                        ELSE [outstanding EXCEPT ![q.playerId] = @ + tx.creditDelta]
      /\ dayCash' = [dayCash EXCEPT ![q.dayId] = @ + CashMoved(tx)]
  BY DEF Post
<1>8. tx.creditDelta \in Int /\ CashMoved(tx) \in Int
  BY <1>1 DEF TxType, CashMoved
<1>9. /\ \A t \in DOMAIN transactions : Credits[t] \in Int /\ CashFlows[t] \in Int
      /\ \A t \in DOMAIN transactions : Credits'[t] = Credits[t] /\ CashFlows'[t] = CashFlows[t]
      /\ Credits'[last] = tx.creditDelta /\ CashFlows'[last] = CashMoved(tx)
  <2>1. \A t \in DOMAIN transactions : transactions[t] \in TxType
    BY LedgerFinite
  <2> HIDE DEF tx, last
  <2> QED
    BY <1>3, <2>1 DEF Credits, CashFlows, CashMoved, TxType
<1>10. IsFiniteSet(DOMAIN transactions)
  BY LedgerFinite
<1> HIDE DEF q, tx, last
<1>11. EntriesDated'
  BY <1>3, <1>4, <1>5 DEF LedgerInv, EntriesDated, q
<1>12. ASSUME NEW p \in Players
       PROVE  outstanding'[p] = SumFunctionOnSet(Credits, LedgerOf(p))'
  <2>0. outstanding \in [Players -> Int] /\ outstanding[p] = SumFunctionOnSet(Credits, LedgerOf(p))
    BY DEF LedgerInv, RollupsAddUp, TypeInv, TypeOK
  <2>1. LedgerOf(p) \subseteq DOMAIN transactions /\ IsFiniteSet(LedgerOf(p))
    BY <1>10, FS_Subset DEF LedgerOf
  <2>2. CASE q.playerId = p
    <3>1. LedgerOf(p)' = LedgerOf(p) \cup {last} /\ last \notin LedgerOf(p)
      BY <1>3, <1>4, <2>2 DEF LedgerOf
    <3>2. SumFunctionOnSet(Credits', LedgerOf(p) \cup {last})
            = SumFunctionOnSet(Credits, LedgerOf(p)) + tx.creditDelta
      BY <1>8, <1>9, <2>1, <3>1, SumExtended
    <3>3. outstanding'[p] = outstanding[p] + tx.creditDelta
      BY <1>6, <1>7, <2>0, <2>2
    <3> QED
      BY <2>0, <3>1, <3>2, <3>3
  <2>3. CASE q.playerId # p
    <3>1. LedgerOf(p)' = LedgerOf(p)
      BY <1>3, <1>4, <2>3 DEF LedgerOf
    <3>2. SumFunctionOnSet(Credits', LedgerOf(p)) = SumFunctionOnSet(Credits, LedgerOf(p))
      BY <1>9, <2>1, SumSame
    <3>3. outstanding'[p] = outstanding[p]
      BY <1>6, <1>7, <2>0, <2>3
    <3> QED
      BY <2>0, <3>1, <3>2, <3>3
  <2> QED
    BY <2>2, <2>3
<1>13. ASSUME NEW d \in DOMAIN days
       PROVE  dayCash'[d] = SumFunctionOnSet(CashFlows, LedgerOn(d))'
  <2>0. d \in DOMAIN dayCash /\ dayCash[d] = SumFunctionOnSet(CashFlows, LedgerOn(d))
    BY <1>5 DEF LedgerInv, RollupsAddUp
  <2>1. LedgerOn(d) \subseteq DOMAIN transactions /\ IsFiniteSet(LedgerOn(d))
    BY <1>10, FS_Subset DEF LedgerOn
  <2>2. CASE q.dayId = d
    <3>1. LedgerOn(d)' = LedgerOn(d) \cup {last} /\ last \notin LedgerOn(d)
      BY <1>3, <1>4, <2>2 DEF LedgerOn
    <3>2. SumFunctionOnSet(CashFlows', LedgerOn(d) \cup {last})
            = SumFunctionOnSet(CashFlows, LedgerOn(d)) + CashMoved(tx)
      BY <1>8, <1>9, <2>1, <3>1, SumExtended
    <3>3. dayCash'[d] = dayCash[d] + CashMoved(tx)
      BY <1>7, <2>0, <2>2
    <3> QED
      BY <2>0, <3>1, <3>2, <3>3
  <2>3. CASE q.dayId # d
    <3>1. LedgerOn(d)' = LedgerOn(d)
      BY <1>3, <1>4, <2>3 DEF LedgerOn
    <3>2. SumFunctionOnSet(CashFlows', LedgerOn(d)) = SumFunctionOnSet(CashFlows, LedgerOn(d))
      BY <1>9, <2>1, SumSame
    <3>3. dayCash'[d] = dayCash[d]
      BY <1>7, <2>0, <2>3
    <3> QED
      BY <2>0, <3>1, <3>2, <3>3
  <2> QED
    BY <2>2, <2>3
<1> QED
  BY <1>11, <1>12, <1>13 DEF LedgerInv, RollupsAddUp

LEMMA NextLedgerInv == TypeInv /\ LedgerInv /\ [Next]_vars => LedgerInv'
<1> SUFFICES ASSUME TypeInv, LedgerInv, [Next]_vars PROVE LedgerInv'
  OBVIOUS
<1>1. /\ days \in Seq(DayType) /\ dayCash \in Seq(Int) /\ Len(dayCash) = Len(days)
      /\ days' \in Seq(DayType)
  BY NextTypeInv DEF TypeInv, TypeOK, Linked
<1>2. CASE UNCHANGED <<transactions, outstanding, dayCash>> /\ Len(days') = Len(days)
  <2>1. DOMAIN days' = DOMAIN days
    BY <1>1, <1>2, LenProperties
  <2> QED
    BY <1>2, <2>1 DEF LedgerInv, EntriesDated, RollupsAddUp, Credits, CashFlows, LedgerOf, LedgerOn
<1>3. CASE /\ UNCHANGED <<transactions, outstanding>>
           /\ dayCash' = Append(dayCash, 0) /\ Len(days') = Len(days) + 1
  <2> DEFINE new == Len(days) + 1
  <2>1. DOMAIN days' = DOMAIN days \cup {new} /\ new \notin DOMAIN days
    BY <1>1, <1>3, LenProperties
  <2>2. /\ \A d \in DOMAIN days : dayCash'[d] = dayCash[d]
        /\ dayCash'[new] = 0
    BY <1>1, <1>3, LenProperties, AppendProperties
  <2>3. LedgerOn(new) = {} /\ SumFunctionOnSet(CashFlows, {}) = 0
    BY <2>1, SumOfNone DEF LedgerInv, EntriesDated, LedgerOn
  <2>4. Credits' = Credits /\ CashFlows' = CashFlows
    BY <1>3 DEF Credits, CashFlows
  <2>5. \A x : LedgerOf(x)' = LedgerOf(x) /\ LedgerOn(x)' = LedgerOn(x)
    BY <1>3 DEF LedgerOf, LedgerOn
  <2> HIDE DEF new
  <2> QED
    BY <1>3, <2>1, <2>2, <2>3, <2>4, <2>5 DEF LedgerInv, EntriesDated, RollupsAddUp
<1>4. ASSUME NEW r \in DOMAIN approvals, Post(r), approvals[r].dayId = Today, DayIsOpen,
             UNCHANGED days
      PROVE  LedgerInv'
  BY <1>4, PostLedgerInv
<1> QED
  BY <1>2, <1>3, <1>4, LedgerStep

LEMMA LedgerInvAlways == Spec => []LedgerInv
<1>1. Init => LedgerInv
  <2> SUFFICES ASSUME Init PROVE LedgerInv
    OBVIOUS
  <2>1. transactions = <<>> /\ days = <<>> /\ DOMAIN transactions = {} /\ DOMAIN days = {}
    BY EmptySeq DEF Init
  <2>2. \A p \in Players : LedgerOf(p) = {} /\ outstanding[p] = 0
    BY <2>1 DEF LedgerOf, Init
  <2> QED
    BY <2>1, <2>2, SumOfNone DEF LedgerInv, EntriesDated, RollupsAddUp
<1> QED
  BY <1>1, NextLedgerInv, TypeInvAlways, PTL DEF Spec

-----------------------------------------------------------------------------
(* The sums of the properties, as sums of functions.                       *)

\* The sum of debts in RollupsMatchLedger.
LEMMA CreditsAddedUp ==
    ASSUME TypeInv, NEW S \in SUBSET DOMAIN transactions
    PROVE  MapThenSumSet(LAMBDA t : transactions[t].creditDelta, S)
             = SumFunctionOnSet(Credits, S)
<1> DEFINE sum == CHOOSE iter : iter =
              [s \in SUBSET S |->
                 IF s = {} THEN 0
                 ELSE transactions[CHOOSE x \in s : TRUE].creditDelta
                        + iter[s \ {CHOOSE x \in s : TRUE}]]
<1>1. MapThenSumSet(LAMBDA t : transactions[t].creditDelta, S) = sum[S]
  BY DEF MapThenSumSet, MapThenFoldSet
<1>2. IsFiniteSet(S)
  BY LedgerFinite, FS_Subset
<1>3. PICK it : Adds(it, Credits, S) /\ SumFunctionOnSet(Credits, S) = it[S]
  BY <1>2, SumIs
<1>4. \A s \in SUBSET S : s # {} => Credits[Chosen(s)] = transactions[Chosen(s)].creditDelta
  BY ChosenIn DEF Credits
<1>5. it = [s \in SUBSET S |->
              IF s = {} THEN 0
              ELSE transactions[CHOOSE x \in s : TRUE].creditDelta
                     + it[s \ {CHOOSE x \in s : TRUE}]]
  BY <1>3, <1>4 DEF Adds, Chosen
<1>6. sum = [s \in SUBSET S |->
               IF s = {} THEN 0
               ELSE transactions[CHOOSE x \in s : TRUE].creditDelta
                      + sum[s \ {CHOOSE x \in s : TRUE}]]
  BY <1>5
<1> HIDE DEF sum
<1>7. Adds(sum, Credits, S)
  <2>1. sum = [s \in SUBSET S |->
                 IF s = {} THEN 0
                 ELSE transactions[Chosen(s)].creditDelta + sum[s \ {Chosen(s)}]]
    BY <1>6 DEF Chosen
  <2>2. DOMAIN sum = SUBSET S
    BY <2>1, Zenon
  <2>3. \A s \in SUBSET S :
           sum[s] = IF s = {} THEN 0 ELSE Credits[Chosen(s)] + sum[s \ {Chosen(s)}]
    BY <1>4, <2>1
  <2>4. sum = [s \in SUBSET S |-> sum[s]]
    BY <2>1, <2>2, Zenon
  <2> QED
    BY <2>3, <2>4 DEF Adds
<1>8. sum[S] = it[S]
  BY <1>2, <1>3, <1>7, AddsAgree
<1> QED
  BY <1>1, <1>3, <1>8

\* The sum of cash in CashOn.
LEMMA CashAddedUp ==
    ASSUME TypeInv, NEW S \in SUBSET DOMAIN transactions
    PROVE  MapThenSumSet(LAMBDA t : transactions[t].cashReceived - transactions[t].cashPayout, S)
             = SumFunctionOnSet(CashFlows, S)
<1> DEFINE sum == CHOOSE iter : iter =
              [s \in SUBSET S |->
                 IF s = {} THEN 0
                 ELSE (transactions[CHOOSE x \in s : TRUE].cashReceived
                      - transactions[CHOOSE x \in s : TRUE].cashPayout)
                        + iter[s \ {CHOOSE x \in s : TRUE}]]
<1>1. MapThenSumSet(LAMBDA t : transactions[t].cashReceived - transactions[t].cashPayout, S)
        = sum[S]
  BY DEF MapThenSumSet, MapThenFoldSet
<1>2. IsFiniteSet(S)
  BY LedgerFinite, FS_Subset
<1>3. PICK it : Adds(it, CashFlows, S) /\ SumFunctionOnSet(CashFlows, S) = it[S]
  BY <1>2, SumIs
<1>4. \A s \in SUBSET S : s # {} =>
         CashFlows[Chosen(s)]
           = transactions[Chosen(s)].cashReceived - transactions[Chosen(s)].cashPayout
  BY ChosenIn DEF CashFlows, CashMoved
<1>5. it = [s \in SUBSET S |->
              IF s = {} THEN 0
              ELSE (transactions[CHOOSE x \in s : TRUE].cashReceived
                      - transactions[CHOOSE x \in s : TRUE].cashPayout)
                     + it[s \ {CHOOSE x \in s : TRUE}]]
  BY <1>3, <1>4 DEF Adds, Chosen
<1>6. sum = [s \in SUBSET S |->
               IF s = {} THEN 0
               ELSE (transactions[CHOOSE x \in s : TRUE].cashReceived
                      - transactions[CHOOSE x \in s : TRUE].cashPayout)
                      + sum[s \ {CHOOSE x \in s : TRUE}]]
  BY <1>5
<1> HIDE DEF sum
<1>7. Adds(sum, CashFlows, S)
  <2>1. sum = [s \in SUBSET S |->
                 IF s = {} THEN 0
                 ELSE (transactions[Chosen(s)].cashReceived - transactions[Chosen(s)].cashPayout)
                        + sum[s \ {Chosen(s)}]]
    BY <1>6 DEF Chosen
  <2>2. DOMAIN sum = SUBSET S
    BY <2>1, Zenon
  <2>3. \A s \in SUBSET S :
           sum[s] = IF s = {} THEN 0 ELSE CashFlows[Chosen(s)] + sum[s \ {Chosen(s)}]
    BY <1>4, <2>1
  <2>4. sum = [s \in SUBSET S |-> sum[s]]
    BY <2>1, <2>2, Zenon
  <2> QED
    BY <2>3, <2>4 DEF Adds
<1>8. sum[S] = it[S]
  BY <1>2, <1>3, <1>7, AddsAgree
<1> QED
  BY <1>1, <1>3, <1>8

\* Summaries (RollupsMatchLedger): the balance of every player and the cash of
\* every day, updated one posted entry at a time (ledger-rollups.ts), are what the
\* complete ledger adds up to (selectors.ts), for a ledger of any length.
THEOREM SummariesAddUp == Spec => []RollupsMatchLedger
<1>1. TypeInv /\ LedgerInv => RollupsMatchLedger
  <2> SUFFICES ASSUME TypeInv, LedgerInv PROVE RollupsMatchLedger
    OBVIOUS
  <2>1. \A p : LedgerOf(p) \in SUBSET DOMAIN transactions
    BY DEF LedgerOf
  <2>2. \A d : LedgerOn(d) \in SUBSET DOMAIN transactions
    BY DEF LedgerOn
  <2>3. ASSUME NEW p \in Players
        PROVE  outstanding[p] = MapThenSumSet(LAMBDA t : transactions[t].creditDelta, LedgerOf(p))
    <3>1. outstanding[p] = SumFunctionOnSet(Credits, LedgerOf(p))
      BY DEF LedgerInv, RollupsAddUp
    <3> QED
      BY <2>1, <3>1, CreditsAddedUp
  <2>4. ASSUME NEW d \in DOMAIN days
        PROVE  dayCash[d] = CashOn(d)
    <3>1. dayCash[d] = SumFunctionOnSet(CashFlows, LedgerOn(d))
      BY DEF LedgerInv, RollupsAddUp
    <3> QED
      BY <2>2, <3>1, CashAddedUp DEF CashOn
  <2> QED
    BY <2>3, <2>4 DEF RollupsMatchLedger
<1> QED
  BY <1>1, TypeInvAlways, LedgerInvAlways, PTL

-----------------------------------------------------------------------------
(* Conservation: what every entry moves.                                   *)

\* What the entries mean at the cage.
Worth == [t \in DOMAIN transactions |-> CageValue(t)]

\* One term of a sum changed.
LEMMA SumChanged ==
    ASSUME NEW F, NEW G, NEW S, IsFiniteSet(S), \A y \in S : F[y] \in Int,
           NEW x \in S, NEW k \in Int,
           G[x] = F[x] + k, \A y \in S \ {x} : G[y] = F[y]
    PROVE  SumFunctionOnSet(G, S) = SumFunctionOnSet(F, S) + k
<1> DEFINE rest == S \ {x}
<1>1. IsFiniteSet(rest) /\ x \notin rest /\ S = rest \cup {x}
  BY FS_Subset
<1>2. /\ F[x] \in Int /\ G[x] \in Int
      /\ \A y \in rest : F[y] \in Int /\ G[y] = F[y]
  OBVIOUS
<1> HIDE DEF rest
<1>3. SumFunctionOnSet(G, rest \cup {x}) = SumFunctionOnSet(F, rest) + G[x]
  BY <1>1, <1>2, SumExtended
<1>4. SumFunctionOnSet(F, rest \cup {x}) = SumFunctionOnSet(F, rest) + F[x]
  BY <1>1, <1>2, SumExtended
<1>5. SumFunctionOnSet(F, rest) \in Int
  BY <1>1, <1>2, SumInt
<1> QED
  BY <1>1, <1>2, <1>3, <1>4, <1>5

\* The entry a reversal takes back is in the ledger and no reversal itself; every
\* entry moves cash and debt, together, by its value.
EntryLinked(tx) ==
    tx.reversesId # None => /\ tx.reversesId \in DOMAIN transactions
                            /\ transactions[tx.reversesId].reversesId = None
EntryBalanced(t) ==
    /\ CashMoved(transactions[t]) + transactions[t].creditDelta = CageValue(t)
    /\ transactions[t].playerId = None => transactions[t].creditDelta = 0

\* MoneyConserved, as sums of functions.
Conserved ==
    SumFunctionOnSet(dayCash, DOMAIN dayCash) + SumFunctionOnSet(outstanding, Players)
      = SumFunctionOnSet(Worth, DOMAIN transactions)

MoneyInv ==
    /\ \A t \in DOMAIN transactions : EntryLinked(transactions[t]) /\ EntryBalanced(t)
    /\ Conserved

\* The value of an amount of a type, as CageValue gives it to an entry.
Repayment == "Credit Repayment"
ValueOf(type, amount) ==
    IF type \in Payouts THEN -amount ELSE IF type = Repayment THEN 0 ELSE amount

LEMMA ImpactMoves ==
    ASSUME NEW a, NEW received \in Int, NEW payout \in Int, NEW delta \in Int
    PROVE  /\ CashMoved(Impact(a, received, payout, delta)) = received - payout
           /\ Impact(a, received, payout, delta).creditDelta = delta
BY DEF Impact, CashMoved

LEMMA ValueIs ==
    ASSUME NEW type, NEW amount \in Int
    PROVE  /\ type \in Payouts => ValueOf(type, amount) = -amount
           /\ type = Repayment => ValueOf(type, amount) = 0
           /\ type \notin Payouts \cup {Repayment} => ValueOf(type, amount) = amount
           /\ ValueOf(type, amount) \in Int
<1>1. type \in Payouts => ValueOf(type, amount) = -amount
  BY Zenon DEF ValueOf
<1>2. type = Repayment => ValueOf(type, amount) = 0
  <2>1. Repayment \notin Payouts
    BY DEF Repayment, Payouts, CashPayouts
  <2> QED
    BY <2>1, Zenon DEF ValueOf
<1>3. type \notin Payouts \cup {Repayment} => ValueOf(type, amount) = amount
  BY Zenon DEF ValueOf
<1>4. ValueOf(type, amount) \in Int
  BY <1>1, <1>2, <1>3
<1> QED
  BY <1>1, <1>2, <1>3, <1>4

LEMMA ImpactBalances ==
    ASSUME NEW type, NEW amount \in Int, NEW credit \in BOOLEAN, NEW owed \in Int,
           type = Repayment => credit
    PROVE  LET i == EntryImpact(type, amount, credit, owed)
           IN  /\ CashMoved(i) + i.creditDelta = ValueOf(type, amount)
               /\ ~credit => i.creditDelta = 0
<1> DEFINE i == EntryImpact(type, amount, credit, owed)
           goal == /\ CashMoved(i) + i.creditDelta = ValueOf(type, amount)
                   /\ ~credit => i.creditDelta = 0
<1>1. ASSUME NEW received \in Int, NEW payout \in Int, NEW delta \in Int,
             i = Impact(amount, received, payout, delta),
             received - payout + delta = ValueOf(type, amount),
             ~credit => delta = 0
      PROVE  goal
  <2> HIDE DEF i
  <2>1. CashMoved(i) = received - payout /\ i.creditDelta = delta
    BY <1>1, ImpactMoves
  <2> QED
    BY <1>1, <2>1
<1>2. ASSUME type = "Buy-in"
      PROVE  goal
  <2>0. type \notin Payouts /\ type # Repayment
    BY <1>2 DEF Payouts, CashPayouts, Repayment
  <2>1. ValueOf(type, amount) = amount
    BY <2>0, ValueIs
  <2>2. CASE credit
    <3>1. i = Impact(amount, 0, 0, amount)
      BY <1>2, <2>2 DEF EntryImpact
    <3> HIDE DEF i, goal
    <3> QED
      BY <1>1, <2>1, <2>2, <3>1
  <2>3. CASE ~credit
    <3>1. i = Impact(amount, amount, 0, 0)
      BY <1>2, <2>3 DEF EntryImpact, CashPayouts
    <3> HIDE DEF i, goal
    <3> QED
      BY <1>1, <2>1, <2>3, <3>1
  <2> QED
    BY <2>2, <2>3
<1>3. ASSUME type = "Cash-out"
      PROVE  goal
  <2>1. ValueOf(type, amount) = -amount
    BY <1>3, ValueIs DEF Payouts
  <2>2. PICK settled \in Int : /\ settled = IF credit THEN Smaller(owed, amount) ELSE 0
                               /\ ~credit => settled = 0
    <3>1. Smaller(owed, amount) \in Int
      BY DEF Smaller
    <3>2. CASE credit
      BY <3>1, <3>2
    <3>3. CASE ~credit
      BY <3>3
    <3> QED
      BY <3>2, <3>3
  <2>3. i = Impact(amount, 0, amount - settled, -settled)
    BY <1>3, <2>2 DEF EntryImpact
  <2>4. 0 - (amount - settled) + (-settled) = -amount /\ (settled = 0 => -settled = 0)
    OBVIOUS
  <2> HIDE DEF i, goal
  <2> QED
    BY <1>1, <2>1, <2>2, <2>3, <2>4
<1>4. ASSUME type = Repayment
      PROVE  goal
  <2>1. ValueOf(type, amount) = 0
    BY <1>4, ValueIs
  <2>2. i = Impact(amount, amount, 0, -amount)
    BY <1>4 DEF EntryImpact, Repayment
  <2>3. amount - 0 + (-amount) = 0
    OBVIOUS
  <2> HIDE DEF i, goal
  <2> QED
    BY <1>1, <1>4, <2>1, <2>2, <2>3
<1>5. ASSUME type \in CashPayouts
      PROVE  goal
  <2>1. ValueOf(type, amount) = -amount
    BY <1>5, ValueIs DEF Payouts
  <2>2. i = Impact(amount, 0, amount, 0)
    BY <1>5 DEF EntryImpact, CashPayouts
  <2>3. 0 - amount + 0 = -amount
    OBVIOUS
  <2> HIDE DEF i, goal
  <2> QED
    BY <1>1, <2>1, <2>2, <2>3
<1>6. ASSUME type \notin {"Buy-in", "Cash-out", Repayment} \cup CashPayouts
      PROVE  goal
  <2>1. ValueOf(type, amount) = amount
    BY <1>6, ValueIs DEF Payouts
  <2>2. i = Impact(amount, amount, 0, 0)
    BY <1>6 DEF EntryImpact, Repayment
  <2>3. amount - 0 + 0 = amount
    OBVIOUS
  <2> HIDE DEF i, goal
  <2> QED
    BY <1>1, <2>1, <2>2, <2>3
<1> QED
  BY <1>2, <1>3, <1>4, <1>5, <1>6

\* The entry posted for a request.
LEMMA PostingBalanced ==
    ASSUME TypeInv, ReversalsOfPlayer,
           \A t \in DOMAIN transactions : EntryLinked(transactions[t]) /\ EntryBalanced(t),
           NEW r \in DOMAIN approvals, ValidEntry(approvals[r], r)
    PROVE  LET tx == Posting(r)
           IN  /\ EntryLinked(tx)
               /\ CashMoved(tx) + tx.creditDelta
                    = ValueOf(IF tx.reversesId = None THEN tx.type
                              ELSE transactions[tx.reversesId].type, tx.amount)
               /\ tx.playerId = None => tx.creditDelta = 0
<1> DEFINE q == approvals[r]
           tx == Posting(r)
           owed == IF q.playerId = None THEN 0 ELSE outstanding[q.playerId]
           o == transactions[q.reversesId]
<1>1. q \in RequestType
  BY ElementOfSeq, LenProperties DEF TypeInv, TypeOK
<1>2. q.reversesId = None <=> q.type # "Reversal"
  BY DEF TypeInv, Linked, ReversalLinked
<1>3. tx.reversesId = q.reversesId /\ tx.type = q.type /\ tx.playerId = q.playerId
  BY DEF Posting
<1>4. CASE q.type # "Reversal"
  <2> DEFINE i == EntryImpact(q.type, q.amount, IsCredit(q.playerId), owed)
  <2>1. /\ tx.cashReceived = i.cashReceived /\ tx.cashPayout = i.cashPayout
        /\ tx.creditDelta = i.creditDelta /\ tx.amount = i.amount
    BY <1>4 DEF Posting
  <2>2. owed \in Int /\ q.amount \in Int
    BY <1>1 DEF RequestType, TypeInv, TypeOK
  <2>3. q.type = Repayment => IsCredit(q.playerId)
    BY <1>4 DEF ValidEntry, ValidRepayment, Repayment
  <2>4. IsCredit(q.playerId) \in BOOLEAN /\ (q.playerId = None => ~IsCredit(q.playerId))
    BY DEF IsCredit
  <2>5. i.amount = q.amount
    BY DEF EntryImpact, Impact
  <2> HIDE DEF q, owed, tx
  <2>6. /\ CashMoved(i) + i.creditDelta = ValueOf(q.type, q.amount)
        /\ ~IsCredit(q.playerId) => i.creditDelta = 0
    BY <1>4, <2>2, <2>3, <2>4, ImpactBalances
  <2> HIDE DEF i
  <2>7. CashMoved(tx) = CashMoved(i)
    BY <2>1 DEF CashMoved
  <2> QED
    BY <1>2, <1>3, <1>4, <2>1, <2>4, <2>5, <2>6, <2>7 DEF EntryLinked, tx
<1>5. CASE q.type = "Reversal"
  <2>1. /\ q.reversesId \in DOMAIN transactions /\ o.reversesId = None
        /\ q.playerId = o.playerId
    BY <1>2, <1>5 DEF TypeInv, Linked, ReversalLinked, ReversalsOfPlayer
  <2>2. o \in TxType
    BY <2>1, LedgerFinite
  <2>3. /\ tx.cashReceived = -o.cashReceived /\ tx.cashPayout = -o.cashPayout
        /\ tx.creditDelta = -o.creditDelta /\ tx.amount = -o.amount
    BY <1>5 DEF Posting, ReversalImpact, Impact
  <2>4. /\ CashMoved(o) + o.creditDelta = ValueOf(o.type, o.amount)
        /\ o.playerId = None => o.creditDelta = 0
    BY <2>1 DEF EntryBalanced, CageValue, EntryTypeOf, ValueOf, Repayment
  <2>5. /\ o.cashReceived \in Int /\ o.cashPayout \in Int /\ o.creditDelta \in Int /\ o.amount \in Int
    BY <2>2 DEF TxType
  <2>6. tx.reversesId # None
    BY <1>2, <1>3, <1>5
  <2>7. EntryLinked(tx)
    BY <1>3, <2>1 DEF EntryLinked
  <2> HIDE DEF q, o, tx
  <2>8. /\ CashMoved(tx) = -CashMoved(o)
        /\ ValueOf(o.type, tx.amount) = -ValueOf(o.type, o.amount)
        /\ CashMoved(o) \in Int /\ ValueOf(o.type, o.amount) \in Int
    <3>1. CashMoved(tx) = -CashMoved(o) /\ CashMoved(o) \in Int
      BY <2>3, <2>5 DEF CashMoved
    <3>2. ValueOf(o.type, o.amount) \in Int
      BY <2>5, ValueIs
    <3>3. ValueOf(o.type, -o.amount) = -ValueOf(o.type, o.amount)
      <4>1. \A k \in Int : /\ -k \in Int /\ -(-k) = k
                            /\ k = 0 => k = -k
        OBVIOUS
      <4> QED
        BY <2>5, <4>1, <3>2, ValueIs
    <3> QED
      BY <2>3, <3>1, <3>2, <3>3
  <2>9. CashMoved(tx) + tx.creditDelta = ValueOf(o.type, tx.amount)
    BY <2>3, <2>4, <2>5, <2>8
  <2> QED
    BY <1>3, <2>1, <2>3, <2>4, <2>6, <2>7, <2>9 DEF tx, o
<1> QED
  BY <1>4, <1>5

LEMMA CageValueIs == \A t : CageValue(t) = ValueOf(EntryTypeOf(t), transactions[t].amount)
BY DEF CageValue, ValueOf, Repayment

\* Entries keep their value.
LEMMA ValueKept ==
    ASSUME \A t \in DOMAIN transactions :
              EntryLinked(transactions[t]) /\ transactions'[t] = transactions[t],
           NEW t \in DOMAIN transactions
    PROVE  EntryTypeOf(t)' = EntryTypeOf(t) /\ CageValue(t)' = CageValue(t)
<1>1. EntryTypeOf(t)' = EntryTypeOf(t)
  BY DEF EntryTypeOf, EntryLinked
<1>2. CageValue(t) = ValueOf(EntryTypeOf(t), transactions[t].amount)
  BY CageValueIs
<1>3. \A u : CageValue(u)' = ValueOf(EntryTypeOf(u)', transactions'[u].amount)
  BY DEF CageValue, ValueOf, Repayment
<1> QED
  BY <1>1, <1>2, <1>3

LEMMA PostMoneyInv ==
    ASSUME TypeInv, ReversalsOfPlayer, MoneyInv, IsFiniteSet(Players),
           NEW r \in DOMAIN approvals, Post(r), ValidEntry(approvals[r], r),
           approvals[r].dayId = Today, DayIsOpen
    PROVE  MoneyInv'
<1> DEFINE q == approvals[r]
           tx == Posting(r)
           value == ValueOf(IF tx.reversesId = None THEN tx.type
                            ELSE transactions[tx.reversesId].type, tx.amount)
<1>1. transactions \in Seq(TxType) /\ tx \in TxType
  BY PostingType DEF TypeInv, TypeOK
<1>2. transactions' = Append(transactions, tx)
  BY DEF Post
<1>3. PICK last : /\ DOMAIN transactions' = DOMAIN transactions \cup {last}
                  /\ last \notin DOMAIN transactions
                  /\ \A t \in DOMAIN transactions : transactions'[t] = transactions[t]
                  /\ transactions'[last] = tx
  <2> HIDE DEF tx
  <2> QED
    BY <1>1, <1>2, AppendToSeq
<1>4. \A t \in DOMAIN transactions : EntryLinked(transactions[t]) /\ EntryBalanced(t)
  BY DEF MoneyInv
<1>5. /\ EntryLinked(tx)
      /\ CashMoved(tx) + tx.creditDelta = value
      /\ tx.playerId = None => tx.creditDelta = 0
  BY <1>4, PostingBalanced
<1>6. tx.playerId = q.playerId /\ tx.dayId = q.dayId
  BY DEF Posting
<1>7. q.dayId \in DOMAIN dayCash /\ DOMAIN dayCash = 1 .. Len(dayCash) /\ dayCash \in Seq(Int)
  BY LenProperties DEF DayIsOpen, Today, TypeInv, TypeOK, Linked
<1>8. q.playerId \in Players \cup {None} /\ None \notin Players
  <2>1. q \in RequestType
    BY ElementOfSeq, LenProperties DEF TypeInv, TypeOK
  <2> QED
    BY <2>1, VenueAssumption DEF RequestType
<1>9. /\ outstanding' = IF q.playerId = None THEN outstanding
                        ELSE [outstanding EXCEPT ![q.playerId] = @ + tx.creditDelta]
      /\ dayCash' = [dayCash EXCEPT ![q.dayId] = @ + CashMoved(tx)]
  BY DEF Post
<1>10. tx.creditDelta \in Int /\ CashMoved(tx) \in Int /\ tx.amount \in Int
  BY <1>1 DEF TxType, CashMoved
<1>11. value \in Int
  BY <1>10, ValueIs
<1>12. \A t \in DOMAIN transactions : transactions[t] \in TxType
  BY LedgerFinite
<1> HIDE DEF q, tx
<1>13. /\ \A t \in DOMAIN transactions : CageValue(t)' = CageValue(t)
       /\ \A t \in DOMAIN transactions : CageValue(t) \in Int
       /\ CageValue(last)' = value
  <2>1. \A t \in DOMAIN transactions : CageValue(t)' = CageValue(t)
    BY <1>3, <1>4, ValueKept
  <2>2. \A t \in DOMAIN transactions : CageValue(t) \in Int
    BY <1>12, CageValueIs, ValueIs DEF TxType
  <2>3. EntryTypeOf(last)' = IF tx.reversesId = None THEN tx.type
                             ELSE transactions[tx.reversesId].type
    BY <1>3, <1>5 DEF EntryTypeOf, EntryLinked
  <2>4. \A u : CageValue(u)' = ValueOf(EntryTypeOf(u)', transactions'[u].amount)
    BY DEF CageValue, ValueOf, Repayment
  <2> QED
    BY <1>3, <2>1, <2>2, <2>3, <2>4
<1> HIDE DEF value
<1>14. ASSUME NEW t \in DOMAIN transactions'
       PROVE  EntryLinked(transactions[t])' /\ EntryBalanced(t)'
  <2>1. CASE t \in DOMAIN transactions
    <3>1. EntryLinked(transactions[t]) /\ EntryBalanced(t) /\ CageValue(t)' = CageValue(t)
      BY <1>4, <1>13, <2>1
    <3> QED
      BY <1>3, <2>1, <3>1 DEF EntryLinked, EntryBalanced
  <2>2. CASE t = last
    BY <1>3, <1>5, <1>13, <2>2 DEF EntryLinked, EntryBalanced
  <2> QED
    BY <1>3, <1>14, <2>1, <2>2
<1>15. SumFunctionOnSet(dayCash', DOMAIN dayCash)
         = SumFunctionOnSet(dayCash, DOMAIN dayCash) + CashMoved(tx)
  <2>1. IsFiniteSet(DOMAIN dayCash)
    BY <1>7, FS_Interval, LenProperties
  <2>2. \A d \in DOMAIN dayCash : dayCash[d] \in Int
    BY <1>7, ElementOfSeq
  <2>3. QED
    <3>1. dayCash'[q.dayId] = dayCash[q.dayId] + CashMoved(tx)
      BY <1>7, <1>9
    <3>2. \A d \in DOMAIN dayCash \ {q.dayId} : dayCash'[d] = dayCash[d]
      BY <1>9
    <3>3. q.dayId \in DOMAIN dayCash
      BY <1>7
    <3> QED
      BY <1>10, <2>1, <2>2, <3>1, <3>2, <3>3, SumChanged
<1>16. SumFunctionOnSet(outstanding', Players)
         = SumFunctionOnSet(outstanding, Players) + tx.creditDelta
  <2>1. DOMAIN outstanding = Players /\ \A p \in Players : outstanding[p] \in Int
    BY DEF TypeInv, TypeOK
  <2>2. CASE q.playerId = None
    <3>1. SumFunctionOnSet(outstanding, Players) \in Int
      BY <2>1, SumInt
    <3> QED
      BY <1>5, <1>6, <1>9, <2>2, <3>1
  <2>3. CASE q.playerId \in Players
    <3>1. outstanding'[q.playerId] = outstanding[q.playerId] + tx.creditDelta
      BY <1>8, <1>9, <2>1, <2>3
    <3>2. \A p \in Players \ {q.playerId} : outstanding'[p] = outstanding[p]
      BY <1>9, <2>1
    <3> QED
      BY <1>10, <2>1, <2>3, <3>1, <3>2, SumChanged
  <2> QED
    BY <1>8, <2>2, <2>3
<1>17. SumFunctionOnSet(Worth', DOMAIN transactions')
         = SumFunctionOnSet(Worth, DOMAIN transactions) + value
  <2>1. /\ \A t \in DOMAIN transactions : Worth'[t] = Worth[t] /\ Worth[t] \in Int
        /\ Worth'[last] = value
    BY <1>3, <1>13 DEF Worth
  <2>2. IsFiniteSet(DOMAIN transactions)
    BY LedgerFinite
  <2> QED
    BY <1>3, <1>11, <2>1, <2>2, SumExtended
<1>18. Conserved'
  <2>1. DOMAIN dayCash' = DOMAIN dayCash
    BY <1>9
  <2>2. /\ SumFunctionOnSet(dayCash, DOMAIN dayCash) \in Int
        /\ SumFunctionOnSet(outstanding, Players) \in Int
    <3>1. IsFiniteSet(DOMAIN dayCash)
      BY <1>7, FS_Interval, LenProperties
    <3>2. \A d \in DOMAIN dayCash : dayCash[d] \in Int
      BY <1>7, ElementOfSeq
    <3>3. \A p \in Players : outstanding[p] \in Int
      BY DEF TypeInv, TypeOK
    <3> QED
      BY <3>1, <3>2, <3>3, SumInt
  <2>3. SumFunctionOnSet(dayCash, DOMAIN dayCash) + SumFunctionOnSet(outstanding, Players)
          = SumFunctionOnSet(Worth, DOMAIN transactions)
    BY DEF MoneyInv, Conserved
  <2>4. \A a, b, c, d \in Int : (a + c) + (b + d) = (a + b) + (c + d)
    OBVIOUS
  <2> QED
    BY <1>5, <1>10, <1>15, <1>16, <1>17, <2>1, <2>2, <2>3, <2>4 DEF Conserved
<1> QED
  BY <1>14, <1>18 DEF MoneyInv

LEMMA NextMoneyInv ==
    ASSUME TypeInv, ReversalsOfPlayer, MoneyInv, IsFiniteSet(Players), [Next]_vars
    PROVE  MoneyInv'
<1>1. ASSUME UNCHANGED transactions
      PROVE  /\ Worth' = Worth
             /\ \A t \in DOMAIN transactions' : EntryLinked(transactions[t])' /\ EntryBalanced(t)'
  <2>1. \A t \in DOMAIN transactions : CageValue(t)' = CageValue(t)
    BY <1>1, ValueKept DEF MoneyInv
  <2> QED
    BY <1>1, <2>1 DEF Worth, MoneyInv, EntryLinked, EntryBalanced
<1>2. CASE UNCHANGED <<transactions, outstanding, dayCash>>
  BY <1>1, <1>2 DEF MoneyInv, Conserved
<1>3. CASE UNCHANGED <<transactions, outstanding>> /\ dayCash' = Append(dayCash, 0)
  <2> DEFINE new == Len(dayCash) + 1
  <2>1. dayCash \in Seq(Int)
    BY DEF TypeInv, TypeOK
  <2>2. /\ DOMAIN dayCash' = DOMAIN dayCash \cup {new} /\ new \notin DOMAIN dayCash
        /\ \A d \in DOMAIN dayCash : dayCash'[d] = dayCash[d] /\ dayCash[d] \in Int
        /\ dayCash'[new] = 0
    BY <1>3, <2>1, AppendToSeq, ElementOfSeq, LenProperties
  <2>3. IsFiniteSet(DOMAIN dayCash)
    BY <2>1, FS_Interval, LenProperties
  <2> HIDE DEF new
  <2>4. SumFunctionOnSet(dayCash', DOMAIN dayCash')
          = SumFunctionOnSet(dayCash, DOMAIN dayCash) + 0
    BY <2>2, <2>3, SumExtended
  <2>5. SumFunctionOnSet(dayCash, DOMAIN dayCash) \in Int
    BY <2>2, <2>3, SumInt
  <2> QED
    BY <1>1, <1>3, <2>4, <2>5 DEF MoneyInv, Conserved
<1>4. ASSUME NEW r \in DOMAIN approvals, Post(r), approvals[r].dayId = Today, DayIsOpen,
             ValidEntry(approvals[r], r)
      PROVE  MoneyInv'
  BY <1>4, PostMoneyInv
<1> QED
  BY <1>2, <1>3, <1>4, LedgerStep

\* The sum of values in MoneyConserved.
LEMMA ValueAddedUp ==
    ASSUME TypeInv, NEW S \in SUBSET DOMAIN transactions
    PROVE  MapThenSumSet(CageValue, S)
             = SumFunctionOnSet(Worth, S)
<1> DEFINE sum == CHOOSE iter : iter =
              [s \in SUBSET S |->
                 IF s = {} THEN 0
                 ELSE CageValue(CHOOSE x \in s : TRUE)
                        + iter[s \ {CHOOSE x \in s : TRUE}]]
<1>1. MapThenSumSet(CageValue, S) = sum[S]
  BY DEF MapThenSumSet, MapThenFoldSet
<1>2. IsFiniteSet(S)
  BY LedgerFinite, FS_Subset
<1>3. PICK it : Adds(it, Worth, S) /\ SumFunctionOnSet(Worth, S) = it[S]
  BY <1>2, SumIs
<1>4. \A s \in SUBSET S : s # {} => Worth[Chosen(s)] = CageValue(Chosen(s))
  BY ChosenIn DEF Worth
<1>5. it = [s \in SUBSET S |->
              IF s = {} THEN 0
              ELSE CageValue(CHOOSE x \in s : TRUE)
                     + it[s \ {CHOOSE x \in s : TRUE}]]
  BY <1>3, <1>4 DEF Adds, Chosen
<1>6. sum = [s \in SUBSET S |->
               IF s = {} THEN 0
               ELSE CageValue(CHOOSE x \in s : TRUE)
                      + sum[s \ {CHOOSE x \in s : TRUE}]]
  BY <1>5
<1> HIDE DEF sum
<1>7. Adds(sum, Worth, S)
  <2>1. sum = [s \in SUBSET S |->
                 IF s = {} THEN 0
                 ELSE CageValue(Chosen(s)) + sum[s \ {Chosen(s)}]]
    BY <1>6 DEF Chosen
  <2>2. DOMAIN sum = SUBSET S
    BY <2>1, Zenon
  <2>3. \A s \in SUBSET S :
           sum[s] = IF s = {} THEN 0 ELSE Worth[Chosen(s)] + sum[s \ {Chosen(s)}]
    BY <1>4, <2>1
  <2>4. sum = [s \in SUBSET S |-> sum[s]]
    BY <2>1, <2>2, Zenon
  <2> QED
    BY <2>3, <2>4 DEF Adds
<1>8. sum[S] = it[S]
  BY <1>2, <1>3, <1>7, AddsAgree
<1> QED
  BY <1>1, <1>3, <1>8

\* Conservation (MoneyConserved): the cash all days took in plus the debt all
\* players owe is the value of what was sold less what was bought back, through any
\* repayments, settlements and reversals (ledgerImpact in operations.ts,
\* ledger-rollups.ts); for any finite set of players, as the sum over them needs.
THEOREM MoneyIsConserved == IsFiniteSet(Players) => (Spec => []MoneyConserved)
<1> SUFFICES ASSUME IsFiniteSet(Players) PROVE Spec => []MoneyConserved
  OBVIOUS
<1>1. Init => MoneyInv
  <2> SUFFICES ASSUME Init PROVE MoneyInv
    OBVIOUS
  <2>1. /\ transactions = <<>> /\ DOMAIN transactions = {}
        /\ dayCash = <<>> /\ DOMAIN dayCash = {}
        /\ outstanding = [p \in Players |-> 0]
    BY EmptySeq DEF Init
  <2>2. SumFunctionOnSet(outstanding, Players) = 0
    BY <2>1, SumOfZeros
  <2> QED
    BY <2>1, <2>2, SumOfNone DEF MoneyInv, Conserved
<1>2. TypeInv /\ CreditInv /\ MoneyInv /\ [Next]_vars => MoneyInv'
  BY NextMoneyInv DEF CreditInv
<1>3. TypeInv /\ MoneyInv => MoneyConserved
  <2> SUFFICES ASSUME TypeInv, MoneyInv PROVE MoneyConserved
    OBVIOUS
  <2>1. MapThenSumSet(LAMBDA d : dayCash[d], DOMAIN dayCash)
          = SumFunctionOnSet(dayCash, DOMAIN dayCash)
    BY DEF MapThenSumSet, MapThenFoldSet, SumFunctionOnSet, FoldFunctionOnSet
  <2>2. MapThenSumSet(LAMBDA p : outstanding[p], Players) = SumFunctionOnSet(outstanding, Players)
    BY DEF MapThenSumSet, MapThenFoldSet, SumFunctionOnSet, FoldFunctionOnSet
  <2>3. MapThenSumSet(CageValue, DOMAIN transactions) = SumFunctionOnSet(Worth, DOMAIN transactions)
    BY ValueAddedUp
  <2> QED
    BY <2>1, <2>2, <2>3 DEF MoneyInv, Conserved, MoneyConserved
<1> QED
  BY <1>1, <1>2, <1>3, TypeInvAlways, CreditInvAlways, PTL DEF Spec

-----------------------------------------------------------------------------
(* A backup is accepted.  What a step leaves, and the three kinds of step. *)

Stays ==
    /\ DOMAIN days \subseteq DOMAIN days'
    /\ \A p \in Players : PlayerKnown(p) => profiles'[p].type = profiles[p].type
    /\ \A t \in Tables : TableKnown(t) => TableKnown(t)'

LEMMA NextStays ==
    ASSUME TypeInv, [Next]_vars
    PROVE  Stays
<1>1. DOMAIN days \subseteq DOMAIN days'
  <2>1. days \in Seq(DayType) /\ days' \in Seq(DayType)
    BY NextTypeInv DEF TypeInv, TypeOK
  <2>2. Len(days') = Len(days) \/ Len(days') = Len(days) + 1
    BY LedgerStep
  <2> QED
    BY <2>1, <2>2, LenProperties
<1>2. profiles \in [Players -> ProfileType] /\ tables \in [Tables -> TableType]
  BY DEF TypeInv, TypeOK
<1>3. ASSUME NEW p \in Players, PlayerKnown(p)
      PROVE  profiles'[p].type = profiles[p].type
  <2>1. ASSUME NEW a, NEW x \in Players, NEW limit, NEW banned, UpdateProfile(a, x, limit, banned)
        PROVE  profiles'[p].type = profiles[p].type
    BY <1>2, <2>1 DEF UpdateProfile, ProfileType
  <2>2. ASSUME NEW a, NEW x \in Players, NEW t, NEW seat, NEW type, NEW limit,
               CheckInNew(a, x, type, limit, t, seat)
        PROVE  profiles'[p].type = profiles[p].type
    BY <1>2, <1>3, <2>2 DEF CheckInNew, PlayerKnown
  <2>3. ASSUME UNCHANGED profiles
        PROVE  profiles'[p].type = profiles[p].type
    BY <2>3
  <2>4. ASSUME NEW a \in Staff, SetupStep(a)
        PROVE  profiles'[p].type = profiles[p].type
    BY <2>1, <2>3, <2>4 DEF SetupStep, UpdateSettings, CompleteSetup, CreateTable, UpdateTable
  <2>5. ASSUME NEW a \in Staff, SeatingStep(a)
        PROVE  profiles'[p].type = profiles[p].type
    BY <2>2, <2>3, <2>5 DEF SeatingStep, CheckInKnown, Move, SwapSeats
  <2>6. ASSUME NEW a \in Staff, DayStep(a) \/ EntryStep(a)
        PROVE  UNCHANGED profiles
    BY <2>6 DEF DayStep, OpenDay, ReopenDay, CloseDay, EntryStep, RequestForVisit, RequestEntry,
                Correct, Submit, Reject, Approve
  <2> QED
    BY <2>3, <2>4, <2>5, <2>6 DEF Next, vars
<1>4. ASSUME NEW x \in Tables, TableKnown(x)
      PROVE  TableKnown(x)'
  <2>1. ASSUME NEW a, NEW t \in Tables, NEW status \in {"OPEN", "CLOSED"}, NEW overrides,
               CreateTable(a, t, status, overrides) \/ UpdateTable(a, t, status, overrides)
        PROVE  TableKnown(x)'
    BY <1>2, <1>4, <2>1 DEF CreateTable, UpdateTable, TableKnown
  <2>2. ASSUME UNCHANGED tables
        PROVE  TableKnown(x)'
    BY <1>4, <2>2 DEF TableKnown
  <2>3. ASSUME NEW a \in Staff, SetupStep(a)
        PROVE  TableKnown(x)'
    BY <2>1, <2>2, <2>3 DEF SetupStep, UpdateSettings, CompleteSetup, UpdateProfile
  <2>4. ASSUME NEW a \in Staff, SeatingStep(a) \/ DayStep(a) \/ EntryStep(a)
        PROVE  UNCHANGED tables
    <3>1. CASE SeatingStep(a)
      BY <3>1 DEF SeatingStep, CheckInKnown, CheckInNew, Move, SwapSeats
    <3>2. CASE DayStep(a)
      BY <3>2 DEF DayStep, OpenDay, ReopenDay, CloseDay
    <3>3. CASE EntryStep(a)
      BY <3>3 DEF EntryStep, RequestForVisit, RequestEntry, Correct, Submit, Reject, Approve
    <3> QED
      BY <2>4, <3>1, <3>2, <3>3
  <2> QED
    BY <2>2, <2>3, <2>4 DEF Next, vars
<1> QED
  BY <1>1, <1>3, <1>4 DEF Stays

\* A request is made.
RequestStep(a) ==
    \/ \E type \in Types \cap SessionEntries, amount \in Amounts, v \in DOMAIN sessions :
         RequestForVisit(a, type, amount, v)
    \/ \E type \in Types \ SessionEntries, amount \in Amounts,
          p \in Players \cup {None}, t \in Tables \cup {None} :
         RequestEntry(a, type, amount, p, t)
    \/ \E t \in DOMAIN transactions : Correct(a, t)

\* Neither requests nor entries change, and a visit that is over was over before.
Quiet ==
    /\ UNCHANGED <<approvals, transactions>>
    /\ \A v \in DOMAIN sessions' :
          /\ v \in DOMAIN sessions => sessions'[v].status = sessions[v].status
          /\ v \notin DOMAIN sessions => sessions'[v].status = "ACTIVE"

LEMMA NextKinds ==
    ASSUME TypeInv, [Next]_vars
    PROVE  \/ Quiet
           \/ \E a \in Staff : RequestStep(a)
           \/ \E a \in Staff : \E r \in DOMAIN approvals : Reject(a, r) \/ Approve(a, r)
<1>1. ASSUME UNCHANGED <<approvals, transactions, sessions>>
      PROVE  Quiet
  BY <1>1 DEF Quiet
<1>2. ASSUME NEW a \in Staff, SetupStep(a) \/ DayStep(a)
      PROVE  Quiet
  BY <1>1, <1>2 DEF SetupStep, UpdateSettings, CompleteSetup, CreateTable, UpdateTable, UpdateProfile,
                    DayStep, OpenDay, ReopenDay, CloseDay
<1>3. ASSUME NEW a \in Staff, SeatingStep(a)
      PROVE  Quiet
  <2>1. /\ UNCHANGED <<approvals, transactions>>
        /\ \A v \in DOMAIN sessions : sessions'[v].status = sessions[v].status
    BY <1>3, SeatingMoves
  <2>2. ASSUME NEW p \in Players, NEW t \in Tables, NEW seat \in Seats, StartVisit(p, t, seat)
        PROVE  \A v \in DOMAIN sessions' \ DOMAIN sessions : sessions'[v].status = "ACTIVE"
    BY <2>2, CheckInAdds
  <2>3. ASSUME NEW v \in DOMAIN sessions, NEW t \in Tables, NEW seat \in Seats, Move(a, v, t, seat)
        PROVE  DOMAIN sessions' = DOMAIN sessions
    BY <2>3 DEF Move
  <2>4. ASSUME NEW v \in DOMAIN sessions, NEW w \in DOMAIN sessions, SwapSeats(a, v, w)
        PROVE  DOMAIN sessions' = DOMAIN sessions
    BY <2>4 DEF SwapSeats
  <2>5. \A v \in DOMAIN sessions' \ DOMAIN sessions : sessions'[v].status = "ACTIVE"
    BY <1>3, <2>2, <2>3, <2>4 DEF SeatingStep, CheckInKnown, CheckInNew
  <2> QED
    BY <2>1, <2>5 DEF Quiet
<1>4. ASSUME NEW a \in Staff, EntryStep(a)
      PROVE  \/ RequestStep(a)
             \/ \E r \in DOMAIN approvals : Reject(a, r) \/ Approve(a, r)
  BY <1>4 DEF EntryStep, RequestStep
<1>5. CASE UNCHANGED vars
  BY <1>1, <1>5 DEF vars
<1> QED
  BY <1>2, <1>3, <1>4, <1>5 DEF Next

-----------------------------------------------------------------------------
(* The records one by one: days, visits, links, votes, reversals.          *)

\* A day that is not the last is closed, and a closed day's last count was
\* compared with what the drawer should hold.
DayRight(d) ==
    /\ days[d].status = "OPEN" => d = Today
    /\ days[d].status = "CLOSED" =>
          /\ days[d].closes # <<>>
          /\ days[d].closes[Len(days[d].closes)].expectedCash = ExpectedCash(d)
DaysRight == \A d \in DOMAIN days : DayRight(d)

LEMMA NextDaysRight ==
    ASSUME TypeInv, DaysRight, [Next]_vars
    PROVE  DaysRight'
<1>1. /\ days \in Seq(DayType) /\ dayCash \in Seq(Int) /\ Len(dayCash) = Len(days)
      /\ Len(days) \in Nat /\ DOMAIN days = 1 .. Len(days) /\ DOMAIN dayCash = DOMAIN days
      /\ \A d \in DOMAIN days : days[d] \in DayType
  BY LenProperties, ElementOfSeq DEF TypeInv, TypeOK, Linked
<1>2. ASSUME UNCHANGED days
      PROVE  DaysRight'
  <2>1. \A d \in DOMAIN days : dayCash'[d] = dayCash[d] \/ (d = Today /\ DayIsOpen)
    <3>1. CASE UNCHANGED dayCash
      BY <3>1
    <3>2. CASE Len(days') = Len(days) + 1
      BY <1>1, <1>2, <3>2
    <3>3. ASSUME NEW r \in DOMAIN approvals, Post(r), approvals[r].dayId = Today, DayIsOpen
          PROVE  \A d \in DOMAIN days : dayCash'[d] = dayCash[d] \/ (d = Today /\ DayIsOpen)
      BY <1>1, <3>3 DEF Post
    <3> QED
      BY <3>1, <3>2, <3>3, LedgerStep
  <2> QED
    BY <1>2, <2>1 DEF DaysRight, DayRight, ExpectedCash, DayIsOpen, Today
<1>3. ASSUME NEW a, NEW cash \in OpeningCash, OpenDay(a, cash)
      PROVE  DaysRight'
  <2> DEFINE day == [status |-> "OPEN", openingCash |-> cash, closes |-> <<>>]
             new == Len(days) + 1
  <2>1. day \in DayType
    BY VenueAssumption, EmptySeq DEF DayType
  <2>2. days' = Append(days, day) /\ dayCash' = Append(dayCash, 0) /\ ~DayIsOpen
    BY <1>3 DEF OpenDay
  <2>3. day.status = "OPEN"
    OBVIOUS
  <2> HIDE DEF day
  <2>4. /\ DOMAIN days' = DOMAIN days \cup {new} /\ Len(days') = new
        /\ \A d \in DOMAIN days : days'[d] = days[d] /\ dayCash'[d] = dayCash[d]
        /\ days'[new] = day
    BY <1>1, <2>1, <2>2, AppendToSeq
  <2>5. \A d \in DOMAIN days : days[d].status = "CLOSED"
    BY <1>1, <2>2 DEF DaysRight, DayRight, DayIsOpen, Today, DayType
  <2> QED
    BY <2>3, <2>4, <2>5 DEF DaysRight, DayRight, ExpectedCash, Today
<1>4. ASSUME NEW a, ReopenDay(a)
      PROVE  DaysRight'
  <2>1. /\ days' = [days EXCEPT ![Today].status = "OPEN"] /\ UNCHANGED dayCash
    BY <1>4 DEF ReopenDay
  <2>2. /\ DOMAIN days' = DOMAIN days /\ Len(days') = Len(days)
        /\ \A d \in DOMAIN days : d # Today => days'[d] = days[d]
        /\ Today \in DOMAIN days => days'[Today].status = "OPEN"
    <3>1. days' = [days EXCEPT ![Today] = [days[Today] EXCEPT !.status = "OPEN"]]
      BY <2>1
    <3>2. \A d \in DOMAIN days : [days[d] EXCEPT !.status = "OPEN"] \in DayType
      BY <1>1 DEF DayType
    <3>3. Len(days') = Len(days) /\ DOMAIN days' = DOMAIN days
      BY <1>1, <3>1, <3>2, ExceptInSeq
    <3> QED
      BY <1>1, <3>1, <3>3 DEF DayType
  <2> QED
    BY <2>1, <2>2 DEF DaysRight, DayRight, ExpectedCash, Today
<1>5. ASSUME NEW a, NEW counted \in CountedCash, CloseDay(a, counted)
      PROVE  DaysRight'
  <2> DEFINE count == [countedCash |-> counted, expectedCash |-> ExpectedCash(Today)]
             day == [days[Today] EXCEPT !.status = "CLOSED", !.closes = Append(days[Today].closes, count)]
  <2>1. days' = [days EXCEPT ![Today] = day] /\ UNCHANGED dayCash /\ Today \in DOMAIN days
    <3>1. days' = [days EXCEPT ![Today] = day]
      BY <1>5 DEF CloseDay
    <3>2. UNCHANGED dayCash /\ DayIsOpen
      BY <1>5 DEF CloseDay
    <3> QED
      BY <1>1, <3>1, <3>2 DEF DayIsOpen, Today
  <2>2. days[Today] \in DayType /\ days[Today].closes \in Seq(CloseType) /\ count \in CloseType
    <3>1. days[Today] \in DayType
      BY <1>1, <2>1
    <3>2. dayCash[Today] \in Int /\ days[Today].openingCash \in Nat
      BY <1>1, <2>1, <3>1, ElementOfSeq DEF DayType
    <3>3. ExpectedCash(Today) \in Int
      BY <3>2 DEF ExpectedCash
    <3>4. count \in CloseType
      BY <3>3, VenueAssumption DEF CloseType
    <3> QED
      BY <3>1, <3>4 DEF DayType
  <2> DEFINE closes == Append(days[Today].closes, count)
  <2>3. /\ closes \in Seq(CloseType) /\ closes # <<>> /\ closes[Len(closes)] = count
    <3>1. /\ closes \in Seq(CloseType) /\ Len(closes) = Len(days[Today].closes) + 1
          /\ closes[Len(days[Today].closes) + 1] = count
          /\ Len(days[Today].closes) \in Nat
      BY <2>2, AppendToSeq, LenProperties
    <3> HIDE DEF closes
    <3>2. closes # <<>>
      BY <3>1
    <3> QED
      BY <3>1, <3>2
  <2>4. /\ day \in DayType /\ day.status = "CLOSED" /\ day.closes = closes
        /\ day.openingCash = days[Today].openingCash
    <3> HIDE DEF closes
    <3>1. day = [days[Today] EXCEPT !.status = "CLOSED", !.closes = closes]
      BY DEF closes
    <3> HIDE DEF day
    <3> QED
      BY <2>2, <2>3, <3>1 DEF DayType
  <2>5. count.expectedCash = ExpectedCash(Today)
    OBVIOUS
  <2> HIDE DEF day, closes, count
  <2>6. /\ DOMAIN days' = DOMAIN days /\ Len(days') = Len(days)
        /\ \A d \in DOMAIN days : d # Today => days'[d] = days[d]
        /\ days'[Today] = day
    BY <1>1, <2>1, <2>4, ExceptInSeq
  <2>7. ASSUME NEW d \in DOMAIN days
        PROVE  DayRight(d)'
    <3>1. CASE d # Today
      BY <2>1, <2>6, <3>1 DEF DaysRight, DayRight, ExpectedCash, Today
    <3>2. CASE d = Today
      BY <2>1, <2>3, <2>4, <2>5, <2>6, <3>2 DEF DayRight, ExpectedCash, Today
    <3> QED
      BY <3>1, <3>2
  <2> QED
    BY <2>6, <2>7 DEF DaysRight
<1>6. ASSUME NEW a \in Staff, SetupStep(a) \/ SeatingStep(a) \/ EntryStep(a)
      PROVE  UNCHANGED days
  <2>1. CASE SetupStep(a)
    BY <2>1 DEF SetupStep, UpdateSettings, CompleteSetup, CreateTable, UpdateTable, UpdateProfile
  <2>2. CASE SeatingStep(a)
    BY <2>2 DEF SeatingStep, CheckInKnown, CheckInNew, Move, SwapSeats
  <2>3. CASE EntryStep(a)
    BY <2>3 DEF EntryStep, RequestForVisit, RequestEntry, Correct, Submit, Reject, Approve
  <2> QED
    BY <1>6, <2>1, <2>2, <2>3
<1> QED
  BY <1>2, <1>3, <1>4, <1>5, <1>6 DEF Next, vars, DayStep

\* Every visit belongs to a day and to a table that was created.
VisitsRight ==
    \A v \in DOMAIN sessions : sessions[v].dayId \in DOMAIN days /\ TableKnown(sessions[v].tableId)

LEMMA NextVisitsRight ==
    ASSUME TypeInv, VisitsRight, Stays, [Next]_vars
    PROVE  VisitsRight'
<1>1. /\ sessions \in Seq(VisitType) /\ Len(days) \in Nat /\ DOMAIN days = 1 .. Len(days)
      /\ \A v \in DOMAIN sessions : sessions[v] \in VisitType
      /\ \A v \in DOMAIN sessions : sessions[v].tableId \in Tables
  <2>1. sessions \in Seq(VisitType) /\ Len(days) \in Nat /\ DOMAIN days = 1 .. Len(days)
    BY LenProperties DEF TypeInv, TypeOK
  <2>2. \A v \in DOMAIN sessions : sessions[v] \in VisitType
    BY <2>1, ElementOfSeq, LenProperties
  <2> QED
    BY <2>1, <2>2 DEF VisitType
<1>2. ASSUME DOMAIN sessions' = DOMAIN sessions,
             \A v \in DOMAIN sessions :
                /\ sessions'[v].dayId = sessions[v].dayId
                /\ sessions'[v].tableId = sessions[v].tableId
                   \/ \E w \in DOMAIN sessions : sessions'[v].tableId = sessions[w].tableId
                   \/ \E t \in Tables : TableOpen(t) /\ sessions'[v].tableId = t
      PROVE  VisitsRight'
  <2>1. \A t \in Tables : TableOpen(t) => TableKnown(t)
    BY DEF TableOpen, TableKnown
  <2>2. ASSUME NEW v \in DOMAIN sessions
        PROVE  sessions'[v].dayId \in DOMAIN days' /\ TableKnown(sessions[v].tableId)'
    <3>1. PICK t \in Tables : TableKnown(t) /\ sessions'[v].tableId = t
      BY <1>1, <1>2, <2>1 DEF VisitsRight
    <3>2. TableKnown(t)'
      BY <3>1 DEF Stays
    <3>3. TableKnown(sessions[v].tableId)'
      BY <3>1, <3>2 DEF TableKnown
    <3> QED
      BY <1>2, <3>3 DEF VisitsRight, Stays
  <2> QED
    BY <1>2, <2>2 DEF VisitsRight
<1>3. ASSUME UNCHANGED sessions
      PROVE  VisitsRight'
  BY <1>2, <1>3
<1>4. ASSUME NEW a \in Staff, SetupStep(a) \/ DayStep(a)
      PROVE  UNCHANGED sessions
  BY <1>4, TablesClose, DaysTurn
<1>5. ASSUME NEW p \in Players, NEW t \in Tables, NEW seat \in Seats, StartVisit(p, t, seat), DayIsOpen
      PROVE  VisitsRight'
  <2>1. PICK new :
          /\ DOMAIN sessions' = DOMAIN sessions \cup {new}
          /\ \A v \in DOMAIN sessions : sessions'[v] = sessions[v]
          /\ sessions'[new].dayId = Today /\ sessions'[new].tableId = t
    BY <1>5, CheckInAdds
  <2>2. Today \in DOMAIN days /\ TableKnown(t)
    BY <1>1, <1>5 DEF DayIsOpen, Today, StartVisit, EnsureSeat, TableOpen, TableKnown
  <2>3. TableKnown(t)' /\ Today \in DOMAIN days'
    BY <2>2 DEF Stays
  <2>4. \A v \in DOMAIN sessions : TableKnown(sessions[v].tableId)'
    <3> TAKE v \in DOMAIN sessions
    <3>1. PICK x \in Tables : x = sessions[v].tableId
      BY <1>1
    <3>2. TableKnown(x)'
      BY <3>1 DEF VisitsRight, Stays
    <3> QED
      BY <2>1, <3>1, <3>2 DEF TableKnown
  <2>5. TableKnown(sessions[new].tableId)'
    BY <2>1, <2>3 DEF TableKnown
  <2> QED
    BY <2>1, <2>3, <2>4, <2>5 DEF VisitsRight, Stays
<1>6. ASSUME NEW a \in Staff, NEW v \in DOMAIN sessions, NEW t \in Tables, NEW seat \in Seats,
             Move(a, v, t, seat)
      PROVE  VisitsRight'
  <2>1. TableOpen(t)
    BY <1>6 DEF Move, EnsureSeat
  <2>2. /\ DOMAIN sessions' = DOMAIN sessions
        /\ \A u \in DOMAIN sessions :
              /\ sessions'[u].dayId = sessions[u].dayId
              /\ u # v => sessions'[u] = sessions[u]
        /\ sessions'[v].tableId = t
    BY <1>6, Reseated
  <2> QED
    BY <1>2, <2>1, <2>2
<1>7. ASSUME NEW a \in Staff, NEW v \in DOMAIN sessions, NEW w \in DOMAIN sessions, SwapSeats(a, v, w)
      PROVE  VisitsRight'
  <2>1. PICK t \in Tables, seat \in Seats : t = sessions[w].tableId /\ seat = sessions[w].seat
    BY <1>1 DEF VisitType
  <2>2. v # w
    BY <1>7 DEF SwapSeats
  <2>3. /\ DOMAIN sessions' = DOMAIN sessions
        /\ \A u \in DOMAIN sessions :
              /\ sessions'[u].dayId = sessions[u].dayId
              /\ u \notin {v, w} => sessions'[u] = sessions[u]
        /\ sessions'[v].tableId = t /\ sessions'[w].tableId = sessions[v].tableId
    BY <1>7, <2>1, <2>2, Reseated
  <2>4. \A u \in DOMAIN sessions :
           \/ sessions'[u].tableId = sessions[u].tableId
           \/ \E x \in DOMAIN sessions : sessions'[u].tableId = sessions[x].tableId
    BY <2>1, <2>3
  <2> QED
    BY <1>2, <2>3, <2>4
<1>8. ASSUME NEW a \in Staff, EntryStep(a)
      PROVE  VisitsRight'
  <2>1. ASSUME NEW r \in DOMAIN approvals, Post(r)
        PROVE  VisitsRight'
    <3>1. /\ DOMAIN sessions' = DOMAIN sessions
          /\ \A v \in DOMAIN sessions :
                sessions'[v].dayId = sessions[v].dayId /\ sessions'[v].tableId = sessions[v].tableId
      BY <2>1, PostMoves
    <3> QED
      BY <1>2, <3>1
  <2>2. \/ UNCHANGED sessions
        \/ \E r \in DOMAIN approvals : Post(r)
    BY <1>8 DEF EntryStep, RequestForVisit, RequestEntry, Correct, Submit, Reject, Approve
  <2> QED
    BY <1>3, <2>1, <2>2
<1>9. ASSUME NEW a \in Staff, SeatingStep(a)
      PROVE  VisitsRight'
  BY <1>5, <1>6, <1>7, <1>9 DEF SeatingStep, CheckInKnown, CheckInNew
<1> QED
  BY <1>3, <1>4, <1>8, <1>9 DEF Next, vars

\* What a request or an entry refers to, field by field.
Linking(d, type, p, v, t, u) ==
    /\ d \in DOMAIN days
    /\ p # None => PlayerKnown(p)
    /\ t # None => TableKnown(t)
    /\ v # None => v \in DOMAIN sessions /\ sessions[v].playerId = p /\ sessions[v].dayId = d
    /\ type \in SessionEntries => None \notin {v, p, t}
    /\ type = Repayment => IsCredit(p) /\ v = None
    /\ type \in DealerEntries => t # None
    /\ type = "Reversal" <=> u # None

LEMMA LinksAre ==
    /\ \A e : LinksSound(e)
                <=> Linking(e.dayId, e.type, e.playerId, e.sessionId, e.tableId, e.reversesId)
    /\ \A e : LinksSound(e)'
                <=> Linking(e.dayId, e.type, e.playerId, e.sessionId, e.tableId, e.reversesId)'
BY Zenon DEF LinksSound, Linking, Repayment

LEMMA LinkingStays ==
    ASSUME TypeInv, Grows, Stays, NEW d, NEW type, NEW p \in Players \cup {None}, NEW v,
           NEW t \in Tables \cup {None}, NEW u, Linking(d, type, p, v, t, u)
    PROVE  Linking(d, type, p, v, t, u)'
<1>1. p # None => PlayerKnown(p)' /\ (IsCredit(p)' <=> IsCredit(p))
  BY DEF Linking, Stays, PlayerKnown, IsCredit
<1>2. p = None => (IsCredit(p)' <=> IsCredit(p))
  BY DEF IsCredit
<1>3. t # None => TableKnown(t)'
  BY DEF Linking, Stays
<1>4. d \in DOMAIN days'
  BY DEF Linking, Stays
<1>5. v # None => v \in DOMAIN sessions' /\ sessions'[v].playerId = p /\ sessions'[v].dayId = d
  BY DEF Linking, Grows
<1> QED
  BY <1>1, <1>2, <1>3, <1>4, <1>5, Zenon DEF Linking

\* What is true of a request and its entry alike.
RequestsLinked == \A r \in DOMAIN approvals : LinksSound(approvals[r])

\* An entry says what its request said.
Copied(tx, q) ==
    \A f \in {"type", "dayId", "playerId", "sessionId", "tableId", "reversesId"} : tx[f] = q[f]
EntriesCopied ==
    \A t \in DOMAIN transactions :
        /\ transactions[t].approvalId \in DOMAIN approvals
        /\ Copied(transactions[t], approvals[transactions[t].approvalId])

LEMMA EntriesLinked ==
    ASSUME RequestsLinked, EntriesCopied, NEW t \in DOMAIN transactions
    PROVE  LinksSound(transactions[t])
<1> DEFINE tx == transactions[t]
           q  == approvals[tx.approvalId]
<1>1. /\ tx.dayId = q.dayId /\ tx.type = q.type /\ tx.playerId = q.playerId
      /\ tx.sessionId = q.sessionId /\ tx.tableId = q.tableId /\ tx.reversesId = q.reversesId
  BY DEF EntriesCopied, Copied
<1>2. LinksSound(q)
  BY DEF RequestsLinked, EntriesCopied
<1> HIDE DEF tx, q
<1>3. LinksSound(tx)
  BY <1>1, <1>2, LinksAre
<1> QED
  BY <1>3 DEF tx

\* A reversal repeats the table and the amount of the entry it undoes.
Repeats(q) ==
    q.reversesId # None =>
        /\ q.tableId = transactions[q.reversesId].tableId
        /\ q.amount = transactions[q.reversesId].amount

AmountGiven(q) == q.amount > 0 \/ q.type \in {"Cash-out", "Reversal"}

\* A request as it is made.
Fresh(q) ==
    /\ LinksSound(q) /\ AmountGiven(q) /\ Repeats(q)
    /\ q.reversesId # None => NotBeingReversed(q.reversesId)

LEMMA FreshVisitRequest ==
    ASSUME TypeInv, PlayersKnown, NEW a \in Staff, NEW type \in Types \cap SessionEntries,
           NEW amount \in Amounts, NEW v \in DOMAIN sessions, RequestForVisit(a, type, amount, v)
    PROVE  \E q \in RequestType : Submit(q) /\ Requested(q) /\ Fresh(q)
<1>1. PICK q : q = NewRequest(a, type, amount, sessions[v].playerId, v, sessions[v].tableId, None)
  OBVIOUS
<1>2. q \in RequestType /\ ReversalLinked(q) /\ Submit(q)
  BY <1>1, VisitRequest
<1>3. Requested(q)
  BY <1>1, <1>2, NewRequestShape
<1>4. /\ q.dayId = Today /\ q.type = type /\ q.amount = amount
      /\ q.playerId = sessions[v].playerId /\ q.sessionId = v /\ q.tableId = sessions[v].tableId
      /\ q.reversesId = None
  BY <1>1 DEF NewRequest
<1>5. sessions[v] \in VisitType /\ v \in Nat
  BY ElementOfSeq, LenProperties DEF TypeInv, TypeOK
<1>6. sessions[v].playerId \in Players /\ sessions[v].tableId \in Tables
  BY <1>5 DEF VisitType
<1>7. Today \in DOMAIN days
  <2>1. Len(days) \in Nat /\ DOMAIN days = 1 .. Len(days)
    BY LenProperties DEF TypeInv, TypeOK
  <2> QED
    BY <2>1 DEF RequestForVisit, DayIsOpen, Today
<1>8. PlayerKnown(sessions[v].playerId) /\ TableKnown(sessions[v].tableId)
  BY <1>6 DEF PlayersKnown, Registered, PlayerKnown, RequestForVisit, TableOpen, TableKnown
<1>9. type \in SessionEntries /\ type # "Reversal" /\ type # Repayment
  <2>1. "Buy-in" # Repayment /\ "Cash-out" # Repayment
    BY Zenon DEF Repayment
  <2> QED
    BY <2>1 DEF SessionEntries
<1>10. type \notin DealerEntries \/ sessions[v].tableId # None
  BY <1>6, VenueAssumption
<1>11. sessions[v].dayId = Today
  BY <1>2, <1>4, <1>9 DEF Submit, ValidEntry, ValidSessionEntry
<1>12. None \notin {v, sessions[v].playerId, sessions[v].tableId}
  BY <1>5, <1>6, VenueAssumption
<1>13. Linking(q.dayId, q.type, q.playerId, q.sessionId, q.tableId, q.reversesId)
  BY <1>4, <1>7, <1>8, <1>9, <1>10, <1>11, <1>12, Zenon DEF Linking
<1>14. AmountGiven(q)
  BY <1>4 DEF AmountGiven, RequestForVisit
<1>15. Fresh(q)
  BY <1>4, <1>13, <1>14, LinksAre DEF Fresh, Repeats
<1> QED
  BY <1>2, <1>3, <1>15

LEMMA FreshEntryRequest ==
    ASSUME TypeInv, NEW a \in Staff, NEW type \in Types \ SessionEntries,
           NEW amount \in Amounts, NEW p \in Players \cup {None}, NEW t \in Tables \cup {None},
           RequestEntry(a, type, amount, p, t)
    PROVE  \E q \in RequestType : Submit(q) /\ Requested(q) /\ Fresh(q)
<1>1. PICK q : q = NewRequest(a, type, amount, p, None, t, None)
  OBVIOUS
<1>2. q \in RequestType /\ ReversalLinked(q) /\ Submit(q)
  BY <1>1, OtherRequest
<1>3. Requested(q)
  BY <1>1, <1>2, NewRequestShape
<1>4. /\ q.dayId = Today /\ q.type = type /\ q.amount = amount
      /\ q.playerId = p /\ q.sessionId = None /\ q.tableId = t /\ q.reversesId = None
  BY <1>1 DEF NewRequest
<1>5. /\ DayIsOpen /\ amount > 0 /\ (p # None => PlayerKnown(p))
      /\ type = Repayment => IsCredit(p)
      /\ t # None => TableOpen(t)
      /\ type \in DealerEntries => t # None
  BY Zenon DEF RequestEntry, Repayment, PlayerKnown
<1>6. Today \in DOMAIN days
  <2>1. Len(days) \in Nat /\ DOMAIN days = 1 .. Len(days)
    BY LenProperties DEF TypeInv, TypeOK
  <2> QED
    BY <1>5, <2>1 DEF DayIsOpen, Today
<1>7. t # None => TableKnown(t)
  BY <1>5 DEF TableOpen, TableKnown
<1>8. type # "Reversal" /\ type \notin SessionEntries
  BY <1>2, <1>4 DEF ReversalLinked
<1>9. Linking(q.dayId, q.type, q.playerId, q.sessionId, q.tableId, q.reversesId)
  BY <1>4, <1>5, <1>6, <1>7, <1>8, Zenon DEF Linking
<1>10. AmountGiven(q)
  BY <1>4, <1>5 DEF AmountGiven
<1>11. Fresh(q)
  BY <1>4, <1>9, <1>10, LinksAre DEF Fresh, Repeats
<1> QED
  BY <1>2, <1>3, <1>11

LEMMA FreshReversal ==
    ASSUME TypeInv, RequestsLinked, EntriesCopied, NEW a \in Staff,
           NEW t \in DOMAIN transactions, Correct(a, t)
    PROVE  \E q \in RequestType : Submit(q) /\ Requested(q) /\ Fresh(q)
<1>1. PICK tx : tx = transactions[t]
  OBVIOUS
<1>2. PICK q : q = NewRequest(a, "Reversal", tx.amount, tx.playerId, tx.sessionId, tx.tableId, t)
  OBVIOUS
<1>3. q \in RequestType /\ ReversalLinked(q) /\ Submit(q)
  BY <1>1, <1>2, ReversalRequest
<1>4. Requested(q)
  BY <1>2, <1>3, NewRequestShape
<1>5. /\ q.dayId = Today /\ q.type = "Reversal" /\ q.amount = tx.amount
      /\ q.playerId = tx.playerId /\ q.sessionId = tx.sessionId /\ q.tableId = tx.tableId
      /\ q.reversesId = t
  BY <1>2 DEF NewRequest
<1>6. tx.dayId = Today /\ NotBeingReversed(t)
  BY <1>1 DEF Correct
<1>7. Linking(tx.dayId, tx.type, tx.playerId, tx.sessionId, tx.tableId, tx.reversesId)
  <2>1. LinksSound(tx)
    BY <1>1, EntriesLinked
  <2> QED
    BY <2>1, LinksAre
<1>8. "Reversal" \notin SessionEntries /\ "Reversal" # Repayment /\ "Reversal" \notin DealerEntries
  BY Zenon DEF SessionEntries, Repayment, DealerEntries
<1>9. t # None
  <2>1. t \in Nat
    BY LenProperties DEF TypeInv, TypeOK
  <2> QED
    BY <2>1, VenueAssumption
<1>10. Linking(q.dayId, q.type, q.playerId, q.sessionId, q.tableId, q.reversesId)
  BY <1>5, <1>6, <1>7, <1>8, <1>9, Zenon DEF Linking
<1>11. AmountGiven(q) /\ Repeats(q)
  BY <1>1, <1>5 DEF AmountGiven, Repeats
<1>12. Fresh(q)
  BY <1>5, <1>6, <1>10, <1>11, LinksAre DEF Fresh
<1> QED
  BY <1>3, <1>4, <1>12

LEMMA FreshRequest ==
    ASSUME TypeInv, PlayersKnown, RequestsLinked, EntriesCopied, NEW a \in Staff, RequestStep(a)
    PROVE  \E q \in RequestType : Submit(q) /\ Requested(q) /\ Fresh(q)
BY FreshVisitRequest, FreshEntryRequest, FreshReversal DEF RequestStep

\* The first i votes complete a review of the level.
DoneBy(level, votes, i) ==
    i > 0 /\ (level = "DUAL" => i >= 2 /\ \E j \in 1 .. i : votes[j].role = "ADMIN")

LEMMA CompleteIs ==
    ASSUME NEW q, q.votes \in Seq(VoteType), NEW i \in 0 .. Len(q.votes)
    PROVE  CompleteAt(q, i) <=> DoneBy(q.level, q.votes, i)
<1> DEFINE first == SubSeq(q.votes, 1, i)
<1>1. Len(q.votes) \in Nat /\ DOMAIN q.votes = 1 .. Len(q.votes) /\ i \in Int
  BY LenProperties
<1>2. \A j \in 1 .. i : q.votes[j] \in VoteType
  BY <1>1, ElementOfSeq
<1>3. /\ first \in Seq(VoteType) /\ Len(first) = (IF 1 <= i THEN i - 1 + 1 ELSE 0)
      /\ \A j \in 1 .. i - 1 + 1 : first[j] = q.votes[1 + j - 1]
  BY <1>1, <1>2, SubSeqProperties
<1>4. Len(first) = i /\ DOMAIN first = 1 .. i
  BY <1>1, <1>3, LenProperties
<1>5. \A j \in 1 .. i : first[j] = q.votes[j]
  BY <1>1, <1>3
<1> HIDE DEF first
<1> QED
  BY <1>1, <1>4, <1>5 DEF CompleteAt, ReviewComplete, DoneBy, first

\* A request is approved by the vote that completes its review, and no vote follows.
VotesTell(q) ==
    /\ \A i \in DOMAIN q.votes : ~CompleteAt(q, i - 1)
    /\ q.status = "APPROVED" <=> CompleteAt(q, Len(q.votes))

LEMMA VoteTells ==
    ASSUME NEW q \in RequestType, VotesTell(q), q.status = "PENDING", NEW a \in Staff,
           NEW new, new.votes = Append(q.votes, Vote(a)), new.level = q.level,
           new.status = "APPROVED" <=> ReviewComplete(q.level, new.votes)
    PROVE  VotesTell(new)
<1> DEFINE n == Len(q.votes)
<1>1. Vote(a) \in VoteType
  BY VenueAssumption DEF Vote, VoteType, StaffIds
<1>2. q.votes \in Seq(VoteType)
  BY DEF RequestType
<1>3. /\ new.votes \in Seq(VoteType) /\ Len(new.votes) = n + 1 /\ n \in Nat
      /\ DOMAIN q.votes = 1 .. n /\ DOMAIN new.votes = 1 .. n + 1
      /\ \A i \in 1 .. n : new.votes[i] = q.votes[i]
  BY <1>1, <1>2, AppendToSeq, LenProperties
<1> HIDE DEF n
<1>4. ASSUME NEW i \in 0 .. n
      PROVE  ~CompleteAt(new, i)
  <2>1. CompleteAt(new, i) <=> CompleteAt(q, i)
    <3>1. CompleteAt(new, i) <=> DoneBy(q.level, new.votes, i)
      <4>1. i \in 0 .. Len(new.votes)
        BY <1>3
      <4>2. CompleteAt(new, i) <=> DoneBy(new.level, new.votes, i)
        BY <1>3, <4>1, CompleteIs
      <4> QED
        BY <4>2
    <3>2. CompleteAt(q, i) <=> DoneBy(q.level, q.votes, i)
      BY <1>2, CompleteIs DEF n
    <3>3. DoneBy(q.level, new.votes, i) <=> DoneBy(q.level, q.votes, i)
      BY <1>3 DEF DoneBy
    <3> QED
      BY <3>1, <3>2, <3>3
  <2>2. CASE i = n
    BY <2>1, <2>2 DEF VotesTell, n
  <2>3. CASE i # n
    <3>1. i + 1 \in DOMAIN q.votes /\ (i + 1) - 1 = i
      BY <1>3, <2>3
    <3> QED
      BY <2>1, <3>1 DEF VotesTell
  <2> QED
    BY <2>2, <2>3
<1>5. \A i \in DOMAIN new.votes : i - 1 \in 0 .. n
  BY <1>3
<1>6. CompleteAt(new, n + 1) <=> ReviewComplete(q.level, new.votes)
  <2>1. CompleteAt(new, n + 1) <=> DoneBy(q.level, new.votes, n + 1)
    <3>1. n + 1 \in 0 .. Len(new.votes)
      BY <1>3
    <3>2. CompleteAt(new, n + 1) <=> DoneBy(new.level, new.votes, n + 1)
      BY <1>3, <3>1, CompleteIs
    <3> QED
      BY <3>2
  <2> QED
    BY <1>3, <2>1 DEF DoneBy, ReviewComplete
<1> QED
  BY <1>3, <1>4, <1>5, <1>6 DEF VotesTell

\* A reversal under review is the only one of its entry, and entries are reversed once.
ReversedOnce ==
    /\ \A r \in PendingRequests : approvals[r].reversesId # None =>
          /\ ReversalsOf(approvals[r].reversesId) = {}
          /\ \A s \in PendingRequests \ {r} : approvals[s].reversesId # approvals[r].reversesId
    /\ \A t, u \in DOMAIN transactions :
          transactions[t].reversesId # None /\ transactions[u].reversesId = transactions[t].reversesId
            => t = u

RequestsRight ==
    \A r \in DOMAIN approvals :
        AmountGiven(approvals[r]) /\ Repeats(approvals[r]) /\ VotesTell(approvals[r])

RecordsInv == RequestsLinked /\ EntriesCopied /\ RequestsRight /\ ReversedOnce

LEMMA PostedFields ==
    ASSUME NEW r
    PROVE  Copied(Posting(r), approvals[r]) /\ Posting(r).approvalId = r
BY DEF Posting, Copied

LEMMA OldLinksStay ==
    ASSUME TypeInv, RequestsLinked, Grows, Stays, NEW r \in DOMAIN approvals
    PROVE  LinksSound(approvals[r])'
<1>1. PICK q : q = approvals[r]
  OBVIOUS
<1>2. PICK e : e = approvals'[r]
  OBVIOUS
<1>3. q \in RequestType
  BY <1>1, ElementOfSeq, LenProperties DEF TypeInv, TypeOK
<1>4. /\ e.dayId = q.dayId /\ e.type = q.type /\ e.playerId = q.playerId
      /\ e.sessionId = q.sessionId /\ e.tableId = q.tableId /\ e.reversesId = q.reversesId
  BY <1>1, <1>2 DEF Grows, SameBut
<1>5. Linking(q.dayId, q.type, q.playerId, q.sessionId, q.tableId, q.reversesId)
  BY <1>1, LinksAre DEF RequestsLinked
<1>6. q.playerId \in Players \cup {None} /\ q.tableId \in Tables \cup {None}
  BY <1>3 DEF RequestType
<1>7. Linking(q.dayId, q.type, q.playerId, q.sessionId, q.tableId, q.reversesId)'
  BY <1>5, <1>6, LinkingStays
<1>8. LinksSound(e)'
  BY <1>4, <1>7, LinksAre
<1> QED
  BY <1>2, <1>8 DEF LinksSound

LEMMA RequestRecords ==
    ASSUME TypeInv, RecordsInv, Grows, Stays,
           NEW q \in RequestType, Submit(q), Requested(q), Fresh(q)
    PROVE  RecordsInv'
<1>1. approvals \in Seq(RequestType) /\ approvals' = Append(approvals, q)
  BY DEF TypeInv, TypeOK, Submit
<1>2. PICK new : /\ DOMAIN approvals' = DOMAIN approvals \cup {new} /\ new \notin DOMAIN approvals
                 /\ \A r \in DOMAIN approvals : approvals'[r] = approvals[r]
                 /\ approvals'[new] = q
  BY <1>1, AppendToSeq
<1>3. UNCHANGED <<days, profiles, tables, sessions, transactions>>
  BY DEF Submit
<1>4. RequestsLinked'
  <2>1. LinksSound(q)'
    BY <1>3 DEF Fresh, LinksSound, PlayerKnown, TableKnown, IsCredit
  <2>2. LinksSound(approvals[new])'
    BY <1>2, <2>1 DEF LinksSound
  <2> QED
    BY <1>2, <2>2, OldLinksStay DEF RequestsLinked, RecordsInv
<1>5. EntriesCopied'
  BY <1>2, <1>3 DEF EntriesCopied, RecordsInv
<1>6. RequestsRight'
  <2>1. VotesTell(q)
    <3>1. q.votes = <<>> /\ q.status = "PENDING"
      BY DEF Requested
    <3>2. Len(q.votes) = 0 /\ DOMAIN q.votes = {}
      BY <3>1, EmptySeq
    <3> QED
      BY <3>1, <3>2 DEF VotesTell, CompleteAt
  <2> QED
    BY <1>2, <1>3, <2>1 DEF RequestsRight, RecordsInv, Fresh, Repeats, AmountGiven
<1>7. ReversedOnce'
  <2>1. q.reversesId # None => /\ ReversalsOf(q.reversesId) = {}
                               /\ \A r \in PendingRequests : approvals[r].reversesId # q.reversesId
    BY DEF Fresh, NotBeingReversed
  <2>2. PendingRequests' \subseteq PendingRequests \cup {new} /\ PendingRequests \subseteq DOMAIN approvals
    BY <1>2 DEF PendingRequests
  <2>3. \A t : ReversalsOf(t)' = ReversalsOf(t)
    BY <1>3 DEF ReversalsOf
  <2> QED
    BY <1>2, <1>3, <2>1, <2>2, <2>3 DEF ReversedOnce, RecordsInv
<1> QED
  BY <1>4, <1>5, <1>6, <1>7 DEF RecordsInv

\* What a decision makes of the request and of the ledger.
LEMMA DecidedRecords ==
    ASSUME TypeInv, RecordsInv, Grows, Stays,
           NEW a \in Staff, NEW r \in DOMAIN approvals, Reject(a, r) \/ Approve(a, r)
    PROVE  RecordsInv'
<1>0. approvals \in Seq(RequestType) /\ transactions \in Seq(TxType) /\ approvals[r] \in RequestType
  BY ElementOfSeq, LenProperties DEF TypeInv, TypeOK
<1>1. approvals[r].status = "PENDING" /\ CanApprove(a, approvals[r]) /\ Decided(a, r)
  BY DecisionShape DEF Decided, CanApprove
<1>2. PICK new : /\ approvals' = [approvals EXCEPT ![r] = new]
                 /\ SameBut(approvals[r], new) /\ VotesTell(new)
                 /\ \/ UNCHANGED transactions /\ new.status # "APPROVED"
                    \/ /\ transactions' = Append(transactions, Posting(r))
                       /\ new.status = "APPROVED"
  <2> DEFINE old == approvals[r]
  <2>1. VotesTell(old)
    BY DEF RecordsInv, RequestsRight
  <2>2. CASE /\ approvals' = [approvals EXCEPT ![r] = [@ EXCEPT !.status = "REJECTED"]]
             /\ UNCHANGED transactions
    <3> DEFINE new == [approvals[r] EXCEPT !.status = "REJECTED"]
    <3>1. approvals' = [approvals EXCEPT ![r] = new]
      BY <2>2
    <3>2. new \in RequestType
      BY <1>0 DEF RequestType
    <3>3. /\ new.status = "REJECTED" /\ new.votes = old.votes /\ new.level = old.level
          /\ SameBut(old, new)
      BY <1>0, <3>2 DEF RequestType, SameBut
    <3> HIDE DEF new
    <3>4. VotesTell(new)
      BY <1>1, <2>1, <3>3 DEF VotesTell, CompleteAt
    <3> QED
      BY <2>2, <3>1, <3>3, <3>4
  <2>3. CASE /\ ~ReviewComplete(approvals[r].level, VotesWith(a, r))
             /\ approvals' = [approvals EXCEPT ![r] = Voted(a, r)] /\ UNCHANGED transactions
    <3>1. Voted(a, r) \in RequestType
      BY <1>0, DecidedType DEF Voted, VotesWith, Vote
    <3>2. /\ Voted(a, r).status = "PENDING" /\ Voted(a, r).level = old.level
          /\ Voted(a, r).votes = Append(old.votes, Vote(a))
          /\ SameBut(old, Voted(a, r))
      BY <1>0, <1>1, <3>1 DEF Voted, VotesWith, RequestType, SameBut
    <3>3. VotesTell(Voted(a, r))
      BY <1>0, <1>1, <2>1, <2>3, <3>2, VoteTells DEF VotesWith
    <3> QED
      BY <2>3, <3>2, <3>3
  <2>4. CASE /\ ReviewComplete(approvals[r].level, VotesWith(a, r))
             /\ approvals' = [approvals EXCEPT ![r] = Posted(a, r)]
             /\ transactions' = Append(transactions, Posting(r))
    <3>1. Posted(a, r) \in RequestType
      BY <1>0, DecidedType DEF Posted, VotesWith, Vote
    <3>2. /\ Posted(a, r).status = "APPROVED" /\ Posted(a, r).level = old.level
          /\ Posted(a, r).votes = Append(old.votes, Vote(a))
          /\ SameBut(old, Posted(a, r))
      BY <1>0, <3>1 DEF Posted, VotesWith, RequestType, SameBut
    <3>3. VotesTell(Posted(a, r))
      BY <1>0, <1>1, <2>1, <2>4, <3>2, VoteTells DEF VotesWith
    <3> QED
      BY <2>4, <3>2, <3>3
  <2> QED
    BY <1>1, <2>2, <2>3, <2>4 DEF Decided
<1>3. /\ DOMAIN approvals' = DOMAIN approvals /\ approvals'[r] = new
      /\ \A s \in DOMAIN approvals : s # r => approvals'[s] = approvals[s]
      /\ \A s \in DOMAIN approvals : SameBut(approvals[s], approvals'[s])
  BY <1>2 DEF Grows
<1>4. Posting(r) \in TxType
  BY PostingType
<1>5. \A t \in DOMAIN transactions : t \in DOMAIN transactions' /\ transactions'[t] = transactions[t]
  BY DEF Grows
<1>6. \A t \in DOMAIN transactions' : t \in DOMAIN transactions
         \/ /\ transactions'[t].approvalId = r /\ Copied(transactions'[t], approvals[r])
            /\ new.status = "APPROVED" /\ t = Len(transactions) + 1
  <2>1. CASE UNCHANGED transactions
    BY <2>1
  <2>2. CASE transactions' = Append(transactions, Posting(r)) /\ new.status = "APPROVED"
    <3>1. /\ DOMAIN transactions' = DOMAIN transactions \cup {Len(transactions) + 1}
          /\ transactions'[Len(transactions) + 1] = Posting(r)
      BY <1>0, <1>4, <2>2, AppendToSeq
    <3> QED
      BY <2>2, <3>1, PostedFields
  <2> QED
    BY <1>2, <2>1, <2>2
<1>7. RequestsLinked'
  BY <1>3, OldLinksStay DEF RequestsLinked, RecordsInv
<1>8. EntriesCopied'
  BY <1>3, <1>5, <1>6 DEF EntriesCopied, RecordsInv, Copied, SameBut
<1>9. RequestsRight'
  <2>1. ASSUME NEW s \in DOMAIN approvals
        PROVE  AmountGiven(approvals'[s]) /\ Repeats(approvals[s])' /\ VotesTell(approvals'[s])
    <3>1. AmountGiven(approvals'[s])
      BY <1>3 DEF RecordsInv, RequestsRight, AmountGiven, SameBut
    <3>2. approvals[s].reversesId # None => approvals[s].reversesId \in DOMAIN transactions
      BY DEF TypeInv, Linked, ReversalLinked
    <3>3. Repeats(approvals[s])'
      BY <1>3, <1>5, <3>2 DEF RecordsInv, RequestsRight, Repeats, SameBut
    <3>4. VotesTell(approvals'[s])
      BY <1>2, <1>3 DEF RecordsInv, RequestsRight
    <3> QED
      BY <3>1, <3>3, <3>4
  <2> QED
    BY <1>3, <2>1 DEF RequestsRight, AmountGiven, VotesTell
<1>10. ReversedOnce'
  <2>1. \A s \in DOMAIN approvals : approvals'[s].reversesId = approvals[s].reversesId
    BY <1>3 DEF SameBut
  <2>2. r \in PendingRequests /\ PendingRequests' \subseteq PendingRequests
        /\ PendingRequests \subseteq DOMAIN approvals
    BY <1>1, <1>3 DEF PendingRequests
  <2>3. \A t \in DOMAIN transactions' : t \in DOMAIN transactions
           \/ /\ transactions'[t].reversesId = approvals[r].reversesId
              /\ r \notin PendingRequests' /\ t = Len(transactions) + 1
    BY <1>3, <1>6 DEF Copied, PendingRequests
  <2>4. ASSUME NEW s \in PendingRequests', approvals[s].reversesId # None,
               NEW t \in DOMAIN transactions'
        PROVE  transactions'[t].reversesId # approvals[s].reversesId
    <3>1. s \in PendingRequests
      BY <2>2
    <3>2. CASE t \in DOMAIN transactions
      BY <1>5, <2>4, <3>1, <3>2 DEF ReversalsOf, ReversedOnce, RecordsInv
    <3>3. CASE transactions'[t].reversesId = approvals[r].reversesId /\ r \notin PendingRequests'
      BY <2>2, <2>4, <3>1, <3>3 DEF ReversedOnce, RecordsInv
    <3> QED
      BY <2>3, <3>2, <3>3
  <2>5. approvals[r].reversesId # None =>
           \A t \in DOMAIN transactions : transactions[t].reversesId # approvals[r].reversesId
    BY <2>2 DEF ReversalsOf, ReversedOnce, RecordsInv
  <2>6. \A t, u \in DOMAIN transactions' :
           transactions'[t].reversesId # None /\ transactions'[u].reversesId = transactions'[t].reversesId
             => t = u
    BY <1>5, <2>3, <2>5 DEF ReversedOnce, RecordsInv
  <2>7. ASSUME NEW s \in PendingRequests', approvals'[s].reversesId # None
        PROVE  /\ \A t \in DOMAIN transactions' : transactions'[t].reversesId # approvals'[s].reversesId
               /\ \A x \in PendingRequests' \ {s} : approvals'[x].reversesId # approvals'[s].reversesId
    <3>1. s \in PendingRequests /\ approvals'[s].reversesId = approvals[s].reversesId
      BY <2>1, <2>2
    <3>2. \A x \in PendingRequests' \ {s} :
             x \in PendingRequests \ {s} /\ approvals'[x].reversesId = approvals[x].reversesId
      BY <2>1, <2>2
    <3> QED
      BY <2>4, <2>7, <3>1, <3>2 DEF ReversedOnce, RecordsInv
  <2> QED
    BY <2>6, <2>7 DEF ReversedOnce, ReversalsOf
<1> QED
  BY <1>7, <1>8, <1>9, <1>10 DEF RecordsInv

LEMMA NextRecordsInv ==
    ASSUME TypeInv, PlayersKnown, RecordsInv, Stays, [Next]_vars
    PROVE  RecordsInv'
<1>1. Grows
  BY NextGrows
<1>2. ASSUME UNCHANGED <<approvals, transactions>>
      PROVE  RecordsInv'
  <2>1. RequestsLinked'
    BY <1>1, <1>2, OldLinksStay DEF RecordsInv, RequestsLinked
  <2>2. EntriesCopied' /\ RequestsRight'
    BY <1>2 DEF RecordsInv, EntriesCopied, RequestsRight, Repeats
  <2>3. ReversedOnce'
    BY <1>2 DEF RecordsInv, ReversedOnce, PendingRequests, ReversalsOf
  <2> QED
    BY <2>1, <2>2, <2>3 DEF RecordsInv
<1>3. ASSUME NEW a \in Staff, RequestStep(a)
      PROVE  RecordsInv'
  BY <1>1, <1>3, FreshRequest, RequestRecords DEF RecordsInv
<1>4. ASSUME NEW a \in Staff, NEW r \in DOMAIN approvals, Reject(a, r) \/ Approve(a, r)
      PROVE  RecordsInv'
  BY <1>1, <1>4, DecidedRecords
<1> QED
  BY <1>2, <1>3, <1>4, NextKinds DEF Quiet

-----------------------------------------------------------------------------
(* The replay.  Every entry is compared with the entries before it, and     *)
(* what lies before an entry does not change; so only the entry a decision  *)
(* adds is left to compare with the records of the moment.                  *)

\* The cash-outs of a visit that stand.
StandingOf(v) == {u \in DOMAIN transactions : Standing(u) /\ transactions[u].sessionId = v}

\* The player's debt before an entry, as a sum over his earlier entries.
OwedBefore(p, t) == SumFunctionOnSet(Credits, LedgerOf(p) \cap Before(t))

\* The past of an entry stays as it was.
LEMMA PastStays ==
    ASSUME TypeInv, Grows, NEW t \in 1 .. Len(transactions) + 1
    PROVE  /\ \A v : SettledBefore(v, t)' = SettledBefore(v, t)
           /\ \A p : OwedBefore(p, t)' = OwedBefore(p, t)
<1>1. Len(transactions) \in Nat /\ DOMAIN transactions = 1 .. Len(transactions)
  BY LenProperties DEF TypeInv, TypeOK
<1>2. Before(t) \subseteq DOMAIN transactions
  BY <1>1 DEF Before
<1>3. /\ DOMAIN transactions \subseteq DOMAIN transactions'
      /\ \A u \in DOMAIN transactions : transactions'[u] = transactions[u]
  BY DEF Grows
<1>4. \A u : ReversalsOf(u)' \cap Before(t) = ReversalsOf(u) \cap Before(t)
  BY <1>2, <1>3 DEF ReversalsOf
<1>5. \A v : SettledBefore(v, t)' = SettledBefore(v, t)
  BY <1>2, <1>3, <1>4 DEF SettledBefore, Before
<1>6. ASSUME NEW p
      PROVE  OwedBefore(p, t)' = OwedBefore(p, t)
  <2> DEFINE S == LedgerOf(p) \cap Before(t)
  <2>1. S \subseteq DOMAIN transactions /\ LedgerOf(p)' \cap Before(t) = S
    BY <1>2, <1>3 DEF LedgerOf
  <2>2. IsFiniteSet(S)
    BY <2>1, LedgerFinite, FS_Subset
  <2>3. \A u \in S : Credits'[u] = Credits[u]
    BY <1>3, <2>1 DEF Credits
  <2>4. SumFunctionOnSet(Credits', S) = SumFunctionOnSet(Credits, S)
    BY <2>2, <2>3, SumSame
  <2> QED
    BY <2>1, <2>4 DEF OwedBefore, Before
<1> QED
  BY <1>5, <1>6

\* All that is posted is the past of the entry to come.
LEMMA WholePast ==
    ASSUME TypeInv
    PROVE  /\ Before(Last) = DOMAIN transactions /\ Last \notin DOMAIN transactions
           /\ Last \in 1 .. Len(transactions) + 1 /\ DOMAIN transactions \subseteq 1 .. Len(transactions) + 1
           /\ \A v : SettledBefore(v, Last) = StandingOf(v)
           /\ \A p : OwedBefore(p, Last) = SumFunctionOnSet(Credits, LedgerOf(p))
<1>1. Len(transactions) \in Nat /\ DOMAIN transactions = 1 .. Len(transactions)
  BY LenProperties DEF TypeInv, TypeOK
<1>2. /\ Before(Last) = DOMAIN transactions /\ Last \notin DOMAIN transactions
      /\ Last \in 1 .. Len(transactions) + 1 /\ DOMAIN transactions \subseteq 1 .. Len(transactions) + 1
  BY <1>1 DEF Before, Last
<1>3. \A u : ReversalsOf(u) \cap Before(Last) = ReversalsOf(u)
  BY <1>2 DEF ReversalsOf
<1>4. \A v : SettledBefore(v, Last) = StandingOf(v)
  BY <1>2, <1>3 DEF SettledBefore, StandingOf, Standing
<1>5. \A p : LedgerOf(p) \cap Before(Last) = LedgerOf(p)
  BY <1>2 DEF LedgerOf
<1> QED
  BY <1>2, <1>4, <1>5 DEF OwedBefore

\* An entry is only reversed by a later one.
ReversesEarlier(t) ==
    transactions[t].reversesId # None => transactions[t].reversesId \in Before(t)

\* What is cashed out when an entry is posted.
Undoes(t, type) ==
    transactions[t].reversesId # None /\ transactions[transactions[t].reversesId].type = type
SettledRight(t) ==
    LET tx == transactions[t] IN
    /\ tx.type \in SessionEntries \/ Undoes(t, "Buy-in") => SettledBefore(tx.sessionId, t) = {}
    /\ Undoes(t, "Cash-out") => SettledBefore(tx.sessionId, t) = {tx.reversesId}

\* What an entry does, given the one it undoes and the debt there was.
Effect(tx, original, type, amount, credit, debt) ==
    LET impact == IF tx.reversesId # None THEN ReversalImpact(original)
                  ELSE EntryImpact(type, amount, credit, debt)
    IN  /\ \A f \in {"amount", "cashReceived", "cashPayout", "creditDelta"} : tx[f] = impact[f]
        /\ tx.playerId # None => debt + tx.creditDelta >= 0
EffectRight(t) ==
    LET tx == transactions[t]
        q  == approvals[tx.approvalId]
    IN  Effect(tx, transactions[tx.reversesId], q.type, q.amount, IsCredit(tx.playerId),
               IF tx.playerId = None THEN 0 ELSE OwedBefore(tx.playerId, t))

ReplayInv ==
    \A t \in DOMAIN transactions : ReversesEarlier(t) /\ SettledRight(t) /\ EffectRight(t)

LEMMA OldEntryReplays ==
    ASSUME TypeInv, PlayersKnown, EntriesCopied, ReplayInv, Grows, Stays,
           NEW t \in DOMAIN transactions
    PROVE  (ReversesEarlier(t) /\ SettledRight(t) /\ EffectRight(t))'
<1>1. PICK tx : tx = transactions[t]
  OBVIOUS
<1>2. tx \in TxType /\ transactions'[t] = tx
  BY <1>1, LedgerFinite DEF Grows
<1>3. t \in 1 .. Len(transactions) + 1
  BY WholePast
<1>4. tx.reversesId # None => tx.reversesId \in DOMAIN transactions
  <2>1. Before(t) \subseteq DOMAIN transactions
    <3>1. Len(transactions) \in Nat /\ DOMAIN transactions = 1 .. Len(transactions)
      BY LenProperties DEF TypeInv, TypeOK
    <3> QED
      BY <3>1 DEF Before
  <2> QED
    BY <1>1, <2>1 DEF ReplayInv, ReversesEarlier
<1>5. PICK original : original = transactions[tx.reversesId]
  OBVIOUS
<1>6. tx.reversesId # None => transactions'[tx.reversesId] = original
  BY <1>4, <1>5 DEF Grows
<1>7. ReversesEarlier(t)'
  BY <1>1, <1>2 DEF ReplayInv, ReversesEarlier, Before
<1>8. SettledRight(t)'
  <2>1. PICK v : v = tx.sessionId
    OBVIOUS
  <2>2. SettledBefore(v, t)' = SettledBefore(v, t)
    BY <1>3, PastStays
  <2>3. SettledBefore(transactions[t].sessionId, t)' = SettledBefore(v, t)
    BY <1>2, <2>1, <2>2 DEF SettledBefore
  <2>4. \A type : Undoes(t, type)' <=> Undoes(t, type)
    BY <1>1, <1>2, <1>5, <1>6 DEF Undoes
  <2>5. SettledRight(t)
    BY DEF ReplayInv
  <2> QED
    BY <1>1, <1>2, <2>1, <2>3, <2>4, <2>5 DEF SettledRight
<1>9. EffectRight(t)'
  <2>1. PICK q : q = approvals[tx.approvalId]
    OBVIOUS
  <2>2. approvals'[tx.approvalId].type = q.type /\ approvals'[tx.approvalId].amount = q.amount
    BY <1>1, <2>1 DEF EntriesCopied, Grows, SameBut
  <2>3. PICK p : p = tx.playerId
    OBVIOUS
  <2>4. p \in Players \cup {None}
    BY <1>2, <2>3 DEF TxType
  <2>5. IsCredit(p)' = IsCredit(p)
    BY <1>1, <2>3, <2>4 DEF IsCredit, Stays, PlayersKnown, Registered, PlayerKnown
  <2>6. IsCredit(transactions[t].playerId)' = IsCredit(p)
    BY <1>2, <2>3, <2>5 DEF IsCredit
  <2>7. OwedBefore(p, t)' = OwedBefore(p, t)
    BY <1>3, PastStays
  <2>8. OwedBefore(transactions[t].playerId, t)' = OwedBefore(p, t)
    <3>1. LedgerOf(transactions[t].playerId)' = LedgerOf(p)'
      BY <1>2, <2>3 DEF LedgerOf
    <3> QED
      BY <2>7, <3>1 DEF OwedBefore
  <2>9. PICK debt : debt = (IF p = None THEN 0 ELSE OwedBefore(p, t))
    OBVIOUS
  <2>10. Effect(tx, original, q.type, q.amount, IsCredit(p), debt)
    BY <1>1, <1>5, <2>1, <2>3, <2>9 DEF ReplayInv, EffectRight
  <2>11. PICK other : other = transactions'[tx.reversesId]
    OBVIOUS
  <2>12. Effect(tx, other, q.type, q.amount, IsCredit(p), debt)
    BY <1>6, <2>10, <2>11 DEF Effect
  <2> QED
    BY <1>2, <2>2, <2>3, <2>6, <2>8, <2>9, <2>11, <2>12 DEF EffectRight
<1> QED
  BY <1>7, <1>8, <1>9

LEMMA NewEntryReplays ==
    ASSUME TypeInv, CreditInv, LedgerInv, LinkInv, Grows, NEW r \in DOMAIN approvals,
           approvals[r].status = "PENDING", Post(r), ValidEntry(approvals[r], r),
           UNCHANGED profiles, NEW last, last = Last
    PROVE  (ReversesEarlier(last) /\ SettledRight(last) /\ EffectRight(last))'
<1>1. PICK q : q = approvals[r]
  OBVIOUS
<1>2. q \in RequestType /\ ReversalLinked(q) /\ ReversalMatches(q)
  BY <1>1, ElementOfSeq, LenProperties DEF TypeInv, TypeOK, Linked, LinkInv, ReversalsMatch
<1>3. PICK tx : tx = Posting(r)
  OBVIOUS
<1>4. tx \in TxType /\ transactions'[last] = tx
  <2>1. tx \in TxType
    BY <1>3, PostingType
  <2>2. transactions \in Seq(TxType) /\ transactions' = Append(transactions, tx)
    BY <1>3 DEF TypeInv, TypeOK, Post
  <2> QED
    BY <2>1, <2>2, AppendToSeq DEF Last
<1>5. /\ tx.type = q.type /\ tx.sessionId = q.sessionId /\ tx.playerId = q.playerId
      /\ tx.reversesId = q.reversesId /\ tx.approvalId = r
  BY <1>1, <1>3, PostedFields DEF Copied
<1>6. q.reversesId # None =>
         /\ q.type = "Reversal" /\ q.reversesId \in DOMAIN transactions
         /\ transactions'[q.reversesId] = transactions[q.reversesId]
  BY <1>2 DEF ReversalLinked, Grows
<1>7. /\ Before(last) = DOMAIN transactions /\ last \in 1 .. Len(transactions) + 1
      /\ \A v : SettledBefore(v, last) = StandingOf(v)
      /\ \A p : OwedBefore(p, last) = SumFunctionOnSet(Credits, LedgerOf(p))
  BY WholePast
<1>8. ReversesEarlier(last)'
  BY <1>4, <1>5, <1>6, <1>7 DEF ReversesEarlier, Before
<1>9. SettledRight(last)'
  <2>1. PICK v : v = q.sessionId
    OBVIOUS
  <2>2. SettledBefore(v, last)' = StandingOf(v)
    BY <1>7, PastStays
  <2>3. SettledBefore(transactions[last].sessionId, last)' = StandingOf(v)
    BY <1>4, <1>5, <2>1, <2>2 DEF SettledBefore
  <2>4. \A type : Undoes(last, type)'
                    <=> q.reversesId # None /\ transactions[q.reversesId].type = type
    BY <1>4, <1>5, <1>6 DEF Undoes
  <2>5. v \in ActiveVisits => StandingOf(v) = {}
    BY DEF LinkInv, CashOutsStand, StandingOf
  <2>6. q.type \in SessionEntries => v \in ActiveVisits
    BY <1>1, <2>1 DEF ValidEntry, ValidSessionEntry, SessionEntries
  <2>7. q.reversesId # None =>
           /\ transactions[q.reversesId].type = "Buy-in" => v \in ActiveVisits
           /\ transactions[q.reversesId].type = "Cash-out" => StandingOf(v) = {q.reversesId}
    <3>1. q.reversesId # None => ValidReversal(q)
      BY <1>1, <1>6 DEF ValidEntry
    <3>2. q.reversesId # None => ReversalsOf(q.reversesId) = {}
      BY <3>1 DEF ValidReversal
    <3>3. q.reversesId # None /\ transactions[q.reversesId].type = "Buy-in" => v \in ActiveVisits
      BY <2>1, <3>1 DEF ValidReversal, BuyInVisitOpen
    <3>4. q.reversesId # None => transactions[q.reversesId].sessionId = v
      BY <1>2, <2>1 DEF ReversalMatches
    <3>5. q.reversesId # None /\ transactions[q.reversesId].type = "Cash-out"
            => q.reversesId \in StandingOf(v)
      BY <1>6, <3>2, <3>4 DEF StandingOf, Standing
    <3>6. \A t, u \in StandingOf(v) : t = u
      BY DEF LinkInv, CashOutsStand, StandingOf
    <3> QED
      BY <3>3, <3>5, <3>6
  <2> QED
    BY <1>4, <1>5, <2>3, <2>4, <2>5, <2>6, <2>7 DEF SettledRight
<1>10. EffectRight(last)'
  <2>1. PICK p : p = q.playerId
    OBVIOUS
  <2>2. p \in Players \cup {None}
    BY <1>2, <2>1 DEF RequestType
  <2>3. PICK debt : debt = (IF p = None THEN 0 ELSE outstanding[p])
    OBVIOUS
  <2>4. PICK original : original = transactions'[q.reversesId]
    OBVIOUS
  <2>5. PICK credit : credit = IsCredit(p)
    OBVIOUS
  <2>6. Effect(tx, original, q.type, q.amount, credit, debt)
    <3>1. \A f \in {"amount", "cashReceived", "cashPayout", "creditDelta"} :
             tx[f] = (IF q.reversesId # None THEN ReversalImpact(original)
                      ELSE EntryImpact(q.type, q.amount, credit, debt))[f]
      <4>1. CASE q.reversesId # None
        BY <1>1, <1>3, <1>6, <2>4, <4>1 DEF Posting
      <4>2. CASE q.reversesId = None
        <5>1. q.type # "Reversal"
          BY <1>2, <4>2 DEF ReversalLinked
        <5> QED
          BY <1>1, <1>3, <2>1, <2>3, <2>5, <4>2, <5>1 DEF Posting
      <4> QED
        BY <4>1, <4>2
    <3>2. p # None => debt + tx.creditDelta >= 0
      BY <1>1, <1>3, <2>1, <2>2, <2>3, PostedDebt
    <3> QED
      BY <1>5, <2>1, <3>1, <3>2 DEF Effect
  <2>7. approvals'[r].type = q.type /\ approvals'[r].amount = q.amount
    BY <1>1 DEF Grows, SameBut
  <2>8. IsCredit(transactions[last].playerId)' = credit
    BY <1>4, <1>5, <2>1, <2>5 DEF IsCredit
  <2>9. p # None => OwedBefore(p, last)' = outstanding[p]
    BY <1>7, <2>2, PastStays DEF LedgerInv, RollupsAddUp
  <2>10. OwedBefore(transactions[last].playerId, last)' = OwedBefore(p, last)'
    <3>1. LedgerOf(transactions[last].playerId)' = LedgerOf(p)'
      BY <1>4, <1>5, <2>1 DEF LedgerOf
    <3> QED
      BY <3>1 DEF OwedBefore
  <2> QED
    BY <1>4, <1>5, <2>1, <2>3, <2>4, <2>6, <2>7, <2>8, <2>9, <2>10 DEF EffectRight
<1> QED
  BY <1>8, <1>9, <1>10

LEMMA NextReplayInv ==
    ASSUME TypeInv, CreditInv, LedgerInv, LinkInv, EntriesCopied, ReplayInv, Stays, [Next]_vars
    PROVE  ReplayInv'
<1>1. Grows
  BY NextGrows
<1>2. \A t \in DOMAIN transactions : (ReversesEarlier(t) /\ SettledRight(t) /\ EffectRight(t))'
  BY <1>1, OldEntryReplays DEF CreditInv
<1>3. CASE UNCHANGED transactions
  BY <1>2, <1>3 DEF ReplayInv
<1>4. ASSUME NEW a \in Staff, NEW r \in DOMAIN approvals, Reject(a, r) \/ Approve(a, r)
      PROVE  ReplayInv'
  <2>1. CASE Post(r) /\ ValidEntry(approvals[r], r)
    <3>1. approvals[r].status = "PENDING"
      BY <1>4, DecisionMade
    <3>2. UNCHANGED profiles
      BY <1>4 DEF Reject, Approve
    <3>3. PICK last : last = Last
      OBVIOUS
    <3>4. (ReversesEarlier(last) /\ SettledRight(last) /\ EffectRight(last))'
      BY <1>1, <2>1, <3>1, <3>2, <3>3, NewEntryReplays
    <3>5. DOMAIN transactions' = DOMAIN transactions \cup {last}
      BY <2>1, <3>3, PostMoves DEF Last
    <3> QED
      BY <1>2, <3>4, <3>5 DEF ReplayInv
  <2> QED
    BY <1>3, <1>4, <2>1, DecisionMade
<1>5. ASSUME NEW a \in Staff, RequestStep(a)
      PROVE  UNCHANGED transactions
  BY <1>5 DEF RequestStep, RequestForVisit, RequestEntry, Correct, Submit
<1> QED
  BY <1>3, <1>4, <1>5, NextKinds DEF Quiet

\* The entry another one reverses is an original one.
LEMMA OriginalOf ==
    ASSUME TypeInv, EntriesCopied, NEW t \in DOMAIN transactions,
           NEW o, o = transactions[t].reversesId, o # None
    PROVE  /\ o \in DOMAIN transactions /\ transactions[o].reversesId = None
           /\ transactions[o].type # "Reversal"
<1>1. o \in DOMAIN transactions /\ transactions[o].reversesId = None
  BY DEF EntriesCopied, Copied, TypeInv, Linked, ReversalLinked
<1>2. transactions[o].type # "Reversal"
  BY <1>1 DEF EntriesCopied, Copied, TypeInv, Linked, ReversalLinked
<1> QED
  BY <1>1, <1>2

\* A visit that is over has a cash-out that stands.
OutRight ==
    \A v \in DOMAIN sessions : sessions[v].status = "OUT" => StandingOf(v) # {}

LEMMA PostOutRight ==
    ASSUME TypeInv, LinkInv, EntriesCopied, OutRight, NEW r \in DOMAIN approvals, Post(r)
    PROVE  OutRight'
<1>1. PICK q : q = approvals[r]
  OBVIOUS
<1>2. q \in RequestType /\ ReversalLinked(q) /\ ReversalMatches(q)
  BY <1>1, ElementOfSeq, LenProperties DEF TypeInv, TypeOK, Linked, LinkInv, ReversalsMatch
<1>3. PICK last : /\ last = Len(transactions) + 1
                  /\ DOMAIN transactions' = DOMAIN transactions \cup {last}
                  /\ last \notin DOMAIN transactions
                  /\ transactions'[last] = Posting(r)
  <2>1. transactions \in Seq(TxType) /\ transactions' = Append(transactions, Posting(r))
        /\ Posting(r) \in TxType
    BY PostingType DEF TypeInv, TypeOK, Post
  <2> QED
    BY <2>1, AppendToSeq
<1>4. /\ \A t \in DOMAIN transactions : transactions'[t] = transactions[t]
      /\ DOMAIN sessions' = DOMAIN sessions
      /\ \A v \in DOMAIN sessions :
            /\ v # q.sessionId \/ Settles(q) = "SAME" => sessions'[v].status = sessions[v].status
            /\ v = q.sessionId /\ Settles(q) # "SAME" => sessions'[v].status = Settles(q)
  BY <1>1, PostMoves
<1>5. /\ transactions'[last].type = q.type /\ transactions'[last].sessionId = q.sessionId
      /\ transactions'[last].reversesId = q.reversesId
  BY <1>1, <1>3, PostedFields DEF Copied
<1>6. last # None /\ \A t \in DOMAIN transactions : transactions[t].reversesId # last
  <2>1. last \in Nat
    BY <1>3, LenProperties DEF TypeInv, TypeOK
  <2>2. last # None
    BY <2>1, VenueAssumption
  <2> QED
    BY <1>3, <2>2, OriginalOf
<1>7. q.reversesId # last
  BY <1>2, <1>3, <1>6 DEF ReversalLinked
<1>8. ASSUME NEW v \in DOMAIN sessions, sessions'[v].status = "OUT"
      PROVE  \E u \in DOMAIN transactions' :
                /\ transactions'[u].type = "Cash-out" /\ transactions'[u].sessionId = v
                /\ \A t \in DOMAIN transactions' : transactions'[t].reversesId # u
  <2>1. CASE v = q.sessionId /\ q.type = "Cash-out"
    <3>1. \A t \in DOMAIN transactions' : transactions'[t].reversesId # last
      BY <1>3, <1>4, <1>5, <1>6, <1>7
    <3> QED
      BY <1>3, <1>5, <2>1, <3>1
  <2>2. CASE ~(v = q.sessionId /\ q.type = "Cash-out")
    <3>1. Settles(q) # "OUT" \/ v # q.sessionId
      BY <2>2 DEF Settles
    <3>2. v # q.sessionId \/ Settles(q) = "SAME"
      BY <1>4, <1>8, <3>1 DEF Settles
    <3>3. PICK u \in StandingOf(v) : TRUE
      BY <1>4, <1>8, <3>2 DEF OutRight
    <3>4. /\ u \in DOMAIN transactions /\ transactions[u].type = "Cash-out"
          /\ transactions[u].sessionId = v
          /\ \A t \in DOMAIN transactions : transactions[t].reversesId # u
      BY <3>3 DEF StandingOf, Standing, ReversalsOf
    <3>5. u # None
      <4>1. u \in Nat
        BY <3>4, LenProperties DEF TypeInv, TypeOK
      <4> QED
        BY <4>1, VenueAssumption
    <3>6. q.reversesId # u
      <4>1. SUFFICES ASSUME q.reversesId = u PROVE FALSE
        OBVIOUS
      <4>2. q.type = "Reversal" /\ q.sessionId = v
        BY <1>2, <3>4, <3>5, <4>1 DEF ReversalLinked, ReversalMatches
      <4>3. Settles(q) = "ACTIVE"
        BY <3>4, <4>1, <4>2 DEF Settles
      <4> QED
        BY <3>2, <4>2, <4>3
    <3> QED
      BY <1>3, <1>4, <1>5, <3>4, <3>6
  <2> QED
    BY <2>1, <2>2
<1> QED
  BY <1>4, <1>8 DEF OutRight, StandingOf, Standing, ReversalsOf

LEMMA NextOutRight ==
    ASSUME TypeInv, LinkInv, EntriesCopied, OutRight, [Next]_vars
    PROVE  OutRight'
<1>1. ASSUME UNCHANGED transactions,
             \A v \in DOMAIN sessions' : sessions'[v].status = "OUT" =>
                v \in DOMAIN sessions /\ sessions[v].status = "OUT"
      PROVE  OutRight'
  <2>1. \A v : StandingOf(v)' = StandingOf(v)
    BY <1>1 DEF StandingOf, Standing, ReversalsOf
  <2> QED
    BY <1>1, <2>1 DEF OutRight
<1>2. CASE Quiet
  BY <1>1, <1>2 DEF Quiet
<1>3. ASSUME NEW a \in Staff, RequestStep(a)
      PROVE  OutRight'
  <2>1. UNCHANGED <<transactions, sessions>>
    BY <1>3 DEF RequestStep, RequestForVisit, RequestEntry, Correct, Submit
  <2> QED
    BY <1>1, <2>1
<1>4. ASSUME NEW a \in Staff, NEW r \in DOMAIN approvals, Reject(a, r) \/ Approve(a, r)
      PROVE  OutRight'
  BY <1>1, <1>4, DecisionMade, PostOutRight
<1> QED
  BY <1>2, <1>3, <1>4, NextKinds

-----------------------------------------------------------------------------
(* What a backup of the records is checked for.                            *)

BackupInv == DaysRight /\ VisitsRight /\ RecordsInv /\ ReplayInv /\ OutRight

LEMMA BackupInvAlways == Spec => []BackupInv
<1>1. Init => BackupInv
  <2> SUFFICES ASSUME Init PROVE BackupInv
    OBVIOUS
  <2>1. /\ DOMAIN sessions = {} /\ DOMAIN transactions = {} /\ DOMAIN approvals = {}
        /\ DOMAIN days = {} /\ PendingRequests = {}
    BY EmptySeq DEF Init, PendingRequests
  <2>2. RecordsInv
    BY <2>1 DEF RecordsInv, RequestsLinked, EntriesCopied, RequestsRight, ReversedOnce
  <2> QED
    BY <2>1, <2>2 DEF BackupInv, DaysRight, VisitsRight, ReplayInv, OutRight
<1>2. TypeInv /\ CreditInv /\ LedgerInv /\ LinkInv /\ BackupInv /\ [Next]_vars => BackupInv'
  <2> SUFFICES ASSUME TypeInv, CreditInv, LedgerInv, LinkInv, BackupInv, [Next]_vars
               PROVE  BackupInv'
    OBVIOUS
  <2>1. Stays
    BY NextStays
  <2>2. DaysRight' /\ VisitsRight'
    BY <2>1, NextDaysRight, NextVisitsRight DEF BackupInv
  <2>3. RecordsInv'
    BY <2>1, NextRecordsInv DEF BackupInv, CreditInv
  <2>4. ReplayInv' /\ OutRight'
    BY <2>1, NextReplayInv, NextOutRight DEF BackupInv, RecordsInv
  <2> QED
    BY <2>2, <2>3, <2>4 DEF BackupInv
<1> QED
  BY <1>1, <1>2, TypeInvAlways, CreditInvAlways, LedgerInvAlways, LinkInvAlways, PTL DEF Spec

\* From the invariants to the checks, one part of BackupAccepted at a time.
LEMMA RecordsAccepted ==
    ASSUME TypeInv, CreditInv, RulesChecked, SeatingExclusive, BackupInv
    PROVE  ProfilesSound /\ DaysSound /\ TablesSound /\ VisitsSound
<1>1. ProfilesSound
  BY DEF ProfilesSound, CreditInv, CashLimits, IsCredit
<1>2. DaysSound
  BY DEF DaysSound, BackupInv, DaysRight, DayRight
<1>3. TablesSound
  BY DEF TablesSound, RulesChecked
<1>4. VisitsSound
  <2>1. \A v \in DOMAIN sessions : sessions[v] \in VisitType /\ sessions[v].playerId \in Players
    <3>1. \A v \in DOMAIN sessions : sessions[v] \in VisitType
      BY ElementOfSeq, LenProperties DEF TypeInv, TypeOK
    <3> QED
      BY <3>1 DEF VisitType
  <2>2. \A v \in DOMAIN sessions :
           PlayerKnown(sessions[v].playerId) /\ sessions[v].dayId \in DOMAIN days
             /\ TableKnown(sessions[v].tableId)
    BY <2>1 DEF CreditInv, PlayersKnown, Registered, PlayerKnown, BackupInv, VisitsRight
  <2>3. \A v \in ActiveVisits :
           /\ DayIsOpen /\ sessions[v].dayId = Today /\ TableOpen(sessions[v].tableId)
           /\ \A w \in ActiveVisits \ {v} :
                 /\ sessions[w].playerId # sessions[v].playerId
                 /\ <<sessions[w].tableId, sessions[w].seat>> # <<sessions[v].tableId, sessions[v].seat>>
    BY DEF SeatingExclusive, TableOpen
  <2> QED
    BY <2>2, <2>3 DEF VisitsSound
<1> QED
  BY <1>1, <1>2, <1>3, <1>4

LEMMA EntriesAccepted ==
    ASSUME TypeInv, PostedOnce, BackupInv
    PROVE  EntriesSound
<1> SUFFICES ASSUME NEW t \in DOMAIN transactions, NEW tx, tx = transactions[t],
                    NEW q, q = approvals[tx.approvalId]
             PROVE  /\ LinksSound(tx)
                    /\ \A u \in DOMAIN transactions \ {t} :
                          /\ transactions[u].approvalId # tx.approvalId
                          /\ tx.reversesId # None => transactions[u].reversesId # tx.reversesId
                    /\ tx.approvalId \in DOMAIN approvals /\ q.status = "APPROVED"
                    /\ \A f \in {"type", "dayId", "playerId", "sessionId", "tableId", "reversesId"} :
                          tx[f] = q[f]
  BY DEF EntriesSound
<1>1. LinksSound(tx)
  BY EntriesLinked DEF BackupInv, RecordsInv
<1>2. \A u \in DOMAIN transactions \ {t} :
         /\ transactions[u].approvalId # tx.approvalId
         /\ tx.reversesId # None => transactions[u].reversesId # tx.reversesId
  BY DEF PostedOnce, BackupInv, RecordsInv, ReversedOnce
<1>3. tx.approvalId \in DOMAIN approvals /\ Copied(tx, q)
  BY DEF BackupInv, RecordsInv, EntriesCopied
<1>4. q.status = "APPROVED"
  BY <1>3 DEF PostedOnce
<1> QED
  BY <1>1, <1>2, <1>3, <1>4 DEF Copied

LEMMA RequestsAccepted ==
    ASSUME TypeInv, CreditInv, LinkInv, PostedOnce, PendingCurrent, IndependentReview, BackupInv
    PROVE  RequestsSound
<1> SUFFICES ASSUME NEW r \in DOMAIN approvals, NEW q, q = approvals[r]
             PROVE  /\ LinksSound(q) /\ VotesSound(q)
                    /\ q.amount > 0 \/ q.type \in {"Cash-out", "Reversal"}
                    /\ q.status = "APPROVED" <=> CompleteAt(q, Len(q.votes))
                    /\ q.status = "APPROVED" <=> \E t \in DOMAIN transactions : transactions[t].approvalId = r
                    /\ q.status = "PENDING" => PendingSound(r)
                    /\ q.reversesId # None => ReversalSound(q)
  BY DEF RequestsSound
<1>1. q \in RequestType /\ ReversalLinked(q) /\ ReversalMatches(q)
  BY ElementOfSeq, LenProperties DEF TypeInv, TypeOK, Linked, LinkInv, ReversalsMatch
<1>2. LinksSound(q) /\ AmountGiven(q) /\ Repeats(q) /\ VotesTell(q)
  BY DEF BackupInv, RecordsInv, RequestsLinked, RequestsRight
<1>3. VotesSound(q)
  <2>1. q.votes \in Seq(VoteType) /\ Len(q.votes) \in Nat /\ DOMAIN q.votes = 1 .. Len(q.votes)
    BY <1>1, LenProperties DEF RequestType
  <2>2. \A i \in DOMAIN q.votes : \A j \in 1 .. (i - 1) : j \in DOMAIN q.votes /\ j # i
    BY <2>1
  <2>3. ReviewedIndependently(q)
    BY DEF IndependentReview
  <2>4. ASSUME NEW i \in DOMAIN q.votes
        PROVE  /\ ~CompleteAt(q, i - 1)
               /\ q.votes[i].staffId # q.requestedById
               /\ q.votes[i].role \in (IF q.level = "ADMIN" THEN {"ADMIN"} ELSE Supervisors)
               /\ \A j \in 1 .. (i - 1) : q.votes[j].staffId # q.votes[i].staffId
    <3>1. ~CompleteAt(q, i - 1)
      BY <1>2 DEF VotesTell
    <3>2. /\ q.votes[i].staffId # q.requestedById
          /\ q.votes[i].role \in (IF q.level = "ADMIN" THEN {"ADMIN"} ELSE Supervisors)
      BY <2>3 DEF ReviewedIndependently
    <3>3. \A j \in 1 .. (i - 1) : q.votes[j].staffId # q.votes[i].staffId
      BY <2>2, <2>3 DEF ReviewedIndependently
    <3> QED
      BY <3>1, <3>2, <3>3
  <2> QED
    BY <2>4 DEF VotesSound
<1>4. q.status = "APPROVED" <=> CompleteAt(q, Len(q.votes))
  BY <1>2 DEF VotesTell
<1>5. q.status = "APPROVED" <=> \E t \in DOMAIN transactions : transactions[t].approvalId = r
  BY DEF PostedOnce
<1>6. ASSUME q.status = "PENDING"
      PROVE  PendingSound(r)
  <2>1. r \in PendingRequests
    BY <1>6 DEF PendingRequests
  <2>2. /\ DayIsOpen /\ q.dayId = Today
        /\ q.type \in SessionEntries =>
              q.sessionId \in ActiveVisits /\ sessions[q.sessionId].tableId = q.tableId
        /\ q.type = "Reversal" /\ transactions[q.reversesId].type = "Buy-in"
              => q.sessionId \in ActiveVisits
    BY <2>1 DEF PendingCurrent
  <2>3. q.reversesId # None =>
           /\ q.type = "Reversal"
           /\ ReversalsOf(q.reversesId) = {}
           /\ \A s \in PendingRequests \ {r} : approvals[s].reversesId # q.reversesId
    BY <1>1, <2>1 DEF ReversalLinked, BackupInv, RecordsInv, ReversedOnce
  <2> QED
    BY <2>2, <2>3 DEF PendingSound
<1>7. ASSUME q.reversesId # None
      PROVE  ReversalSound(q)
  <2>1. PICK tx : tx = transactions[q.reversesId]
    OBVIOUS
  <2>2. q.reversesId \in DOMAIN transactions /\ tx.reversesId = None
    BY <1>1, <1>7, <2>1 DEF ReversalLinked
  <2>3. /\ q.dayId = tx.dayId /\ q.sessionId = tx.sessionId
        /\ q.tableId = tx.tableId /\ q.amount = tx.amount
    BY <1>1, <1>2, <1>7, <2>1 DEF ReversalMatches, Repeats
  <2>4. q.playerId = tx.playerId
    BY <1>7, <2>1 DEF CreditInv, ReversalsOfPlayer
  <2>5. \A f \in {"dayId", "playerId", "sessionId", "tableId", "amount"} : q[f] = tx[f]
    BY <2>3, <2>4
  <2> QED
    BY <2>1, <2>2, <2>5 DEF ReversalSound
<1> QED
  BY <1>2, <1>3, <1>4, <1>5, <1>6, <1>7 DEF AmountGiven

\* The replay's balance is the sum the invariant speaks of.
LEMMA BalanceIs ==
    ASSUME TypeInv
    PROVE  \A p, t : BalanceBefore(p, t) = OwedBefore(p, t)
<1> SUFFICES ASSUME NEW p, NEW t PROVE BalanceBefore(p, t) = OwedBefore(p, t)
  OBVIOUS
<1>1. LedgerOf(p) \cap Before(t) \in SUBSET DOMAIN transactions
  BY DEF LedgerOf
<1> QED
  BY <1>1, CreditsAddedUp DEF BalanceBefore, OwedBefore

LEMMA ReplayAccepted ==
    ASSUME TypeInv, BackupInv
    PROVE  ReplaySound
<1> SUFFICES ASSUME NEW t \in DOMAIN transactions
             PROVE  LET tx == transactions[t]
                        q  == approvals[tx.approvalId]
                        undone == IF tx.reversesId = None THEN "" ELSE transactions[tx.reversesId].type
                        debt == IF tx.playerId = None THEN 0 ELSE BalanceBefore(tx.playerId, t)
                        impact == IF tx.reversesId # None THEN ReversalImpact(transactions[tx.reversesId])
                                  ELSE EntryImpact(q.type, q.amount, IsCredit(tx.playerId), debt)
                    IN  /\ tx.reversesId # None => tx.reversesId \in Before(t) /\ undone # "Reversal"
                        /\ (tx.type \in SessionEntries \/ undone = "Buy-in") /\ tx.sessionId # None
                              => SettledBefore(tx.sessionId, t) = {}
                        /\ undone = "Cash-out" => SettledBefore(tx.sessionId, t) = {tx.reversesId}
                        /\ \A f \in {"amount", "cashReceived", "cashPayout", "creditDelta"} : tx[f] = impact[f]
                        /\ tx.playerId # None => debt + tx.creditDelta >= 0
  BY Zenon DEF ReplaySound
<1> DEFINE tx == transactions[t]
           q  == approvals[tx.approvalId]
           undone == IF tx.reversesId = None THEN "" ELSE transactions[tx.reversesId].type
           debt == IF tx.playerId = None THEN 0 ELSE BalanceBefore(tx.playerId, t)
           impact == IF tx.reversesId # None THEN ReversalImpact(transactions[tx.reversesId])
                     ELSE EntryImpact(q.type, q.amount, IsCredit(tx.playerId), debt)
<1>1. ReversesEarlier(t) /\ SettledRight(t) /\ EffectRight(t) /\ EntriesCopied
  BY DEF BackupInv, ReplayInv, RecordsInv
<1>2. tx.reversesId # None => tx.reversesId \in Before(t) /\ undone # "Reversal"
  BY <1>1, OriginalOf DEF ReversesEarlier
<1>3. \A type : type # "" => (Undoes(t, type) <=> undone = type)
  BY DEF Undoes
<1>4. /\ tx.type \in SessionEntries \/ undone = "Buy-in" => SettledBefore(tx.sessionId, t) = {}
      /\ undone = "Cash-out" => SettledBefore(tx.sessionId, t) = {tx.reversesId}
  BY <1>1, <1>3 DEF SettledRight
<1>5. debt = (IF tx.playerId = None THEN 0 ELSE OwedBefore(tx.playerId, t))
  BY BalanceIs
<1>6. Effect(tx, transactions[tx.reversesId], q.type, q.amount, IsCredit(tx.playerId), debt)
  BY <1>1, <1>5 DEF EffectRight
<1>7. /\ \A f \in {"amount", "cashReceived", "cashPayout", "creditDelta"} : tx[f] = impact[f]
      /\ tx.playerId # None => debt + tx.creditDelta >= 0
  BY <1>6 DEF Effect
<1> QED
  BY <1>2, <1>4, <1>7

LEMMA BalancesAccepted ==
    ASSUME TypeInv, CreditSafe, LedgerInv, LinkInv, BackupInv
    PROVE  BalancesSound
<1>1. ASSUME NEW p \in Players
      PROVE  BalanceBefore(p, Last) + (IF IsCredit(p) THEN ReservedCredit(p) ELSE 0)
               <= profiles[p].creditLimit
  <2>1. BalanceBefore(p, Last) = outstanding[p]
    BY BalanceIs, WholePast DEF LedgerInv, RollupsAddUp
  <2> QED
    BY <2>1 DEF CreditSafe
<1>2. ASSUME NEW v \in DOMAIN sessions
      PROVE  Cardinality(SettledBefore(v, Last)) = IF sessions[v].status = "OUT" THEN 1 ELSE 0
  <2>1. SettledBefore(v, Last) = StandingOf(v)
    BY WholePast
  <2>2. CASE sessions[v].status = "OUT"
    <3>1. PICK u : u \in StandingOf(v)
      BY <2>2 DEF BackupInv, OutRight
    <3>2. StandingOf(v) = {u}
      BY <3>1 DEF StandingOf, LinkInv, CashOutsStand
    <3> QED
      BY <2>1, <2>2, <3>2, FS_Singleton
  <2>3. CASE sessions[v].status # "OUT"
    <3>1. v \in ActiveVisits
      <4>1. sessions[v] \in VisitType
        BY ElementOfSeq, LenProperties DEF TypeInv, TypeOK
      <4> QED
        BY <2>3, <4>1 DEF VisitType, ActiveVisits
    <3>2. StandingOf(v) = {}
      BY <3>1 DEF StandingOf, LinkInv, CashOutsStand
    <3> QED
      BY <2>1, <2>3, <3>2, FS_EmptySet
  <2> QED
    BY <2>2, <2>3
<1>3. ASSUME NEW d \in DOMAIN days, days[d].status = "CLOSED"
      PROVE  days[d].closes[Len(days[d].closes)].expectedCash = days[d].openingCash + CashOn(d)
  <2>1. LedgerOn(d) \in SUBSET DOMAIN transactions
    BY DEF LedgerOn
  <2>2. dayCash[d] = CashOn(d)
    BY <2>1, CashAddedUp DEF CashOn, LedgerInv, RollupsAddUp
  <2> QED
    BY <1>3, <2>2 DEF BackupInv, DaysRight, DayRight, ExpectedCash
<1> QED
  BY <1>1, <1>2, <1>3 DEF BalancesSound

\* No sequence of commands leaves records that fail a check of
\* assertFinancialIntegrity or validateStore: a backup of a venue whose clock
\* keeps its order is always accepted when it is restored.
THEOREM BackupsAreAccepted == ~ClockMaySlip => (Spec => []BackupAccepted)
<1> SUFFICES ASSUME ~ClockMaySlip PROVE Spec => []BackupAccepted
  OBVIOUS
<1>1. TypeInv /\ CreditInv /\ CreditSafe /\ LedgerInv /\ LinkInv /\ RulesChecked
        /\ SeatingExclusive /\ PostedOnce /\ PendingCurrent /\ IndependentReview /\ BackupInv
          => BackupAccepted
  BY RecordsAccepted, EntriesAccepted, RequestsAccepted, ReplayAccepted, BalancesAccepted
     DEF BackupAccepted
<1> QED
  BY <1>1, TypeInvAlways, CreditInvAlways, CreditIsSafe, LedgerInvAlways, LinkInvAlways,
     RulesCheckedAlways, SeatingIsExclusive, ApprovalPostsOnce, PendingStaysCurrent,
     ReviewIsIndependent, BackupInvAlways, PTL

-----------------------------------------------------------------------------
(* What staff are shown.  The sums of the screens, as sums of functions.   *)

\* A function that adds up what F says of the elements has the sum of F as its value.
LEMMA AddsUp ==
    ASSUME NEW F, NEW S, IsFiniteSet(S), NEW sum,
           sum = [s \in SUBSET S |-> sum[s]],
           \A s \in SUBSET S : sum[s] = IF s = {} THEN 0 ELSE F[Chosen(s)] + sum[s \ {Chosen(s)}]
    PROVE  sum[S] = SumFunctionOnSet(F, S)
<1>1. Adds(sum, F, S)
  BY DEF Adds
<1>2. PICK it : Adds(it, F, S) /\ SumFunctionOnSet(F, S) = it[S]
  BY SumIs
<1> QED
  BY <1>1, <1>2, AddsAgree

\* One column of some entries.
Fields(field) == [t \in DOMAIN transactions |-> transactions[t][field]]

LEMMA FieldsAddedUp ==
    ASSUME TypeInv, NEW S \in SUBSET DOMAIN transactions, NEW field
    PROVE  Sum(S, field) = SumFunctionOnSet(Fields(field), S)
<1> DEFINE sum == CHOOSE iter : iter =
              [s \in SUBSET S |->
                 IF s = {} THEN 0
                 ELSE transactions[CHOOSE x \in s : TRUE][field]
                        + iter[s \ {CHOOSE x \in s : TRUE}]]
<1>1. Sum(S, field) = sum[S]
  BY DEF Sum, MapThenSumSet, MapThenFoldSet
<1>2. IsFiniteSet(S)
  BY LedgerFinite, FS_Subset
<1>3. PICK it : Adds(it, Fields(field), S)
  BY <1>2, SumIs
<1>4. \A s \in SUBSET S : s # {} => Fields(field)[Chosen(s)] = transactions[Chosen(s)][field]
  BY ChosenIn DEF Fields
<1>5. it = [s \in SUBSET S |->
              IF s = {} THEN 0
              ELSE transactions[CHOOSE x \in s : TRUE][field]
                     + it[s \ {CHOOSE x \in s : TRUE}]]
  BY <1>3, <1>4 DEF Adds, Chosen
<1>6. sum = [s \in SUBSET S |->
               IF s = {} THEN 0
               ELSE transactions[CHOOSE x \in s : TRUE][field]
                      + sum[s \ {CHOOSE x \in s : TRUE}]]
  BY <1>5
<1> HIDE DEF sum
<1>7. sum = [s \in SUBSET S |->
               IF s = {} THEN 0 ELSE transactions[Chosen(s)][field] + sum[s \ {Chosen(s)}]]
  BY <1>6 DEF Chosen
<1>8. DOMAIN sum = SUBSET S /\ sum = [s \in SUBSET S |-> sum[s]]
  <2>1. DOMAIN sum = SUBSET S
    BY <1>7, Zenon
  <2> QED
    BY <1>7, <2>1, Zenon
<1>9. \A s \in SUBSET S :
         sum[s] = IF s = {} THEN 0 ELSE Fields(field)[Chosen(s)] + sum[s \ {Chosen(s)}]
  BY <1>4, <1>7
<1>10. sum[S] = SumFunctionOnSet(Fields(field), S)
  BY <1>2, <1>8, <1>9, AddsUp
<1> QED
  BY <1>1, <1>10

\* A rolled-up column.
Columns(column) == [t \in DOMAIN transactions |-> Contribution(t, column)]

LEMMA ColumnsAddedUp ==
    ASSUME TypeInv, NEW S \in SUBSET DOMAIN transactions, NEW column
    PROVE  MapThenSumSet(LAMBDA t : Contribution(t, column), S)
             = SumFunctionOnSet(Columns(column), S)
<1> DEFINE sum == CHOOSE iter : iter =
              [s \in SUBSET S |->
                 IF s = {} THEN 0
                 ELSE Contribution(CHOOSE x \in s : TRUE, column)
                        + iter[s \ {CHOOSE x \in s : TRUE}]]
<1>1. MapThenSumSet(LAMBDA t : Contribution(t, column), S) = sum[S]
  BY DEF MapThenSumSet, MapThenFoldSet
<1>2. IsFiniteSet(S)
  BY LedgerFinite, FS_Subset
<1>3. PICK it : Adds(it, Columns(column), S)
  BY <1>2, SumIs
<1>4. \A s \in SUBSET S : s # {} => Columns(column)[Chosen(s)] = Contribution(Chosen(s), column)
  BY ChosenIn DEF Columns
<1>5. it = [s \in SUBSET S |->
              IF s = {} THEN 0
              ELSE Contribution(CHOOSE x \in s : TRUE, column)
                     + it[s \ {CHOOSE x \in s : TRUE}]]
  BY <1>3, <1>4 DEF Adds, Chosen
<1>6. sum = [s \in SUBSET S |->
               IF s = {} THEN 0
               ELSE Contribution(CHOOSE x \in s : TRUE, column)
                      + sum[s \ {CHOOSE x \in s : TRUE}]]
  BY <1>5
<1> HIDE DEF sum
<1>7. sum = [s \in SUBSET S |->
               IF s = {} THEN 0 ELSE Contribution(Chosen(s), column) + sum[s \ {Chosen(s)}]]
  BY <1>6 DEF Chosen
<1>8. DOMAIN sum = SUBSET S /\ sum = [s \in SUBSET S |-> sum[s]]
  <2>1. DOMAIN sum = SUBSET S
    BY <1>7, Zenon
  <2> QED
    BY <1>7, <2>1, Zenon
<1>9. \A s \in SUBSET S :
         sum[s] = IF s = {} THEN 0 ELSE Columns(column)[Chosen(s)] + sum[s \ {Chosen(s)}]
  BY <1>4, <1>7
<1>10. sum[S] = SumFunctionOnSet(Columns(column), S)
  BY <1>2, <1>8, <1>9, AddsUp
<1> QED
  BY <1>1, <1>10

\* The cash and the variance of some days.
Cash(s) == [d \in DOMAIN days |-> NetCash(s, d)]
Variance(s, d) == LastCount(d) - ExpectedOf(s, d)
Variances(s) == [d \in DOMAIN days |-> Variance(s, d)]

LEMMA DaysFinite ==
    ASSUME TypeInv
    PROVE  IsFiniteSet(DOMAIN days) /\ IsFiniteSet(DOMAIN sessions) /\ IsFiniteSet(DOMAIN approvals)
BY FS_Interval, LenProperties DEF TypeInv, TypeOK

LEMMA NetCashAddedUp ==
    ASSUME TypeInv, NEW S \in SUBSET DOMAIN days, NEW store
    PROVE  MapThenSumSet(LAMBDA d : NetCash(store, d), S) = SumFunctionOnSet(Cash(store), S)
<1> DEFINE sum == CHOOSE iter : iter =
              [s \in SUBSET S |->
                 IF s = {} THEN 0
                 ELSE NetCash(store, CHOOSE x \in s : TRUE)
                        + iter[s \ {CHOOSE x \in s : TRUE}]]
<1>1. MapThenSumSet(LAMBDA d : NetCash(store, d), S) = sum[S]
  BY DEF MapThenSumSet, MapThenFoldSet
<1>2. IsFiniteSet(S)
  BY DaysFinite, FS_Subset
<1>3. PICK it : Adds(it, Cash(store), S)
  BY <1>2, SumIs
<1>4. \A s \in SUBSET S : s # {} => Cash(store)[Chosen(s)] = NetCash(store, Chosen(s))
  BY ChosenIn DEF Cash
<1>5. it = [s \in SUBSET S |->
              IF s = {} THEN 0
              ELSE NetCash(store, CHOOSE x \in s : TRUE)
                     + it[s \ {CHOOSE x \in s : TRUE}]]
  BY <1>3, <1>4 DEF Adds, Chosen
<1>6. sum = [s \in SUBSET S |->
               IF s = {} THEN 0
               ELSE NetCash(store, CHOOSE x \in s : TRUE)
                      + sum[s \ {CHOOSE x \in s : TRUE}]]
  BY <1>5
<1> HIDE DEF sum
<1>7. sum = [s \in SUBSET S |->
               IF s = {} THEN 0 ELSE NetCash(store, Chosen(s)) + sum[s \ {Chosen(s)}]]
  BY <1>6 DEF Chosen
<1>8. DOMAIN sum = SUBSET S /\ sum = [s \in SUBSET S |-> sum[s]]
  <2>1. DOMAIN sum = SUBSET S
    BY <1>7, Zenon
  <2> QED
    BY <1>7, <2>1, Zenon
<1>9. \A s \in SUBSET S :
         sum[s] = IF s = {} THEN 0 ELSE Cash(store)[Chosen(s)] + sum[s \ {Chosen(s)}]
  BY <1>4, <1>7
<1>10. sum[S] = SumFunctionOnSet(Cash(store), S)
  BY <1>2, <1>8, <1>9, AddsUp
<1> QED
  BY <1>1, <1>10

LEMMA VarianceAddedUp ==
    ASSUME TypeInv, NEW S \in SUBSET DOMAIN days, NEW store
    PROVE  MapThenSumSet(LAMBDA d : LastCount(d) - ExpectedOf(store, d), S)
             = SumFunctionOnSet(Variances(store), S)
<1> DEFINE sum == CHOOSE iter : iter =
              [s \in SUBSET S |->
                 IF s = {} THEN 0
                 ELSE (LastCount(CHOOSE x \in s : TRUE) - ExpectedOf(store, CHOOSE x \in s : TRUE))
                        + iter[s \ {CHOOSE x \in s : TRUE}]]
<1>1. MapThenSumSet(LAMBDA d : LastCount(d) - ExpectedOf(store, d), S) = sum[S]
  BY DEF MapThenSumSet, MapThenFoldSet
<1>2. IsFiniteSet(S)
  BY DaysFinite, FS_Subset
<1>3. PICK it : Adds(it, Variances(store), S)
  BY <1>2, SumIs
<1>4. \A s \in SUBSET S : s # {} =>
         Variances(store)[Chosen(s)] = LastCount(Chosen(s)) - ExpectedOf(store, Chosen(s))
  BY ChosenIn DEF Variances, Variance
<1>5. it = [s \in SUBSET S |->
              IF s = {} THEN 0
              ELSE (LastCount(CHOOSE x \in s : TRUE) - ExpectedOf(store, CHOOSE x \in s : TRUE))
                     + it[s \ {CHOOSE x \in s : TRUE}]]
  BY <1>3, <1>4 DEF Adds, Chosen
<1>6. sum = [s \in SUBSET S |->
               IF s = {} THEN 0
               ELSE (LastCount(CHOOSE x \in s : TRUE) - ExpectedOf(store, CHOOSE x \in s : TRUE))
                      + sum[s \ {CHOOSE x \in s : TRUE}]]
  BY <1>5
<1> HIDE DEF sum
<1>7. sum = [s \in SUBSET S |->
               IF s = {} THEN 0
               ELSE (LastCount(Chosen(s)) - ExpectedOf(store, Chosen(s))) + sum[s \ {Chosen(s)}]]
  BY <1>6 DEF Chosen
<1>8. DOMAIN sum = SUBSET S /\ sum = [s \in SUBSET S |-> sum[s]]
  <2>1. DOMAIN sum = SUBSET S
    BY <1>7, Zenon
  <2> QED
    BY <1>7, <2>1, Zenon
<1>9. \A s \in SUBSET S :
         sum[s] = IF s = {} THEN 0 ELSE Variances(store)[Chosen(s)] + sum[s \ {Chosen(s)}]
  BY <1>4, <1>7
<1>10. sum[S] = SumFunctionOnSet(Variances(store), S)
  BY <1>2, <1>8, <1>9, AddsUp
<1> QED
  BY <1>1, <1>10

\* One element less in a sum.
LEMMA SumRemoved ==
    ASSUME NEW F, NEW S, IsFiniteSet(S), NEW x \in S, \A y \in S : F[y] \in Int
    PROVE  SumFunctionOnSet(F, S) = SumFunctionOnSet(F, S \ {x}) + F[x]
<1>1. IsFiniteSet(S \ {x}) /\ (S \ {x}) \cup {x} = S
  BY FS_RemoveElement
<1>2. SumFunctionOnSet(F, (S \ {x}) \cup {x}) = SumFunctionOnSet(F, S \ {x}) + F[x]
  BY <1>1, SumAdd
<1> QED
  BY <1>1, <1>2

\* A sum with signs is the sum over the elements counted less that over those deducted.
LEMMA SumWithSigns ==
    ASSUME NEW F, NEW G, NEW S, IsFiniteSet(S), NEW P \in SUBSET S, NEW M \in SUBSET S,
           P \cap M = {}, \A x \in S : F[x] \in Int,
           \A x \in S : G[x] = IF x \in P THEN F[x] ELSE IF x \in M THEN -F[x] ELSE 0
    PROVE  SumFunctionOnSet(G, S) = SumFunctionOnSet(F, P) - SumFunctionOnSet(F, M)
<1> DEFINE Right(s) == SumFunctionOnSet(G, s)
                         = SumFunctionOnSet(F, P \cap s) - SumFunctionOnSet(F, M \cap s)
           Bad == {s \in SUBSET S : ~Right(s)}
<1>1. SUFFICES ASSUME Bad # {} PROVE FALSE
  BY DEF Right
<1>2. PICK s \in Bad : \A u \in Bad : u \subseteq s => u = s
  <2>1. Bad \in SUBSET SUBSET S
    OBVIOUS
  <2> HIDE DEF Bad
  <2> QED
    BY <1>1, <2>1, SmallestOf
<1>3. s \in SUBSET S /\ ~Right(s)
  OBVIOUS
<1>4. Right({})
  <2>1. P \cap {} = {} /\ M \cap {} = {}
    OBVIOUS
  <2> QED
    BY <2>1, SumOfNone
<1>5. PICK x \in s : TRUE
  BY <1>3, <1>4
<1> DEFINE less == s \ {x}
<1>6. Right(less)
  <2>1. less \in SUBSET S /\ less \subseteq s /\ less # s
    BY <1>3, <1>5
  <2> HIDE DEF less, Right
  <2> QED
    BY <1>2, <2>1
<1>7. /\ IsFiniteSet(s) /\ IsFiniteSet(less)
      /\ IsFiniteSet(P \cap s) /\ IsFiniteSet(M \cap s)
      /\ IsFiniteSet(P \cap less) /\ IsFiniteSet(M \cap less)
  BY <1>3, FS_Subset
<1>8. /\ \A y \in S : F[y] \in Int /\ G[y] \in Int
      /\ SumFunctionOnSet(G, less) \in Int
      /\ SumFunctionOnSet(F, P \cap less) \in Int
      /\ SumFunctionOnSet(F, M \cap less) \in Int
  <2>1. \A y \in S : F[y] \in Int /\ G[y] \in Int
    OBVIOUS
  <2> QED
    BY <1>3, <1>7, <2>1, SumInt
<1>9. SumFunctionOnSet(G, s) = SumFunctionOnSet(G, less) + G[x]
  BY <1>3, <1>5, <1>7, <1>8, SumRemoved
<1>10. SumFunctionOnSet(F, P \cap s)
         = SumFunctionOnSet(F, P \cap less) + (IF x \in P THEN F[x] ELSE 0)
  <2>1. CASE x \in P
    <3>1. (P \cap s) \ {x} = P \cap less /\ x \in P \cap s
      BY <1>5, <2>1
    <3>2. SumFunctionOnSet(F, P \cap s) = SumFunctionOnSet(F, (P \cap s) \ {x}) + F[x]
      BY <1>7, <1>8, <3>1, SumRemoved
    <3> QED
      BY <2>1, <3>1, <3>2
  <2>2. CASE x \notin P
    <3>1. P \cap s = P \cap less
      BY <2>2
    <3>2. SumFunctionOnSet(F, P \cap s) = SumFunctionOnSet(F, P \cap less)
      BY <3>1
    <3> HIDE DEF less
    <3> QED
      BY <1>8, <2>2, <3>2
  <2> QED
    BY <2>1, <2>2
<1>11. SumFunctionOnSet(F, M \cap s)
         = SumFunctionOnSet(F, M \cap less) + (IF x \in M THEN F[x] ELSE 0)
  <2>1. CASE x \in M
    <3>1. (M \cap s) \ {x} = M \cap less /\ x \in M \cap s
      BY <1>5, <2>1
    <3>2. SumFunctionOnSet(F, M \cap s) = SumFunctionOnSet(F, (M \cap s) \ {x}) + F[x]
      BY <1>7, <1>8, <3>1, SumRemoved
    <3> QED
      BY <2>1, <3>1, <3>2
  <2>2. CASE x \notin M
    <3>1. M \cap s = M \cap less
      BY <2>2
    <3>2. SumFunctionOnSet(F, M \cap s) = SumFunctionOnSet(F, M \cap less)
      BY <3>1
    <3> HIDE DEF less
    <3> QED
      BY <1>8, <2>2, <3>2
  <2> QED
    BY <2>1, <2>2
<1>12. x \in S /\ ~(x \in P /\ x \in M) /\ F[x] \in Int
       /\ G[x] = IF x \in P THEN F[x] ELSE IF x \in M THEN -F[x] ELSE 0
  BY <1>3, <1>5
<1>13. SumFunctionOnSet(G, less)
         = SumFunctionOnSet(F, P \cap less) - SumFunctionOnSet(F, M \cap less)
  BY <1>6
<1>14. Right(s)
  <2> HIDE DEF less, Bad
  <2> QED
    BY <1>8, <1>9, <1>10, <1>11, <1>12, <1>13
<1> QED
  BY <1>3, <1>14

\* The types of entry a column counts, and those it deducts.
Counts(column) ==
    {type \in {"Buy-in", "Cash-out", "Rake", "Tips", "Insurance Premium", "Jackpot Contribution"} :
        Column(type) = column}
Deducts(column) == {type \in {"Insurance Payout", "Jackpot Payout"} : Column(type) = column}

LEMMA CountsAre ==
    /\ Counts("buyIn") = {"Buy-in"} /\ Deducts("buyIn") = {}
    /\ Counts("cashOut") = {"Cash-out"} /\ Deducts("cashOut") = {}
    /\ Counts("rake") = {"Rake"} /\ Deducts("rake") = {}
    /\ Counts("tips") = {"Tips"} /\ Deducts("tips") = {}
    /\ Counts("insurance") = {"Insurance Premium"} /\ Deducts("insurance") = {"Insurance Payout"}
    /\ Counts("jackpot") = {"Jackpot Contribution"} /\ Deducts("jackpot") = {"Jackpot Payout"}
BY Zenon DEF Counts, Deducts, Column

\* Every type in one of the columns is counted or deducted.
LEMMA ColumnIs ==
    ASSUME NEW type, NEW column, column # "none"
    PROVE  /\ type \in Counts(column) => type \notin {"Insurance Payout", "Jackpot Payout"}
           /\ type \in Deducts(column) => type \in {"Insurance Payout", "Jackpot Payout"}
           /\ Column(type) = column <=> type \in Counts(column) \/ type \in Deducts(column)
BY Zenon DEF Counts, Deducts, Column

\* A sum of differences.
LEMMA SumOfDifferences ==
    ASSUME NEW F, NEW H, NEW G, NEW S, IsFiniteSet(S),
           \A x \in S : F[x] \in Int /\ H[x] \in Int /\ G[x] = F[x] - H[x]
    PROVE  SumFunctionOnSet(G, S) = SumFunctionOnSet(F, S) - SumFunctionOnSet(H, S)
<1> DEFINE Right(s) == SumFunctionOnSet(G, s) = SumFunctionOnSet(F, s) - SumFunctionOnSet(H, s)
           Bad == {s \in SUBSET S : ~Right(s)}
<1>1. SUFFICES ASSUME Bad # {} PROVE FALSE
  BY DEF Right
<1>2. PICK s \in Bad : \A u \in Bad : u \subseteq s => u = s
  <2>1. Bad \in SUBSET SUBSET S
    OBVIOUS
  <2> HIDE DEF Bad
  <2> QED
    BY <1>1, <2>1, SmallestOf
<1>3. s \in SUBSET S /\ ~Right(s)
  OBVIOUS
<1>4. PICK x \in s : TRUE
  <2>1. Right({})
    BY SumOfNone
  <2> QED
    BY <1>3, <2>1
<1>5. PICK less : less = s \ {x}
  OBVIOUS
<1>6. Right(less)
  <2>1. less \in SUBSET S /\ less \subseteq s /\ less # s
    BY <1>3, <1>4, <1>5
  <2> HIDE DEF Right
  <2> QED
    BY <1>2, <2>1
<1>7. IsFiniteSet(s) /\ IsFiniteSet(less)
  BY <1>3, <1>5, FS_Subset
<1>8. /\ \A y \in S : F[y] \in Int /\ H[y] \in Int /\ G[y] \in Int
      /\ SumFunctionOnSet(F, less) \in Int /\ SumFunctionOnSet(H, less) \in Int
      /\ SumFunctionOnSet(G, less) \in Int
  <2>1. \A y \in S : F[y] \in Int /\ H[y] \in Int /\ G[y] \in Int
    OBVIOUS
  <2>2. less \subseteq S
    BY <1>3, <1>5
  <2> QED
    BY <1>7, <2>1, <2>2, SumInt
<1>9. /\ SumFunctionOnSet(F, s) = SumFunctionOnSet(F, less) + F[x]
      /\ SumFunctionOnSet(H, s) = SumFunctionOnSet(H, less) + H[x]
      /\ SumFunctionOnSet(G, s) = SumFunctionOnSet(G, less) + G[x]
  BY <1>3, <1>4, <1>5, <1>7, <1>8, SumRemoved
<1>10. x \in S /\ F[x] \in Int /\ H[x] \in Int /\ G[x] = F[x] - H[x]
  BY <1>3, <1>4
<1>11. SumFunctionOnSet(G, less) = SumFunctionOnSet(F, less) - SumFunctionOnSet(H, less)
  BY <1>6
<1>12. Right(s)
  <2> HIDE DEF Bad
  <2> QED
    BY <1>8, <1>9, <1>10, <1>11
<1> QED
  BY <1>3, <1>12

-----------------------------------------------------------------------------
(* The server's totals are those of the complete records.                  *)

LEMMA SumOfType ==
    ASSUME TypeInv, NEW S \in SUBSET DOMAIN transactions, NEW types
    PROVE  SumOf(S, types) \in Int /\ SumOf(S, {}) = 0
<1>1. \A t \in DOMAIN transactions : Fields("amount")[t] \in Int
  BY LedgerFinite DEF Fields, TxType
<1>2. \A T \in SUBSET DOMAIN transactions :
         Sum(T, "amount") = SumFunctionOnSet(Fields("amount"), T)
  BY FieldsAddedUp
<1>3. {t \in S : EntryTypeOf(t) \in {}} = {}
  OBVIOUS
<1>4. {t \in S : EntryTypeOf(t) \in types} \in SUBSET DOMAIN transactions
  OBVIOUS
<1>5. IsFiniteSet({t \in S : EntryTypeOf(t) \in types})
  BY <1>4, LedgerFinite, FS_Subset
<1>6. SumOf(S, types) \in Int
  <2>1. PICK T : T = {t \in S : EntryTypeOf(t) \in types}
    OBVIOUS
  <2>2. SumFunctionOnSet(Fields("amount"), T) \in Int
    BY <1>1, <1>4, <1>5, <2>1, SumInt
  <2> QED
    BY <1>2, <1>4, <2>1, <2>2 DEF SumOf
<1>7. SumOf(S, {}) = 0
  BY <1>2, <1>3, SumOfNone DEF SumOf
<1> QED
  BY <1>6, <1>7

\* A rolled-up column is the sum of what it counts less the sum of what it deducts.
LEMMA RollupIs ==
    ASSUME TypeInv, NEW scope, NEW column, column # "none",
           NEW S, S = {t \in DOMAIN transactions : scope \in Scopes(t)}
    PROVE  Rollup(scope, column) = SumOf(S, Counts(column)) - SumOf(S, Deducts(column))
<1> DEFINE P == {t \in S : EntryTypeOf(t) \in Counts(column)}
           M == {t \in S : EntryTypeOf(t) \in Deducts(column)}
<1>1. S \in SUBSET DOMAIN transactions /\ P \in SUBSET S /\ M \in SUBSET S
  OBVIOUS
<1>2. IsFiniteSet(S) /\ P \in SUBSET DOMAIN transactions /\ M \in SUBSET DOMAIN transactions
  BY <1>1, LedgerFinite, FS_Subset
<1>3. P \cap M = {}
  BY ColumnIs
<1>4. \A t \in S : Fields("amount")[t] = transactions[t].amount /\ Fields("amount")[t] \in Int
  BY <1>1, LedgerFinite DEF Fields, TxType
<1>5. \A t \in S : Columns(column)[t]
         = IF t \in P THEN Fields("amount")[t] ELSE IF t \in M THEN -Fields("amount")[t] ELSE 0
  <2> SUFFICES ASSUME NEW t \in S
               PROVE  Columns(column)[t] = IF t \in P THEN Fields("amount")[t]
                                           ELSE IF t \in M THEN -Fields("amount")[t] ELSE 0
    OBVIOUS
  <2>1. Columns(column)[t] = Contribution(t, column)
    BY <1>1 DEF Columns
  <2>2. CASE t \in P
    <3>1. /\ Column(EntryTypeOf(t)) = column
          /\ EntryTypeOf(t) \notin {"Insurance Payout", "Jackpot Payout"}
      BY <2>2, ColumnIs
    <3>2. Contribution(t, column) = transactions[t].amount
      BY <3>1, Zenon DEF Contribution
    <3> QED
      BY <1>4, <2>1, <2>2, <3>2
  <2>3. CASE t \in M
    <3>1. /\ Column(EntryTypeOf(t)) = column
          /\ EntryTypeOf(t) \in {"Insurance Payout", "Jackpot Payout"}
      BY <2>3, ColumnIs
    <3>2. Contribution(t, column) = -transactions[t].amount
      BY <3>1, Zenon DEF Contribution
    <3>3. t \notin P
      BY <1>3, <2>3
    <3> QED
      BY <1>4, <2>1, <2>3, <3>2, <3>3
  <2>4. CASE t \notin P /\ t \notin M
    <3>1. Column(EntryTypeOf(t)) # column
      BY <2>4, ColumnIs
    <3> QED
      BY <2>1, <2>4, <3>1 DEF Contribution
  <2> QED
    BY <2>2, <2>3, <2>4
<1>6. Rollup(scope, column) = SumFunctionOnSet(Columns(column), S)
  BY <1>1, ColumnsAddedUp DEF Rollup
<1>7. /\ SumOf(S, Counts(column)) = SumFunctionOnSet(Fields("amount"), P)
      /\ SumOf(S, Deducts(column)) = SumFunctionOnSet(Fields("amount"), M)
  BY <1>2, FieldsAddedUp DEF SumOf
<1> HIDE DEF P, M
<1>8. SumFunctionOnSet(Columns(column), S)
        = SumFunctionOnSet(Fields("amount"), P) - SumFunctionOnSet(Fields("amount"), M)
  BY <1>1, <1>2, <1>3, <1>4, <1>5, SumWithSigns
<1> QED
  BY <1>6, <1>7, <1>8

\* Which entries a scope is of.
LEMMA ScopesAre ==
    ASSUME NEW d
    PROVE  /\ {t \in DOMAIN transactions : Scope("DAY", None, d) \in Scopes(t)}
                = EntriesOn(Records, d)
           /\ \A p : p # None =>
                 {t \in DOMAIN transactions : Scope("PLAYER_DAY", p, d) \in Scopes(t)}
                   = {t \in EntriesOn(Records, d) : transactions[t].playerId = p}
           /\ \A x : x # None =>
                 {t \in DOMAIN transactions : Scope("TABLE_DAY", x, d) \in Scopes(t)}
                   = {t \in EntriesOn(Records, d) : transactions[t].tableId = x}
<1>1. EntriesOn(Records, d) = {t \in DOMAIN transactions : transactions[t].dayId = d}
  BY DEF EntriesOn, Records
<1>2. \A a, b, c, e, f, g :
         Scope(a, b, c) = Scope(e, f, g) <=> a = e /\ b = f /\ c = g
  BY DEF Scope
<1>3. ASSUME NEW t
      PROVE  /\ Scope("DAY", None, d) \in Scopes(t) <=> transactions[t].dayId = d
             /\ \A p : p # None =>
                   (Scope("PLAYER_DAY", p, d) \in Scopes(t)
                      <=> transactions[t].dayId = d /\ transactions[t].playerId = p)
             /\ \A x : x # None =>
                   (Scope("TABLE_DAY", x, d) \in Scopes(t)
                      <=> transactions[t].dayId = d /\ transactions[t].tableId = x)
  BY <1>2 DEF Scopes, Given
<1> QED
  BY <1>1, <1>3

LEMMA DebtShown ==
    ASSUME TypeInv, LedgerInv, NEW p \in Players, NEW s, s.server = TRUE
    PROVE  Debt(s, p) = Debt(Records, p)
<1>1. outstanding[p] = SumFunctionOnSet(Credits, LedgerOf(p))
  BY DEF LedgerInv, RollupsAddUp
<1>2. LedgerOf(p) \in SUBSET DOMAIN transactions /\ IsFiniteSet(LedgerOf(p))
  BY LedgerFinite, FS_Subset DEF LedgerOf
<1>3. Sum(LedgerOf(p), "creditDelta") = SumFunctionOnSet(Fields("creditDelta"), LedgerOf(p))
  BY <1>2, FieldsAddedUp
<1>4. \A t \in LedgerOf(p) : Fields("creditDelta")[t] = Credits[t]
  BY <1>2 DEF Fields, Credits
<1>5. SumFunctionOnSet(Fields("creditDelta"), LedgerOf(p)) = SumFunctionOnSet(Credits, LedgerOf(p))
  BY <1>2, <1>4, SumSame
<1>6. /\ Records.server = FALSE
      /\ {t \in Records.entries : transactions[t].playerId = p} = LedgerOf(p)
  BY DEF Records, LedgerOf
<1> QED
  BY <1>1, <1>3, <1>5, <1>6 DEF Debt

LEMMA CashShown ==
    ASSUME TypeInv, LedgerInv, NEW d \in DOMAIN days, NEW s, s.server = TRUE
    PROVE  NetCash(s, d) = NetCash(Records, d) /\ NetCash(s, d) \in Int
<1>1. dayCash[d] = SumFunctionOnSet(CashFlows, LedgerOn(d))
  BY DEF LedgerInv, RollupsAddUp
<1>2. LedgerOn(d) \in SUBSET DOMAIN transactions /\ IsFiniteSet(LedgerOn(d))
  BY LedgerFinite, FS_Subset DEF LedgerOn
<1>3. \A field : Sum(LedgerOn(d), field) = SumFunctionOnSet(Fields(field), LedgerOn(d))
  BY <1>2, FieldsAddedUp
<1>4. \A t \in LedgerOn(d) :
         /\ Fields("cashReceived")[t] \in Int /\ Fields("cashPayout")[t] \in Int
         /\ CashFlows[t] = Fields("cashReceived")[t] - Fields("cashPayout")[t]
  BY <1>2, LedgerFinite DEF Fields, CashFlows, CashMoved, TxType
<1>5. SumFunctionOnSet(CashFlows, LedgerOn(d))
        = SumFunctionOnSet(Fields("cashReceived"), LedgerOn(d))
            - SumFunctionOnSet(Fields("cashPayout"), LedgerOn(d))
  BY <1>2, <1>4, SumOfDifferences
<1>6. Records.server = FALSE /\ EntriesOn(Records, d) = LedgerOn(d)
  BY DEF Records, EntriesOn, LedgerOn
<1>7. dayCash[d] \in Int
  BY ElementOfSeq, LenProperties DEF TypeInv, TypeOK, Linked
<1> QED
  BY <1>1, <1>3, <1>5, <1>6, <1>7 DEF NetCash

\* The six columns of a rollup.
LEMMA ColumnsShown ==
    ASSUME TypeInv, NEW scope, NEW S, S = {t \in DOMAIN transactions : scope \in Scopes(t)}
    PROVE  /\ Rollup(scope, "buyIn") = SumOf(S, {"Buy-in"}) - SumOf(S, {})
           /\ Rollup(scope, "cashOut") = SumOf(S, {"Cash-out"}) - SumOf(S, {})
           /\ Rollup(scope, "rake") = SumOf(S, {"Rake"}) - SumOf(S, {})
           /\ Rollup(scope, "tips") = SumOf(S, {"Tips"}) - SumOf(S, {})
           /\ Rollup(scope, "insurance")
                = SumOf(S, {"Insurance Premium"}) - SumOf(S, {"Insurance Payout"})
           /\ Rollup(scope, "jackpot")
                = SumOf(S, {"Jackpot Contribution"}) - SumOf(S, {"Jackpot Payout"})
<1>1. \A column : column # "none" =>
         Rollup(scope, column) = SumOf(S, Counts(column)) - SumOf(S, Deducts(column))
  BY RollupIs
<1>2. /\ "buyIn" # "none" /\ "cashOut" # "none" /\ "rake" # "none" /\ "tips" # "none"
      /\ "insurance" # "none" /\ "jackpot" # "none"
  OBVIOUS
<1> QED
  BY <1>1, <1>2, CountsAre, Zenon

LEMMA TotalsShown ==
    ASSUME TypeInv, LedgerInv, NEW d \in DOMAIN days
    PROVE  Totals(Saved, d) = Totals(Records, d)
<1>1. PICK on : on = EntriesOn(Records, d)
  OBVIOUS
<1>2. PICK scope : scope = Scope("DAY", None, d)
  OBVIOUS
<1>3. on = {t \in DOMAIN transactions : scope \in Scopes(t)}
  BY <1>1, <1>2, ScopesAre
<1>4. Saved.server = TRUE /\ Records.server = FALSE
  BY DEF Saved, Records
<1>5. NetCash(Saved, d) = NetCash(Records, d)
  BY <1>4, CashShown
<1>6. ExpectedOf(Saved, d) = ExpectedOf(Records, d)
  BY <1>5 DEF ExpectedOf
<1>7. /\ Rollup(scope, "buyIn") = SumOf(on, {"Buy-in"}) - SumOf(on, {})
      /\ Rollup(scope, "cashOut") = SumOf(on, {"Cash-out"}) - SumOf(on, {})
      /\ Rollup(scope, "rake") = SumOf(on, {"Rake"}) - SumOf(on, {})
      /\ Rollup(scope, "tips") = SumOf(on, {"Tips"}) - SumOf(on, {})
      /\ Rollup(scope, "insurance")
           = SumOf(on, {"Insurance Premium"}) - SumOf(on, {"Insurance Payout"})
      /\ Rollup(scope, "jackpot")
           = SumOf(on, {"Jackpot Contribution"}) - SumOf(on, {"Jackpot Payout"})
  BY <1>3, ColumnsShown, Zenon
<1> QED
  BY <1>1, <1>2, <1>4, <1>6, <1>7, Zenon DEF Totals

LEMMA TableShown ==
    ASSUME TypeInv, NEW x \in Tables
    PROVE  TableOn(Saved, x) = TableOn(Records, x)
<1>1. PICK on : on = {t \in EntriesOn(Records, Today) : transactions[t].tableId = x}
  OBVIOUS
<1>2. PICK scope : scope = Scope("TABLE_DAY", x, Today)
  OBVIOUS
<1>3. x # None
  BY VenueAssumption
<1>4. on = {t \in DOMAIN transactions : scope \in Scopes(t)}
  BY <1>1, <1>2, <1>3, ScopesAre
<1>5. Saved.server = TRUE /\ Records.server = FALSE
  BY DEF Saved, Records
<1>6. /\ Rollup(scope, "rake") = SumOf(on, {"Rake"}) - SumOf(on, {})
      /\ Rollup(scope, "insurance")
           = SumOf(on, {"Insurance Premium"}) - SumOf(on, {"Insurance Payout"})
      /\ Rollup(scope, "jackpot")
           = SumOf(on, {"Jackpot Contribution"}) - SumOf(on, {"Jackpot Payout"})
  BY <1>4, ColumnsShown, Zenon
<1> QED
  BY <1>1, <1>2, <1>5, <1>6, Zenon DEF TableOn

\* A period, from its own days and their totals alone.
LEMMA RangeShown ==
    ASSUME TypeInv, LedgerInv, NEW period
    PROVE  RangeReport(RangeStore(period), period) = RangeReport(Records, period)
<1>1. PICK s : s = RangeStore(period)
  OBVIOUS
<1>2. /\ s.server = TRUE /\ s.days = DOMAIN days \cap period
      /\ Records.server = FALSE /\ Records.days = DOMAIN days
  BY <1>1 DEF RangeStore, Records
<1>3. PICK D : D = DOMAIN days \cap period
  OBVIOUS
<1>4. s.days \cap period = D /\ Records.days \cap period = D
  BY <1>2, <1>3
<1>5. PICK closed : closed = {d \in D : days[d].status = "CLOSED"}
  OBVIOUS
<1>6. /\ D \in SUBSET DOMAIN days /\ closed \in SUBSET DOMAIN days
      /\ IsFiniteSet(D) /\ IsFiniteSet(closed)
  BY <1>3, <1>5, DaysFinite, FS_Subset
<1>7. \A d \in DOMAIN days : NetCash(s, d) = NetCash(Records, d)
  BY <1>2, CashShown
<1>8. MapThenSumSet(LAMBDA d : NetCash(s, d), D) = MapThenSumSet(LAMBDA d : NetCash(Records, d), D)
  <2>1. \A d \in D : Cash(s)[d] = Cash(Records)[d]
    BY <1>6, <1>7 DEF Cash
  <2>2. SumFunctionOnSet(Cash(s), D) = SumFunctionOnSet(Cash(Records), D)
    BY <1>6, <2>1, SumSame
  <2>3. MapThenSumSet(LAMBDA d : NetCash(s, d), D) = SumFunctionOnSet(Cash(s), D)
    BY <1>6, NetCashAddedUp
  <2>4. MapThenSumSet(LAMBDA d : NetCash(Records, d), D) = SumFunctionOnSet(Cash(Records), D)
    BY <1>6, NetCashAddedUp
  <2> QED
    BY <2>2, <2>3, <2>4
<1>9. MapThenSumSet(LAMBDA d : LastCount(d) - ExpectedOf(s, d), closed)
        = MapThenSumSet(LAMBDA d : LastCount(d) - ExpectedOf(Records, d), closed)
  <2>1. \A d \in closed : Variances(s)[d] = Variances(Records)[d]
    BY <1>6, <1>7 DEF Variances, Variance, ExpectedOf
  <2>2. SumFunctionOnSet(Variances(s), closed) = SumFunctionOnSet(Variances(Records), closed)
    BY <1>6, <2>1, SumSame
  <2>3. MapThenSumSet(LAMBDA d : LastCount(d) - ExpectedOf(s, d), closed)
          = SumFunctionOnSet(Variances(s), closed)
    BY <1>6, VarianceAddedUp
  <2>4. MapThenSumSet(LAMBDA d : LastCount(d) - ExpectedOf(Records, d), closed)
          = SumFunctionOnSet(Variances(Records), closed)
    BY <1>6, VarianceAddedUp
  <2> QED
    BY <2>2, <2>3, <2>4
<1>10. {r \in PendingRequests : approvals[r].dayId \in D}
         = {r \in Records.requests \cap PendingRequests : approvals[r].dayId \in D}
  BY DEF Records, PendingRequests
<1> HIDE DEF Records
<1>11. RangeReport(s, period)
         = [days |-> D, openDays |-> Cardinality(D \ closed),
            netCash |-> MapThenSumSet(LAMBDA d : NetCash(s, d), D),
            variance |-> MapThenSumSet(LAMBDA d : LastCount(d) - ExpectedOf(s, d), closed),
            pendingRequests |-> Cardinality({r \in PendingRequests : approvals[r].dayId \in D})]
  BY <1>2, <1>4, <1>5 DEF RangeReport, Counted
<1>12. RangeReport(Records, period)
         = [days |-> D, openDays |-> Cardinality(D \ closed),
            netCash |-> MapThenSumSet(LAMBDA d : NetCash(Records, d), D),
            variance |-> MapThenSumSet(LAMBDA d : LastCount(d) - ExpectedOf(Records, d), closed),
            pendingRequests |->
              Cardinality({r \in Records.requests \cap PendingRequests : approvals[r].dayId \in D})]
  BY <1>2, <1>4, <1>5 DEF RangeReport, Counted, Pending
<1> QED
  BY <1>1, <1>8, <1>9, <1>10, <1>11, <1>12, Zenon

-----------------------------------------------------------------------------
(* The newest and the latest of some records.                              *)

Above(S, i) == {j \in S : j > i}

LEMMA NewestIs ==
    ASSUME NEW S, NEW n, NEW i
    PROVE  i \in Newest(S, n) <=> i \in S /\ Cardinality(Above(S, i)) < n
BY DEF Newest, Above

\* Some records with the newest of all among them have the same newest ones.
LEMMA NewestKept ==
    ASSUME NEW S \in SUBSET Nat, IsFiniteSet(S), NEW n \in Nat,
           NEW T \in SUBSET S, Newest(S, n) \subseteq T
    PROVE  Newest(T, n) = Newest(S, n)
<1>1. ASSUME NEW A \in SUBSET S, NEW i
      PROVE  IsFiniteSet(Above(A, i)) /\ Cardinality(Above(A, i)) \in Nat
  <2>1. Above(A, i) \in SUBSET S
    BY DEF Above
  <2> QED
    BY <2>1, FS_Subset, FS_CardinalityType
<1>2. ASSUME NEW A, NEW B, IsFiniteSet(B), A \subseteq B
      PROVE  Cardinality(A) <= Cardinality(B)
  BY <1>2, FS_Subset
<1>3. ASSUME NEW i \in Newest(S, n)
      PROVE  i \in Newest(T, n)
  <2>1. i \in T /\ Cardinality(Above(S, i)) < n
    BY NewestIs
  <2>2. Above(T, i) \subseteq Above(S, i)
    BY DEF Above
  <2>3. Cardinality(Above(T, i)) <= Cardinality(Above(S, i))
    BY <1>1, <1>2, <2>2
  <2>4. Cardinality(Above(T, i)) \in Nat /\ Cardinality(Above(S, i)) \in Nat
    BY <1>1
  <2> QED
    BY <2>1, <2>3, <2>4, NewestIs
<1>4. ASSUME NEW i \in Newest(T, n), i \notin Newest(S, n)
      PROVE  FALSE
  <2>1. i \in T /\ i \in S /\ Cardinality(Above(T, i)) < n /\ ~(Cardinality(Above(S, i)) < n)
    BY <1>4, NewestIs
  <2>2. PICK U : U = Above(S, i) \ T
    OBVIOUS
  <2>3. U # {}
    <3>1. SUFFICES ASSUME U = {} PROVE FALSE
      OBVIOUS
    <3>2. Above(S, i) = Above(T, i)
      BY <2>2, <3>1 DEF Above
    <3> QED
      BY <2>1, <3>2
  <2>4. U \in SUBSET S /\ IsFiniteSet(U)
    BY <2>2, FS_Subset DEF Above
  <2>5. PICK u \in U : \A j \in U : j <= u
    <3>1. PICK F : F = [j \in U |-> j]
      OBVIOUS
    <3>2. \A j \in U : F[j] = j /\ F[j] \in Int
      BY <2>4, <3>1
    <3>3. \E u \in U : \A j \in U : F[j] <= F[u]
      BY <2>3, <2>4, <3>2, GreatestOf
    <3> QED
      BY <3>2, <3>3
  <2>6. u \in S /\ u \notin T /\ u > i /\ u \in Nat /\ i \in Nat
    BY <2>1, <2>2 DEF Above
  <2>7. ~(Cardinality(Above(S, u)) < n)
    BY <2>6, NewestIs
  <2>8. Above(S, u) \subseteq Above(T, i)
    <3> SUFFICES ASSUME NEW j \in S, j > u PROVE j \in T /\ j > i
      BY DEF Above
    <3>1. j \in Nat /\ j > i
      BY <2>6
    <3>2. j \notin U
      BY <2>5, <2>6, <3>1
    <3> QED
      BY <2>2, <3>1, <3>2 DEF Above
  <2>9. Cardinality(Above(S, u)) <= Cardinality(Above(T, i))
    BY <1>1, <1>2, <2>8
  <2>10. Cardinality(Above(S, u)) \in Nat /\ Cardinality(Above(T, i)) \in Nat
    BY <1>1
  <2> QED
    BY <2>1, <2>7, <2>9, <2>10
<1> QED
  BY <1>3, <1>4

\* Some visits with the latest of all among them have the same latest one.
LEMMA LatestKept ==
    ASSUME NEW S \in SUBSET Nat, IsFiniteSet(S), NEW V, Latest(S) \subseteq V
    PROVE  Latest(S \cap V) = Latest(S)
<1>1. CASE S = {}
  BY <1>1 DEF Latest
<1>2. CASE S # {}
  <2>1. PICK m \in S : \A j \in S : j <= m
    <3>1. PICK F : F = [j \in S |-> j]
      OBVIOUS
    <3>2. \A j \in S : F[j] = j /\ F[j] \in Int
      BY <3>1
    <3>3. \E u \in S : \A j \in S : F[j] <= F[u]
      BY <1>2, <3>2, GreatestOf
    <3> QED
      BY <3>2, <3>3
  <2>2. m \in Latest(S)
    BY <2>1 DEF Latest
  <2>3. m \in S \cap V
    BY <2>2
  <2>4. \A v \in S : (\A w \in S : w <= v) => v = m
    BY <2>1
  <2>5. \A v \in S \cap V : (\A w \in S \cap V : w <= v) => v = m
    BY <2>1, <2>3
  <2> QED
    BY <2>1, <2>3, <2>4, <2>5 DEF Latest
<1> QED
  BY <1>1, <1>2

-----------------------------------------------------------------------------
(* What is sent.                                                           *)

ReadInv ==
    /\ TypeInv /\ CreditInv /\ LedgerInv /\ LinkInv /\ BackupInv
    /\ Seated

\* A field that refers to another record, and the record it refers to.
LEMMA RefsAre ==
    ASSUME NEW S, NEW rows, NEW field, NEW x
    PROVE  x \in Refs(S, rows, field) <=> x # None /\ \E i \in S : rows[i][field] = x
BY DEF Refs, Given

\* What the records refer to is there.
LEMMA ReferencesThere ==
    ASSUME ReadInv
    PROVE  /\ \A v \in DOMAIN sessions :
                 /\ sessions[v].playerId \in Records.profiles
                 /\ sessions[v].dayId \in DOMAIN days
           /\ \A r \in DOMAIN approvals :
                 /\ approvals[r].dayId \in DOMAIN days
                 /\ approvals[r].playerId # None => approvals[r].playerId \in Records.profiles
                 /\ approvals[r].sessionId # None =>
                      /\ approvals[r].sessionId \in DOMAIN sessions
                      /\ sessions[approvals[r].sessionId].playerId = approvals[r].playerId
                 /\ approvals[r].reversesId # None =>
                      /\ approvals[r].reversesId \in DOMAIN transactions
                      /\ transactions[approvals[r].reversesId].reversesId = None
           /\ \A t \in DOMAIN transactions :
                 /\ transactions[t].dayId \in DOMAIN days
                 /\ transactions[t].playerId # None => transactions[t].playerId \in Records.profiles
                 /\ transactions[t].sessionId # None =>
                      /\ transactions[t].sessionId \in DOMAIN sessions
                      /\ sessions[transactions[t].sessionId].playerId = transactions[t].playerId
                 /\ transactions[t].approvalId \in DOMAIN approvals
                 /\ approvals[transactions[t].approvalId].reversesId = transactions[t].reversesId
                 /\ transactions[t].reversesId # None =>
                      /\ transactions[t].reversesId \in DOMAIN transactions
                      /\ transactions[transactions[t].reversesId].reversesId = None
<1>1. \A p \in Players : p \in Records.profiles <=> Registered(p)
  BY DEF Records, PlayerKnown, Registered
<1>2. ASSUME NEW v \in DOMAIN sessions
      PROVE  /\ sessions[v].playerId \in Records.profiles
             /\ sessions[v].dayId \in DOMAIN days
  <2>1. sessions[v] \in VisitType
    BY ElementOfSeq, LenProperties DEF ReadInv, TypeInv, TypeOK
  <2>2. sessions[v].playerId \in Players
    BY <2>1 DEF VisitType
  <2> QED
    BY <1>1, <2>2 DEF ReadInv, CreditInv, PlayersKnown, BackupInv, VisitsRight
<1>3. ASSUME NEW r \in DOMAIN approvals
      PROVE  /\ approvals[r].dayId \in DOMAIN days
             /\ approvals[r].playerId # None => approvals[r].playerId \in Records.profiles
             /\ approvals[r].sessionId # None =>
                  /\ approvals[r].sessionId \in DOMAIN sessions
                  /\ sessions[approvals[r].sessionId].playerId = approvals[r].playerId
             /\ approvals[r].reversesId # None =>
                  /\ approvals[r].reversesId \in DOMAIN transactions
                  /\ transactions[approvals[r].reversesId].reversesId = None
  <2>1. approvals[r] \in RequestType
    BY ElementOfSeq, LenProperties DEF ReadInv, TypeInv, TypeOK
  <2>2. approvals[r].playerId \in Players \cup {None}
    BY <2>1 DEF RequestType
  <2>3. approvals[r].playerId # None => approvals[r].playerId \in Records.profiles
    BY <1>1, <2>2 DEF ReadInv, CreditInv, PlayersKnown
  <2>4. LinksSound(approvals[r])
    BY DEF ReadInv, BackupInv, RecordsInv, RequestsLinked
  <2>5. approvals[r].dayId \in DOMAIN days
    BY <2>4, LinksAre DEF Linking
  <2>6. ReversalLinked(approvals[r]) /\ VisitKnown(approvals[r])
    BY DEF ReadInv, TypeInv, Linked, LinkInv
  <2> QED
    BY <2>3, <2>5, <2>6 DEF ReversalLinked, VisitKnown
<1>4. ASSUME NEW t \in DOMAIN transactions
      PROVE  /\ transactions[t].dayId \in DOMAIN days
             /\ transactions[t].playerId # None => transactions[t].playerId \in Records.profiles
             /\ transactions[t].sessionId # None =>
                  /\ transactions[t].sessionId \in DOMAIN sessions
                  /\ sessions[transactions[t].sessionId].playerId = transactions[t].playerId
             /\ transactions[t].approvalId \in DOMAIN approvals
             /\ approvals[transactions[t].approvalId].reversesId = transactions[t].reversesId
             /\ transactions[t].reversesId # None =>
                  /\ transactions[t].reversesId \in DOMAIN transactions
                  /\ transactions[transactions[t].reversesId].reversesId = None
  <2>1. transactions[t].playerId \in Players \cup {None}
    BY LedgerFinite DEF ReadInv, TxType
  <2>2. transactions[t].playerId # None => transactions[t].playerId \in Records.profiles
    BY <1>1, <2>1 DEF ReadInv, CreditInv, PlayersKnown
  <2>3. transactions[t].dayId \in DOMAIN days /\ VisitKnown(transactions[t])
    BY DEF ReadInv, LedgerInv, EntriesDated, LinkInv
  <2>4. /\ transactions[t].approvalId \in DOMAIN approvals
        /\ Copied(transactions[t], approvals[transactions[t].approvalId])
        /\ EntriesCopied /\ TypeInv
    BY DEF ReadInv, BackupInv, RecordsInv, EntriesCopied
  <2>5. approvals[transactions[t].approvalId].reversesId = transactions[t].reversesId
    BY <2>4 DEF Copied
  <2> QED
    BY <2>2, <2>3, <2>4, <2>5, OriginalOf DEF VisitKnown
<1> QED
  BY <1>2, <1>3, <1>4

\* A page names records there are, and the visits of its players on its days.
LEMMA PagesAre ==
    ASSUME ReadInv, NEW extra \in Pages
    PROVE  /\ extra.profiles \subseteq Records.profiles /\ extra.visits \subseteq DOMAIN sessions
           /\ extra.days \subseteq DOMAIN days /\ extra.requests \subseteq DOMAIN approvals
           /\ extra.entries \subseteq DOMAIN transactions
           /\ \A v \in extra.visits : sessions[v].playerId \in extra.profiles
           /\ \A p \in extra.profiles, d \in extra.days : Latest(VisitsOn(p, d)) \subseteq extra.visits
           /\ extra.profiles # {} => DOMAIN days # {}
<1>1. \A p, d : \A v \in Latest(VisitsOn(p, d)) : v \in DOMAIN sessions /\ sessions[v].playerId = p
  BY DEF Latest, VisitsOn, VisitsOf
<1>2. CASE extra = NoExtra
  BY <1>2 DEF NoExtra
<1>3. ASSUME NEW p \in Records.profiles, NEW d \in DOMAIN days, extra = PlayerPage(p, d)
      PROVE  /\ extra.profiles = {p} /\ extra.visits = Latest(VisitsOn(p, d))
             /\ extra.days = {d} /\ extra.requests = {} /\ extra.entries = {}
  BY <1>3 DEF PlayerPage, NoExtra
<1>4. ASSUME NEW r \in DOMAIN approvals, extra = RequestPage(r)
      PROVE  /\ extra.profiles = {} /\ extra.visits = {} /\ extra.days = {}
             /\ extra.requests = {r} /\ extra.entries = {}
  BY <1>4 DEF RequestPage, NoExtra
<1>5. ASSUME NEW t \in DOMAIN transactions, extra = EntryPage(t)
      PROVE  /\ extra.profiles = {} /\ extra.visits = {} /\ extra.days = {}
             /\ extra.requests = {} /\ extra.entries = {t}
  BY <1>5 DEF EntryPage, NoExtra
<1>6. ASSUME NEW v \in DOMAIN sessions, extra = VisitPage(v)
      PROVE  /\ extra.profiles = {sessions[v].playerId} /\ extra.visits = {v} /\ extra.days = {}
             /\ extra.requests = {} /\ extra.entries = {}
             /\ sessions[v].playerId \in Records.profiles /\ DOMAIN days # {}
  BY <1>6, ReferencesThere DEF VisitPage, NoExtra
<1>7. \/ extra = NoExtra
      \/ \E p \in Records.profiles, d \in DOMAIN days : extra = PlayerPage(p, d)
      \/ \E r \in DOMAIN approvals : extra = RequestPage(r)
      \/ \E t \in DOMAIN transactions : extra = EntryPage(t)
      \/ \E v \in DOMAIN sessions : extra = VisitPage(v)
  BY DEF Pages
<1>8. ASSUME NEW p \in Records.profiles, NEW d \in DOMAIN days, extra = PlayerPage(p, d)
      PROVE  /\ \A v \in extra.visits : v \in DOMAIN sessions /\ sessions[v].playerId \in extra.profiles
             /\ \A x \in extra.profiles, y \in extra.days : Latest(VisitsOn(x, y)) \subseteq extra.visits
             /\ extra.profiles \subseteq Records.profiles /\ extra.days \subseteq DOMAIN days
             /\ extra.requests = {} /\ extra.entries = {} /\ DOMAIN days # {}
  BY <1>1, <1>3, <1>8
<1> QED
  BY <1>2, <1>4, <1>5, <1>6, <1>7, <1>8

\* What the screens need of the records sent.
Sent(extra, s) ==
    /\ s.server = TRUE
    /\ s.entries \subseteq DOMAIN transactions /\ s.requests \subseteq DOMAIN approvals
    /\ s.visits \subseteq DOMAIN sessions /\ s.days \subseteq DOMAIN days
    /\ s.profiles \subseteq Records.profiles /\ extra.profiles \subseteq s.profiles
    /\ Newest(PendingRequests, Recent) \subseteq s.requests
    /\ Newest(DOMAIN days, RecentDays) \subseteq s.days
    /\ ActiveVisits \subseteq s.visits
    /\ s.profiles # {} => Today \in s.days
    /\ \A p \in s.profiles : Latest(VisitsOn(p, Today)) \subseteq s.visits
    /\ extra.days \subseteq s.days
    /\ \A p \in extra.profiles, d \in extra.days : Latest(VisitsOn(p, d)) \subseteq s.visits
    /\ \A t \in extra.entries :
          /\ ReversalsOf(t) \subseteq s.entries
          /\ {r \in PendingRequests : approvals[r].reversesId = t} \subseteq s.requests
    /\ Explained(s)

LEMMA SnapshotSent ==
    ASSUME ReadInv, NEW extra \in Pages
    PROVE  Sent(extra, Snapshot(extra))
<1>1. PICK first : first = extra.entries \cup Newest(DOMAIN transactions, Recent)
  OBVIOUS
<1>2. PICK requests : requests = RequestsRead(extra, first)
  OBVIOUS
<1> DEFINE originals == Refs(requests, approvals, "reversesId")
<1>3. PICK entries : entries = EntriesRead(extra, first, requests)
  OBVIOUS
<1>4. PICK players : players = extra.profiles \cup Refs(entries, transactions, "playerId")
                               \cup Refs(requests, approvals, "playerId")
  OBVIOUS
<1>5. PICK named : named = extra.visits \cup Refs(entries, transactions, "sessionId")
                           \cup Refs(requests, approvals, "sessionId")
  OBVIOUS
<1>6. PICK visits : visits = VisitsRead(named, players)
  OBVIOUS
<1> DEFINE sent == Newest(DOMAIN days, RecentDays) \cup ({Today} \ {0}) \cup extra.days
                   \cup Refs(visits, sessions, "dayId") \cup Refs(entries, transactions, "dayId")
                   \cup Refs(requests, approvals, "dayId")
<1>7. PICK s : /\ s = Snapshot(extra)
               /\ s.entries = entries /\ s.requests = requests /\ s.visits = visits
               /\ s.server = TRUE /\ s.profiles = players \cup Refs(visits, sessions, "playerId")
               /\ s.days = sent
  <2>1. Snapshot(extra) =
          [entries |-> entries, requests |-> requests, visits |-> visits, server |-> TRUE,
           profiles |-> players \cup Refs(visits, sessions, "playerId"), days |-> sent]
    BY <1>1, <1>2, <1>3, <1>4, <1>5, <1>6 DEF Snapshot
  <2> HIDE DEF sent
  <2> QED
    BY <2>1
<1> HIDE DEF originals, sent
<1>8. first \subseteq DOMAIN transactions /\ extra.entries \subseteq first
  BY <1>1, PagesAre DEF Newest
<1>9. /\ requests \subseteq DOMAIN approvals
      /\ Newest(PendingRequests, Recent) \subseteq requests
      /\ {r \in PendingRequests : approvals[r].reversesId \in first} \subseteq requests
      /\ \A t \in first : transactions[t].approvalId \in requests
  <2>1. \A t \in first : transactions[t].approvalId \in DOMAIN approvals
    BY <1>8, ReferencesThere
  <2>2. PendingRequests \subseteq DOMAIN approvals /\ Newest(PendingRequests, Recent) \subseteq PendingRequests
    BY DEF PendingRequests, Newest
  <2>3. extra.requests \subseteq DOMAIN approvals
    BY PagesAre
  <2> QED
    BY <1>2, <2>1, <2>2, <2>3 DEF RequestsRead, RequestsOfPage
<1>10. \A o : o \in originals <=> o # None /\ \E r \in requests : approvals[r].reversesId = o
  <2>1. \A o : o \in Refs(requests, approvals, "reversesId")
                  <=> o # None /\ \E r \in requests : approvals[r].reversesId = o
    BY RefsAre
  <2> QED
    BY <2>1 DEF originals
<1>11. /\ entries \subseteq DOMAIN transactions /\ first \subseteq entries /\ originals \subseteq entries
       /\ \A t \in first : transactions[t].reversesId # None => transactions[t].reversesId \in entries
       /\ \A t \in DOMAIN transactions : transactions[t].reversesId \in first => t \in entries
       /\ \A t \in entries :
             \/ t \in first \/ t \in originals
             \/ \E u \in first : transactions[u].reversesId = t /\ t # None
             \/ transactions[t].approvalId \in requests
             \/ transactions[t].reversesId \in first \cup originals
  <2>1. entries = first \cup Refs(first, transactions, "reversesId") \cup originals
                  \cup {t \in DOMAIN transactions :
                          \/ transactions[t].approvalId \in requests
                          \/ transactions[t].reversesId \in first \cup originals}
    BY <1>3 DEF EntriesRead, originals
  <2>2. \A o : o \in Refs(first, transactions, "reversesId")
                  <=> o # None /\ \E t \in first : transactions[t].reversesId = o
    BY RefsAre
  <2>3. Refs(first, transactions, "reversesId") \subseteq DOMAIN transactions
    BY <1>8, <2>2, ReferencesThere
  <2>4. originals \subseteq DOMAIN transactions
    BY <1>9, <1>10, ReferencesThere
  <2> QED
    BY <1>8, <2>1, <2>2, <2>3, <2>4
<1>12. \A t \in entries : transactions[t].reversesId # None => transactions[t].reversesId \in entries
  <2> SUFFICES ASSUME NEW t \in entries, transactions[t].reversesId # None
               PROVE  transactions[t].reversesId \in entries
    OBVIOUS
  <2>1. CASE t \in first \/ transactions[t].reversesId \in first \cup originals
    BY <1>11, <2>1
  <2>2. CASE t \in originals
    <3>1. PICK r \in requests : approvals[r].reversesId = t /\ t # None
      BY <1>10, <2>2
    <3> QED
      BY <1>9, <3>1, ReferencesThere
  <2>3. ASSUME NEW u \in first, transactions[u].reversesId = t, t # None
        PROVE  FALSE
    BY <1>8, <2>3, ReferencesThere
  <2>4. CASE transactions[t].approvalId \in requests
    <3>1. approvals[transactions[t].approvalId].reversesId = transactions[t].reversesId
      BY <1>11, ReferencesThere
    <3> QED
      BY <1>10, <1>11, <2>4, <3>1
  <2> QED
    BY <1>11, <2>1, <2>2, <2>3, <2>4
<1>13. /\ \A t \in entries : transactions[t].playerId # None => transactions[t].playerId \in players
       /\ \A r \in requests : approvals[r].playerId # None => approvals[r].playerId \in players
       /\ extra.profiles \subseteq players
       /\ \A p \in players :
             \/ p \in extra.profiles
             \/ p # None /\ \E t \in entries : transactions[t].playerId = p
             \/ p # None /\ \E r \in requests : approvals[r].playerId = p
  <2>1. \A p : p \in Refs(entries, transactions, "playerId")
                  <=> p # None /\ \E t \in entries : transactions[t].playerId = p
    BY RefsAre
  <2>2. \A p : p \in Refs(requests, approvals, "playerId")
                  <=> p # None /\ \E r \in requests : approvals[r].playerId = p
    BY RefsAre
  <2> QED
    BY <1>4, <2>1, <2>2
<1>14. players \subseteq Records.profiles
  BY <1>9, <1>11, <1>13, PagesAre, ReferencesThere
<1>15. \A v \in named : v \in DOMAIN sessions /\ sessions[v].playerId \in players
  <2> SUFFICES ASSUME NEW v \in named
               PROVE  v \in DOMAIN sessions /\ sessions[v].playerId \in players
    OBVIOUS
  <2>1. CASE v \in extra.visits
    BY <1>13, <2>1, PagesAre
  <2>2. CASE v \in Refs(entries, transactions, "sessionId")
    <3>1. PICK t \in entries : transactions[t].sessionId = v /\ v # None
      BY <2>2, RefsAre
    <3>2. v \in DOMAIN sessions /\ sessions[v].playerId = transactions[t].playerId
      BY <1>11, <3>1, ReferencesThere
    <3>3. sessions[v].playerId # None
      <4>1. sessions[v].playerId \in Players
        BY <3>2, ReferencesThere DEF Records
      <4> QED
        BY <4>1, VenueAssumption
    <3> QED
      BY <1>13, <3>2, <3>3
  <2>3. CASE v \in Refs(requests, approvals, "sessionId")
    <3>1. PICK r \in requests : approvals[r].sessionId = v /\ v # None
      BY <2>3, RefsAre
    <3>2. v \in DOMAIN sessions /\ sessions[v].playerId = approvals[r].playerId
      BY <1>9, <3>1, ReferencesThere
    <3>3. sessions[v].playerId # None
      <4>1. sessions[v].playerId \in Players
        BY <3>2, ReferencesThere DEF Records
      <4> QED
        BY <4>1, VenueAssumption
    <3> QED
      BY <1>13, <3>2, <3>3
  <2> QED
    BY <1>5, <2>1, <2>2, <2>3
<1>16. /\ visits \subseteq DOMAIN sessions /\ ActiveVisits \subseteq visits /\ named \subseteq visits
       /\ \A p \in players : Latest(VisitsOn(p, Today)) \subseteq visits
       /\ \A v \in visits : sessions[v].playerId \in players \/ v \in ActiveVisits
  <2>1. visits = named \cup ActiveVisits
                 \cup UNION {Latest(VisitsOf(p)) \cup Latest(VisitsOn(p, Today)) : p \in players}
    BY <1>6 DEF VisitsRead
  <2>2. \A p : \A v \in Latest(VisitsOf(p)) \cup Latest(VisitsOn(p, Today)) :
           v \in DOMAIN sessions /\ sessions[v].playerId = p
    BY DEF Latest, VisitsOn, VisitsOf
  <2>3. ActiveVisits \subseteq DOMAIN sessions
    BY DEF ActiveVisits
  <2> QED
    BY <1>15, <2>1, <2>2, <2>3
<1>17. \A p : p \in Refs(visits, sessions, "playerId")
                 <=> p # None /\ \E v \in visits : sessions[v].playerId = p
  BY RefsAre
<1>18. s.profiles \subseteq Records.profiles /\ extra.profiles \subseteq s.profiles
  BY <1>7, <1>13, <1>14, <1>16, <1>17, ReferencesThere
<1>19. ASSUME NEW p \in s.profiles
       PROVE  Latest(VisitsOn(p, Today)) \subseteq s.visits
  <2>1. CASE p \in players
    BY <1>7, <1>16, <2>1
  <2>2. CASE p \notin players
    <3>1. PICK v \in ActiveVisits : sessions[v].playerId = p /\ v \in DOMAIN sessions
      BY <1>7, <1>16, <1>17, <2>2
    <3>2. sessions[v].dayId = Today /\ \A w \in VisitsOf(p) : w <= v
      BY <3>1 DEF ReadInv, Seated, SeatKept, LastOfPlayer
    <3>3. v \in VisitsOn(p, Today) /\ VisitsOn(p, Today) \subseteq VisitsOf(p)
      BY <3>1, <3>2 DEF VisitsOn, VisitsOf
    <3>4. DOMAIN sessions \subseteq Nat
      BY LenProperties DEF ReadInv, TypeInv, TypeOK
    <3>5. ASSUME NEW w \in Latest(VisitsOn(p, Today))
          PROVE  w = v
      <4>1. w \in VisitsOn(p, Today) /\ v <= w
        BY <3>3 DEF Latest
      <4>2. w <= v /\ w \in DOMAIN sessions
        BY <3>2, <3>3, <4>1 DEF VisitsOf
      <4> QED
        BY <3>1, <3>4, <4>1, <4>2
    <3> QED
      BY <1>7, <1>16, <3>1, <3>5
  <2> QED
    BY <2>1, <2>2
<1>20. /\ s.days \subseteq DOMAIN days /\ extra.days \subseteq s.days
       /\ Newest(DOMAIN days, RecentDays) \subseteq s.days
       /\ Today # 0 => Today \in s.days
  <2>1. Newest(DOMAIN days, RecentDays) \subseteq DOMAIN days /\ extra.days \subseteq DOMAIN days
    BY PagesAre DEF Newest
  <2>2. {Today} \ {0} \subseteq DOMAIN days
    BY LenProperties DEF ReadInv, TypeInv, TypeOK, Today
  <2>3. Refs(visits, sessions, "dayId") \subseteq DOMAIN days
    BY <1>16, RefsAre, ReferencesThere
  <2>4. Refs(entries, transactions, "dayId") \subseteq DOMAIN days
    BY <1>11, RefsAre, ReferencesThere
  <2>5. Refs(requests, approvals, "dayId") \subseteq DOMAIN days
    BY <1>9, RefsAre, ReferencesThere
  <2> QED
    BY <1>7, <2>1, <2>2, <2>3, <2>4, <2>5 DEF sent
<1>21. s.profiles # {} => Today \in s.days
  <2> SUFFICES ASSUME NEW p \in s.profiles PROVE Today \in s.days
    OBVIOUS
  <2>1. DOMAIN days # {}
    <3>1. CASE p \in extra.profiles
      BY <3>1, PagesAre
    <3>2. CASE p \notin extra.profiles
      <4>1. \/ \E t \in entries : transactions[t].playerId = p
            \/ \E r \in requests : approvals[r].playerId = p
            \/ \E v \in visits : sessions[v].playerId = p
        BY <1>7, <1>13, <1>17, <3>2
      <4> QED
        BY <1>9, <1>11, <1>16, <4>1, ReferencesThere
    <3> QED
      BY <3>1, <3>2
  <2>2. Today # 0
    BY <2>1, LenProperties DEF ReadInv, TypeInv, TypeOK, Today
  <2> QED
    BY <1>20, <2>2
<1>22. ASSUME NEW p \in extra.profiles, NEW d \in extra.days
       PROVE  Latest(VisitsOn(p, d)) \subseteq s.visits
  BY <1>5, <1>7, <1>16, PagesAre
<1>23. ASSUME NEW t \in extra.entries
       PROVE  /\ ReversalsOf(t) \subseteq s.entries
              /\ {r \in PendingRequests : approvals[r].reversesId = t} \subseteq s.requests
  BY <1>7, <1>8, <1>9, <1>11 DEF ReversalsOf
<1>24. Explained(s)
  <2>1. \A t \in s.entries : EntryKnown(s, transactions[t].reversesId)
    BY <1>7, <1>12 DEF EntryKnown, Given
  <2>2. ASSUME NEW r \in Pending(s)
        PROVE  /\ EntryKnown(s, approvals[r].reversesId)
               /\ Given(approvals[r].playerId) \subseteq s.profiles
    <3>1. r \in requests
      BY <1>7 DEF Pending
    <3>2. approvals[r].reversesId # None => approvals[r].reversesId \in entries
      BY <1>10, <1>11, <3>1
    <3> QED
      BY <1>7, <1>13, <3>1, <3>2 DEF EntryKnown, Given
  <2> QED
    BY <2>1, <2>2 DEF Explained
<1> QED
  BY <1>7, <1>9, <1>11, <1>16, <1>18, <1>19, <1>20, <1>21, <1>22, <1>23, <1>24 DEF Sent

-----------------------------------------------------------------------------
(* The screens, from what is sent.                                         *)

\* A player's row on a day whose totals and whose latest visit of the player were sent.
LEMMA PlayerShown ==
    ASSUME ReadInv, NEW s, s.server = TRUE, NEW p \in Records.profiles, NEW d \in DOMAIN days,
           d \in s.days, Latest(VisitsOn(p, d)) \subseteq s.visits
    PROVE  PlayerOn(s, p, d) = PlayerOn(Records, p, d)
<1>1. p \in Players /\ p # None /\ TypeInv /\ LedgerInv
  BY VenueAssumption DEF Records, ReadInv
<1>2. PICK latest : latest = Latest(VisitsOn(p, d))
  OBVIOUS
<1>3. Latest(VisitsOn(p, d) \cap s.visits) = latest
  <2>1. VisitsOn(p, d) \in SUBSET DOMAIN sessions
    BY DEF VisitsOn, VisitsOf
  <2>2. VisitsOn(p, d) \in SUBSET Nat /\ IsFiniteSet(VisitsOn(p, d))
    BY <1>1, <2>1, DaysFinite, FS_Subset, LenProperties DEF TypeInv, TypeOK
  <2> QED
    BY <1>2, <2>2, LatestKept
<1>4. Records.server = FALSE /\ Latest(VisitsOn(p, d) \cap Records.visits) = latest
  <2>1. Records.server = FALSE /\ Records.visits = DOMAIN sessions
    BY DEF Records
  <2>2. VisitsOn(p, d) \cap DOMAIN sessions = VisitsOn(p, d)
    BY DEF VisitsOn, VisitsOf
  <2> QED
    BY <1>2, <2>1, <2>2
<1>5. Debt(s, p) = Debt(Records, p)
  BY <1>1, DebtShown
<1>6. PICK mine : mine = {t \in EntriesOn(Records, d) : transactions[t].playerId = p}
  OBVIOUS
<1>7. PICK scope : scope = Scope("PLAYER_DAY", p, d)
  OBVIOUS
<1>8. mine = {t \in DOMAIN transactions : scope \in Scopes(t)}
  BY <1>1, <1>6, <1>7, ScopesAre
<1>9. mine \in SUBSET DOMAIN transactions
  BY <1>8
<1>10. /\ Rollup(scope, "buyIn") = SumOf(mine, {"Buy-in"})
       /\ Rollup(scope, "cashOut") = SumOf(mine, {"Cash-out"})
  <2>1. /\ Rollup(scope, "buyIn") = SumOf(mine, {"Buy-in"}) - SumOf(mine, {})
        /\ Rollup(scope, "cashOut") = SumOf(mine, {"Cash-out"}) - SumOf(mine, {})
    BY <1>1, <1>8, ColumnsShown, Zenon
  <2>2. /\ SumOf(mine, {}) = 0
        /\ SumOf(mine, {"Buy-in"}) \in Int /\ SumOf(mine, {"Cash-out"}) \in Int
    BY <1>1, <1>9, SumOfType
  <2> QED
    BY <2>1, <2>2
<1> HIDE DEF Records
<1>11. PlayerOn(s, p, d) =
         [creditUsed |-> Debt(s, p),
          status |-> IF \E v \in latest : v \in ActiveVisits THEN "ACTIVE" ELSE "OUT",
          sessionId |-> latest,
          seat |-> {<<sessions[v].tableId, sessions[v].seat>> : v \in latest \cap ActiveVisits},
          buyIn |-> Rollup(scope, "buyIn"), cashOut |-> Rollup(scope, "cashOut")]
  BY <1>3, <1>7 DEF PlayerOn
<1>12. PlayerOn(Records, p, d) =
         [creditUsed |-> Debt(Records, p),
          status |-> IF \E v \in latest : v \in ActiveVisits THEN "ACTIVE" ELSE "OUT",
          sessionId |-> latest,
          seat |-> {<<sessions[v].tableId, sessions[v].seat>> : v \in latest \cap ActiveVisits},
          buyIn |-> SumOf(mine, {"Buy-in"}), cashOut |-> SumOf(mine, {"Cash-out"})]
  BY <1>4, <1>6 DEF PlayerOn
<1> QED
  BY <1>5, <1>10, <1>11, <1>12

\* The newest pending requests, and the newest days.
LEMMA NewestShown ==
    ASSUME ReadInv, NEW extra, NEW s, Sent(extra, s)
    PROVE  /\ Newest(Pending(s), Recent) = Newest(Pending(Records), Recent)
           /\ Newest(s.days, RecentDays) = Newest(DOMAIN days, RecentDays)
           /\ Pending(Records) = PendingRequests
<1>1. /\ DOMAIN days \in SUBSET Nat /\ IsFiniteSet(DOMAIN days)
      /\ PendingRequests \in SUBSET Nat /\ IsFiniteSet(PendingRequests)
  <2>1. DOMAIN days \in SUBSET Nat /\ DOMAIN approvals \in SUBSET Nat
    BY LenProperties DEF ReadInv, TypeInv, TypeOK
  <2>2. PendingRequests \in SUBSET DOMAIN approvals
    BY DEF PendingRequests
  <2> QED
    BY <2>1, <2>2, DaysFinite, FS_Subset DEF ReadInv
<1>2. Recent \in Nat /\ RecentDays \in Nat
  BY ReadsAssumption
<1>3. Pending(Records) = PendingRequests
  BY DEF Pending, Records, PendingRequests
<1>4. Newest(Pending(s), Recent) = Newest(PendingRequests, Recent)
  <2>1. Pending(s) \in SUBSET PendingRequests /\ Newest(PendingRequests, Recent) \subseteq Pending(s)
    BY DEF Sent, Pending, Newest
  <2> QED
    BY <1>1, <1>2, <2>1, NewestKept
<1>5. Newest(s.days, RecentDays) = Newest(DOMAIN days, RecentDays)
  BY <1>1, <1>2, NewestKept DEF Sent
<1> QED
  BY <1>3, <1>4, <1>5

LEMMA DashboardShown ==
    ASSUME ReadInv, NEW extra, NEW s, Sent(extra, s)
    PROVE  Dashboard(s) = Dashboard(Records)
<1>1. PICK here : here = {v \in s.visits \cap ActiveVisits : sessions[v].dayId = Today}
  OBVIOUS
<1>2. here = {v \in Records.visits \cap ActiveVisits : sessions[v].dayId = Today}
  BY <1>1 DEF Sent, Records, ActiveVisits
<1>3. s.server = TRUE /\ Records.server = FALSE /\ Records.days = DOMAIN days
  BY DEF Sent, Records
<1>4. PICK newest : newest = Newest(DOMAIN days, RecentDays)
  OBVIOUS
<1>5. newest = Newest(s.days, RecentDays) /\ newest = Newest(Records.days, RecentDays)
  BY <1>3, <1>4, NewestShown
<1>6. {<<d, days[d].status, NetCash(s, d)>> : d \in newest}
        = {<<d, days[d].status, NetCash(Records, d)>> : d \in newest}
  <2>1. \A d \in newest : NetCash(s, d) = NetCash(Records, d)
    BY <1>3, <1>4, CashShown DEF Newest, ReadInv
  <2> QED
    BY <2>1
<1>7. Pending(Records) = PendingRequests
  BY NewestShown
<1> HIDE DEF Records
<1>8. Dashboard(s) =
        [activePlayers |-> Cardinality(here),
         occupancy |-> [x \in {y \in Tables : TableOpen(y)} |->
                           Cardinality({v \in here : sessions[v].tableId = x})],
         pending |-> Cardinality({r \in PendingRequests : approvals[r].dayId = Today}),
         adminReview |-> Cardinality({r \in PendingRequests :
                            approvals[r].dayId = Today /\ approvals[r].level # "MANAGER"}),
         trend |-> {<<d, days[d].status, NetCash(s, d)>> : d \in newest}]
  BY <1>1, <1>3, <1>5 DEF Dashboard, Counted
<1>9. Dashboard(Records) =
        [activePlayers |-> Cardinality(here),
         occupancy |-> [x \in {y \in Tables : TableOpen(y)} |->
                           Cardinality({v \in here : sessions[v].tableId = x})],
         pending |-> Cardinality({r \in PendingRequests : approvals[r].dayId = Today}),
         adminReview |-> Cardinality({r \in PendingRequests :
                            approvals[r].dayId = Today /\ approvals[r].level # "MANAGER"}),
         trend |-> {<<d, days[d].status, NetCash(Records, d)>> : d \in newest}]
  BY <1>2, <1>3, <1>5, <1>7 DEF Dashboard, Counted
<1> QED
  BY <1>6, <1>8, <1>9, Zenon

\* The policy of a review, as the screens word it and as it is counted in SQL.
LEMMA ReviewableIs ==
    ASSUME NEW a \in Staff, NEW r
    PROVE  ReviewableRow(r, a) <=> approvals[r].dayId = Today /\ DayIsOpen /\ CanApprove(a, approvals[r])
<1>1. PICK q : q = approvals[r]
  OBVIOUS
<1>2. a.id \notin {q.votes[i].staffId : i \in DOMAIN q.votes}
        <=> \A i \in DOMAIN q.votes : q.votes[i].staffId # a.id
  OBVIOUS
<1> QED
  BY <1>1, <1>2 DEF ReviewableRow, CanApprove, Supervisors

LEMMA ReadyIs ==
    ASSUME NEW a \in Staff, NEW r \in PendingRequests
    PROVE  ReviewStatus(r, a) = "Ready for your review" <=> ReviewableRow(r, a)
<1>1. PICK q : q = approvals[r]
  OBVIOUS
<1>2. ReviewStatus(r, a) = "Ready for your review"
        <=> /\ q.requestedById # a.id
            /\ ~\E i \in DOMAIN q.votes : q.votes[i].staffId = a.id
            /\ q.dayId = Today /\ DayIsOpen
            /\ ~(q.level = "ADMIN" /\ a.role # "ADMIN")
            /\ CanApprove(a, q)
  BY <1>1, Zenon DEF ReviewStatus
<1>3. ReviewableRow(r, a) <=> q.dayId = Today /\ DayIsOpen /\ CanApprove(a, q)
  BY <1>1, ReviewableIs
<1> QED
  BY <1>2, <1>3 DEF CanApprove

LEMMA NotificationsShown ==
    ASSUME ReadInv, NEW extra, NEW s, Sent(extra, s), NEW a \in Staff
    PROVE  Notifications(s, a) = Notifications(Records, a)
<1>1. s.server = TRUE /\ Records.server = FALSE
  BY DEF Sent, Records
<1>2. Pending(Records) = PendingRequests
  BY NewestShown
<1>3. PICK newest : newest = Newest(Pending(Records), Recent) /\ newest = Newest(Pending(s), Recent)
  BY NewestShown
<1>4. {r \in PendingRequests : ReviewStatus(r, a) = "Ready for your review"}
        = {r \in PendingRequests : ReviewableRow(r, a)}
  BY ReadyIs, Zenon
<1> HIDE DEF Records
<1>5. Notifications(s, a) =
        [total |-> Cardinality({r \in PendingRequests : TRUE}),
         reviewable |-> Cardinality({r \in PendingRequests : ReviewableRow(r, a)}),
         entries |-> {<<r, ReviewStatus(r, a)>> : r \in newest}]
  BY <1>1, <1>3, Zenon DEF Notifications, Counted
<1>6. Notifications(Records, a) =
        [total |-> Cardinality({r \in PendingRequests : TRUE}),
         reviewable |-> Cardinality({r \in PendingRequests :
                           ReviewStatus(r, a) = "Ready for your review"}),
         entries |-> {<<r, ReviewStatus(r, a)>> : r \in newest}]
  BY <1>1, <1>2, <1>3, Zenon DEF Notifications, Counted
<1> QED
  BY <1>4, <1>5, <1>6, Zenon

LEMMA ReversalShown ==
    ASSUME NEW extra, NEW s, Sent(extra, s), NEW t \in extra.entries
    PROVE  ReversalState(s, t) = ReversalState(Records, t)
<1>1. ReversalsOf(t) \cap s.entries = ReversalsOf(t) \cap Records.entries
  BY DEF Sent, Records, ReversalsOf
<1>2. {r \in Pending(s) : approvals[r].reversesId = t}
        = {r \in Pending(Records) : approvals[r].reversesId = t}
  BY DEF Sent, Records, Pending, PendingRequests
<1> QED
  BY <1>1, <1>2 DEF ReversalState

\* Whatever page staff have open, the few records they are sent (operationalSnapshot
\* and readPageWithin, queries.ts) show them what the complete records would show, and
\* the server's totals are those of the complete ledger (aggregates.ts, selectors.ts).
\* The clock must keep its order: an active visit is only then its player's latest.
THEOREM ScreensAreTrue == ~ClockMaySlip => (Spec => []ScreensTrue)
<1> SUFFICES ASSUME ~ClockMaySlip PROVE Spec => []ScreensTrue
  OBVIOUS
<1>1. ReadInv => ScreensTrue
  <2> SUFFICES ASSUME ReadInv PROVE ScreensTrue
    OBVIOUS
  <2>1. TypeInv /\ LedgerInv
    BY DEF ReadInv
  <2>2. \A extra \in Pages : Sent(extra, Snapshot(extra))
    BY SnapshotSent
  <2>3. ASSUME NEW extra \in Pages, NEW p \in Snapshot(extra).profiles
        PROVE  /\ p \in Records.profiles /\ Today \in DOMAIN days
               /\ PlayerOn(Snapshot(extra), p, Today) = PlayerOn(Records, p, Today)
    <3>1. PICK s : s = Snapshot(extra)
      OBVIOUS
    <3>2. /\ s.server = TRUE /\ p \in Records.profiles /\ Today \in s.days
          /\ Today \in DOMAIN days /\ Latest(VisitsOn(p, Today)) \subseteq s.visits
      BY <2>2, <2>3, <3>1 DEF Sent
    <3> QED
      BY <3>1, <3>2, PlayerShown
  <2>4. ASSUME NEW extra \in Pages, NEW p \in extra.profiles, NEW d \in extra.days
        PROVE  /\ p \in Records.profiles /\ d \in DOMAIN days
               /\ PlayerOn(Snapshot(extra), p, d) = PlayerOn(Records, p, d)
    BY <2>2, <2>4, PlayerShown DEF Sent
  <2> DEFINE sent          == [extra \in Pages |-> Snapshot(extra)]
             dashboard     == Dashboard(Records)
             notifications == [a \in Staff |-> Notifications(Records, a)]
             player        == [p \in Records.profiles |-> [d \in DOMAIN days |-> PlayerOn(Records, p, d)]]
  <2>5. \A p \in Records.profiles, d \in DOMAIN days : player[p][d] = PlayerOn(Records, p, d)
    OBVIOUS
  <2>6. ASSUME NEW extra \in Pages
        PROVE  /\ Dashboard(sent[extra]) = dashboard
               /\ \A a \in Staff : Notifications(sent[extra], a) = notifications[a]
               /\ \A p \in sent[extra].profiles : PlayerOn(sent[extra], p, Today) = player[p][Today]
               /\ Explained(sent[extra])
               /\ \A p \in extra.profiles, d \in extra.days :
                     PlayerOn(sent[extra], p, d) = player[p][d]
               /\ \A t \in extra.entries :
                     ReversalState(sent[extra], t) = ReversalState(Records, t)
    <3>1. PICK s : s = Snapshot(extra)
      OBVIOUS
    <3>2. sent[extra] = s /\ Sent(extra, s)
      BY <2>2, <3>1
    <3>3. Dashboard(s) = dashboard
      BY <3>2, DashboardShown
    <3>4. \A a \in Staff : Notifications(s, a) = notifications[a]
      BY <3>2, NotificationsShown
    <3> HIDE DEF sent, player, notifications, dashboard
    <3>5. \A p \in s.profiles : PlayerOn(s, p, Today) = player[p][Today]
      BY <2>3, <2>5, <3>1
    <3>6. \A p \in extra.profiles, d \in extra.days : PlayerOn(s, p, d) = player[p][d]
      BY <2>4, <2>5, <3>1
    <3>7. Explained(s) /\ \A t \in extra.entries : ReversalState(s, t) = ReversalState(Records, t)
      BY <3>2, ReversalShown DEF Sent
    <3> QED
      BY <3>2, <3>3, <3>4, <3>5, <3>6, <3>7
  <2>7. /\ \A d \in DOMAIN days : Totals(Saved, d) = Totals(Records, d)
        /\ \A x \in Tables : TableOn(Saved, x) = TableOn(Records, x)
        /\ \A first, last \in DOMAIN days :
              first <= last => RangeReport(RangeStore(first .. last), first .. last)
                                 = RangeReport(Records, first .. last)
    BY <2>1, TotalsShown, TableShown, RangeShown
  <2>8. \A r \in DOMAIN approvals, a \in Staff :
           ReviewableRow(r, a)
           <=> approvals[r].dayId = Today /\ DayIsOpen /\ CanApprove(a, approvals[r])
    BY ReviewableIs
  <2>9. \A s \in {sent[extra] : extra \in Pages} :
           /\ Dashboard(s) = dashboard
           /\ \A a \in Staff : Notifications(s, a) = notifications[a]
           /\ \A p \in s.profiles : PlayerOn(s, p, Today) = player[p][Today]
           /\ Explained(s)
    <3> HIDE DEF sent, player, notifications, dashboard
    <3> QED
      BY <2>6
  <2>10. \A extra \in Pages :
            /\ \A p \in extra.profiles, d \in extra.days :
                  PlayerOn(sent[extra], p, d) = player[p][d]
            /\ \A t \in extra.entries :
                  ReversalState(sent[extra], t) = ReversalState(Records, t)
    <3> HIDE DEF sent, player, notifications, dashboard
    <3> QED
      BY <2>6
  <2> QED
    BY <2>7, <2>8, <2>9, <2>10, Zenon DEF ScreensTrue
<1>2. TypeInv /\ CreditInv /\ LedgerInv /\ LinkInv /\ BackupInv /\ SeatingInv => ReadInv
  BY DEF ReadInv, SeatingInv
<1> QED
  BY <1>1, <1>2, TypeInvAlways, CreditInvAlways, LedgerInvAlways, LinkInvAlways, SeatingInvAlways,
     BackupInvAlways, PTL
=============================================================================
