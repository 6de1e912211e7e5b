--------------------------- MODULE BrowserProofs ---------------------------
(***************************************************************************)
(* Proofs about what a browser tells and shows its staff, for any number   *)
(* of tabs, people, changes, operations and reads on their way.            *)
(*                                                                         *)
(* The lemmas follow the ways a step touches the protocol: a tab lets go   *)
(* of what it was busy with (LetsGo: it hears an answer, gives up, or is   *)
(* reloaded), only looks at records or checkpoints (Looks), lists, sends,  *)
(* sends again or asks (Again), and the server handles a request (Handled).*)
(***************************************************************************)
EXTENDS Browser, TLAPS

Told == {"new", "entered", "saved", "notSaved"}
Waiting == {"save", "retry", "recover"}
ReplyType == [to : Tabs, answer : {"saved", "refused", "cancelled", "expired"}, revision : Nat]
ReadType == [to : Tabs, revision : Nat, user : People \cup {None}]

TypeInv ==
    /\ revision \in Nat
    /\ receipts \in [Operations -> {"none", "saved", "cancelled"}]
    /\ requests \in SUBSET Request
    /\ replies \in SUBSET ReplyType
    /\ reads \in SUBSET ReadType
    /\ signedIn \in People \cup {None}
    /\ storage \in SUBSET Operations
    /\ issued \in [Operations -> Intents \cup {None}]
    /\ tabs \in [Tabs -> TabType]
    /\ told \in [Operations -> Told]

----------------------------------------------------------------------------
(* The invariant, by operations, tabs and messages.                        *)

\* An operation's checkpoint is there exactly until staff are told; one they were told was not
\* saved can be saved by nobody any more.
OpOK(o) ==
    /\ issued[o] = None <=> told[o] = "new"
    /\ told[o] = "new" => receipts[o] = "none"
    /\ o \in storage <=> told[o] = "entered"
    /\ told[o] = "saved" => receipts[o] = "saved"
    /\ told[o] = "notSaved" =>
          \/ receipts[o] = "cancelled"
          \/ /\ receipts[o] = "none"
             /\ \A t \in Tabs : tabs[t].uncertain # o
             /\ \A m \in requests : m.kind = "save" => m.op # o

OnePerIntent ==
    \A o, q \in Operations :
        issued[o] # None /\ issued[o] = issued[q]
          /\ told[o] \in {"entered", "saved"} /\ told[q] \in {"entered", "saved"} => o = q

\* While a tab has listed the checkpoints, no operation of the same change is open; while it
\* waits for its first attempt, nobody else has sent that.
TabOK(t) ==
    /\ tabs[t].uncertain # None => issued[tabs[t].uncertain] # None
    /\ tabs[t].recovery # None => issued[tabs[t].recovery] # None
    /\ tabs[t].busy = "listed" =>
          /\ tabs[t].doing \in Intents /\ tabs[t].uncertain = None
          /\ \A o \in Operations : issued[o] = tabs[t].doing => told[o] = "notSaved"
          /\ \A u \in Tabs \ {t} : tabs[u].busy = "listed" => tabs[u].doing # tabs[t].doing
    /\ tabs[t].busy \in Waiting => tabs[t].doing \in Operations /\ issued[tabs[t].doing] # None
    /\ tabs[t].busy \in {"save", "retry"} => tabs[t].uncertain = tabs[t].doing
    /\ tabs[t].uncertain # None => \A u \in Tabs \ {t} : tabs[u].uncertain # tabs[t].uncertain
    /\ tabs[t].busy = "save" =>
          \A m \in requests : m.kind = "save" /\ m.op = tabs[t].doing => m.to = t

\* A tab waits for the answer of one request, of the operation it is busy with.
MsgOK(m) ==
    /\ issued[m.op] # None
    /\ m.to # None =>
          /\ tabs[m.to].busy \in Waiting /\ tabs[m.to].doing = m.op
          /\ m.kind = "save" <=> tabs[m.to].busy # "recover"
          /\ tabs[m.to].busy = "save" => receipts[m.op] # "saved"
          /\ \A n \in requests : n.to = m.to => n = m
          /\ \A r \in replies : r.to # m.to

ReplyOK(r) ==
    /\ tabs[r.to].busy \in Waiting
    /\ r.answer = "saved" => receipts[tabs[r.to].doing] = "saved"
    /\ r.answer = "cancelled" => receipts[tabs[r.to].doing] = "cancelled"
    /\ tabs[r.to].busy = "save" /\ r.answer \in {"refused", "expired"} =>
          /\ receipts[tabs[r.to].doing] # "saved"
          /\ \A m \in requests : m.kind = "save" => m.op # tabs[r.to].doing
    /\ \A q \in replies : q.to = r.to => q = r

OpsOK == \A o \in Operations : OpOK(o)
TabsOK == \A t \in Tabs : TabOK(t)
MsgsOK == \A m \in requests : MsgOK(m)
RepliesOK == \A r \in replies : ReplyOK(r)

Inv == TypeInv /\ OpsOK /\ OnePerIntent /\ TabsOK /\ MsgsOK /\ RepliesOK

----------------------------------------------------------------------------
(* What the invariant says.                                                *)

LEMMA InvAnswers == Inv => AnswersTrue /\ NothingForgotten
<1> SUFFICES ASSUME Inv PROVE AnswersTrue /\ NothingForgotten
  OBVIOUS
<1>1. ASSUME NEW o \in Operations
      PROVE  /\ told[o] = "saved" => receipts[o] = "saved"
             /\ told[o] \in {"new", "notSaved"} => receipts[o] # "saved"
             /\ receipts[o] = "saved" => told[o] \in {"entered", "saved"} /\ issued[o] # None
             /\ receipts[o] = "saved" /\ told[o] # "saved" => o \in storage
  <2>1. OpOK(o) /\ told[o] \in Told
    BY DEF Inv, OpsOK, TypeInv
  <2> QED
    BY <2>1 DEF OpOK, Told
<1>2. ASSUME NEW o \in Operations, NEW q \in Operations,
             receipts[o] = "saved", receipts[q] = "saved", issued[o] = issued[q]
      PROVE  o = q
  BY <1>1, <1>2 DEF Inv, OnePerIntent
<1> QED
  BY <1>1, <1>2 DEF AnswersTrue, NothingForgotten

----------------------------------------------------------------------------
(* Types.                                                                  *)

LEMMA BlankType == ASSUME NEW p \in People \cup {None} PROVE Blank(p) \in TabType
BY DEF Blank, TabType

\* What a tab that has shown or learned something may become.
LEMMA AcceptedFacts ==
    ASSUME NEW tab \in TabType, NEW r \in Nat
    PROVE  /\ Accepted(tab, r) \in TabType
           /\ Accepted(tab, r).user = tab.user /\ Accepted(tab, r).busy = tab.busy
           /\ Accepted(tab, r).doing = tab.doing /\ Accepted(tab, r).uncertain = tab.uncertain
           /\ Accepted(tab, r).recovery = tab.recovery /\ Accepted(tab, r).learned = tab.learned
           /\ Accepted(tab, r).shown \in {tab.shown, r}
           /\ Accepted(tab, r).shown \in Nat /\ Accepted(tab, r).shown >= r
           /\ tab.shown \in Nat => Accepted(tab, r).shown >= tab.shown
<1>1. tab.shown \in Nat \cup {None} /\ None \notin Nat
  BY BrowserAssumption DEF TabType
<1> QED
  BY <1>1 DEF Accepted, Newer, TabType

LEMMA SynchronizedFacts ==
    ASSUME NEW tab, NEW stored \in SUBSET Operations, NEW r \in Synchronized(tab, stored)
    PROVE  r \in stored \cup {None}
BY DEF Synchronized

\* A tab that settles keeps what it knows, but for the checkpoint it asks about.
LEMMA SettleFacts ==
    ASSUME NEW t \in Tabs, NEW tab \in TabType, NEW stored \in SUBSET Operations,
           Settle(t, tab, stored)
    PROVE  \E n \in TabType :
              /\ tabs' = [tabs EXCEPT ![t] = n]
              /\ n.busy = "idle" /\ n.uncertain = tab.uncertain
              /\ n.recovery \in stored \cup {None}
              /\ n.shown = tab.shown /\ n.learned = tab.learned
<1>1. PICK r \in Synchronized(tab, stored) :
         tabs' = [tabs EXCEPT ![t] = [tab EXCEPT !.busy = "idle", !.doing = None, !.recovery = r]]
  BY DEF Settle, SetTab
<1>2. r \in stored \cup {None}
  BY SynchronizedFacts
<1> DEFINE n == [tab EXCEPT !.busy = "idle", !.doing = None, !.recovery = r]
<1>3. /\ n \in TabType /\ n.busy = "idle" /\ n.uncertain = tab.uncertain /\ n.recovery = r
      /\ n.shown = tab.shown /\ n.learned = tab.learned
  BY <1>2 DEF TabType
<1> QED
  BY <1>1, <1>2, <1>3

\* Of a tab that is left, requests go on without anybody waiting.
LEMMA OrphanedFacts ==
    ASSUME TypeInv, NEW t \in Tabs, NEW m \in Orphaned(t)
    PROVE  /\ m \in Request /\ m.to # t
           /\ m.to # None => m \in requests
           /\ \E n \in requests : n.kind = m.kind /\ n.op = m.op /\ (n.to = m.to \/ n.to = t)
<1>1. PICK n \in requests : m = [n EXCEPT !.to = IF n.to = t THEN None ELSE n.to]
  BY DEF Orphaned, Live
<1>2. n \in Request /\ None \notin Tabs
  BY BrowserAssumption DEF TypeInv
<1>3. /\ m.kind = n.kind /\ m.op = n.op /\ m.as = n.as
      /\ m.to = IF n.to = t THEN None ELSE n.to
      /\ m \in Request
  BY <1>1, <1>2 DEF Request
<1>4. CASE n.to = t
  BY <1>2, <1>3, <1>4
<1>5. CASE n.to # t
  <2>1. m = n
    BY <1>1, <1>2, <1>5 DEF Request
  <2> QED
    BY <1>2, <1>5, <2>1
<1> QED
  BY <1>4, <1>5

----------------------------------------------------------------------------
(* A tab becomes idle: it settles, gives up, or is another document.       *)

Fewer(t) ==
    /\ \A m \in requests' :
          /\ m.to # t
          /\ m.to # None => m \in requests
          /\ \E n \in requests : n.kind = m.kind /\ n.op = m.op /\ (n.to = m.to \/ n.to = t)
    /\ \A r \in replies' : r \in replies /\ r.to # t

LetsGo(t, n) ==
    /\ tabs' = [tabs EXCEPT ![t] = n]
    /\ n.busy = "idle" /\ n.uncertain \in {None, tabs[t].uncertain}
    /\ n.recovery # None => issued[n.recovery] # None
    /\ receipts' = receipts /\ issued' = issued
    /\ Fewer(t)
    /\ \A o \in Operations : told[o] = "notSaved" => told'[o] = "notSaved"

LEMMA LetsGoTabs ==
    ASSUME Inv, NEW t \in Tabs, NEW n, LetsGo(t, n)
    PROVE  TabsOK'
<1> SUFFICES ASSUME NEW u \in Tabs PROVE TabOK(u)'
  BY DEF TabsOK
<1>1. tabs'[t] = n /\ \A v \in Tabs \ {t} : tabs'[v] = tabs[v]
  BY DEF LetsGo, Inv, TypeInv
<1>2. TabOK(u) /\ TabOK(t)
  BY DEF Inv, TabsOK
<1>3. CASE u = t
  BY <1>1, <1>2, <1>3 DEF TabOK, LetsGo, Waiting
<1>4. CASE u # t
  <2>1. tabs'[u] = tabs[u] /\ issued' = issued
    BY <1>1, <1>4 DEF LetsGo
  <2>2. \A v \in Tabs : tabs'[v].uncertain \in {None, tabs[v].uncertain}
    BY <1>1 DEF LetsGo
  <2>3. ASSUME tabs[u].busy = "listed"
        PROVE  /\ \A o \in Operations : issued'[o] = tabs[u].doing => told'[o] = "notSaved"
               /\ \A v \in Tabs \ {u} : tabs'[v].busy = "listed" => tabs'[v].doing # tabs[u].doing
    BY <1>1, <1>2, <2>3 DEF TabOK, LetsGo
  <2>4. ASSUME tabs[u].busy = "save", NEW m \in requests', m.kind = "save", m.op = tabs[u].doing
        PROVE  m.to = u
    <3>1. PICK k \in requests : k.kind = m.kind /\ k.op = m.op /\ (k.to = m.to \/ k.to = t)
      BY DEF LetsGo, Fewer
    <3>2. k.to = u
      BY <1>2, <2>4, <3>1 DEF TabOK
    <3> QED
      BY <1>4, <3>1, <3>2
  <2> QED
    BY <1>2, <2>1, <2>2, <2>3, <2>4 DEF TabOK
<1> QED
  BY <1>3, <1>4

LEMMA LetsGoMessages ==
    ASSUME Inv, NEW t \in Tabs, NEW n, LetsGo(t, n)
    PROVE  MsgsOK' /\ RepliesOK'
<1>1. tabs'[t] = n /\ \A v \in Tabs \ {t} : tabs'[v] = tabs[v]
  BY DEF LetsGo, Inv, TypeInv
<1>2. ASSUME NEW m \in requests' PROVE MsgOK(m)'
  <2>1. PICK k \in requests : k.kind = m.kind /\ k.op = m.op /\ (k.to = m.to \/ k.to = t)
    BY DEF LetsGo, Fewer
  <2>2. MsgOK(k)
    BY DEF Inv, MsgsOK
  <2>3. issued'[m.op] # None
    BY <2>1, <2>2 DEF MsgOK, LetsGo
  <2>4. CASE m.to # None
    <3>1. m \in requests /\ m.to # t /\ MsgOK(m) /\ m.to \in Tabs
      BY <2>4 DEF LetsGo, Fewer, Inv, MsgsOK, TypeInv, Request
    <3>2. tabs'[m.to] = tabs[m.to]
      BY <1>1, <3>1
    <3>3. ASSUME NEW q \in requests', q.to = m.to PROVE q = m
      BY <2>4, <3>1, <3>3 DEF MsgOK, LetsGo, Fewer
    <3>4. \A r \in replies' : r.to # m.to
      BY <2>4, <3>1 DEF MsgOK, LetsGo, Fewer
    <3> QED
      BY <2>3, <2>4, <3>1, <3>2, <3>3, <3>4 DEF MsgOK, LetsGo
  <2> QED
    BY <2>3, <2>4 DEF MsgOK
<1>3. ASSUME NEW r \in replies' PROVE ReplyOK(r)'
  <2>1. r \in replies /\ r.to # t /\ r.to \in Tabs /\ ReplyOK(r)
    BY DEF LetsGo, Fewer, Inv, RepliesOK, TypeInv, ReplyType
  <2>2. tabs'[r.to] = tabs[r.to] /\ receipts' = receipts
    BY <1>1, <2>1 DEF LetsGo
  <2>3. ASSUME NEW m \in requests', m.kind = "save", m.op = tabs[r.to].doing,
               tabs[r.to].busy = "save", r.answer \in {"refused", "expired"}
        PROVE  FALSE
    BY <2>1, <2>3 DEF LetsGo, Fewer, ReplyOK
  <2> QED
    BY <2>1, <2>2, <2>3 DEF ReplyOK, LetsGo, Fewer
<1> QED
  BY <1>2, <1>3 DEF MsgsOK, RepliesOK

LEMMA LetsGoUntold ==
    ASSUME Inv, NEW t \in Tabs, NEW n, LetsGo(t, n), told' = told, storage' = storage
    PROVE  OpsOK' /\ OnePerIntent'
<1>1. \A v \in Tabs : tabs'[v].uncertain \in {None, tabs[v].uncertain}
  BY DEF LetsGo, Inv, TypeInv
<1>2. ASSUME NEW o \in Operations PROVE OpOK(o)'
  <2>1. OpOK(o) /\ o # None
    BY BrowserAssumption DEF Inv, OpsOK
  <2>2. ASSUME \A m \in requests : m.kind = "save" => m.op # o
        PROVE  \A m \in requests' : m.kind = "save" => m.op # o
    BY <2>2 DEF LetsGo, Fewer
  <2>3. (\A v \in Tabs : tabs[v].uncertain # o) => (\A v \in Tabs : tabs'[v].uncertain # o)
    BY <1>1, <2>1
  <2> QED
    BY <2>1, <2>2, <2>3 DEF OpOK, LetsGo
<1>3. OnePerIntent'
  BY DEF Inv, OnePerIntent, LetsGo
<1> QED
  BY <1>2, <1>3 DEF OpsOK

LEMMA LetsGoTold ==
    ASSUME Inv, NEW t \in Tabs, NEW n, LetsGo(t, n),
           NEW o \in Operations, NEW x \in {"saved", "notSaved"}, issued[o] # None,
           told' = [told EXCEPT ![o] = x], storage' = storage \ {o},
           x = "saved" => receipts[o] = "saved",
           x = "notSaved" =>
              \/ receipts[o] = "cancelled"
              \/ /\ receipts[o] = "none"
                 /\ \A v \in Tabs : tabs'[v].uncertain # o
                 /\ \A m \in requests' : m.kind = "save" => m.op # o
    PROVE  OpsOK' /\ OnePerIntent'
<1>1. \A v \in Tabs : tabs'[v].uncertain \in {None, tabs[v].uncertain}
  BY DEF LetsGo, Inv, TypeInv
<1>2. told'[o] = x /\ \A p \in Operations \ {o} : told'[p] = told[p]
  BY DEF Inv, TypeInv
<1>3. ASSUME NEW p \in Operations PROVE OpOK(p)'
  <2>1. OpOK(p) /\ p # None
    BY BrowserAssumption DEF Inv, OpsOK
  <2>2. CASE p = o
    BY <1>2, <2>1, <2>2 DEF OpOK, LetsGo
  <2>3. CASE p # o
    <3>1. ASSUME \A m \in requests : m.kind = "save" => m.op # p
          PROVE  \A m \in requests' : m.kind = "save" => m.op # p
      BY <3>1 DEF LetsGo, Fewer
    <3>2. (\A v \in Tabs : tabs[v].uncertain # p) => (\A v \in Tabs : tabs'[v].uncertain # p)
      BY <1>1, <2>1
    <3> QED
      BY <1>2, <2>1, <2>3, <3>1, <3>2 DEF OpOK, LetsGo
  <2> QED
    BY <2>2, <2>3
<1>4. x = "saved" => told[o] \in {"entered", "saved"}
  BY DEF Inv, TypeInv, Told, OpsOK, OpOK
<1>5. OnePerIntent'
  <2> SUFFICES ASSUME NEW p \in Operations, NEW q \in Operations,
                      issued'[p] # None, issued'[p] = issued'[q],
                      told'[p] \in {"entered", "saved"}, told'[q] \in {"entered", "saved"}
               PROVE  p = q
    BY DEF OnePerIntent
  <2>1. told[p] \in {"entered", "saved"} /\ told[q] \in {"entered", "saved"}
    BY <1>2, <1>4
  <2> QED
    BY <2>1 DEF Inv, OnePerIntent, LetsGo
<1> QED
  BY <1>3, <1>5 DEF OpsOK

----------------------------------------------------------------------------
(* The server handles a request.                                           *)

LEMMA AnswerFacts ==
    ASSUME TypeInv, NEW m \in requests, NEW a, Answer(m, a)
    PROVE  /\ requests' \in SUBSET requests
           /\ m.to # None => m \notin requests' /\ replies' = replies \cup
                 {[to |-> m.to, answer |-> a, revision |-> revision']}
           /\ m.to = None => replies' = replies
BY DEF Answer, Live

\* What the server may do to the receipt of the operation, and answer.
Handled(m, a) ==
    /\ \/ receipts' = receipts
       \/ /\ receipts[m.op] = "none" /\ m.kind = "save"
          /\ receipts' = [receipts EXCEPT ![m.op] = "saved"]
       \/ /\ receipts[m.op] # "saved"
          /\ receipts' = [receipts EXCEPT ![m.op] = "cancelled"]
    /\ a = "saved" => receipts'[m.op] = "saved"
    /\ a = "cancelled" => receipts'[m.op] = "cancelled"
    /\ a \in {"refused", "expired"} => receipts' = receipts
    /\ Answer(m, a)

LEMMA HandleFacts ==
    ASSUME TypeInv, NEW m \in requests, Handle(m)
    PROVE  \E a \in {"saved", "refused", "cancelled", "expired"} : Handled(m, a)
<1>1. m.op \in Operations
  BY DEF TypeInv, Request
<1>2. CASE Commit(m)
  BY <1>1, <1>2 DEF Commit, Handled, TypeInv
<1>3. CASE Refuse(m)
  BY <1>3 DEF Refuse, Handled, server
<1>4. CASE FromReceipt(m)
  BY <1>4 DEF FromReceipt, Handled, server
<1>5. CASE Cancel(m)
  BY <1>1, <1>5 DEF Cancel, Handled, TypeInv
<1>6. CASE TurnAway(m)
  BY <1>6 DEF TurnAway, Handled, server
<1> QED
  BY <1>2, <1>3, <1>4, <1>5, <1>6 DEF Handle

LEMMA HandledInv ==
    ASSUME Inv, NEW m \in requests, NEW a \in {"saved", "refused", "cancelled", "expired"},
           Handled(m, a)
    PROVE  OpsOK' /\ OnePerIntent' /\ TabsOK' /\ MsgsOK' /\ RepliesOK'
<1> USE DEF Handled
<1>1. /\ tabs' = tabs /\ told' = told /\ storage' = storage /\ issued' = issued
      /\ requests' \in SUBSET requests
      /\ m \in Request /\ MsgOK(m)
  BY AnswerFacts DEF Answer, Inv, MsgsOK, TypeInv
<1>2. m.op \in Operations /\ m.to \in Tabs \cup {None}
  BY <1>1 DEF Request
<1>3. ASSUME NEW o \in Operations
      PROVE  /\ receipts[o] = "saved" => receipts'[o] = "saved"
             /\ receipts[o] = "cancelled" => receipts'[o] = "cancelled"
             /\ receipts'[o] = "saved" => receipts[o] = "saved" \/ (o = m.op /\ m.kind = "save")
             /\ o # m.op => receipts'[o] = receipts[o]
             /\ receipts'[o] \in {"none", "saved", "cancelled"}
  BY <1>2 DEF Inv, TypeInv
<1>4. OnePerIntent'
  BY <1>1 DEF Inv, OnePerIntent
<1>5. TabsOK'
  BY <1>1 DEF Inv, TabsOK, TabOK
<1>6. ASSUME NEW o \in Operations PROVE OpOK(o)'
  <2>1. OpOK(o)
    BY DEF Inv, OpsOK
  <2>2. told[o] = "new" => o # m.op
    BY <1>1, <2>1 DEF OpOK, MsgOK
  <2> QED
    BY <1>1, <1>3, <2>1, <2>2 DEF OpOK
<1>7. ASSUME NEW k \in requests', k.to # None PROVE k # m /\ k.to # m.to
  <2>1. k # m
    BY <1>7, AnswerFacts DEF Inv
  <2>2. MsgOK(k) /\ k \in requests
    BY <1>1 DEF Inv, MsgsOK
  <2> QED
    BY <1>7, <2>1, <2>2 DEF MsgOK
<1>8. ASSUME NEW k \in requests' PROVE MsgOK(k)'
  <2>1. k \in requests /\ MsgOK(k) /\ k \in Request
    BY <1>1 DEF Inv, MsgsOK, TypeInv
  <2>2. k.op \in Operations /\ k.to \in Tabs \cup {None}
    BY <2>1 DEF Request
  <2>3. ASSUME k.to # None, tabs[k.to].busy = "save" PROVE receipts'[k.op] # "saved"
    <3>1. SUFFICES ASSUME k.op = m.op, m.kind = "save" PROVE FALSE
      BY <1>3, <2>1, <2>2, <2>3 DEF MsgOK
    <3>2. m.to = k.to
      BY <2>1, <2>2, <2>3, <3>1 DEF Inv, TabsOK, TabOK, MsgOK
    <3> QED
      BY <1>7, <2>3, <3>2
  <2>4. ASSUME k.to # None, NEW r \in replies' PROVE r.to # k.to
    BY <1>7, <2>1, <2>4, AnswerFacts DEF MsgOK, Inv
  <2> QED
    BY <1>1, <2>1, <2>3, <2>4 DEF MsgOK
<1>9. ASSUME NEW r \in replies PROVE ReplyOK(r)'
  <2>1. ReplyOK(r) /\ r.to \in Tabs
    BY DEF Inv, RepliesOK, TypeInv, ReplyType
  <2>2. tabs[r.to].doing \in Operations
    BY <2>1 DEF Inv, TabsOK, TabOK, ReplyOK
  <2>3. ASSUME NEW q \in replies', q.to = r.to PROVE q = r
    BY <1>1, <2>1, <2>3, AnswerFacts DEF ReplyOK, MsgOK, Inv
  <2>4. ASSUME tabs[r.to].busy = "save", r.answer \in {"refused", "expired"}
        PROVE  receipts'[tabs[r.to].doing] # "saved"
    BY <1>3, <2>1, <2>2, <2>4 DEF ReplyOK
  <2> QED
    BY <1>1, <1>3, <2>1, <2>2, <2>3, <2>4 DEF ReplyOK
<1>10. ASSUME NEW r \in replies' \ replies PROVE ReplyOK(r)'
  <2>1. m.to # None /\ r.to = m.to /\ r.answer = a /\ m.to \in Tabs
    BY <1>2, AnswerFacts DEF Inv
  <2>2. tabs[m.to].busy \in Waiting /\ tabs[m.to].doing = m.op
    BY <1>1, <2>1 DEF MsgOK
  <2>3. ASSUME NEW q \in replies', q.to = r.to PROVE q = r
    BY <1>1, <2>1, <2>3, AnswerFacts DEF MsgOK, Inv
  <2>4. ASSUME tabs[m.to].busy = "save", NEW k \in requests', k.kind = "save", k.op = m.op
        PROVE  FALSE
    <3>1. k.to = m.to
      BY <1>1, <2>1, <2>2, <2>4 DEF Inv, TabsOK, TabOK
    <3> QED
      BY <1>7, <2>1, <3>1
  <2>5. tabs[m.to].busy = "save" /\ a \in {"refused", "expired"} => receipts'[m.op] # "saved"
    BY <1>1, <2>1 DEF MsgOK
  <2> QED
    BY <1>1, <2>1, <2>2, <2>3, <2>4, <2>5 DEF ReplyOK
<1> QED
  BY <1>4, <1>5, <1>6, <1>8, <1>9, <1>10 DEF OpsOK, MsgsOK, RepliesOK

----------------------------------------------------------------------------
(* A tab looks at records or checkpoints, and goes on with what it does.   *)

Untold == /\ receipts' = receipts /\ issued' = issued /\ told' = told /\ storage' = storage
          /\ requests' = requests /\ replies' = replies

Looks(t, n) ==
    /\ tabs' = [tabs EXCEPT ![t] = n]
    /\ n.busy = tabs[t].busy /\ n.doing = tabs[t].doing /\ n.uncertain = tabs[t].uncertain
    /\ n.recovery # None => issued[n.recovery] # None
    /\ Untold

LEMMA LooksInv ==
    ASSUME Inv, NEW t \in Tabs, NEW n, Looks(t, n)
    PROVE  OpsOK' /\ OnePerIntent' /\ TabsOK' /\ MsgsOK' /\ RepliesOK'
<1>1. /\ tabs'[t] = n
      /\ \A v \in Tabs : /\ tabs'[v].busy = tabs[v].busy /\ tabs'[v].doing = tabs[v].doing
                         /\ tabs'[v].uncertain = tabs[v].uncertain
                         /\ v # t => tabs'[v] = tabs[v]
  BY DEF Looks, Inv, TypeInv
<1>2. OpsOK' /\ OnePerIntent'
  BY <1>1 DEF Inv, OpsOK, OpOK, OnePerIntent, Looks, Untold
<1>3. ASSUME NEW u \in Tabs PROVE TabOK(u)'
  <2>1. TabOK(u)
    BY DEF Inv, TabsOK
  <2>2. tabs'[u].recovery # None => issued'[tabs'[u].recovery] # None
    BY <1>1, <2>1 DEF TabOK, Looks, Untold
  <2> QED
    BY <1>1, <2>1, <2>2 DEF TabOK, Looks, Untold
<1>4. \A m \in requests : m.to # None => m.to \in Tabs
  BY DEF Inv, TypeInv, Request
<1>5. \A r \in replies : r.to \in Tabs
  BY DEF Inv, TypeInv, ReplyType
<1>6. \A r \in replies : tabs[r.to].doing = tabs'[r.to].doing /\ tabs[r.to].busy = tabs'[r.to].busy
  BY <1>1, <1>5
<1>7. MsgsOK'
  BY <1>1, <1>4 DEF Inv, MsgsOK, MsgOK, Looks, Untold
<1>8. RepliesOK'
  BY <1>6 DEF Inv, RepliesOK, ReplyOK, Looks, Untold
<1> QED
  BY <1>2, <1>3, <1>7, <1>8 DEF TabsOK

LEMMA UntoldInv ==
    ASSUME Inv, Untold, tabs' = tabs
    PROVE  OpsOK' /\ OnePerIntent' /\ TabsOK' /\ MsgsOK' /\ RepliesOK'
<1>1. OpsOK' /\ OnePerIntent'
  BY DEF Inv, OpsOK, OpOK, OnePerIntent, Untold
<1>2. TabsOK'
  BY DEF Inv, TabsOK, TabOK, Untold
<1>3. MsgsOK' /\ RepliesOK'
  BY DEF Inv, MsgsOK, MsgOK, RepliesOK, ReplyOK, Untold
<1> QED
  BY <1>1, <1>2, <1>3

\* A checkpoint in the storage is one of an operation that was issued.
LEMMA StoredIssued ==
    ASSUME Inv, NEW o \in storage
    PROVE  o \in Operations /\ issued[o] # None
BY DEF Inv, TypeInv, OpsOK, OpOK

LEMMA AnsweredIssued ==
    ASSUME Inv, NEW r \in replies
    PROVE  /\ r.to \in Tabs /\ r.revision \in Nat /\ tabs[r.to] \in TabType
           /\ tabs[r.to].doing \in Operations /\ issued[tabs[r.to].doing] # None
           /\ ReplyOK(r) /\ TabOK(r.to) /\ OpOK(tabs[r.to].doing)
<1>1. r.to \in Tabs /\ r.revision \in Nat /\ tabs[r.to] \in TabType
  BY DEF Inv, TypeInv, ReplyType
<1>2. ReplyOK(r) /\ TabOK(r.to)
  BY <1>1 DEF Inv, RepliesOK, TabsOK
<1> QED
  BY <1>1, <1>2 DEF ReplyOK, TabOK, Inv, OpsOK

----------------------------------------------------------------------------
(* A tab lists the checkpoints, and sends.                                 *)

\* No request and no answer is for a tab that does not wait.
LEMMA NoneForIdle ==
    ASSUME Inv, NEW t \in Tabs, tabs[t].busy \notin Waiting
    PROVE  /\ \A m \in requests : m.to # t
           /\ \A r \in replies : r.to # t
BY BrowserAssumption DEF Inv, MsgsOK, MsgOK, RepliesOK, ReplyOK

LEMMA ListsInv ==
    ASSUME Inv, NEW t \in Tabs, NEW i \in Intents, List(t, i), Pending(tabs[t].user) = {},
           tabs' = [tabs EXCEPT ![t] = [tabs[t] EXCEPT !.busy = "listed", !.doing = i]]
    PROVE  OpsOK' /\ OnePerIntent' /\ TabsOK' /\ MsgsOK' /\ RepliesOK'
<1>1. Untold /\ tabs[t].busy = "idle" /\ tabs[t].uncertain = None
  BY DEF List, Ready, Untold, server
<1>2. /\ tabs'[t].busy = "listed" /\ tabs'[t].doing = i
      /\ tabs'[t].uncertain = None /\ tabs'[t].recovery = tabs[t].recovery
      /\ \A v \in Tabs \ {t} : tabs'[v] = tabs[v]
  BY <1>1 DEF Inv, TypeInv, TabType
<1>3. \A v \in Tabs : tabs'[v].uncertain = tabs[v].uncertain
  BY <1>1, <1>2
<1>4. ASSUME NEW o \in Operations, issued[o] = i PROVE told[o] = "notSaved"
  <2>1. told[o] # "saved" /\ OpOK(o) /\ told[o] \in Told /\ i # None
    BY <1>4, BrowserAssumption DEF List, Inv, OpsOK, TypeInv
  <2>2. o \notin storage
    BY <1>4 DEF Pending, Actor, List
  <2> QED
    BY <1>4, <2>1, <2>2 DEF OpOK, Told
<1>5. ASSUME NEW u \in Tabs PROVE TabOK(u)'
  <2>1. TabOK(u) /\ TabOK(t)
    BY DEF Inv, TabsOK
  <2>2. CASE u = t
    <3>1. \A v \in Tabs \ {t} : tabs'[v].doing # i
      BY <1>2 DEF List, NotUnderWay
    <3> QED
      BY <1>1, <1>2, <1>4, <2>1, <2>2, <3>1 DEF TabOK, Untold, Waiting
  <2>3. CASE u # t
    <3>1. tabs'[u] = tabs[u] /\ tabs'[u].doing # i
      BY <1>2, <2>3 DEF List, NotUnderWay
    <3> QED
      BY <1>1, <1>2, <1>3, <2>1, <2>3, <3>1 DEF TabOK, Untold
  <2> QED
    BY <2>2, <2>3
<1>6. /\ \A m \in requests : m.to # None => m.to \in Tabs \ {t}
      /\ \A r \in replies : r.to \in Tabs \ {t}
  BY <1>1, NoneForIdle DEF Inv, TypeInv, Request, ReplyType, Waiting
<1>7. MsgsOK' /\ RepliesOK'
  BY <1>1, <1>2, <1>6 DEF Inv, MsgsOK, MsgOK, RepliesOK, ReplyOK, Untold
<1>8. OpsOK' /\ OnePerIntent'
  BY <1>1, <1>3 DEF Inv, OpsOK, OpOK, OnePerIntent, Untold
<1> QED
  BY <1>5, <1>7, <1>8 DEF TabsOK

LEMMA SendInv ==
    ASSUME Inv, NEW t \in Tabs, NEW o \in Operations, Send(t, o)
    PROVE  OpsOK' /\ OnePerIntent' /\ TabsOK' /\ MsgsOK' /\ RepliesOK'
<1> DEFINE i == tabs[t].doing
           k == [kind |-> "save", op |-> o, as |-> signedIn, to |-> t]
<1>1. /\ tabs[t].busy = "listed" /\ issued[o] = None
      /\ receipts' = receipts /\ replies' = replies /\ requests' = requests \cup {k}
      /\ storage' = storage \cup {o}
  BY DEF Send, server
<1>2. /\ issued'[o] = i /\ told'[o] = "entered"
      /\ \A p \in Operations \ {o} : issued'[p] = issued[p] /\ told'[p] = told[p]
  BY DEF Send, Inv, TypeInv
<1>3. /\ tabs'[t].busy = "save" /\ tabs'[t].doing = o /\ tabs'[t].uncertain = o
      /\ tabs'[t].recovery = tabs[t].recovery
      /\ \A v \in Tabs \ {t} : tabs'[v] = tabs[v]
  BY DEF Send, SetTab, Inv, TypeInv, TabType
<1>4. OpOK(o) /\ TabOK(t) /\ i \in Intents /\ i # None /\ None \notin Tabs
  BY <1>1, BrowserAssumption DEF Inv, OpsOK, TabsOK, TabOK
<1>5. /\ \A v \in Tabs : tabs[v].uncertain # o /\ tabs[v].recovery # o
      /\ \A v \in Tabs : tabs[v].busy \in Waiting => tabs[v].doing # o
      /\ \A m \in requests : m.op # o
  BY <1>1, BrowserAssumption DEF Inv, TabsOK, TabOK, MsgsOK, MsgOK
<1>6. /\ \A m \in requests : m.to # t /\ m.op \in Operations
      /\ \A r \in replies : r.to # t /\ r.to \in Tabs
      /\ \A m \in requests : m.to # None => m.to \in Tabs
  BY <1>1, NoneForIdle DEF Inv, TypeInv, Request, ReplyType, Waiting
<1>7. ASSUME NEW p \in Operations PROVE OpOK(p)'
  <2>1. OpOK(p)
    BY DEF Inv, OpsOK
  <2>2. CASE p = o
    BY <1>1, <1>2, <1>4, <2>1, <2>2 DEF OpOK
  <2>3. CASE p # o
    <3>1. (\A v \in Tabs : tabs[v].uncertain # p) => (\A v \in Tabs : tabs'[v].uncertain # p)
      BY <1>3, <2>3
    <3> QED
      BY <1>1, <1>2, <2>1, <2>3, <3>1 DEF OpOK
  <2> QED
    BY <2>2, <2>3
<1>8. OnePerIntent'
  <2>1. \A p \in Operations : issued[p] = i => told[p] = "notSaved"
    BY <1>1, <1>4 DEF TabOK
  <2> QED
    BY <1>2, <2>1 DEF Inv, OnePerIntent
<1>9. ASSUME NEW u \in Tabs PROVE TabOK(u)'
  <2>1. TabOK(u) /\ tabs[u].uncertain \in Operations \cup {None}
          /\ tabs[u].recovery \in Operations \cup {None}
    BY DEF Inv, TabsOK, TypeInv, TabType
  <2>2. CASE u = t
    <3>1. /\ tabs'[u].recovery # None => issued'[tabs'[u].recovery] # None
          /\ \A v \in Tabs \ {u} : tabs'[v].uncertain # o
          /\ \A m \in requests' : m.op = o => m.to = u
      BY <1>1, <1>2, <1>3, <1>5, <2>1, <2>2 DEF TabOK
    <3> QED
      BY <1>2, <1>3, <1>4, <2>2, <3>1 DEF TabOK, Waiting
  <2>3. CASE u # t
    <3>1. tabs'[u] = tabs[u]
      BY <1>3, <2>3
    <3>2. tabs[u].uncertain # None =>
             \A v \in Tabs \ {u} : tabs'[v].uncertain # tabs[u].uncertain
      BY <1>3, <1>5, <2>1 DEF TabOK
    <3>3. tabs[u].busy = "listed" =>
             /\ \A p \in Operations : issued'[p] = tabs[u].doing => told'[p] = "notSaved"
             /\ \A v \in Tabs \ {u} : tabs'[v].busy = "listed" => tabs'[v].doing # tabs[u].doing
      BY <1>1, <1>2, <1>3, <2>1, <2>3 DEF TabOK
    <3>4. tabs[u].busy = "save" =>
             \A m \in requests' : m.kind = "save" /\ m.op = tabs[u].doing => m.to = u
      BY <1>1, <1>5, <2>1 DEF TabOK, Waiting
    <3>5. /\ tabs[u].uncertain # None => issued'[tabs[u].uncertain] # None
          /\ tabs[u].recovery # None => issued'[tabs[u].recovery] # None
          /\ tabs[u].busy \in Waiting =>
                tabs[u].doing \in Operations /\ issued'[tabs[u].doing] # None
      BY <1>2, <1>5, <2>1 DEF TabOK
    <3> QED
      BY <2>1, <3>1, <3>2, <3>3, <3>4, <3>5 DEF TabOK
  <2> QED
    BY <2>2, <2>3
<1>10. ASSUME NEW m \in requests' PROVE MsgOK(m)'
  <2>1. CASE m = k
    BY <1>1, <1>2, <1>3, <1>4, <1>6, <2>1 DEF MsgOK, OpOK, Waiting
  <2>2. CASE m # k
    <3>1. m \in requests /\ MsgOK(m)
      BY <1>1, <2>2 DEF Inv, MsgsOK
    <3>2. issued'[m.op] # None
      BY <1>2, <1>5, <1>6, <3>1 DEF MsgOK
    <3>3. m.to # None => m.to \in Tabs \ {t} /\ tabs'[m.to] = tabs[m.to]
      BY <1>3, <1>6, <3>1
    <3> QED
      BY <1>1, <3>1, <3>2, <3>3 DEF MsgOK
  <2> QED
    BY <2>1, <2>2
<1>11. ASSUME NEW r \in replies' PROVE ReplyOK(r)'
  <2>1. r \in replies /\ ReplyOK(r) /\ r.to \in Tabs /\ tabs'[r.to] = tabs[r.to]
    BY <1>1, <1>3, <1>6 DEF Inv, RepliesOK
  <2>2. tabs[r.to].doing # o
    BY <1>5, <2>1 DEF ReplyOK
  <2> QED
    BY <1>1, <2>1, <2>2 DEF ReplyOK
<1> QED
  BY <1>7, <1>8, <1>9, <1>10, <1>11 DEF OpsOK, TabsOK, MsgsOK, RepliesOK

\* A tab that is idle sends an operation again, or asks what became of it.
Again(t, o, kind, busy) ==
    /\ tabs[t].busy = "idle"
    /\ \/ kind = "save" /\ busy = "retry" /\ tabs[t].uncertain = o
       \/ kind = "recover" /\ busy = "recover"
    /\ tabs' = [tabs EXCEPT ![t] = [tabs[t] EXCEPT !.busy = busy, !.doing = o]]
    /\ requests' = requests \cup {[kind |-> kind, op |-> o, as |-> signedIn, to |-> t]}
    /\ receipts' = receipts /\ issued' = issued /\ told' = told /\ storage' = storage
    /\ replies' = replies

LEMMA AgainInv ==
    ASSUME Inv, NEW t \in Tabs, NEW o \in Operations, NEW kind, NEW busy,
           issued[o] # None, Again(t, o, kind, busy)
    PROVE  OpsOK' /\ OnePerIntent' /\ TabsOK' /\ MsgsOK' /\ RepliesOK'
<1> DEFINE k == [kind |-> kind, op |-> o, as |-> signedIn, to |-> t]
<1>1. /\ tabs'[t].busy = busy /\ tabs'[t].doing = o
      /\ tabs'[t].uncertain = tabs[t].uncertain /\ tabs'[t].recovery = tabs[t].recovery
      /\ \A v \in Tabs \ {t} : tabs'[v] = tabs[v]
  BY DEF Again, Inv, TypeInv, TabType
<1>2. \A v \in Tabs : tabs'[v].uncertain = tabs[v].uncertain
  BY <1>1
<1>3. busy \in {"retry", "recover"} /\ None \notin Tabs /\ o # None
  BY BrowserAssumption DEF Again
<1>4. kind = "save" => \A v \in Tabs \ {t} : tabs[v].uncertain # o
  BY <1>3 DEF Again, Inv, TabsOK, TabOK
<1>5. /\ \A m \in requests : m.to # t
      /\ \A r \in replies : r.to # t /\ r.to \in Tabs
      /\ \A m \in requests : m.to # None => m.to \in Tabs
  BY NoneForIdle DEF Again, Inv, TypeInv, Request, ReplyType, Waiting
<1>6. ASSUME NEW p \in Operations PROVE OpOK(p)'
  BY <1>2 DEF Inv, OpsOK, OpOK, Again
<1>7. OnePerIntent'
  BY DEF Inv, OnePerIntent, Again
<1>8. ASSUME NEW u \in Tabs PROVE TabOK(u)'
  <2>1. TabOK(u) /\ TabOK(t)
    BY DEF Inv, TabsOK
  <2>2. CASE u = t
    BY <1>1, <1>2, <1>3, <2>1, <2>2 DEF TabOK, Again, Waiting
  <2>3. CASE u # t
    <3>1. tabs'[u] = tabs[u]
      BY <1>1, <2>3
    <3>2. tabs[u].busy = "save" =>
             \A m \in requests' : m.kind = "save" /\ m.op = tabs[u].doing => m.to = u
      BY <1>4, <2>1, <2>3 DEF TabOK, Again
    <3>3. \A v \in Tabs \ {u} :
             tabs'[v].busy = "listed" => tabs[v].busy = "listed" /\ tabs'[v] = tabs[v]
      BY <1>1, <1>3
    <3> QED
      BY <1>2, <2>1, <3>1, <3>2, <3>3 DEF TabOK, Again
  <2> QED
    BY <2>2, <2>3
<1>9. ASSUME NEW m \in requests' PROVE MsgOK(m)'
  <2>1. CASE m = k
    <3>1. m.op = o /\ m.to = t /\ m.kind = kind
      BY <2>1
    <3>2. \A n \in requests' : n.to = t => n = m
      BY <1>5, <2>1 DEF Again
    <3> QED
      BY <1>1, <1>3, <1>5, <3>1, <3>2 DEF MsgOK, Waiting, Again
  <2>2. CASE m # k
    <3>1. m \in requests /\ MsgOK(m)
      BY <2>2 DEF Inv, MsgsOK, Again
    <3>2. m.to # None => m.to \in Tabs \ {t} /\ tabs'[m.to] = tabs[m.to]
      BY <1>1, <1>5, <3>1
    <3> QED
      BY <3>1, <3>2 DEF MsgOK, Again
  <2> QED
    BY <2>1, <2>2
<1>10. ASSUME NEW r \in replies' PROVE ReplyOK(r)'
  <2>1. r \in replies /\ ReplyOK(r) /\ r.to \in Tabs /\ tabs'[r.to] = tabs[r.to] /\ r.to # t
    BY <1>1, <1>5 DEF Inv, RepliesOK, Again
  <2>2. tabs[r.to].busy = "save" /\ kind = "save" => tabs[r.to].doing # o
    BY <1>4, <2>1 DEF Inv, TabsOK, TabOK
  <2> QED
    BY <2>1, <2>2 DEF ReplyOK, Again
<1> QED
  BY <1>6, <1>7, <1>8, <1>9, <1>10 DEF OpsOK, TabsOK, MsgsOK, RepliesOK

----------------------------------------------------------------------------
(* The steps, and what they leave of the invariant besides the types.      *)

Agreed == OpsOK /\ OnePerIntent /\ TabsOK /\ MsgsOK /\ RepliesOK

LEMMA LeftFewer ==
    ASSUME Inv, NEW t \in Tabs, requests' = Orphaned(t), replies' = Others(replies, t)
    PROVE  Fewer(t)
<1>1. \A m \in requests' :
         /\ m.to # t
         /\ m.to # None => m \in requests
         /\ \E n \in requests : n.kind = m.kind /\ n.op = m.op /\ (n.to = m.to \/ n.to = t)
  BY OrphanedFacts DEF Inv
<1>2. \A r \in replies' : r \in replies /\ r.to # t
  BY DEF Others
<1> QED
  BY <1>1, <1>2 DEF Fewer

LEMMA HeardFewer ==
    ASSUME Inv, NEW r \in replies, requests' = requests, replies' = replies \ {r}
    PROVE  Fewer(r.to)
<1>1. r.to # None /\ ReplyOK(r)
  BY AnsweredIssued, BrowserAssumption
<1>2. \A m \in requests : m.to # r.to
  BY <1>1 DEF Inv, MsgsOK, MsgOK
<1>3. \A q \in replies : q.to = r.to => q = r
  BY <1>1 DEF ReplyOK
<1> QED
  BY <1>2, <1>3 DEF Fewer

LEMMA ReloadAgreed ==
    ASSUME Inv, NEW t \in Tabs, Reload(t)
    PROVE  Agreed'
<1>1. Fewer(t)
  BY LeftFewer DEF Reload, Document
<1>2. LetsGo(t, Blank(signedIn)) /\ told' = told /\ storage' = storage
  BY <1>1 DEF Reload, Document, SetTab, LetsGo, Blank, server
<1> QED
  BY <1>2, LetsGoTabs, LetsGoMessages, LetsGoUntold DEF Agreed

LEMMA SettledAgreed ==
    ASSUME Inv, NEW t \in Tabs, Settle(t, tabs[t], storage), Fewer(t),
           receipts' = receipts, issued' = issued, told' = told, storage' = storage
    PROVE  Agreed'
<1>1. tabs[t] \in TabType /\ storage \in SUBSET Operations
  BY DEF Inv, TypeInv
<1>2. PICK n \in TabType :
         /\ tabs' = [tabs EXCEPT ![t] = n]
         /\ n.busy = "idle" /\ n.uncertain = tabs[t].uncertain
         /\ n.recovery \in storage \cup {None}
  BY <1>1, SettleFacts
<1>3. n.recovery # None => issued[n.recovery] # None
  BY <1>2, StoredIssued
<1>4. LetsGo(t, n)
  BY <1>2, <1>3 DEF LetsGo
<1> QED
  BY <1>4, LetsGoTabs, LetsGoMessages, LetsGoUntold DEF Agreed

LEMMA GiveUpAgreed ==
    ASSUME Inv, NEW t \in Tabs, GiveUp(t)
    PROVE  Agreed'
<1>1. Fewer(t)
  BY LeftFewer DEF GiveUp
<1> QED
  BY <1>1, SettledAgreed DEF GiveUp, server

LEMMA CheckpointFailsAgreed ==
    ASSUME Inv, NEW t \in Tabs, CheckpointFails(t)
    PROVE  Agreed'
<1>1. Fewer(t)
  BY NoneForIdle DEF CheckpointFails, Fewer, Waiting
<1> QED
  BY <1>1, SettledAgreed DEF CheckpointFails, server

LEMMA HearAgreed ==
    ASSUME Inv, NEW r \in replies, Hear(r)
    PROVE  Agreed'
<1> DEFINE t == r.to
           tab == tabs[r.to]
           o == tab.doing
<1>1. /\ t \in Tabs /\ r.revision \in Nat /\ tab \in TabType
      /\ o \in Operations /\ issued[o] # None /\ o # None
      /\ ReplyOK(r) /\ TabOK(t) /\ OpOK(o)
  BY AnsweredIssued, BrowserAssumption
<1>2. Fewer(t) /\ receipts' = receipts /\ issued' = issued
  BY HeardFewer DEF Hear, HearSaved, HearCancelled, HearRefused, HearExpired, Heard, server
<1>3. storage' \in SUBSET storage /\ storage' \in SUBSET Operations
  BY DEF Hear, HearSaved, HearCancelled, HearRefused, HearExpired, Inv, TypeInv
<1>4. \A p \in Operations : p # o => told'[p] = told[p]
  BY <1>1 DEF Hear, HearSaved, HearCancelled, HearRefused, HearExpired, Inv, TypeInv
\* A tab that settles, with what is left of its uncertainty.
<1>5. ASSUME NEW after \in TabType, Settle(t, after, storage'),
             after.uncertain \in {None, tab.uncertain},
             told[o] = "notSaved" => told'[o] = "notSaved"
      PROVE  \E n \in TabType : LetsGo(t, n) /\ n.uncertain = after.uncertain
  <2>1. PICK n \in TabType :
           /\ tabs' = [tabs EXCEPT ![t] = n]
           /\ n.busy = "idle" /\ n.uncertain = after.uncertain
           /\ n.recovery \in storage' \cup {None}
    BY <1>1, <1>3, <1>5, SettleFacts
  <2>2. n.recovery # None => issued[n.recovery] # None
    BY <1>3, <2>1, StoredIssued
  <2>3. LetsGo(t, n)
    BY <1>2, <1>4, <1>5, <2>1, <2>2 DEF LetsGo
  <2> QED
    BY <2>1, <2>3
<1>6. CASE HearSaved(r)
  <2> DEFINE base == [tab EXCEPT !.uncertain = IF @ = tab.doing THEN None ELSE @,
                                 !.learned = r.revision]
             after == Accepted(base, r.revision)
  <2>1. base \in TabType /\ base.uncertain \in {None, tab.uncertain}
    BY <1>1 DEF TabType
  <2>2. /\ told' = [told EXCEPT ![o] = "saved"] /\ storage' = storage \ {o}
        /\ Settle(t, after, storage') /\ r.answer = "saved"
    BY <1>6 DEF HearSaved
  <2> HIDE DEF base
  <2>3. after \in TabType /\ after.uncertain \in {None, tab.uncertain}
    BY <1>1, <2>1, AcceptedFacts
  <2>4. receipts[o] = "saved" /\ told[o] # "notSaved"
    BY <1>1, <2>2 DEF ReplyOK, OpOK
  <2> HIDE DEF after
  <2>5. PICK n \in TabType : LetsGo(t, n)
    BY <1>5, <2>2, <2>3, <2>4
  <2>6. OpsOK' /\ OnePerIntent'
    BY <1>1, <2>2, <2>4, <2>5, LetsGoTold
  <2> QED
    BY <1>1, <2>5, <2>6, LetsGoTabs, LetsGoMessages DEF Agreed
<1>7. CASE HearCancelled(r)
  <2> DEFINE base == [tab EXCEPT !.uncertain = IF @ = tab.doing THEN None ELSE @]
             after == Accepted(base, r.revision)
  <2>1. base \in TabType /\ base.uncertain \in {None, tab.uncertain}
    BY <1>1 DEF TabType
  <2>2. /\ told' = [told EXCEPT ![o] = "notSaved"] /\ storage' = storage \ {o}
        /\ Settle(t, after, storage') /\ r.answer = "cancelled"
    BY <1>7 DEF HearCancelled
  <2> HIDE DEF base
  <2>3. after \in TabType /\ after.uncertain \in {None, tab.uncertain}
    BY <1>1, <2>1, AcceptedFacts
  <2>4. receipts[o] = "cancelled" /\ told'[o] = "notSaved"
    BY <1>1, <2>2 DEF ReplyOK, Inv, TypeInv
  <2> HIDE DEF after
  <2>5. PICK n \in TabType : LetsGo(t, n)
    BY <1>5, <2>2, <2>3, <2>4
  <2>6. OpsOK' /\ OnePerIntent'
    BY <1>1, <2>2, <2>4, <2>5, LetsGoTold
  <2> QED
    BY <1>1, <2>5, <2>6, LetsGoTabs, LetsGoMessages DEF Agreed
\* A first attempt that was refused: it is certain now, and nobody sends it any more.
<1>8. ASSUME NEW n, LetsGo(t, n), n.uncertain = None, tab.busy = "save",
             r.answer \in {"refused", "expired"},
             told' = [told EXCEPT ![o] = "notSaved"], storage' = storage \ {o},
             requests' = requests
      PROVE  Agreed'
  <2>1. /\ receipts[o] \in {"none", "cancelled"}
        /\ \A m \in requests' : m.kind = "save" => m.op # o
    BY <1>1, <1>8 DEF ReplyOK, Inv, TypeInv
  <2>2. \A v \in Tabs : tabs'[v].uncertain # o
    BY <1>1, <1>8 DEF TabOK, LetsGo, Inv, TypeInv
  <2>3. OpsOK' /\ OnePerIntent'
    BY <1>1, <1>8, <2>1, <2>2, LetsGoTold
  <2> QED
    BY <1>1, <1>8, <2>3, LetsGoTabs, LetsGoMessages DEF Agreed
<1>9. CASE HearRefused(r)
  <2> DEFINE after == IF tab.busy = "recover" THEN tab ELSE [tab EXCEPT !.uncertain = None]
  <2>1. after \in TabType /\ after.uncertain \in {None, tab.uncertain}
          /\ (tab.busy = "save" => after.uncertain = None)
    BY <1>1 DEF TabType
  <2>2. /\ Settle(t, after, storage') /\ r.answer = "refused" /\ requests' = requests
        /\ storage' = storage \ Released(tab)
        /\ told' = IF tab.busy = "save" THEN [told EXCEPT ![o] = "notSaved"] ELSE told
    BY <1>9 DEF HearRefused, Heard
  <2>3. told[o] = "notSaved" => told'[o] = "notSaved"
    BY <1>1, <2>2 DEF Inv, TypeInv
  <2> HIDE DEF after
  <2>4. PICK n \in TabType : LetsGo(t, n) /\ n.uncertain = after.uncertain
    BY <1>5, <2>1, <2>2, <2>3
  <2>5. CASE tab.busy = "save"
    BY <1>8, <2>1, <2>2, <2>4, <2>5 DEF Released
  <2>6. CASE tab.busy # "save"
    BY <1>1, <2>2, <2>4, <2>6, LetsGoTabs, LetsGoMessages, LetsGoUntold DEF Released, Agreed
  <2> QED
    BY <2>5, <2>6
<1>10. CASE HearExpired(r)
  <2>1. /\ tabs' = [tabs EXCEPT ![t] = Blank(None)] /\ r.answer = "expired"
        /\ storage' = storage \ Released(tab) /\ requests' = requests
        /\ told' = IF tab.busy = "save" THEN [told EXCEPT ![o] = "notSaved"] ELSE told
    BY <1>10 DEF HearExpired, SetTab
  <2>2. told[o] = "notSaved" => told'[o] = "notSaved"
    BY <1>1, <2>1 DEF Inv, TypeInv
  <2>3. LetsGo(t, Blank(None)) /\ Blank(None).uncertain = None
    BY <1>2, <1>4, <2>1, <2>2 DEF LetsGo, Blank
  <2>4. CASE tab.busy = "save"
    BY <1>8, <2>1, <2>3, <2>4 DEF Released
  <2>5. CASE tab.busy # "save"
    BY <1>1, <2>1, <2>3, <2>5, LetsGoTabs, LetsGoMessages, LetsGoUntold DEF Released, Agreed
  <2> QED
    BY <2>4, <2>5
<1> QED
  BY <1>6, <1>7, <1>9, <1>10 DEF Hear

LEMMA ReadArrivesAgreed ==
    ASSUME Inv, NEW r \in reads, ReadArrives(r)
    PROVE  Agreed'
<1> DEFINE t == r.to
<1>1. t \in Tabs /\ r.revision \in Nat /\ tabs[t] \in TabType /\ TabOK(t)
  BY DEF Inv, TypeInv, ReadType, TabsOK
<1>2. CASE r.user = tabs[t].user
  <2>1. Looks(t, Accepted(tabs[t], r.revision))
    BY <1>1, <1>2, AcceptedFacts DEF ReadArrives, SetTab, Looks, Untold, server, TabOK
  <2> QED
    BY <1>1, <2>1, LooksInv DEF Agreed
<1>3. CASE r.user # tabs[t].user
  BY <1>1, <1>3, ReloadAgreed DEF ReadArrives
<1> QED
  BY <1>2, <1>3

\* The tab looks for the checkpoint it asks its user about.
LEMMA AskedAgreed ==
    ASSUME Inv, NEW t \in Tabs, NEW o \in storage \cup {None}, Untold,
           tabs' = [tabs EXCEPT ![t] = [tabs[t] EXCEPT !.recovery = o]]
    PROVE  Agreed'
<1> DEFINE n == [tabs[t] EXCEPT !.recovery = o]
<1>1. /\ n.busy = tabs[t].busy /\ n.doing = tabs[t].doing /\ n.uncertain = tabs[t].uncertain
      /\ n.recovery = o
  BY DEF Inv, TypeInv, TabType
<1>2. o # None => issued[o] # None
  BY StoredIssued
<1>3. Looks(t, n)
  BY <1>1, <1>2 DEF Looks
<1> QED
  BY <1>3, LooksInv DEF Agreed

LEMMA TabStepAgreed ==
    ASSUME Inv, NEW t \in Tabs, TabStep(t)
    PROVE  Agreed'
<1>1. CASE SynchronizeRecovery(t)
  <2>1. PICK o \in Synchronized(tabs[t], storage) :
           tabs' = [tabs EXCEPT ![t] = [tabs[t] EXCEPT !.recovery = o]]
    BY <1>1 DEF SynchronizeRecovery, SetTab
  <2>2. o \in storage \cup {None} /\ Untold
    BY <1>1, SynchronizedFacts DEF SynchronizeRecovery, Untold, server, Inv, TypeInv
  <2> QED
    BY <2>1, <2>2, AskedAgreed
<1>2. CASE Reload(t)
  BY <1>2, ReloadAgreed
<1>3. CASE ServeRead(t)
  BY <1>3, UntoldInv DEF ServeRead, Untold, server, Agreed
<1>4. ASSUME NEW i \in Intents, List(t, i) PROVE Agreed'
  <2>1. CASE tabs' = [tabs EXCEPT ![t] = [tabs[t] EXCEPT !.busy = "listed", !.doing = i]]
             /\ Pending(tabs[t].user) = {}
    BY <1>4, <2>1, ListsInv DEF Agreed
  <2>2. ASSUME NEW o \in Pending(tabs[t].user),
               tabs' = [tabs EXCEPT ![t] = [tabs[t] EXCEPT !.recovery = o]]
        PROVE  Agreed'
    BY <1>4, <2>2, AskedAgreed DEF List, Pending, Untold, server
  <2> QED
    BY <1>4, <2>1, <2>2 DEF List, SetTab
<1>5. ASSUME NEW o \in Operations, Send(t, o) PROVE Agreed'
  BY <1>5, SendInv DEF Agreed
<1>6. CASE CheckpointFails(t)
  BY <1>6, CheckpointFailsAgreed
<1>7. TabOK(t) /\ tabs[t] \in TabType
  BY DEF Inv, TabsOK, TypeInv
<1>8. CASE Retry(t)
  <2>1. /\ tabs[t].uncertain \in Operations /\ issued[tabs[t].uncertain] # None
        /\ Again(t, tabs[t].uncertain, "save", "retry")
    BY <1>7, <1>8 DEF Retry, Ready, SetTab, Again, TabOK, TabType, server
  <2> QED
    BY <2>1, AgainInv DEF Agreed
<1>9. CASE Recover(t)
  <2> DEFINE o == IF tabs[t].recovery # None THEN tabs[t].recovery ELSE tabs[t].uncertain
  <2>1. o \in Operations /\ issued[o] # None /\ Again(t, o, "recover", "recover")
    BY <1>7, <1>9 DEF Recover, Ready, SetTab, Again, TabOK, TabType, server
  <2> QED
    BY <2>1, AgainInv DEF Agreed
<1>10. CASE GiveUp(t)
  BY <1>10, GiveUpAgreed
<1> QED
  BY <1>1, <1>2, <1>3, <1>4, <1>5, <1>6, <1>8, <1>9, <1>10 DEF TabStep

LEMMA StepAgreed == Inv /\ [Next]_vars => Agreed'
<1> SUFFICES ASSUME Inv, [Next]_vars PROVE Agreed'
  OBVIOUS
<1>1. ASSUME NEW t \in Tabs, TabStep(t) PROVE Agreed'
  BY <1>1, TabStepAgreed
<1>2. ASSUME NEW p \in People \cup {None}, SignIn(p) PROVE Agreed'
  BY <1>2, UntoldInv DEF SignIn, Untold, server, Agreed
<1>3. ASSUME NEW m \in requests, Handle(m) PROVE Agreed'
  BY <1>3, HandleFacts, HandledInv DEF Inv, Agreed
<1>4. ASSUME NEW r \in replies, Hear(r) PROVE Agreed'
  BY <1>4, HearAgreed
<1>5. ASSUME NEW r \in reads, ReadArrives(r) PROVE Agreed'
  BY <1>5, ReadArrivesAgreed
<1>6. CASE UNCHANGED vars
  BY <1>6, UntoldInv DEF vars, Untold, Agreed
<1> QED
  BY <1>1, <1>2, <1>3, <1>4, <1>5, <1>6 DEF Next

----------------------------------------------------------------------------
(* The steps keep the types.                                               *)

LEMMA DocumentType ==
    ASSUME Inv, NEW t \in Tabs, Document(t)
    PROVE  /\ requests' \in SUBSET Request /\ replies' \in SUBSET ReplyType
           /\ reads' \in SUBSET ReadType /\ tabs' \in [Tabs -> TabType]
<1>1. requests' \in SUBSET Request
  BY OrphanedFacts DEF Document, Inv
<1>2. replies' \in SUBSET ReplyType /\ reads' \in SUBSET ReadType
  BY DEF Document, Others, Inv, TypeInv
<1>3. Blank(signedIn) \in TabType
  BY BlankType DEF Inv, TypeInv
<1> QED
  BY <1>1, <1>2, <1>3 DEF Document, SetTab, Inv, TypeInv

LEMMA TabStepType ==
    ASSUME Inv, NEW t \in Tabs, TabStep(t)
    PROVE  TypeInv'
<1> USE DEF TypeInv, server
<1>1. /\ TypeInv /\ tabs[t] \in TabType /\ TabOK(t)
      /\ storage \in SUBSET Operations
  BY DEF Inv, TabsOK
<1>2. ASSUME NEW n \in TabType, tabs' = [tabs EXCEPT ![t] = n] PROVE tabs' \in [Tabs -> TabType]
  BY <1>1, <1>2
<1>3. ASSUME NEW o \in Operations \cup {None} PROVE [tabs[t] EXCEPT !.recovery = o] \in TabType
  BY <1>1, <1>3 DEF TabType
<1>4. ASSUME Settle(t, tabs[t], storage) PROVE tabs' \in [Tabs -> TabType]
  BY <1>1, <1>2, <1>4, SettleFacts
<1>5. ASSUME NEW busy \in {"listed", "save", "retry", "recover"},
             NEW o \in Operations \cup Intents
      PROVE  [tabs[t] EXCEPT !.busy = busy, !.doing = o] \in TabType
  BY <1>1, <1>5 DEF TabType
<1>6. ASSUME NEW kind \in {"save", "recover"}, NEW o \in Operations
      PROVE  [kind |-> kind, op |-> o, as |-> signedIn, to |-> t] \in Request
  BY <1>1, <1>6 DEF Request
<1>7. CASE SynchronizeRecovery(t)
  <2>1. PICK o \in Synchronized(tabs[t], storage) :
           tabs' = [tabs EXCEPT ![t] = [tabs[t] EXCEPT !.recovery = o]]
    BY <1>7 DEF SynchronizeRecovery, SetTab
  <2>2. o \in Operations \cup {None}
    BY <1>1, SynchronizedFacts
  <2>3. tabs' \in [Tabs -> TabType]
    BY <1>2, <1>3, <2>1, <2>2
  <2> QED
    BY <1>1, <1>7, <2>3 DEF SynchronizeRecovery
<1>8. CASE Reload(t)
  BY <1>1, <1>8, DocumentType DEF Reload
<1>9. CASE ServeRead(t)
  <2>1. [to |-> t, revision |-> revision, user |-> signedIn] \in ReadType
    BY <1>1 DEF ReadType
  <2> QED
    BY <1>1, <1>9, <2>1 DEF ServeRead
<1>10. ASSUME NEW i \in Intents, List(t, i) PROVE TypeInv'
  <2>1. tabs' \in [Tabs -> TabType]
    BY <1>1, <1>2, <1>3, <1>5, <1>10 DEF List, SetTab, Pending
  <2> QED
    BY <1>1, <1>10, <2>1 DEF List
<1>11. ASSUME NEW o \in Operations, Send(t, o) PROVE TypeInv'
  <2>1. tabs[t].doing \in Intents
    BY <1>1, <1>11 DEF Send, TabOK
  <2>2. [tabs[t] EXCEPT !.busy = "save", !.doing = o, !.uncertain = o] \in TabType
    BY <1>1 DEF TabType
  <2>3. tabs' \in [Tabs -> TabType]
    BY <1>2, <1>11, <2>2 DEF Send, SetTab
  <2>4. requests' \in SUBSET Request
    BY <1>1, <1>6, <1>11 DEF Send
  <2>5. /\ issued' \in [Operations -> Intents \cup {None}]
        /\ told' \in [Operations -> Told] /\ storage' \in SUBSET Operations
    BY <1>1, <1>11, <2>1 DEF Send, Told
  <2> QED
    BY <1>1, <1>11, <2>3, <2>4, <2>5 DEF Send
<1>12. CASE CheckpointFails(t)
  BY <1>1, <1>4, <1>12 DEF CheckpointFails
<1>13. CASE Retry(t)
  <2>1. tabs[t].uncertain \in Operations
    BY <1>1, <1>13 DEF Retry, TabType
  <2>2. tabs' \in [Tabs -> TabType]
    BY <1>2, <1>5, <1>13, <2>1 DEF Retry, SetTab
  <2>3. requests' \in SUBSET Request
    BY <1>1, <1>6, <1>13, <2>1 DEF Retry
  <2> QED
    BY <1>1, <1>13, <2>2, <2>3 DEF Retry
<1>14. CASE Recover(t)
  <2> DEFINE o == IF tabs[t].recovery # None THEN tabs[t].recovery ELSE tabs[t].uncertain
  <2>1. o \in Operations
    BY <1>1, <1>14 DEF Recover, TabType
  <2>2. tabs' \in [Tabs -> TabType]
    BY <1>2, <1>5, <1>14, <2>1 DEF Recover, SetTab
  <2>3. requests' \in SUBSET Request
    BY <1>1, <1>6, <1>14, <2>1 DEF Recover
  <2> QED
    BY <1>1, <1>14, <2>2, <2>3 DEF Recover
<1>15. CASE GiveUp(t)
  <2>1. requests' \in SUBSET Request
    BY <1>1, <1>15, OrphanedFacts DEF GiveUp
  <2>2. replies' \in SUBSET ReplyType
    BY <1>1, <1>15 DEF GiveUp, Others
  <2>3. tabs' \in [Tabs -> TabType]
    BY <1>4, <1>15 DEF GiveUp
  <2> QED
    BY <1>1, <1>15, <2>1, <2>2, <2>3 DEF GiveUp
<1> QED
  BY <1>7, <1>8, <1>9, <1>10, <1>11, <1>12, <1>13, <1>14, <1>15 DEF TabStep

LEMMA HandleType ==
    ASSUME Inv, NEW m \in requests, Handle(m)
    PROVE  TypeInv'
<1>1. TypeInv /\ m \in Request
  BY DEF Inv, TypeInv
<1>2. PICK a \in {"saved", "refused", "cancelled", "expired"} : Handled(m, a)
  BY <1>1, HandleFacts
<1>3. Answer(m, a) /\ m.op \in Operations /\ m.to \in Tabs \cup {None}
  BY <1>1, <1>2 DEF Handled, Request
<1>4. revision' \in Nat
  BY <1>1 DEF Handle, Commit, Refuse, FromReceipt, Cancel, TurnAway, server, TypeInv
<1>5. receipts' \in [Operations -> {"none", "saved", "cancelled"}]
  BY <1>1, <1>2, <1>3 DEF Handled, TypeInv
<1>6. requests' \in SUBSET Request
  BY <1>1, <1>3, AnswerFacts DEF TypeInv
<1>7. replies' \in SUBSET ReplyType
  BY <1>1, <1>3, <1>4, AnswerFacts DEF TypeInv, ReplyType
<1> QED
  BY <1>1, <1>3, <1>4, <1>5, <1>6, <1>7 DEF TypeInv, Answer

LEMMA HearType ==
    ASSUME Inv, NEW r \in replies, Hear(r)
    PROVE  TypeInv'
<1> DEFINE t == r.to
           tab == tabs[r.to]
<1>1. /\ TypeInv /\ t \in Tabs /\ r.revision \in Nat /\ tab \in TabType
      /\ tab.doing \in Operations
  BY AnsweredIssued DEF Inv
<1>2. /\ storage' \in SUBSET Operations /\ told' \in [Operations -> Told]
      /\ reads' \in SUBSET ReadType /\ replies' \in SUBSET ReplyType
      /\ requests' = requests /\ UNCHANGED <<revision, receipts, signedIn, issued>>
  BY <1>1 DEF Hear, HearSaved, HearCancelled, HearRefused, HearExpired, Heard, Others, server,
              TypeInv, Told
<1>3. ASSUME NEW after \in TabType, Settle(t, after, storage') PROVE tabs' \in [Tabs -> TabType]
  BY <1>1, <1>2, <1>3, SettleFacts DEF TypeInv
<1>4. ASSUME NEW base \in TabType, Settle(t, Accepted(base, r.revision), storage')
      PROVE  tabs' \in [Tabs -> TabType]
  BY <1>1, <1>3, <1>4, AcceptedFacts
<1>5. CASE HearSaved(r)
  <2> DEFINE base == [tab EXCEPT !.uncertain = IF @ = tab.doing THEN None ELSE @,
                                 !.learned = r.revision]
  <2>1. base \in TabType
    BY <1>1 DEF TabType
  <2>2. Settle(t, Accepted(base, r.revision), storage')
    BY <1>5 DEF HearSaved
  <2> HIDE DEF base
  <2>3. tabs' \in [Tabs -> TabType]
    BY <1>4, <2>1, <2>2
  <2> QED
    BY <1>1, <1>2, <2>3 DEF TypeInv
<1>6. CASE HearCancelled(r)
  <2> DEFINE base == [tab EXCEPT !.uncertain = IF @ = tab.doing THEN None ELSE @]
  <2>1. base \in TabType
    BY <1>1 DEF TabType
  <2>2. Settle(t, Accepted(base, r.revision), storage')
    BY <1>6 DEF HearCancelled
  <2> HIDE DEF base
  <2>3. tabs' \in [Tabs -> TabType]
    BY <1>4, <2>1, <2>2
  <2> QED
    BY <1>1, <1>2, <2>3 DEF TypeInv
<1>7. CASE HearRefused(r)
  <2> DEFINE after == IF tab.busy = "recover" THEN tab ELSE [tab EXCEPT !.uncertain = None]
  <2>1. after \in TabType
    BY <1>1 DEF TabType
  <2>2. Settle(t, after, storage')
    BY <1>7 DEF HearRefused
  <2> HIDE DEF after
  <2>3. tabs' \in [Tabs -> TabType]
    BY <1>3, <2>1, <2>2
  <2> QED
    BY <1>1, <1>2, <2>3 DEF TypeInv
<1>8. CASE HearExpired(r)
  <2>1. Blank(None) \in TabType
    BY BlankType
  <2>2. tabs' = [tabs EXCEPT ![t] = Blank(None)]
    BY <1>8 DEF HearExpired, SetTab
  <2>3. tabs' \in [Tabs -> TabType]
    BY <1>1, <2>1, <2>2 DEF TypeInv
  <2> QED
    BY <1>1, <1>2, <2>3 DEF TypeInv
<1> QED
  BY <1>1, <1>2, <1>5, <1>6, <1>7, <1>8 DEF TypeInv, Hear

LEMMA ReadArrivesType ==
    ASSUME Inv, NEW r \in reads, ReadArrives(r)
    PROVE  TypeInv'
<1>1. /\ TypeInv /\ r.to \in Tabs /\ r.revision \in Nat /\ tabs[r.to] \in TabType
  BY DEF Inv, TypeInv, ReadType
<1>2. CASE r.user = tabs[r.to].user
  BY <1>1, <1>2, AcceptedFacts DEF ReadArrives, SetTab, TypeInv, server
<1>3. CASE r.user # tabs[r.to].user
  BY <1>1, <1>3, DocumentType DEF ReadArrives, Reload, TypeInv, server
<1> QED
  BY <1>2, <1>3

LEMMA StepType == Inv /\ [Next]_vars => TypeInv'
<1> SUFFICES ASSUME Inv, [Next]_vars PROVE TypeInv'
  OBVIOUS
<1>1. ASSUME NEW t \in Tabs, TabStep(t) PROVE TypeInv'
  BY <1>1, TabStepType
<1>2. ASSUME NEW p \in People \cup {None}, SignIn(p) PROVE TypeInv'
  BY <1>2 DEF SignIn, Inv, TypeInv, server
<1>3. ASSUME NEW m \in requests, Handle(m) PROVE TypeInv'
  BY <1>3, HandleType
<1>4. ASSUME NEW r \in replies, Hear(r) PROVE TypeInv'
  BY <1>4, HearType
<1>5. ASSUME NEW r \in reads, ReadArrives(r) PROVE TypeInv'
  BY <1>5, ReadArrivesType
<1>6. CASE UNCHANGED vars
  BY <1>6 DEF vars, Inv, TypeInv
<1> QED
  BY <1>1, <1>2, <1>3, <1>4, <1>5, <1>6 DEF Next

LEMMA InitInv == Init => Inv
<1> SUFFICES ASSUME Init PROVE Inv
  OBVIOUS
<1>1. signedIn \in People
  BY DEF Init
<1>2. \A t \in Tabs : tabs[t] = Blank(signedIn)
  BY DEF Init
<1>3. TypeInv
  BY <1>1, BlankType DEF Init, TypeInv, Told
<1>4. OpsOK
  BY BrowserAssumption DEF Init, OpsOK, OpOK
<1>5. TabsOK
  BY <1>2 DEF TabsOK, TabOK, Blank, Waiting
<1>6. OnePerIntent /\ MsgsOK /\ RepliesOK
  BY DEF Init, OnePerIntent, MsgsOK, RepliesOK
<1> QED
  BY <1>3, <1>4, <1>5, <1>6 DEF Inv

\* Checkpoints, what staff were told, what the tabs wait for and the requests under way agree
\* after every step of a tab and of the server: the inductive invariant of the theorems below.
THEOREM InvAlways == Spec => []Inv
<1>1. Inv /\ [Next]_vars => Inv'
  BY StepType, StepAgreed DEF Inv, Agreed
<1> QED
  BY InitInv, <1>1, PTL DEF Spec

\* However many tabs share a browser, and whatever timeouts, retries, recoveries, reloads and
\* sign-ins happen: staff are told "saved" of what was saved and "not saved" of what never will
\* be, and a change entered anew is not saved twice (submit, retryLast, recoverLast).
THEOREM AnswersAreTrue == Spec => []AnswersTrue
BY InvAlways, InvAnswers, PTL

\* The checkpoint of a request that may have been saved stays in the storage until staff are told.
THEOREM NothingIsForgotten == Spec => []NothingForgotten
BY InvAlways, InvAnswers, PTL

----------------------------------------------------------------------------
(* What a tab shows.                                                       *)

ShownOK(n) == n.learned > 0 => n.shown \in Nat /\ n.shown >= n.learned

ShownInv == \A t \in Tabs : ShownOK(tabs[t])

LEMMA BlankShown == ASSUME NEW p PROVE ShownOK(Blank(p))
BY DEF ShownOK, Blank

\* The tab is replaced by one that shows and reports the same.
SameShown(tab, n) == n.shown = tab.shown /\ n.learned = tab.learned

LEMMA TabStepShown ==
    ASSUME Inv, ShownInv, NEW t \in Tabs, TabStep(t)
    PROVE  ShownInv'
<1>1. tabs[t] \in TabType /\ tabs \in [Tabs -> TabType] /\ storage \in SUBSET Operations
  BY DEF Inv, TypeInv
<1>2. ASSUME NEW n, tabs' = [tabs EXCEPT ![t] = n], SameShown(tabs[t], n) PROVE ShownInv'
  BY <1>1, <1>2 DEF ShownInv, ShownOK, SameShown
<1>3. ASSUME Settle(t, tabs[t], storage) PROVE ShownInv'
  BY <1>1, <1>2, <1>3, SettleFacts DEF SameShown
<1>4. ASSUME NEW o PROVE SameShown(tabs[t], [tabs[t] EXCEPT !.recovery = o])
  BY <1>1 DEF SameShown, TabType
<1>5. ASSUME NEW busy, NEW o PROVE SameShown(tabs[t], [tabs[t] EXCEPT !.busy = busy, !.doing = o])
  BY <1>1 DEF SameShown, TabType
<1>6. CASE SynchronizeRecovery(t)
  BY <1>2, <1>4, <1>6 DEF SynchronizeRecovery, SetTab
<1>7. CASE Reload(t)
  BY <1>1, <1>7, BlankShown DEF Reload, Document, SetTab, ShownInv
<1>8. CASE ServeRead(t)
  BY <1>8 DEF ServeRead, ShownInv
<1>9. ASSUME NEW i \in Intents, List(t, i) PROVE ShownInv'
  BY <1>2, <1>4, <1>5, <1>9 DEF List, SetTab
<1>10. ASSUME NEW o \in Operations, Send(t, o) PROVE ShownInv'
  <2>1. SameShown(tabs[t], [tabs[t] EXCEPT !.busy = "save", !.doing = o, !.uncertain = o])
    BY <1>1 DEF SameShown, TabType
  <2> QED
    BY <1>2, <1>10, <2>1 DEF Send, SetTab
<1>11. CASE CheckpointFails(t)
  BY <1>3, <1>11 DEF CheckpointFails
<1>12. CASE Retry(t)
  BY <1>2, <1>5, <1>12 DEF Retry, SetTab
<1>13. CASE Recover(t)
  BY <1>2, <1>5, <1>13 DEF Recover, SetTab
<1>14. CASE GiveUp(t)
  BY <1>3, <1>14 DEF GiveUp
<1> QED
  BY <1>6, <1>7, <1>8, <1>9, <1>10, <1>11, <1>12, <1>13, <1>14 DEF TabStep

LEMMA HearShown ==
    ASSUME Inv, ShownInv, NEW r \in replies, Hear(r)
    PROVE  ShownInv'
<1> DEFINE t == r.to
           tab == tabs[r.to]
<1>1. /\ t \in Tabs /\ r.revision \in Nat /\ tab \in TabType /\ tabs \in [Tabs -> TabType]
      /\ ShownOK(tab)
  BY AnsweredIssued DEF Inv, TypeInv, ShownInv
<1>2. storage' \in SUBSET Operations
  BY DEF Hear, HearSaved, HearCancelled, HearRefused, HearExpired, Inv, TypeInv
<1>3. ASSUME NEW after \in TabType, Settle(t, after, storage'), ShownOK(after) PROVE ShownInv'
  <2>1. PICK n \in TabType : tabs' = [tabs EXCEPT ![t] = n] /\ SameShown(after, n)
    BY <1>1, <1>2, <1>3, SettleFacts DEF SameShown
  <2> QED
    BY <1>1, <1>3, <2>1 DEF ShownInv, ShownOK, SameShown
<1>4. CASE HearSaved(r)
  <2> DEFINE base == [tab EXCEPT !.uncertain = IF @ = tab.doing THEN None ELSE @,
                                 !.learned = r.revision]
             after == Accepted(base, r.revision)
  <2>1. base \in TabType /\ base.learned = r.revision
    BY <1>1 DEF TabType
  <2>2. Settle(t, after, storage')
    BY <1>4 DEF HearSaved
  <2> HIDE DEF base
  <2>3. /\ after \in TabType /\ after.learned = r.revision
        /\ after.shown \in Nat /\ after.shown >= r.revision
    BY <1>1, <2>1, AcceptedFacts
  <2> HIDE DEF after
  <2>4. ShownOK(after)
    BY <2>3 DEF ShownOK
  <2> QED
    BY <1>3, <2>2, <2>3, <2>4
<1>5. CASE HearCancelled(r)
  <2> DEFINE base == [tab EXCEPT !.uncertain = IF @ = tab.doing THEN None ELSE @]
             after == Accepted(base, r.revision)
  <2>1. base \in TabType /\ SameShown(tab, base)
    BY <1>1 DEF TabType, SameShown
  <2>2. Settle(t, after, storage')
    BY <1>5 DEF HearCancelled
  <2> HIDE DEF base
  <2>3. after \in TabType /\ after.learned = tab.learned
          /\ after.shown \in Nat /\ (tab.shown \in Nat => after.shown >= tab.shown)
    BY <1>1, <2>1, AcceptedFacts DEF SameShown
  <2>4. tab.learned \in Nat
    BY <1>1 DEF TabType
  <2>5. ShownOK(after)
    BY <1>1, <2>3, <2>4 DEF ShownOK
  <2> QED
    BY <1>3, <2>2, <2>3, <2>5
<1>6. CASE HearRefused(r)
  <2> DEFINE after == IF tab.busy = "recover" THEN tab ELSE [tab EXCEPT !.uncertain = None]
  <2>1. after \in TabType /\ SameShown(tab, after)
    BY <1>1 DEF TabType, SameShown
  <2>2. ShownOK(after)
    BY <1>1, <2>1 DEF ShownOK, SameShown
  <2> QED
    BY <1>3, <1>6, <2>1, <2>2 DEF HearRefused
<1>7. CASE HearExpired(r)
  BY <1>1, <1>7, BlankShown DEF HearExpired, SetTab, ShownInv
<1> QED
  BY <1>4, <1>5, <1>6, <1>7 DEF Hear

LEMMA ReadShown ==
    ASSUME Inv, ShownInv, NEW r \in reads, ReadArrives(r)
    PROVE  ShownInv'
<1> DEFINE t == r.to
           after == Accepted(tabs[r.to], r.revision)
<1>1. /\ t \in Tabs /\ r.revision \in Nat /\ tabs[t] \in TabType /\ tabs \in [Tabs -> TabType]
      /\ ShownOK(tabs[t]) /\ tabs[t].learned \in Nat
  BY DEF Inv, TypeInv, ReadType, ShownInv, TabType
<1>2. CASE r.user = tabs[t].user
  <2>1. /\ after.learned = tabs[t].learned /\ after.shown \in Nat
        /\ (tabs[t].shown \in Nat => after.shown >= tabs[t].shown)
    BY <1>1, AcceptedFacts
  <2>2. ShownOK(after)
    BY <1>1, <2>1 DEF ShownOK
  <2>3. tabs' = [tabs EXCEPT ![t] = after]
    BY <1>2 DEF ReadArrives, SetTab
  <2> QED
    BY <1>1, <2>2, <2>3 DEF ShownInv
<1>3. CASE r.user # tabs[t].user
  BY <1>1, <1>3, BlankShown DEF ReadArrives, Reload, Document, SetTab, ShownInv
<1> QED
  BY <1>2, <1>3

\* Whoever was told of a save sees records that contain it, whatever older answers arrive in
\* whatever order (accept).
THEOREM SavesAreShown == Spec => []SavedIsShown
<1>1. Init => ShownInv
  BY BlankShown DEF Init, ShownInv
<1>2. Inv /\ ShownInv /\ [Next]_vars => ShownInv'
  <2> SUFFICES ASSUME Inv, ShownInv, [Next]_vars PROVE ShownInv'
    OBVIOUS
  <2>1. ASSUME NEW t \in Tabs, TabStep(t) PROVE ShownInv'
    BY <2>1, TabStepShown
  <2>2. ASSUME NEW p \in People \cup {None}, SignIn(p) PROVE ShownInv'
    BY <2>2 DEF SignIn, ShownInv
  <2>3. ASSUME NEW m \in requests, Handle(m) PROVE ShownInv'
    BY <2>3 DEF Handle, Commit, Refuse, FromReceipt, Cancel, TurnAway, Answer, ShownInv
  <2>4. ASSUME NEW r \in replies, Hear(r) PROVE ShownInv'
    BY <2>4, HearShown
  <2>5. ASSUME NEW r \in reads, ReadArrives(r) PROVE ShownInv'
    BY <2>5, ReadShown
  <2>6. CASE UNCHANGED vars
    BY <2>6 DEF vars, ShownInv
  <2> QED
    BY <2>1, <2>2, <2>3, <2>4, <2>5, <2>6 DEF Next
<1>3. ShownInv => SavedIsShown
  BY DEF ShownInv, ShownOK, SavedIsShown
<1> QED
  BY InvAlways, <1>1, <1>2, <1>3, PTL DEF Spec
============================================================================
