------------------------------ MODULE Browser ------------------------------
(***************************************************************************)
(* How a staff browser saves a command, learns what became of it, and      *)
(* shows the venue's records meanwhile (usePokerManagementState.tsx,       *)
(* pending-operation.ts, operation-recovery.ts).                           *)
(*                                                                         *)
(* A browser has several tabs; they share the cookie and the local         *)
(* storage, where every tab leaves a checkpoint of a request before it is  *)
(* sent.  A request that was not answered is uncertain: it may be on its   *)
(* way for any time, and its answer may be lost.  The server is the one of *)
(* OnceOnly: an operation is saved once or cancelled.                      *)
(***************************************************************************)
EXTENDS Naturals, FiniteSets

CONSTANTS
    Tabs, People,
    Intents,      \* what staff want done: entering one anew makes a new operation
    Owner,        \* [Intents -> People]: who wants it
    Operations,   \* the operation ids browsers draw
    None,
    MaxRevision,  \* bound: changes of the venue
    MaxReads      \* bound: records on their way at once

ASSUME BrowserAssumption ==
    /\ Owner \in [Intents -> People]
    /\ None \notin Tabs \cup People \cup Intents \cup Operations \cup Nat
    /\ MaxRevision \in Nat /\ MaxReads \in Nat \ {0}

VARIABLES
    revision,   \* of the venue
    receipts,   \* [Operations -> {"none", "saved", "cancelled"}] on the server
    requests,   \* posted and not yet handled
    replies,    \* answers on their way to a tab that waits
    signedIn,   \* whose session the browser's cookie opens
    storage,    \* checkpoints in the local storage: a set of operations
    issued,     \* [Operations -> Intents \cup {None}]: what an operation is for
    tabs,       \* the state of each document
    reads,      \* records on their way to a tab, with their revision and whose they are
    told        \* [Operations -> {"new", "entered", "saved", "notSaved"}]: what staff were told

server == <<revision, receipts>>
vars == <<revision, receipts, requests, replies, signedIn, storage, issued, tabs, reads, told>>

TabType ==
    [user : People \cup {None},
     shown : Nat \cup {None},                     \* revision of the records on the screen
     uncertain : Operations \cup {None},
     recovery : Operations \cup {None},           \* a checkpoint the tab asks its user about
     busy : {"idle", "listed", "save", "retry", "recover"},
     doing : Operations \cup Intents \cup {None}, \* what it is busy with
     learned : Nat]                               \* history: revision of the last save it reported

Blank(p) == [user |-> p, shown |-> None, uncertain |-> None, recovery |-> None,
             busy |-> "idle", doing |-> None, learned |-> 0]

\* The person an operation belongs to: the actor named in request and checkpoint.
Actor(o) == Owner[issued[o]]

Request == [kind : {"save", "recover"}, op : Operations, as : People \cup {None},
            to : Tabs \cup {None}]

----------------------------------------------------------------------------
(* Local storage: every checkpoint names its operation, actor and venue.   *)

\* Mutant: only the tab's own memory is asked, never the storage.
PendingNone(p) == {}

\* listPendingOperations
Pending(p) == {o \in storage : Actor(o) = p}

\* synchronizeRecovery: the checkpoint, if any, that is not the tab's own uncertain request.
Synchronized(tab, stored) ==
    LET others == {o \in stored : Actor(o) = tab.user} \ {tab.uncertain}
    IN  IF others = {} THEN {None} ELSE others

SetTab(t, tab) == tabs' = [tabs EXCEPT ![t] = tab]

\* The end of a submission or a recovery: idle again, with recovery looked up anew.
Settle(t, tab, stored) ==
    \E r \in Synchronized(tab, stored) :
        SetTab(t, [tab EXCEPT !.busy = "idle", !.doing = None, !.recovery = r])

\* A storage event or the focus makes a tab look at the checkpoints again.
SynchronizeRecovery(t) ==
    /\ tabs[t].user # None
    /\ \E r \in Synchronized(tabs[t], storage) : SetTab(t, [tabs[t] EXCEPT !.recovery = r])
    /\ UNCHANGED <<server, requests, replies, signedIn, storage, issued, reads, told>>

----------------------------------------------------------------------------
(* Documents.  A reload forgets what a tab knew; requests stay on their    *)
(* way, with nobody to wait for the answer.                                *)

\* (One that can change nothing any more, as its operation is settled or another's, is dropped.)
Live(msgs, settled) ==
    {m \in msgs : m.to # None \/ (m.as = Actor(m.op) /\ settled[m.op] = "none")}
Orphaned(t) == Live({[m EXCEPT !.to = IF @ = t THEN None ELSE @] : m \in requests}, receipts)
Others(msgs, t) == {m \in msgs : m.to # t}

\* A new document in tab t: it starts with the staff access the cookie opens.
Document(t) ==
    /\ SetTab(t, Blank(signedIn))
    /\ requests' = Orphaned(t)
    /\ replies' = Others(replies, t)
    /\ reads' = Others(reads, t)

\* Reload, navigation, or a crash of the browser's tab.
Reload(t) ==
    /\ Document(t)
    /\ UNCHANGED <<server, signedIn, storage, issued, told>>

\* Someone signs in or out in the browser (Auth models how); the other tabs learn of it late.
SignIn(p) ==
    /\ p # signedIn /\ signedIn' = p
    /\ UNCHANGED <<server, requests, replies, storage, issued, tabs, reads, told>>

----------------------------------------------------------------------------
(* Records.                                                                *)

\* Mutant: records are shown in the order in which they arrive.
NewerAny(tab, r) == TRUE

\* accept(): an older snapshot never replaces a newer one.
Newer(tab, r) == tab.shown = None \/ r >= tab.shown

Accepted(tab, r) == IF Newer(tab, r) THEN [tab EXCEPT !.shown = r] ELSE tab

\* The server answers a background refresh or a page read of tab t.
ServeRead(t) ==
    /\ tabs[t].user # None
    /\ Cardinality(reads) < MaxReads
    /\ reads' = reads \cup {[to |-> t, revision |-> revision, user |-> signedIn]}
    /\ UNCHANGED <<server, requests, replies, signedIn, storage, issued, tabs, told>>

\* The answer arrives.  Records of another identity, or none, make the tab load anew.
ReadArrives(r) ==
    IF r.user = tabs[r.to].user
    THEN /\ SetTab(r.to, Accepted(tabs[r.to], r.revision))
         /\ reads' = reads \ {r}
         /\ UNCHANGED <<server, requests, replies, signedIn, storage, issued, told>>
    ELSE Reload(r.to)

----------------------------------------------------------------------------
(* submit(): list, write the checkpoint, send.  Another tab may run        *)
(* between the listing and the writing.                                    *)

Ready(t) == tabs[t].user # None /\ tabs[t].shown # None /\ tabs[t].busy = "idle"

\* Nobody enters again what a tab is still busy with.
NotUnderWay(i) ==
    \A t \in Tabs : /\ tabs[t].doing # i
                    /\ tabs[t].doing \in Operations => issued[tabs[t].doing] # i

\* A new request is refused while a checkpoint of the same person is there.
List(t, i) ==
    /\ Ready(t) /\ tabs[t].uncertain = None
    /\ Owner[i] = tabs[t].user
    /\ NotUnderWay(i)
    /\ \A o \in Operations : issued[o] = i => told[o] # "saved"
    /\ \/ /\ Pending(tabs[t].user) = {}
          /\ SetTab(t, [tabs[t] EXCEPT !.busy = "listed", !.doing = i])
       \/ \E o \in Pending(tabs[t].user) : SetTab(t, [tabs[t] EXCEPT !.recovery = o])
    /\ UNCHANGED <<server, requests, replies, signedIn, storage, issued, reads, told>>

\* The checkpoint survives a read-back, then the command is sent.
Send(t, o) ==
    LET i == tabs[t].doing IN
    /\ tabs[t].busy = "listed"
    /\ issued[o] = None
    /\ issued' = [issued EXCEPT ![o] = i]
    /\ storage' = storage \cup {o}
    /\ told' = [told EXCEPT ![o] = "entered"]
    /\ SetTab(t, [tabs[t] EXCEPT !.busy = "save", !.doing = o, !.uncertain = o])
    /\ requests' = requests \cup {[kind |-> "save", op |-> o, as |-> signedIn, to |-> t]}
    /\ UNCHANGED <<server, replies, signedIn, reads>>

\* The browser's storage refuses the checkpoint: nothing is sent.
CheckpointFails(t) ==
    /\ tabs[t].busy = "listed"
    /\ Settle(t, tabs[t], storage)
    /\ UNCHANGED <<server, requests, replies, signedIn, storage, issued, reads, told>>

\* retryLast(): the same payload with the same operation id.
Retry(t) ==
    LET o == tabs[t].uncertain IN
    /\ Ready(t) /\ o # None
    /\ SetTab(t, [tabs[t] EXCEPT !.busy = "retry", !.doing = o])
    /\ requests' = requests \cup {[kind |-> "save", op |-> o, as |-> signedIn, to |-> t]}
    /\ UNCHANGED <<server, replies, signedIn, storage, issued, reads, told>>

\* recoverLast(): ask what became of the request, and have it cancelled if it was not saved.
Recover(t) ==
    LET o == IF tabs[t].recovery # None THEN tabs[t].recovery ELSE tabs[t].uncertain IN
    /\ Ready(t) /\ o # None
    /\ SetTab(t, [tabs[t] EXCEPT !.busy = "recover", !.doing = o])
    /\ requests' = requests \cup {[kind |-> "recover", op |-> o, as |-> signedIn, to |-> t]}
    /\ UNCHANGED <<server, replies, signedIn, storage, issued, reads, told>>

----------------------------------------------------------------------------
(* The server, one step per request (Mutations models its transactions).   *)
(* A request nobody waits for stays on its way: it may be any time late,   *)
(* and there may be several copies of it.                                  *)

Answer(m, a) ==
    /\ requests' = Live(IF m.to = None THEN requests ELSE requests \ {m}, receipts')
    /\ replies' = IF m.to = None THEN replies
                  ELSE replies \cup {[to |-> m.to, answer |-> a, revision |-> revision']}
    /\ UNCHANGED <<signedIn, storage, issued, tabs, reads, told>>

Commit(m) ==
    /\ m.kind = "save" /\ m.as = Actor(m.op) /\ receipts[m.op] = "none"
    /\ revision < MaxRevision
    /\ revision' = revision + 1
    /\ receipts' = [receipts EXCEPT ![m.op] = "saved"]
    /\ Answer(m, "saved")

\* The rules, a stale review, or another signed-in account: nothing is changed.
Refuse(m) ==
    /\ m.as # None
    /\ (m.as # Actor(m.op) \/ (m.kind = "save" /\ receipts[m.op] # "saved"))
    /\ UNCHANGED server
    /\ Answer(m, "refused")

\* A repeated or a recovered operation is answered from its receipt.
FromReceipt(m) ==
    /\ m.as = Actor(m.op) /\ receipts[m.op] = "saved"
    /\ UNCHANGED server
    /\ Answer(m, "saved")

\* recoverOperation leaves a cancellation for an operation that was not saved.
Cancel(m) ==
    /\ m.kind = "recover" /\ m.as = Actor(m.op) /\ receipts[m.op] # "saved"
    /\ receipts' = [receipts EXCEPT ![m.op] = "cancelled"]
    /\ UNCHANGED revision
    /\ Answer(m, "cancelled")

\* 401: the session ended before the receipt was looked at.
TurnAway(m) ==
    /\ UNCHANGED server
    /\ Answer(m, "expired")

----------------------------------------------------------------------------
(* What a tab does with an answer.                                         *)

\* Mutant: any refusal releases the checkpoint.
ReleasedAlways(tab) == {tab.doing}

\* A refusal of the first attempt proves that nothing was saved; a later one does not.
Released(tab) == IF tab.busy = "save" THEN {tab.doing} ELSE {}

Heard(r) ==
    /\ replies' = replies \ {r}
    /\ UNCHANGED <<server, requests, signedIn, issued, reads>>

\* A valid receipt: the checkpoint is cleared and its records are accepted.
HearSaved(r) ==
    LET t == r.to
        tab == tabs[t]
        after == Accepted([tab EXCEPT !.uncertain = IF @ = tab.doing THEN None ELSE @,
                                      !.learned = r.revision], r.revision)
    IN  /\ r.answer = "saved"
        /\ storage' = storage \ {tab.doing}
        /\ told' = [told EXCEPT ![tab.doing] = "saved"]
        /\ Settle(t, after, storage')
        /\ Heard(r)

HearCancelled(r) ==
    LET t == r.to
        tab == tabs[t]
        after == Accepted([tab EXCEPT !.uncertain = IF @ = tab.doing THEN None ELSE @], r.revision)
    IN  /\ r.answer = "cancelled"
        /\ storage' = storage \ {tab.doing}
        /\ told' = [told EXCEPT ![tab.doing] = "notSaved"]
        /\ Settle(t, after, storage')
        /\ Heard(r)

\* A definite refusal of a save ends its uncertainty in this tab; of a recovery, nothing changes.
HearRefused(r) ==
    LET t == r.to
        tab == tabs[t]
        after == IF tab.busy = "recover" THEN tab ELSE [tab EXCEPT !.uncertain = None]
    IN  /\ r.answer = "refused"
        /\ storage' = storage \ Released(tab)
        /\ told' = IF tab.busy = "save"
                   THEN [told EXCEPT ![tab.doing] = "notSaved"] ELSE told
        /\ Settle(t, after, storage')
        /\ Heard(r)

\* After 401 the tab leaves for the sign-in page.
HearExpired(r) ==
    LET t == r.to
        tab == tabs[t]
    IN  /\ r.answer = "expired"
        /\ storage' = storage \ Released(tab)
        /\ told' = IF tab.busy = "save"
                   THEN [told EXCEPT ![tab.doing] = "notSaved"] ELSE told
        /\ SetTab(t, Blank(None))
        /\ reads' = Others(reads, t)
        /\ replies' = replies \ {r}
        /\ UNCHANGED <<server, requests, signedIn, issued>>

\* A timeout, a lost connection, an unreadable or an unrelated answer, or a
\* storage that cannot clear the checkpoint: the result is not known.
GiveUp(t) ==
    /\ tabs[t].busy \in {"save", "retry", "recover"}
    /\ Settle(t, tabs[t], storage)
    /\ requests' = Orphaned(t)
    /\ replies' = Others(replies, t)
    /\ UNCHANGED <<server, signedIn, storage, issued, reads, told>>

----------------------------------------------------------------------------

Init ==
    /\ revision = 0
    /\ receipts = [o \in Operations |-> "none"]
    /\ requests = {} /\ replies = {} /\ storage = {} /\ reads = {}
    /\ \E p \in People : signedIn = p
    /\ issued = [o \in Operations |-> None]
    /\ tabs = [t \in Tabs |-> Blank(signedIn)]
    /\ told = [o \in Operations |-> "new"]

Hear(r) == HearSaved(r) \/ HearCancelled(r) \/ HearRefused(r) \/ HearExpired(r)

Handle(m) == Commit(m) \/ Refuse(m) \/ FromReceipt(m) \/ Cancel(m) \/ TurnAway(m)

TabStep(t) ==
    \/ SynchronizeRecovery(t) \/ Reload(t) \/ ServeRead(t)
    \/ \E i \in Intents : List(t, i)
    \/ \E o \in Operations : Send(t, o)
    \/ CheckpointFails(t) \/ Retry(t) \/ Recover(t) \/ GiveUp(t)

Next ==
    \/ \E t \in Tabs : TabStep(t)
    \/ \E p \in People \cup {None} : SignIn(p)
    \/ \E m \in requests : Handle(m)
    \/ \E r \in replies : Hear(r)
    \/ \E r \in reads : ReadArrives(r)

Spec == Init /\ [][Next]_vars

----------------------------------------------------------------------------
(* Properties.                                                             *)

\* What staff are told is true for good, through timeouts, retries, recovery in another tab and
\* reloads: "saved" was saved, "not saved" never will be, and who enters a change anew that they
\* were not told was saved does not save it twice (submit, recoverLast).
AnswersTrue ==
    /\ \A o \in Operations : /\ told[o] = "saved" => receipts[o] = "saved"
                             /\ told[o] \in {"new", "notSaved"} => receipts[o] # "saved"
    /\ \A o, q \in {x \in Operations : receipts[x] = "saved"} : issued[o] = issued[q] => o = q

\* A change staff were not told of is never forgotten: as long as its request may have been
\* saved, some checkpoint leads back to it (pending-operation.ts).
NothingForgotten ==
    \A o \in Operations :
        receipts[o] = "saved" /\ told[o] # "saved" => o \in storage

\* Whoever was told of a save sees records that contain it, whatever older answers arrive
\* afterwards (accept).
SavedIsShown == \A t \in Tabs : tabs[t].learned > 0 => tabs[t].shown >= tabs[t].learned

============================================================================
