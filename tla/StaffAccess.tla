---------------------------- MODULE StaffAccess ----------------------------
(***************************************************************************)
(* Whose staff access a browser tab shows, while it signs in and out       *)
(* (contexts/auth-context.tsx, sign-out-intent.ts, login-identity.ts).     *)
(*                                                                         *)
(* Every call of /api/auth is answered late or not at all, after the       *)
(* document has perhaps begun another sign-in or sign-out.  The provider   *)
(* counts these in an epoch and drops an answer that was asked for in an   *)
(* earlier one: here a call is fresh until the epoch moves on.  Other tabs *)
(* change the cookie under this one.                                       *)
(***************************************************************************)
EXTENDS Naturals, FiniteSets

CONSTANTS
    People,
    Nobody,
    ReadSlots,      \* bound: reads of one document under way at once
    MaxDocuments    \* bound: documents the tab loads

ASSUME AccessAssumption ==
    Nobody \notin People /\ MaxDocuments \in Nat /\ {"expired", "failed"} \cap People = {}

VARIABLES
    cookie,     \* whose session the browser's cookie opens
    doc,        \* the document in the tab: the provider's state and refs
    reads,      \* GET /api/auth under way
    signIn,     \* POST /api/auth under way, or Nobody
    signOut,    \* DELETE /api/auth under way
    marks,      \* the sign-out intent in the session storage and in the address
    asked,      \* history: staff asked this tab to sign out, and that is not confirmed
    kept,       \* history: where that was put down and lasts, whatever the document does
    documents   \* counts the documents, for the bound

accessVars == <<cookie, doc, reads, signIn, signOut, marks, asked, kept, documents>>

Document ==
    [user : People \cup {Nobody}, loading : BOOLEAN, page : {"app", "login"},
     checked : BOOLEAN,                         \* intentChecked
     locked : BOOLEAN,                          \* pendingSignOut, signingOut
     leaving : BOOLEAN,                         \* sign-out confirmed, the login page is loading
     pendingLogin : People \cup {Nobody},
     login : {"idle", "posting", "reading"}]    \* loginInFlight

NewDocument(page) ==
    [user |-> Nobody, loading |-> TRUE, page |-> page, checked |-> FALSE, locked |-> FALSE,
     leaving |-> FALSE, pendingLogin |-> Nobody, login |-> "idle"]

\* The epoch moves on: what is under way is no longer fresh.
Stale(rs) == {[r EXCEPT !.fresh = FALSE] : r \in rs}

NoSignIn == [account |-> Nobody, fresh |-> FALSE]

----------------------------------------------------------------------------
(* Documents.                                                              *)

\* Another document in the tab.  The calls of the one before have nobody to answer to.
Enter(document, url, lasts) ==
    /\ documents < MaxDocuments
    /\ documents' = documents + 1
    /\ doc' = document
    /\ reads' = {} /\ signIn' = NoSignIn /\ signOut' = FALSE
    /\ marks' = [marks EXCEPT !.url = url]
    /\ kept' = kept \cap lasts
    /\ UNCHANGED <<cookie, asked>>

\* A reload, which keeps the address.
Reload == ~doc.leaving /\ Enter(NewDocument(doc.page), marks.url, {"storage", "address"})

\* A full navigation, which does not; among them the one after a confirmed sign-out.
Navigate(page) ==
    (doc.leaving => page = "login") /\ Enter(NewDocument(page), FALSE, {"storage"})

\* hideForRestore and lockForSignOut: a document from the back/forward cache was hidden
\* when it was left, is locked before it runs, and then reloads.
Restored(page) == [NewDocument(page) EXCEPT !.loading = FALSE, !.checked = TRUE, !.locked = TRUE]
Return(page) == Enter(Restored(page), FALSE, {"storage"})

\* A link of the application changes the page within the document.
Follow(page) ==
    /\ ~doc.locked
    /\ doc' = [doc EXCEPT !.page = page]
    /\ UNCHANGED <<cookie, reads, signIn, signOut, marks, asked, kept, documents>>

\* lockForSignOut
Locked(d) == [d EXCEPT !.locked = TRUE, !.user = Nobody, !.loading = FALSE]
Lock(page) ==
    /\ doc' = [Locked(doc) EXCEPT !.page = page]
    /\ reads' = Stale(reads)
    /\ signIn' = [signIn EXCEPT !.fresh = FALSE]

\* A GET that carries the cookie and remembers which account is expected.
ReadOf(slot, expected, login) ==
    [slot |-> slot, as |-> cookie', expected |-> expected, fresh |-> TRUE, login |-> login]

FreeSlot(slot) == \A r \in reads : r.slot # slot

\* Mutant: a new document does not ask for the intent of the one before.
IntentIgnored == FALSE

\* readSignOutUrlIntent, readSignOutIntent
IntentFound == marks.url \/ marks.stored

\* The provider's first effect.  Storage that cannot be read locks the document, too.
Load(slot) ==
    /\ ~doc.checked
    /\ UNCHANGED <<cookie, signOut, marks, asked, kept, documents>>
    /\ \/ /\ doc' = Locked([doc EXCEPT !.checked = TRUE])
          /\ UNCHANGED <<reads, signIn>>
       \/ /\ ~IntentFound /\ FreeSlot(slot)
          /\ doc' = [doc EXCEPT !.checked = TRUE]
          /\ reads' = reads \cup {ReadOf(slot, doc.pendingLogin, FALSE)}
          /\ UNCHANGED signIn

----------------------------------------------------------------------------
(* Reading the staff access.                                               *)

\* refresh(): staff retry a check, or a save is followed by one.
Refresh(slot) ==
    /\ doc.checked /\ ~doc.locked /\ doc.login = "idle"
    /\ FreeSlot(slot)
    /\ UNCHANGED cookie
    /\ reads' = reads \cup {ReadOf(slot, doc.pendingLogin, FALSE)}
    /\ UNCHANGED <<doc, signIn, signOut, marks, asked, kept, documents>>

\* The epoch is still the one in which the read began.
Fresh(r) == ~doc.locked /\ r.fresh

\* Mutant: the account that answers is the account that is shown.
ExpectedAny(r, account) == TRUE

\* checkedLoginIdentity
Expected(r, account) == r.expected \in {Nobody, account}

\* The login that waits for this read is over with it.
Done(r, d) == [d EXCEPT !.login = IF r.login THEN "idle" ELSE @]

\* Mutant: a failed check leaves the document waiting.
FailedSilently(r) == Done(r, doc)

Failed(r) == [Done(r, doc) EXCEPT !.loading = FALSE]

Answered(r) ==
    /\ reads' = reads \ {r}
    /\ UNCHANGED <<cookie, signIn, signOut, marks, asked, kept, documents>>

HearStale(r) ==
    /\ ~Fresh(r)
    /\ doc' = Done(r, doc)
    /\ Answered(r)

\* The answer names the account whose cookie was sent.
HearAccount(r) ==
    /\ Fresh(r) /\ r.as # Nobody
    /\ doc' = IF Expected(r, r.as)
              THEN [Done(r, doc) EXCEPT !.user = r.as, !.pendingLogin = Nobody, !.loading = FALSE]
              ELSE [Done(r, doc) EXCEPT !.user = Nobody, !.loading = FALSE]
    /\ Answered(r)

\* 401, the session has ended: hide everything, and leave the application.
HearExpired(r) ==
    /\ Fresh(r)
    /\ IF doc.page = "login"
       THEN /\ doc' = [Done(r, doc) EXCEPT !.user = Nobody, !.loading = FALSE]
            /\ Answered(r)
       ELSE Enter(NewDocument("login"), FALSE, {"storage"})

\* No answer, or none that can be read: the identity verified before stays.
HearFailure(r) ==
    /\ Fresh(r)
    /\ doc' = Failed(r)
    /\ Answered(r)

----------------------------------------------------------------------------
(* Signing in.                                                             *)

Login(a) ==
    /\ doc.page = "login" /\ ~doc.loading
    /\ doc.checked /\ ~doc.locked /\ doc.login = "idle"
    /\ doc' = [doc EXCEPT !.login = "posting", !.pendingLogin = a, !.user = Nobody]
    /\ reads' = Stale(reads)
    /\ signIn' = [account |-> a, fresh |-> TRUE]
    /\ UNCHANGED <<cookie, signOut, marks, asked, kept, documents>>

\* The session is created and its cookie set, whether or not anybody still waits for it.
LoginAccepted(slot) ==
    /\ signIn # NoSignIn
    /\ cookie' = signIn.account
    /\ signIn' = NoSignIn
    /\ IF Fresh(signIn)
       THEN /\ FreeSlot(slot)
            /\ doc' = [doc EXCEPT !.login = "reading"]
            /\ reads' = reads \cup {ReadOf(slot, doc.pendingLogin, TRUE)}
       ELSE /\ doc' = [doc EXCEPT !.login = "idle"]
            /\ UNCHANGED reads
    /\ UNCHANGED <<signOut, marks, asked, kept, documents>>

\* A definite refusal takes the request back; an uncertain end leaves it pending.
LoginEnds(refused) ==
    /\ signIn # NoSignIn
    /\ signIn' = NoSignIn
    /\ doc' = [doc EXCEPT !.login = "idle",
                          !.pendingLogin = IF Fresh(signIn) /\ refused THEN Nobody ELSE @,
                          !.loading = @ /\ ~Fresh(signIn)]
    /\ UNCHANGED <<cookie, reads, signOut, marks, asked, kept, documents>>

----------------------------------------------------------------------------
(* Signing out.                                                            *)

\* The document is locked and the intent written down before the server is asked: in the
\* session storage and in the address, which becomes that of the login page.  Either may fail.
Logout(stored, recorded) ==
    /\ ~signOut /\ doc.checked
    /\ doc.user # Nobody \/ doc.locked
    /\ signOut' = TRUE
    /\ Lock(IF recorded THEN "login" ELSE doc.page)
    /\ marks' = [stored |-> marks.stored \/ stored, url |-> marks.url \/ recorded]
    /\ asked' = TRUE
    /\ kept' = kept \cup {"document"} \cup (IF stored THEN {"storage"} ELSE {})
                    \cup (IF recorded THEN {"address"} ELSE {})
    /\ UNCHANGED <<cookie, documents>>

\* Confirmed: the cookie is gone.  The tab leaves for the login page if the intent can be cleared.
LogoutConfirmed(cleared) ==
    /\ signOut /\ signOut' = FALSE
    /\ cookie' = Nobody
    /\ IF cleared
       THEN /\ marks' = [marks EXCEPT !.stored = FALSE]
            /\ doc' = [doc EXCEPT !.leaving = TRUE]
            /\ asked' = FALSE /\ kept' = {}
       ELSE UNCHANGED <<marks, doc, asked, kept>>
    /\ UNCHANGED <<reads, signIn, documents>>

LogoutFails ==
    /\ signOut /\ signOut' = FALSE
    /\ UNCHANGED <<cookie, doc, reads, signIn, marks, asked, kept, documents>>

\* Another tab signs in or out, or the session is revoked or expires.
Elsewhere(c) ==
    /\ c # cookie /\ cookie' = c
    /\ UNCHANGED <<doc, reads, signIn, signOut, marks, asked, kept, documents>>

----------------------------------------------------------------------------

AccessInit ==
    /\ cookie \in People \cup {Nobody}
    /\ doc \in {NewDocument("app"), NewDocument("login")}
    /\ reads = {} /\ signIn = NoSignIn /\ signOut = FALSE
    /\ marks = [stored |-> FALSE, url |-> FALSE]
    /\ asked = FALSE /\ kept = {} /\ documents = 0

Hear(r) == HearStale(r) \/ HearAccount(r) \/ HearExpired(r) \/ HearFailure(r)

LoginSettles ==
    (\E slot \in ReadSlots : LoginAccepted(slot)) \/ (\E refused \in BOOLEAN : LoginEnds(refused))

LogoutSettles == (\E cleared \in BOOLEAN : LogoutConfirmed(cleared)) \/ LogoutFails

Loads == \E slot \in ReadSlots : Load(slot)

AccessNext ==
    \/ Reload \/ \E page \in {"app", "login"} : Navigate(page) \/ Return(page) \/ Follow(page)
    \/ Loads
    \/ \E slot \in ReadSlots : Refresh(slot)
    \/ \E r \in reads : Hear(r)
    \/ \E a \in People : Login(a)
    \/ LoginSettles
    \/ \E stored, recorded \in BOOLEAN : Logout(stored, recorded)
    \/ LogoutSettles
    \/ \E c \in People \cup {Nobody} : Elsewhere(c)

\* Effects run, and every call is answered or times out (requestManagementJson).
AccessFairness ==
    /\ WF_accessVars(Loads)
    /\ \A slot \in ReadSlots : WF_accessVars(\E r \in reads : r.slot = slot /\ Hear(r))
    /\ WF_accessVars(LoginSettles) /\ WF_accessVars(LogoutSettles)

AccessSpec == AccessInit /\ [][AccessNext]_accessVars /\ AccessFairness

----------------------------------------------------------------------------
(* Properties.                                                             *)

\* Once staff have asked to sign out, and until the server confirms it and the tab leaves, no
\* late answer, failed call or repeated attempt shows anybody: in the document in which they
\* asked; after any number of reloads if the address took the intent; and after whatever
\* navigation, return or reload if the session storage took it.  Where neither did, the next
\* document knows nothing (lockForSignOut, logout, readAccess; production-readiness.md:220-224).
HiddenUntilConfirmed ==
    (asked /\ kept # {}) \/ doc.leaving => doc.user = Nobody

\* From the moment a sign-in is sent until it is refused, the only account that can come to be
\* shown in the document is the one that was asked for (login, checkedLoginIdentity).
AccountAskedFor ==
    [][doc.pendingLogin # Nobody /\ documents' = documents /\ doc'.user # Nobody
          => doc'.user = doc.pendingLogin]_accessVars

\* "Checking staff access" ends, whatever else goes on (StaffAccessBoundary).
CheckingEnds == doc.loading ~> ~doc.loading

============================================================================
