-------------------------- MODULE StaffAccessProofs --------------------------
(***************************************************************************)
(* Proofs about the staff access a tab shows, for any accounts, any number *)
(* of calls under way and of documents.                                    *)
(***************************************************************************)
EXTENDS StaffAccess, TLAPS

ReadType == [slot : ReadSlots, as : People \cup {Nobody}, expected : People \cup {Nobody},
             fresh : BOOLEAN, login : BOOLEAN]
SignInType == [account : People \cup {Nobody}, fresh : BOOLEAN]

TypeInv ==
    /\ cookie \in People \cup {Nobody}
    /\ doc \in Document
    /\ reads \in SUBSET ReadType
    /\ signIn \in SignInType
    /\ signOut \in BOOLEAN /\ asked \in BOOLEAN
    /\ kept \in SUBSET {"document", "storage", "address"}
    /\ marks \in [stored : BOOLEAN, url : BOOLEAN]

\* Staff who asked to sign out are kept out by the lock of the document, or, in one that has
\* not looked yet, by the intent it will find where it was put; such a document has nothing
\* under way that could answer.
Hidden ==
    /\ ~doc.checked => reads = {} /\ signIn = NoSignIn /\ doc.user = Nobody
    /\ signOut \/ doc.leaving => doc.locked
    /\ doc.locked => doc.user = Nobody
    /\ kept # {} => doc.locked \/ ~doc.checked
    /\ "document" \in kept => doc.locked
    /\ "storage" \in kept => marks.stored
    /\ "address" \in kept => marks.url

\* What the document waits for is what it asked for last.
Asked ==
    /\ doc.pendingLogin # Nobody => doc.user \in {Nobody, doc.pendingLogin}
    /\ \A r \in reads : r.fresh /\ doc.pendingLogin # Nobody => r.expected = doc.pendingLogin

Inv == TypeInv /\ Hidden /\ Asked

LEMMA NewDocumentType ==
    ASSUME NEW page \in {"app", "login"}
    PROVE  /\ NewDocument(page) \in Document
           /\ NewDocument(page).user = Nobody /\ NewDocument(page).pendingLogin = Nobody
           /\ ~NewDocument(page).checked /\ ~NewDocument(page).locked
           /\ ~NewDocument(page).leaving
           /\ Restored(page) \in Document
           /\ Restored(page).user = Nobody /\ Restored(page).pendingLogin = Nobody
           /\ Restored(page).checked /\ Restored(page).locked /\ ~Restored(page).leaving
BY DEF NewDocument, Restored, Document

LEMMA InitInv == AccessInit => Inv
<1> SUFFICES ASSUME AccessInit PROVE Inv
  OBVIOUS
<1>1. PICK page \in {"app", "login"} : doc = NewDocument(page)
  BY DEF AccessInit
<1>2. /\ doc \in Document /\ doc.user = Nobody /\ doc.pendingLogin = Nobody
      /\ ~doc.checked /\ ~doc.locked /\ ~doc.leaving
  BY <1>1, NewDocumentType
<1>3. signIn \in SignInType
  BY DEF AccessInit, NoSignIn, SignInType
<1>4. TypeInv
  BY <1>2, <1>3 DEF AccessInit, TypeInv
<1>5. Hidden /\ Asked
  BY <1>2 DEF AccessInit, Hidden, Asked
<1> QED
  BY <1>4, <1>5 DEF Inv

\* A document that is entered is locked, or has yet to look for the intent; what was put in the
\* storage is still there, and in the address after a reload.
LEMMA EnterInv ==
    ASSUME Inv, NEW page \in {"app", "login"}, NEW url \in BOOLEAN, NEW lasts,
           lasts \subseteq {"storage", "address"}, "address" \in lasts => url = marks.url,
           Enter(NewDocument(page), url, lasts) \/ Enter(Restored(page), url, lasts)
    PROVE  Inv'
<1>1. doc' \in Document /\ doc'.user = Nobody /\ doc'.pendingLogin = Nobody /\ ~doc'.leaving
  BY NewDocumentType DEF Enter
<1>2. reads' = {} /\ signIn' = NoSignIn /\ signOut' = FALSE /\ cookie' = cookie
  BY DEF Enter
<1>3. /\ marks' \in [stored : BOOLEAN, url : BOOLEAN]
      /\ marks'.url = url /\ marks'.stored = marks.stored
  BY DEF Enter, Inv, TypeInv
<1>4. asked' \in BOOLEAN /\ kept' \in SUBSET {"document", "storage", "address"}
  BY DEF Enter, Inv, TypeInv
<1>5. kept' = kept \cap lasts /\ "document" \notin lasts
  BY DEF Enter
<1>6. doc'.locked \/ ~doc'.checked
  BY NewDocumentType DEF Enter
<1>7. TypeInv'
  BY <1>1, <1>2, <1>3, <1>4 DEF Inv, TypeInv, NoSignIn, SignInType
<1>8. Hidden'
  BY <1>1, <1>2, <1>3, <1>5, <1>6 DEF Hidden, Inv
<1>9. Asked'
  BY <1>1, <1>2 DEF Asked
<1> QED
  BY <1>7, <1>8, <1>9 DEF Inv

\* However a document is left, other than by a reload.
LEMMA LeaveInv ==
    ASSUME Inv, NEW page \in {"app", "login"},
           \/ Enter(NewDocument(page), FALSE, {"storage"})
           \/ Enter(Restored(page), FALSE, {"storage"})
    PROVE  Inv'
<1>1. {"storage"} \subseteq {"storage", "address"} /\ "address" \notin {"storage"}
  OBVIOUS
<1> DEFINE lasts == {"storage"}
           url == FALSE
<1>3. Enter(NewDocument(page), url, lasts) \/ Enter(Restored(page), url, lasts)
  OBVIOUS
<1>4. lasts \subseteq {"storage", "address"} /\ ("address" \in lasts => url = marks.url)
  BY <1>1
<1>5. url \in BOOLEAN
  OBVIOUS
<1> HIDE DEF lasts, url
<1> QED
  BY <1>3, <1>4, <1>5, EnterInv

LEMMA StaleType ==
    ASSUME NEW R \in SUBSET ReadType
    PROVE  Stale(R) \in SUBSET ReadType /\ \A r \in Stale(R) : ~r.fresh
BY DEF Stale, ReadType

LEMMA LockedType ==
    ASSUME NEW d \in Document
    PROVE  /\ Locked(d) \in Document /\ Locked(d).locked /\ Locked(d).user = Nobody
           /\ Locked(d).checked = d.checked /\ Locked(d).pendingLogin = d.pendingLogin
           /\ Locked(d).leaving = d.leaving
BY DEF Locked, Document

LEMMA FollowInv ==
    ASSUME Inv, NEW page \in {"app", "login"}, Follow(page)
    PROVE  Inv'
<1>1. /\ doc' \in Document /\ doc'.checked = doc.checked /\ doc'.user = doc.user
      /\ doc'.locked = doc.locked
      /\ doc'.leaving = doc.leaving /\ doc'.pendingLogin = doc.pendingLogin
  BY DEF Follow, Inv, TypeInv, Document
<1> QED
  BY <1>1 DEF Follow, Inv, TypeInv, Hidden, Asked, IntentFound

LEMMA LoadInv ==
    ASSUME Inv, NEW slot \in ReadSlots, Load(slot)
    PROVE  Inv'
<1>1. CASE doc' = Locked([doc EXCEPT !.checked = TRUE]) /\ UNCHANGED <<reads, signIn>>
  <2>1. [doc EXCEPT !.checked = TRUE] \in Document
    BY DEF Inv, TypeInv, Document
  <2>2. /\ doc' \in Document /\ doc'.locked /\ doc'.user = Nobody
        /\ doc'.pendingLogin = doc.pendingLogin /\ doc'.checked
    BY <1>1, <2>1, LockedType DEF Inv, TypeInv, Document
  <2> QED
    BY <1>1, <2>2 DEF Load, Inv, TypeInv, Hidden, Asked
<1>2. CASE /\ ~IntentFound /\ FreeSlot(slot)
           /\ doc' = [doc EXCEPT !.checked = TRUE]
           /\ reads' = reads \cup {ReadOf(slot, doc.pendingLogin, FALSE)}
           /\ UNCHANGED signIn
  <2>1. /\ doc' \in Document /\ doc'.checked /\ doc'.locked = doc.locked
        /\ doc'.leaving = doc.leaving /\ doc'.user = doc.user
        /\ doc'.pendingLogin = doc.pendingLogin
    BY <1>2 DEF Inv, TypeInv, Document
  <2>2. /\ ReadOf(slot, doc.pendingLogin, FALSE) \in ReadType
        /\ ReadOf(slot, doc.pendingLogin, FALSE).expected = doc.pendingLogin
    BY DEF Load, ReadOf, ReadType, Inv, TypeInv, Document
  <2>3. kept # {} => doc.locked
    BY <1>2 DEF IntentFound, Inv, TypeInv, Hidden
  <2>4. TypeInv' /\ Asked'
    BY <1>2, <2>1, <2>2 DEF Load, Inv, TypeInv, Asked
  <2>5. Hidden'
    BY <1>2, <2>1, <2>3 DEF Load, Inv, Hidden
  <2> QED
    BY <2>4, <2>5 DEF Inv
<1> QED
  BY <1>1, <1>2 DEF Load

LEMMA RefreshInv ==
    ASSUME Inv, NEW slot \in ReadSlots, Refresh(slot)
    PROVE  Inv'
<1>1. /\ ReadOf(slot, doc.pendingLogin, FALSE) \in ReadType
      /\ ReadOf(slot, doc.pendingLogin, FALSE).expected = doc.pendingLogin
  BY DEF Refresh, ReadOf, ReadType, Inv, TypeInv, Document
<1> QED
  BY <1>1 DEF Refresh, Inv, TypeInv, Hidden, Asked, IntentFound

\* An answer changes whose access is shown only while the document is not locked.
LEMMA HearInv ==
    ASSUME Inv, NEW r \in reads, Hear(r)
    PROVE  Inv'
<1>2. doc \in Document /\ r \in ReadType /\ doc.checked
  BY DEF Inv, TypeInv, Hidden
<1>3. /\ Done(r, doc) \in Document /\ Done(r, doc).checked = doc.checked
      /\ Done(r, doc).locked = doc.locked
      /\ Done(r, doc).leaving = doc.leaving /\ Done(r, doc).user = doc.user
      /\ Done(r, doc).pendingLogin = doc.pendingLogin
  BY <1>2 DEF Done, Document, ReadType
<1>4. CASE HearStale(r)
  BY <1>2, <1>3, <1>4 DEF HearStale, Answered, Inv, TypeInv, Hidden, Asked, IntentFound
<1>5. CASE HearAccount(r)
  <2>1. /\ doc' \in Document /\ doc'.checked /\ ~doc'.locked /\ doc'.leaving = doc.leaving
        /\ doc'.pendingLogin \in {Nobody, doc.pendingLogin}
        /\ doc'.pendingLogin # Nobody => doc'.user = Nobody
    BY <1>2, <1>3, <1>5 DEF HearAccount, Fresh, Document, ReadType
  <2> QED
    BY <1>2, <1>5, <2>1 DEF HearAccount, Answered, Fresh, Inv, TypeInv, Hidden, Asked, IntentFound
<1>6. CASE HearExpired(r)
  <2>1. CASE doc.page = "login"
    <3>1. /\ doc' \in Document /\ doc'.checked /\ ~doc'.locked
          /\ doc'.leaving = doc.leaving /\ doc'.user = Nobody
          /\ doc'.pendingLogin = doc.pendingLogin
      <4>1. doc' = [Done(r, doc) EXCEPT !.user = Nobody, !.loading = FALSE] /\ ~doc.locked
        BY <1>6, <2>1 DEF HearExpired, Fresh
      <4> QED
        BY <1>2, <1>3, <4>1 DEF Document
    <3>2. Answered(r)
      BY <1>6, <2>1 DEF HearExpired
    <3> QED
      BY <1>2, <1>6, <3>1, <3>2
      DEF HearExpired, Answered, Fresh, Inv, TypeInv, Hidden, Asked, IntentFound
  <2>2. CASE doc.page # "login"
    BY <1>6, <2>2, LeaveInv DEF HearExpired
  <2> QED
    BY <2>1, <2>2
<1>7. CASE HearFailure(r)
  <2>1. /\ doc' \in Document /\ doc'.checked /\ ~doc'.locked
        /\ doc'.leaving = doc.leaving /\ doc'.user = doc.user
        /\ doc'.pendingLogin = doc.pendingLogin
    BY <1>2, <1>3, <1>7 DEF HearFailure, Failed, Fresh, Document
  <2> QED
    BY <1>2, <1>7, <2>1 DEF HearFailure, Answered, Fresh, Inv, TypeInv, Hidden, Asked, IntentFound
<1> QED
  BY <1>4, <1>5, <1>6, <1>7 DEF Hear

LEMMA LoginInv ==
    ASSUME Inv, NEW a \in People, Login(a)
    PROVE  Inv'
<1>1. /\ doc' \in Document /\ doc'.checked /\ ~doc'.locked
      /\ doc'.leaving = doc.leaving /\ doc'.user = Nobody
  BY DEF Login, Inv, TypeInv, Document
<1>2. reads' \in SUBSET ReadType /\ \A r \in reads' : ~r.fresh
  BY StaleType DEF Login, Inv, TypeInv
<1>3. signIn' \in SignInType
  BY DEF Login, SignInType
<1>4. TypeInv'
  BY <1>1, <1>2, <1>3 DEF Login, Inv, TypeInv
<1>5. Hidden'
  BY <1>1 DEF Login, Inv, Hidden, IntentFound
<1> QED
  BY <1>1, <1>2, <1>4, <1>5 DEF Inv, Asked

LEMMA SignInEndsInv ==
    ASSUME Inv, LoginSettles
    PROVE  Inv'
<1>1. doc \in Document /\ signIn \in SignInType /\ doc.checked
  BY DEF Inv, TypeInv, Hidden, LoginSettles, LoginAccepted, LoginEnds
<1>2. NoSignIn \in SignInType
  BY DEF NoSignIn, SignInType
<1>3. ASSUME NEW slot \in ReadSlots, LoginAccepted(slot)
      PROVE  Inv'
  <2>1. /\ doc' \in Document /\ doc'.checked /\ doc'.locked = doc.locked
        /\ doc'.leaving = doc.leaving /\ doc'.user = doc.user
        /\ doc'.pendingLogin = doc.pendingLogin
    <3>1. doc' \in {[doc EXCEPT !.login = "reading"], [doc EXCEPT !.login = "idle"]}
      BY <1>3 DEF LoginAccepted
    <3> QED
      BY <1>1, <3>1 DEF Document
  <2>2. cookie' \in People \cup {Nobody}
    BY <1>1, <1>3 DEF LoginAccepted, SignInType
  <2>3. /\ ReadOf(slot, doc.pendingLogin, TRUE) \in ReadType
        /\ ReadOf(slot, doc.pendingLogin, TRUE).expected = doc.pendingLogin
    BY <1>1, <2>2 DEF ReadOf, ReadType, Document
  <2>4. reads' \in {reads, reads \cup {ReadOf(slot, doc.pendingLogin, TRUE)}}
    BY <1>3 DEF LoginAccepted
  <2>5. TypeInv'
    BY <1>2, <1>3, <2>1, <2>2, <2>3, <2>4 DEF LoginAccepted, Inv, TypeInv
  <2>6. Hidden'
    BY <1>3, <2>1 DEF LoginAccepted, Inv, Hidden, IntentFound
  <2>7. Asked'
    BY <2>1, <2>3, <2>4 DEF Inv, Asked
  <2> QED
    BY <2>5, <2>6, <2>7 DEF Inv
<1>4. ASSUME NEW refused \in BOOLEAN, LoginEnds(refused)
      PROVE  Inv'
  <2>1. /\ doc' \in Document /\ doc'.checked /\ doc'.locked = doc.locked
        /\ doc'.leaving = doc.leaving /\ doc'.user = doc.user
        /\ doc'.pendingLogin \in {Nobody, doc.pendingLogin}
    <3>1. PICK pending \in {Nobody, doc.pendingLogin}, loading \in BOOLEAN :
              doc' = [doc EXCEPT !.login = "idle", !.pendingLogin = pending, !.loading = loading]
      BY <1>1, <1>4 DEF LoginEnds, Document, Fresh, SignInType
    <3> QED
      BY <1>1, <3>1 DEF Document
  <2> QED
    BY <1>2, <1>4, <2>1 DEF LoginEnds, Inv, TypeInv, Hidden, Asked, IntentFound
<1> QED
  BY <1>3, <1>4 DEF LoginSettles

LEMMA LogoutInv ==
    ASSUME Inv, NEW stored \in BOOLEAN, NEW recorded \in BOOLEAN, Logout(stored, recorded)
    PROVE  Inv'
<1>0. PICK page \in {"app", "login"} : Lock(page)
  BY DEF Logout, Inv, TypeInv, Document
<1>1. /\ doc' \in Document /\ doc'.locked /\ doc'.user = Nobody /\ doc'.checked
      /\ doc'.pendingLogin = doc.pendingLogin
  <2>1. /\ Locked(doc) \in Document /\ Locked(doc).locked /\ Locked(doc).user = Nobody
        /\ Locked(doc).checked /\ Locked(doc).pendingLogin = doc.pendingLogin
    BY LockedType DEF Logout, Inv, TypeInv
  <2> QED
    BY <1>0, <2>1 DEF Lock, Document
<1>2. reads' \in SUBSET ReadType /\ \A r \in reads' : ~r.fresh
  BY <1>0, StaleType DEF Lock, Inv, TypeInv
<1>3. signIn' \in SignInType
  BY <1>0 DEF Lock, Inv, TypeInv, SignInType
<1>4. /\ marks' \in [stored : BOOLEAN, url : BOOLEAN] /\ asked' \in BOOLEAN
      /\ kept' \in SUBSET {"document", "storage", "address"}
  BY DEF Logout, Inv, TypeInv
<1>6. /\ "storage" \in kept' => marks'.stored
      /\ "address" \in kept' => marks'.url
  BY DEF Logout, Inv, Hidden
<1>5. TypeInv'
  BY <1>1, <1>2, <1>3, <1>4 DEF Logout, Inv, TypeInv
<1> QED
  BY <1>1, <1>2, <1>5, <1>6 DEF Inv, Hidden, Asked

LEMMA SignOutEndsInv ==
    ASSUME Inv, LogoutSettles
    PROVE  Inv'
<1>1. doc \in Document /\ doc.locked
  BY DEF Inv, TypeInv, Hidden, LogoutSettles, LogoutConfirmed, LogoutFails
<1>2. ASSUME NEW cleared \in BOOLEAN, LogoutConfirmed(cleared)
      PROVE  Inv'
  <2>1. /\ doc' \in Document /\ doc'.locked /\ doc'.user = doc.user /\ doc'.checked = doc.checked
        /\ doc'.pendingLogin = doc.pendingLogin
    BY <1>1, <1>2 DEF LogoutConfirmed, Document
  <2>2. /\ marks' \in [stored : BOOLEAN, url : BOOLEAN] /\ marks'.url = marks.url
        /\ kept' # {} => marks'.stored = marks.stored /\ kept' = kept
    BY <1>2 DEF LogoutConfirmed, Inv, TypeInv
  <2>3. asked' \in BOOLEAN /\ kept' \in SUBSET {"document", "storage", "address"}
    BY <1>2 DEF LogoutConfirmed, Inv, TypeInv
  <2>4. TypeInv'
    BY <1>2, <2>1, <2>2, <2>3 DEF LogoutConfirmed, Inv, TypeInv
  <2>5. Hidden'
    BY <1>2, <2>1, <2>2 DEF LogoutConfirmed, Inv, Hidden
  <2> QED
    BY <1>2, <2>1, <2>4, <2>5 DEF LogoutConfirmed, Inv, Asked
<1>3. ASSUME LogoutFails
      PROVE  Inv'
  BY <1>3 DEF LogoutFails, Inv, TypeInv, Hidden, Asked, IntentFound
<1> QED
  BY <1>2, <1>3 DEF LogoutSettles

LEMMA NextInv == Inv /\ [AccessNext]_accessVars => Inv'
<1> SUFFICES ASSUME Inv, [AccessNext]_accessVars PROVE Inv'
  OBVIOUS
<1>1. CASE UNCHANGED accessVars
  BY <1>1 DEF accessVars, Inv, TypeInv, Hidden, Asked, IntentFound
<1>2. CASE Reload
  <2>1. doc.page \in {"app", "login"} /\ marks.url \in BOOLEAN
    BY DEF Inv, TypeInv, Document
  <2> QED
    BY <1>2, <2>1, EnterInv DEF Reload
<1>3. ASSUME NEW page \in {"app", "login"}, Navigate(page) \/ Return(page)
      PROVE  Inv'
  BY <1>3, LeaveInv DEF Navigate, Return
<1>4. ASSUME NEW page \in {"app", "login"}, Follow(page)
      PROVE  Inv'
  BY <1>4, FollowInv
<1>5. CASE Loads
  BY <1>5, LoadInv DEF Loads
<1>6. ASSUME NEW slot \in ReadSlots, Refresh(slot)
      PROVE  Inv'
  BY <1>6, RefreshInv
<1>7. ASSUME NEW r \in reads, Hear(r)
      PROVE  Inv'
  BY <1>7, HearInv
<1>8. ASSUME NEW a \in People, Login(a)
      PROVE  Inv'
  BY <1>8, LoginInv
<1>9. ASSUME NEW stored \in BOOLEAN, NEW recorded \in BOOLEAN, Logout(stored, recorded)
      PROVE  Inv'
  BY <1>9, LogoutInv
<1>10. ASSUME NEW c \in People \cup {Nobody}, Elsewhere(c)
       PROVE  Inv'
  BY <1>10 DEF Elsewhere, Inv, TypeInv, Hidden, Asked, IntentFound
<1> QED
  BY <1>1, <1>2, <1>3, <1>4, <1>5, <1>6, <1>7, <1>8, <1>9, <1>10, SignInEndsInv, SignOutEndsInv
  DEF AccessNext

LEMMA AlwaysInv == AccessSpec => []Inv
<1>1. AccessInit => Inv
  BY InitInv
<1>2. Inv /\ [AccessNext]_accessVars => Inv'
  BY NextInv
<1> QED
  BY <1>1, <1>2, PTL DEF AccessSpec

-----------------------------------------------------------------------------

\* Staff who asked to sign out see nobody's access until the server confirms it, whatever calls
\* are under way and however they end: in the document in which they asked, after reloads if the
\* address took the intent, and after any navigation if the session storage took it (logout,
\* lockForSignOut, hideForRestore).
THEOREM HiddenUntilConfirmedAlways == AccessSpec => []HiddenUntilConfirmed
<1>1. Inv => HiddenUntilConfirmed
  <2> SUFFICES ASSUME Inv, kept # {} \/ doc.leaving
               PROVE  doc.user = Nobody
    BY DEF HiddenUntilConfirmed
  <2> QED
    BY DEF Inv, Hidden
<1> QED
  BY <1>1, AlwaysInv, PTL

\* While a sign-in has not been refused, no other account than the one asked for comes to be
\* shown in the document (login, checkedLoginIdentity).
THEOREM AccountAskedForAlways == AccessSpec => AccountAskedFor
<1> DEFINE Step == doc.pendingLogin # Nobody /\ documents' = documents /\ doc'.user # Nobody
                      => doc'.user = doc.pendingLogin
<1>1. Inv /\ [AccessNext]_accessVars => [Step]_accessVars
  <2> SUFFICES ASSUME Inv, AccessNext, doc.pendingLogin # Nobody, documents' = documents,
                      doc'.user # Nobody
               PROVE  doc'.user = doc.pendingLogin
    OBVIOUS
  <2>1. doc \in Document /\ doc.user \in {Nobody, doc.pendingLogin}
    BY DEF Inv, TypeInv, Asked
  <2>2. CASE doc'.user = doc.user
    BY <2>1, <2>2
  <2>3. ASSUME NEW r \in reads, HearAccount(r)
        PROVE  doc'.user = doc.pendingLogin
    <3>1. r \in ReadType /\ r.fresh /\ r.expected = doc.pendingLogin
      BY <2>3 DEF HearAccount, Fresh, Inv, TypeInv, Asked
    <3>2. Done(r, doc) \in Document
      BY <2>1, <3>1 DEF Done, Document, ReadType
    <3>3. Expected(r, r.as) => r.as = doc.pendingLogin
      BY <3>1 DEF Expected
    <3> QED
      BY <2>3, <3>2, <3>3 DEF HearAccount, Document
  <2>4. ASSUME NEW page \in {"app", "login"}, NEW url \in BOOLEAN, NEW lasts,
               Enter(NewDocument(page), url, lasts) \/ Enter(Restored(page), url, lasts)
        PROVE  FALSE
    BY <2>4, NewDocumentType DEF Enter
  <2>5. Reload => FALSE
    BY <2>1, <2>4 DEF Reload, Inv, TypeInv, Document
  <2>6. ASSUME NEW page \in {"app", "login"}
        PROVE  /\ Navigate(page) \/ Return(page) => FALSE
               /\ Follow(page) => doc'.user = doc.user
    BY <2>1, <2>4 DEF Navigate, Return, Follow, Document
  <2>7. Loads => doc'.user \in {Nobody, doc.user}
    BY <2>1 DEF Loads, Load, Locked, Document
  <2>8. ASSUME NEW slot \in ReadSlots, Refresh(slot) \/ LoginAccepted(slot)
        PROVE  doc'.user = doc.user
    BY <2>1, <2>8 DEF Refresh, LoginAccepted, Document
  <2>9. ASSUME NEW r \in reads, HearStale(r) \/ HearExpired(r) \/ HearFailure(r)
        PROVE  doc'.user \in {Nobody, doc.user}
    <3>1. r \in ReadType
      BY DEF Inv, TypeInv
    <3>2. Done(r, doc) \in Document /\ Done(r, doc).user = doc.user
      BY <2>1, <3>1 DEF Done, Document, ReadType
    <3> QED
      BY <2>4, <2>9, <3>2 DEF HearStale, HearExpired, HearFailure, Failed, Document
  <2>10. ASSUME NEW a \in People, Login(a)
         PROVE  doc'.user = Nobody
    BY <2>1, <2>10 DEF Login, Document
  <2>11. ASSUME NEW refused \in BOOLEAN, LoginEnds(refused)
         PROVE  doc'.user = doc.user
    BY <2>1, <2>11 DEF LoginEnds, Document
  <2>12. ASSUME NEW stored \in BOOLEAN, NEW recorded \in BOOLEAN, Logout(stored, recorded)
         PROVE  doc'.user = Nobody
    BY <2>1, <2>12, LockedType DEF Logout, Lock, Document
  <2>13. LogoutSettles => doc'.user = doc.user
    BY <2>1 DEF LogoutSettles, LogoutConfirmed, LogoutFails, Document
  <2>14. ASSUME NEW c \in People \cup {Nobody}, Elsewhere(c)
         PROVE  doc'.user = doc.user
    BY <2>14 DEF Elsewhere
  <2> QED
    BY <2>2, <2>3, <2>5, <2>6, <2>7, <2>8, <2>9, <2>10, <2>11, <2>12, <2>13, <2>14
    DEF AccessNext, Hear, LoginSettles
<1> QED
  BY <1>1, AlwaysInv, PTL DEF AccessSpec, AccountAskedFor
=============================================================================
