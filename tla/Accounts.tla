------------------------------ MODULE Accounts ------------------------------
(***************************************************************************)
(* Staff accounts, their roles in each venue, and signed-in sessions       *)
(* (src/server/auth.ts, staff.ts, staff-safety.ts, operator-accounts.ts).  *)
(* This module has the sign-in actions and, as functions of the account    *)
(* table, what each staff command requires and changes; Mutations runs the *)
(* commands under their locks.                                             *)
(*                                                                         *)
(* A password is the number of times it was reset: each hash has its own   *)
(* salt, so no two hashes of an account are equal.  An account exists once *)
(* it has a role somewhere.  Usernames, tokens and expiry times are        *)
(* identities only.                                                        *)
(***************************************************************************)
EXTENDS Naturals

CONSTANTS
    Venues,           \* numbered: locks are taken in the order of branch ids
    People,
    Tokens,           \* one for each sign-in of a behaviour
    None,             \* no person, no session, no lock holder, no record
    InitialAccounts,
    InitialSessions,  \* sessions open at first
    MaxResets         \* bound on the password resets of an account

StaffRoles == {"DEALER", "CASHIER", "MANAGER", "ADMIN"}

AccountType ==
    [active: BOOLEAN, password: 0..MaxResets, roles: [Venues -> StaffRoles \cup {"NONE"}]]

Unused == [state |-> "unused", user |-> None, venue |-> None, password |-> None]
Ended == [Unused EXCEPT !.state = "ended"]
SessionType ==
    {Unused, Ended} \cup
    [state: {"verified", "open"}, user: People, venue: Venues, password: 0..MaxResets]

\* The session is of an active account and was opened with its present password.
Current(session, a) ==
    a[session.user].active /\ a[session.user].password = session.password

ASSUME AccountsAssumption ==
    /\ Venues \subseteq Nat
    /\ MaxResets \in Nat
    /\ None \notin People \cup Tokens
    /\ InitialAccounts \in [People -> AccountType]
    /\ InitialSessions \in [Tokens -> SessionType]
    /\ \A t \in Tokens :
          InitialSessions[t].state = "open" => Current(InitialSessions[t], InitialAccounts)

VARIABLES accounts, sessions

accountVars == <<accounts, sessions>>

-----------------------------------------------------------------------------
(* The account table and what may be done to it.                           *)

VenuesOf(a, p) == {v \in Venues : a[p].roles[v] # "NONE"}

\* Mutant: a disabled administrator counts.
KeepAdmins(a, p, lost) == \A v \in lost : \E q \in People \ {p} : a[q].roles[v] = "ADMIN"
\* Someone else is an active administrator of each of these venues.
KeepActiveAdmins(a, p, lost) ==
    \A v \in lost : \E q \in People \ {p} : a[q].active /\ a[q].roles[v] = "ADMIN"

WithRole(a, p, v, role) == [a EXCEPT ![p].roles[v] = role]
WithPassword(a, p, enable) ==
    [a EXCEPT ![p].password = @ + 1, ![p].active = @ \/ enable]
Disabled(a, p) == [a EXCEPT ![p].active = FALSE]
Created(a, p, v, role) == [WithRole(a, p, v, role) EXCEPT ![p].active = TRUE]

\* The command takes an active administrator's role in venue v away.
LosesAdmin(a, v, c) ==
    /\ a[c.target].active
    /\ a[c.target].roles[v] = "ADMIN"
    /\ c.kind = "DISABLE" \/ (c.kind \in {"ROLE", "GRANT"} /\ c.role # "ADMIN")

\* What manageStaff accepts from an administrator of venue v.
StaffMay(a, actor, v, c) ==
    IF c.kind = "CREATE"
    THEN VenuesOf(a, c.target) = {}
    ELSE /\ v \in VenuesOf(a, c.target)
         /\ c.target # actor
         /\ c.kind # "ROLE" => VenuesOf(a, c.target) = {v}
         /\ LosesAdmin(a, v, c) => KeepActiveAdmins(a, c.target, {v})

\* Mutant: only the venue named in the command.
AffectedOne(a, c) == {c.venue}
\* The venues an operator's command touches: it locks and records it in each.
Affected(a, c) ==
    VenuesOf(a, c.target) \cup (IF c.kind \in {"CREATE", "GRANT"} THEN {c.venue} ELSE {})

\* What manageOperatorAccount accepts.
OperatorMay(a, c) ==
    IF c.kind = "CREATE"
    THEN VenuesOf(a, c.target) = {}
    ELSE /\ VenuesOf(a, c.target) # {}
         /\ LET lost == {v \in Affected(a, c) : LosesAdmin(a, v, c)}
            IN KeepActiveAdmins(a, c.target, IF c.kind = "GRANT" THEN lost \cap {c.venue} ELSE lost)

\* The accounts after a command about venue v.
After(a, v, c) ==
    CASE c.kind = "CREATE" -> Created(a, c.target, v, c.role)
      [] c.kind \in {"ROLE", "GRANT"} -> WithRole(a, c.target, v, c.role)
      [] c.kind = "PASSWORD" -> WithPassword(a, c.target, c.enable)
      [] c.kind = "DISABLE" -> Disabled(a, c.target)

\* Resets are bounded; every other command is always within the bound.
WithinResets(a, c) == c.kind = "PASSWORD" => a[c.target].password < MaxResets

-----------------------------------------------------------------------------
(* Sessions.                                                               *)

\* sessionUser: who a token stands for now, where, and in which role.
Access(t) ==
    LET s == sessions[t]
    IN IF /\ s.state = "open"
          /\ accounts[s.user].active
          /\ s.venue \in VenuesOf(accounts, s.user)
       THEN [id |-> s.user, venue |-> s.venue, role |-> accounts[s.user].roles[s.venue]]
       ELSE None

\* revokeStaffSessions
Revoked(p) ==
    [t \in Tokens |->
        IF sessions[t].state = "open" /\ sessions[t].user = p THEN Ended ELSE sessions[t]]

\* login: the password is verified against the hash that was read, ...
VerifyPassword(t, p) ==
    /\ sessions[t] = Unused
    /\ accounts[p].active
    /\ \E v \in VenuesOf(accounts, p) :
          sessions' = [sessions EXCEPT ![t] =
              [state |-> "verified", user |-> p, venue |-> v,
               password |-> accounts[p].password]]
    /\ UNCHANGED accounts

\* Mutant: the hash is not read again.
OpenSessionUnchecked(t) ==
    /\ sessions[t].state = "verified"
    /\ sessions' = [sessions EXCEPT ![t].state = "open"]
    /\ UNCHANGED accounts
\* ... and the session is inserted if that hash is still the account's.
OpenSession(t) ==
    /\ sessions[t].state = "verified"
    /\ sessions' = [sessions EXCEPT ![t] =
           IF Current(@, accounts) THEN [@ EXCEPT !.state = "open"] ELSE Ended]
    /\ UNCHANGED accounts

\* logout, or the session expires.
EndSession(t) ==
    /\ sessions[t].state = "open"
    /\ sessions' = [sessions EXCEPT ![t] = Ended]
    /\ UNCHANGED accounts

ChangeBranch(t, v) ==
    /\ Access(t) # None
    /\ v \in VenuesOf(accounts, sessions[t].user) \ {sessions[t].venue}
    /\ sessions' = [sessions EXCEPT ![t].venue = v]
    /\ UNCHANGED accounts

AccountsInit ==
    /\ accounts = InitialAccounts
    /\ sessions = InitialSessions

SignIn ==
    \E t \in Tokens :
        \/ \E p \in People : VerifyPassword(t, p)
        \/ OpenSession(t)
        \/ EndSession(t)
        \/ \E v \in Venues : ChangeBranch(t, v)
=============================================================================
