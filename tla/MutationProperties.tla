------------------------- MODULE MutationProperties -------------------------
(***************************************************************************)
(* What the transactions of Mutations must keep true.                      *)
(***************************************************************************)
EXTENDS Mutations

FormType ==
    [kind: {"COMMAND", "STAFF", "LOCATION"}, by: People, venue: Venues, revision: Nat,
     command: Commands \cup StaffCommands \cup [kind: {"CREATE_LOCATION"}, venue: Venues],
     seen: UNION {[K -> Ops \cup {None, "import"}] : K \in SUBSET Keys}]
    \cup
    [kind: {"OPERATOR"}, by: {Operator}, venue: Venues, revision: {0},
     command: OperatorCommands, seen: {<<>>}]

UserType ==
    [id: People, venue: Venues, role: StaffRoles] \cup
    [id: {Operator}, venue: {None}, role: {"NONE"}]

Phases == {"idle", "accounts", "row", "locked", "decided", "done"}

\* The types of the state: accounts, sessions, rows, receipts, forms, handlers.
TypeOK ==
    /\ accounts \in [People -> AccountType]
    /\ sessions \in [Tokens -> SessionType]
    /\ rows \in [Venues -> [exists: BOOLEAN, revision: Nat, floor: Nat, lock: Slots \cup {None}]]
    /\ versions \in [Venues -> [Keys -> Nat]]
    /\ content \in [Venues -> [Keys -> Ops \cup {None, "import"}]]
    /\ \A v \in Venues, op \in Ops :
          LET r == receipts[v][op]
          IN r # None => r.actor \in People \cup {Operator} /\ r.revision \in 0..rows[v].revision
    /\ accountsLock \in Slots \cup {None}
    /\ \A op \in Ops : forms[op] # None => forms[op] \in FormType
    /\ \A s \in Slots :
          LET h == handlers[s]
          IN /\ h.phase \in Phases /\ h.recover \in BOOLEAN
             /\ h.op \in Ops \cup {None} /\ h.token \in Tokens \cup {None}
             /\ h.user # None => h.user \in UserType
             /\ h.need \subseteq Venues /\ h.base \in [Venues -> Nat]
             /\ Handling(s) => h.op \in Ops /\ forms[h.op] # None
    /\ applied \in [Ops -> Nat]
    /\ answers \subseteq [op: Ops, result: {"saved", "cancelled"}]

-----------------------------------------------------------------------------
\* How an operation stands, for the abstract specification.  "twice" is a value
\* it does not have: an operation whose change was made more than once.
Outcome(op) ==
    LET marked == \E v \in Venues : receipts[v][op] # None /\ receipts[v][op].print = Cancelled
    IN CASE applied[op] = 0 /\ marked -> "cancelled"
         [] applied[op] = 0 /\ ~marked -> "none"
         [] applied[op] = 1 /\ ~marked -> "saved"
         [] OTHER -> "twice"

Contract == INSTANCE OnceOnly WITH outcome <- [op \in Ops |-> Outcome(op)], told <- answers

\* However often a request is sent, and whenever recovery asks about it, it
\* takes effect at most once and never after "cancelled" was answered
\* (repository.ts:103-120, operation-recovery.ts:70-115).
EffectsOnce == Contract!Spec

\* A command is never saved on a review that is no longer what the records say:
\* no key it depends on was written since its form was opened, not even by an
\* import (repository.ts:121-140 under the lock of lines 82-87).
ReviewCurrent ==
    [][\A s \in Slots :
          LET form == FormOf(s)
          IN (Handling(s) /\ KindOf(s) = "COMMAND" /\ applied' # applied /\ ~Handling(s)') =>
                \A k \in Depends(form.command) : content[form.venue][k] = form.seen[k]]_vars

\* Whoever's change commits is, at that moment, still active in the role in
\* which he was authorised, although roles are read before the change is made
\* (repository.ts:89-99, staff.ts:197-207).
AccessHeld ==
    [][\A s \in Slots :
          LET user == handlers[s].user
          IN (Handling(s) /\ KindOf(s) # "OPERATOR" /\ answers' # answers
                /\ handlers[s].phase = "decided" /\ ~Handling(s)') =>
                /\ accounts[user.id].active
                /\ accounts[user.id].roles[user.venue] = user.role]_vars

\* When setup completes, there is staff to enter requests and, other than
\* them, to review them (repository.ts:141-178).
SetupCovered ==
    [][\A s \in Slots :
          (Handling(s) /\ KindOf(s) = "COMMAND" /\ FormOf(s).command.setup
             /\ applied' # applied /\ ~Handling(s)') =>
                \E v \in Venues : v = FormOf(s).venue /\ StaffCovers(v)']_vars

\* Every venue keeps an active administrator, whatever is done to accounts at
\* once in it, in other venues and from the command line (staff-safety.ts:27-49).
AdminRemains ==
    \A v \in Venues : rows[v].exists =>
        \E p \in People : accounts[p].active /\ accounts[p].roles[v] = "ADMIN"

\* No session outlives the password it was opened with, or its account's being
\* disabled, not even one whose sign-in was under way (auth.ts:110-129).
RevokedStaysOut ==
    \A t \in Tokens : sessions[t].state = "open" => Current(sessions[t], accounts)

\* Two changes of a venue never have the same revision: none was made from
\* records that another had changed meanwhile (repository.ts:190-213).
RevisionsDiffer ==
    \A v \in Venues, op1, op2 \in Ops :
        LET r1 == receipts[v][op1]
            r2 == receipts[v][op2]
        IN (op1 # op2 /\ r1 # None /\ r2 # None /\ Cancelled \notin {r1.print, r2.print}) =>
              r1.revision # r2.revision

\* Every request that is begun is answered: requests that lock the account
\* tables and one or several venues never wait for each other in a circle
\* (staff.ts:177-195, operator-accounts.ts:209-218, repository.ts:82-87).
Answered == \A s \in Slots : Handling(s) ~> handlers[s].phase = "done"
=============================================================================
