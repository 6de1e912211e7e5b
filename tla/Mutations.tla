----------------------------- MODULE Mutations -----------------------------
(***************************************************************************)
(* How commands reach a venue's records: the database transactions of      *)
(* mutate, recoverOperation, manageStaff, createLocation and               *)
(* manageOperatorAccount, step by step, with the requests of several       *)
(* browsers running at once, repeated, delayed and failing anywhere.       *)
(*                                                                         *)
(* Transactions run READ COMMITTED: a step reads what is committed then.   *)
(* A venue's records are known by dependency key only: content says which  *)
(* operation wrote the records of a key last.  What applyCommand decides   *)
(* is the subject of Venue; here any command may be refused.               *)
(***************************************************************************)
EXTENDS Accounts, FiniteSets

CONSTANTS
    Ops,              \* operation ids
    Slots,            \* requests: each slot handles one, with its connection
    Keys, Day, All,   \* dependency keys, venue:day and venue:all among them
    Commands,         \* venue commands: what they read, write and require
    StaffCommands, OperatorCommands,
    InitialVenues,    \* the venues that exist at first
    Importable,       \* the venues whose records may be imported, once each
    Kinds,            \* the kinds of form staff prepare
    Cancelled         \* the fingerprint of a cancellation, which no command has

\* A session token never belongs to an operator, who uses the command line.
Operator == "operator"

ASSUME MutationsAssumption ==
    /\ Day \in Keys /\ All \in Keys
    /\ \A c \in Commands :
          /\ c.reads \subseteq Keys /\ c.writes \subseteq Keys
          /\ c.roles \subseteq StaffRoles /\ c.setup \in BOOLEAN
    /\ \A c \in StaffCommands :
          /\ c.kind \in {"CREATE", "ROLE", "PASSWORD", "DISABLE"}
          /\ c.target \in People /\ c.role \in StaffRoles /\ c.enable \in BOOLEAN
    /\ \A c \in OperatorCommands :
          /\ c.kind \in {"CREATE", "GRANT", "PASSWORD", "DISABLE"} /\ c.venue \in Venues
          /\ c.target \in People /\ c.role \in StaffRoles /\ c.enable \in BOOLEAN
    /\ InitialVenues \subseteq Venues /\ Importable \subseteq Venues
    /\ Kinds \subseteq {"COMMAND", "STAFF", "LOCATION", "OPERATOR"}
    /\ None \notin Ops \cup Slots \cup Venues

\* Fingerprints of requests; a hash is never the fingerprint of a cancellation
\* (operation-recovery.ts:10), and a receipt is a row.
Fingerprints ==
    [command: Commands \cup StaffCommands \cup OperatorCommands
                \cup [kind: {"CREATE_LOCATION"}, venue: Venues],
     key: Nat]
ReceiptType ==
    [actor: People \cup {Operator}, print: Fingerprints \cup {Cancelled}, revision: Nat]
ASSUME ReceiptAssumption == Cancelled \notin Fingerprints /\ None \notin ReceiptType

\* Roles refer to venues that are there (schema.ts:16-19).
ASSUME RolesAssumption ==
    \A p \in People, v \in Venues : InitialAccounts[p].roles[v] # "NONE" => v \in InitialVenues

\* The operator has given every venue that staff use an administrator (scripts/manage.ts).
ASSUME AdminAssumption ==
    \A v \in InitialVenues :
        \E p \in People : InitialAccounts[p].active /\ InitialAccounts[p].roles[v] = "ADMIN"

VARIABLES
    rows,          \* each venue's row: whether it exists, revision, floor, lock
    versions,      \* poker_change_versions: the revision that touched a key last
    content,       \* which operation wrote the records of a key last
    receipts,      \* poker_operations
    accountsLock,  \* who holds the lock on the account tables
    forms,         \* what staff prepared under each operation id
    handlers,      \* the requests being handled
    applied,       \* how often an operation changed records
    answers        \* the answers given about operations

recordVars == <<rows, versions, content, receipts, applied>>
vars == <<accounts, sessions, recordVars, accountsLock, forms, handlers, answers>>

-----------------------------------------------------------------------------
(* Dependencies and receipts.                                              *)

\* commandDependencies and changedDependencyKeys put these two in every set.
Depends(c) == {Day} \cup c.reads
Changes(c) == {All} \cup c.writes

\* What a receipt remembers of the payload.  A staff command's hash is keyed
\* with the password hash of the account that sent it.
Fingerprint(form) ==
    [command |-> form.command,
     key |-> IF form.kind = "STAFF" THEN accounts[form.by].password ELSE 0]

Receipt(actor, print, revision) == [actor |-> actor, print |-> print, revision |-> revision]

\* Mutant: the concurrency floor is not looked at.
OutdatedWithoutFloor(form, v) ==
    IF form.kind = "COMMAND"
    THEN \/ form.revision > rows[v].revision
         \/ \E k \in Depends(form.command) : versions[v][k] > form.revision
    ELSE form.revision # rows[v].revision
\* The revision does not allow the review the form was made from.
Outdated(form, v) ==
    IF form.kind = "COMMAND"
    THEN \/ form.revision > rows[v].revision
         \/ form.revision < rows[v].floor
         \/ \E k \in Depends(form.command) : versions[v][k] > form.revision
    ELSE form.revision # rows[v].revision

-----------------------------------------------------------------------------
(* Handlers.                                                               *)

Idle == [phase |-> "idle", op |-> None, recover |-> FALSE, token |-> None,
         user |-> None, need |-> {}, base |-> [v \in Venues |-> 0]]
Done == [Idle EXCEPT !.phase = "done"]

Handling(s) == handlers[s].phase \notin {"idle", "done"}
FormOf(s) == forms[handlers[s].op]
KindOf(s) == IF handlers[s].recover THEN "RECOVER" ELSE FormOf(s).kind

\* The commit or rollback of s, which returns its locks.
Unlocked(s) == [v \in Venues |-> IF rows[v].lock = s THEN [rows[v] EXCEPT !.lock = None] ELSE rows[v]]
ReleaseAccounts(s) == accountsLock' = IF accountsLock = s THEN None ELSE accountsLock
Answer(op, result) == answers' = answers \cup {[op |-> op, result |-> result]}

Finish(s) ==
    /\ handlers' = [handlers EXCEPT ![s] = Done]
    /\ ReleaseAccounts(s)

\* The transaction ends without a change: refused, failed or timed out.
RollBack(s) ==
    /\ Finish(s)
    /\ rows' = Unlocked(s)
    /\ UNCHANGED <<accounts, sessions, versions, content, receipts, applied, forms, answers>>

-----------------------------------------------------------------------------
(* Forms: staff read a snapshot and prepare a request under a new id.      *)

Form(kind, user, command, reviewed) ==
    [kind |-> kind, by |-> user.id, venue |-> user.venue,
     revision |-> rows[user.venue].revision, command |-> command,
     seen |-> [k \in reviewed |-> content[user.venue][k]]]

Prepare(op, form) ==
    /\ forms[op] = None
    /\ form.kind \in Kinds
    /\ forms' = [forms EXCEPT ![op] = form]
    /\ UNCHANGED <<accounts, sessions, recordVars, accountsLock, handlers, answers>>

PrepareCommand(op, t) ==
    LET user == Access(t)
    IN /\ user # None
       /\ \E c \in Commands : Prepare(op, Form("COMMAND", user, c, Depends(c)))

PrepareAccountChange(op, t) ==
    LET user == Access(t)
    IN /\ user # None /\ user.role = "ADMIN"
       /\ \/ \E c \in StaffCommands : Prepare(op, Form("STAFF", user, c, {}))
          \/ \E w \in Venues \ InitialVenues :
                Prepare(op, Form("LOCATION", user, [kind |-> "CREATE_LOCATION", venue |-> w], {}))

PrepareOperator(op) ==
    \E c \in OperatorCommands :
        Prepare(op, [kind |-> "OPERATOR", by |-> Operator, venue |-> c.venue, revision |-> 0,
                     command |-> c, seen |-> <<>>])

-----------------------------------------------------------------------------
(* A request arrives.  One that is refused before it waits for a lock      *)
(* changes nothing and is no step.                                         *)

Arrive(s, op, recover, t, user, phase, need) ==
    /\ handlers[s] = Idle
    /\ handlers' = [handlers EXCEPT ![s] =
           [phase |-> phase, op |-> op, recover |-> recover, token |-> t, user |-> user,
            need |-> need, base |-> Idle.base]]
    /\ UNCHANGED <<accounts, sessions, recordVars, accountsLock, forms, answers>>

\* The identity and venue of the request are those of the session.
Matches(user, form) == user # None /\ user.id = form.by /\ user.venue = form.venue

\* mutate and recoverOperation, up to FOR UPDATE.
BeginMutation(s, op, t, recover) ==
    /\ forms[op] # None
    /\ forms[op].kind # "OPERATOR"
    /\ recover \/ forms[op].kind = "COMMAND"
    /\ Matches(Access(t), forms[op])
    /\ Arrive(s, op, recover, t, Access(t), "row", {forms[op].venue})

\* manageStaff and createLocation, up to the lock on the account tables.
BeginAccountChange(s, op, t) ==
    /\ forms[op] # None
    /\ \/ forms[op].kind = "STAFF" /\ Access(t) # None /\ Access(t).role = "ADMIN"
       \/ forms[op].kind = "LOCATION"
    /\ Arrive(s, op, FALSE, t, None, "accounts", {})

BeginOperator(s, op) ==
    /\ forms[op] # None
    /\ forms[op].kind = "OPERATOR"
    /\ Arrive(s, op, FALSE, None, [id |-> Operator, venue |-> None, role |-> "NONE"],
              "accounts", {})

-----------------------------------------------------------------------------
(* Locks.                                                                  *)

MayChangeAccounts(s) ==
    LET user == Access(handlers[s].token)
    IN Matches(user, FormOf(s)) /\ user.role = "ADMIN"

\* lockStaffAccounts, then the caller's access.
TakeAccounts(s) ==
    /\ handlers[s].phase = "accounts"
    /\ KindOf(s) # "OPERATOR"
    /\ accountsLock = None
    /\ MayChangeAccounts(s)
    /\ accountsLock' = s
    /\ handlers' = [handlers EXCEPT ![s].phase = "row", ![s].need = {FormOf(s).venue},
                                    ![s].user = Access(handlers[s].token)]
    /\ UNCHANGED <<accounts, sessions, recordVars, forms, answers>>

\* The receipts an operator's command finds before it locks a venue.
OperatorReceipts(s) ==
    {receipts[v][handlers[s].op] : v \in Affected(accounts, FormOf(s).command)} \ {None}

SameRequest(s, receipt) ==
    receipt.actor = handlers[s].user.id /\ receipt.print = Fingerprint(FormOf(s))

\* There is an account, and every venue the command touches is there.
OperatorMayLock(s) ==
    LET c == FormOf(s).command
    IN /\ OperatorReceipts(s) = {}
       /\ c.kind = "CREATE" \/ VenuesOf(accounts, c.target) # {}
       /\ \A v \in Affected(accounts, c) : rows[v].exists

OperatorTakesAccounts(s) ==
    /\ handlers[s].phase = "accounts"
    /\ KindOf(s) = "OPERATOR"
    /\ accountsLock = None
    /\ OperatorMayLock(s)
    /\ accountsLock' = s
    /\ handlers' = [handlers EXCEPT ![s].phase = "row",
                                    ![s].need = Affected(accounts, FormOf(s).command)]
    /\ UNCHANGED <<accounts, sessions, recordVars, forms, answers>>

\* Mutant: the row is read without FOR UPDATE.
FreeAlways(v) == TRUE
Free(v) == rows[v].lock = None

\* SELECT ... FOR UPDATE, in the order of branch ids.
TakeRow(s) ==
    /\ handlers[s].phase = "row"
    /\ \E v \in handlers[s].need :
          /\ \A w \in handlers[s].need : v <= w
          /\ Free(v)
          /\ rows' = [rows EXCEPT ![v].lock = s]
          /\ handlers' = [handlers EXCEPT
                 ![s].need = @ \ {v},
                 ![s].base[v] = rows[v].revision,
                 ![s].phase = IF handlers[s].need = {v} THEN "locked" ELSE "row"]
    /\ UNCHANGED <<accounts, sessions, versions, content, receipts, applied, accountsLock,
                   forms, answers>>

-----------------------------------------------------------------------------
(* Under the lock: access again, the receipt, the review, then the change. *)

StillAuthorised(s) ==
    KindOf(s) # "OPERATOR" => Access(handlers[s].token) = handlers[s].user

Previous(s) == receipts[FormOf(s).venue][handlers[s].op]

\* COMPLETE_SETUP: somebody can enter requests and somebody else review them.
StaffCovers(v) ==
    LET active == {p \in People : accounts[p].active /\ v \in VenuesOf(accounts, p)}
        RoleIn(p) == accounts[p].roles[v]
    IN \E operator, reviewer \in active :
          /\ operator # reviewer
          /\ RoleIn(operator) \in {"CASHIER", "MANAGER"}
          /\ RoleIn(reviewer) \in {"MANAGER", "ADMIN"}

\* What each kind of command requires besides an up-to-date review.
Allowed(s) ==
    LET c == FormOf(s).command
        user == handlers[s].user
        v == FormOf(s).venue
    IN CASE KindOf(s) = "COMMAND" -> user.role \in c.roles /\ (c.setup => StaffCovers(v))
         [] KindOf(s) = "STAFF" -> StaffMay(accounts, user.id, v, c) /\ WithinResets(accounts, c)
         [] KindOf(s) = "LOCATION" -> ~rows[c.venue].exists
         [] KindOf(s) = "OPERATOR" -> OperatorMay(accounts, c) /\ WithinResets(accounts, c)
         [] KindOf(s) = "RECOVER" -> TRUE

\* The transaction finds nothing against a change.
MayProceed(s) ==
    /\ StillAuthorised(s)
    /\ KindOf(s) # "OPERATOR" => Previous(s) = None
    /\ KindOf(s) \in {"COMMAND", "STAFF", "LOCATION"} => ~Outdated(FormOf(s), FormOf(s).venue)
    /\ Allowed(s)

\* Mutant: a command, which holds its venue, waits for the account tables as well.
AuthorizeLocking(s) ==
    /\ handlers[s].phase = "locked"
    /\ MayProceed(s)
    /\ handlers' = [handlers EXCEPT ![s].phase = "decided"]
    /\ KindOf(s) = "COMMAND" => accountsLock = None
    /\ accountsLock' = IF KindOf(s) = "COMMAND" THEN s ELSE accountsLock
    /\ UNCHANGED <<accounts, sessions, recordVars, forms, answers>>
Authorize(s) ==
    /\ handlers[s].phase = "locked"
    /\ MayProceed(s)
    /\ handlers' = [handlers EXCEPT ![s].phase = "decided"]
    /\ UNCHANGED <<accounts, sessions, recordVars, accountsLock, forms, answers>>

\* A request whose receipt is there already is answered from it.
Replayable(s) ==
    \/ /\ handlers[s].phase = "accounts"
       /\ KindOf(s) = "OPERATOR"
       /\ accountsLock = None
       /\ OperatorReceipts(s) # {}
       /\ \A receipt \in OperatorReceipts(s) : SameRequest(s, receipt)
    \/ /\ handlers[s].phase = "locked"
       /\ KindOf(s) \in {"COMMAND", "STAFF", "LOCATION"}
       /\ StillAuthorised(s)
       /\ Previous(s) # None
       /\ SameRequest(s, Previous(s))

Replay(s) ==
    /\ Replayable(s)
    /\ Answer(handlers[s].op, "saved")
    /\ Finish(s)
    /\ rows' = Unlocked(s)
    /\ UNCHANGED <<accounts, sessions, versions, content, receipts, applied, forms>>

\* recoverOperation finds a receipt of the caller's.
Settled(s) ==
    /\ handlers[s].phase = "locked"
    /\ KindOf(s) = "RECOVER"
    /\ StillAuthorised(s)
    /\ Previous(s) # None
    /\ Previous(s).actor = handlers[s].user.id

RecoverSettled(s) ==
    /\ Settled(s)
    /\ Answer(handlers[s].op, IF Previous(s).print = Cancelled THEN "cancelled" ELSE "saved")
    /\ Finish(s)
    /\ rows' = Unlocked(s)
    /\ UNCHANGED <<accounts, sessions, versions, content, receipts, applied, forms>>

\* Everything the code throws for.  applyCommand, which comes last, may refuse
\* any command.
Refuse(s) ==
    /\ \/ /\ handlers[s].phase = "accounts"
          /\ accountsLock = None
          /\ ~Replayable(s)
          /\ IF KindOf(s) = "OPERATOR" THEN ~OperatorMayLock(s) ELSE ~MayChangeAccounts(s)
       \/ /\ handlers[s].phase = "locked"
          /\ ~Replayable(s)
          /\ ~Settled(s)
          /\ ~MayProceed(s)
       \/ /\ handlers[s].phase = "decided"
          /\ KindOf(s) = "COMMAND"
    /\ RollBack(s)

\* A lost connection, a crash, or a statement or lock timeout before commit.
Fail(s) == Handling(s) /\ RollBack(s)

-----------------------------------------------------------------------------
(* Commits: records, change versions and receipt together.                 *)

\* Mutant: the revision is not stored.
AdvancedNowhere(s, vs) == Unlocked(s)
\* The rows of the venues vs, at the revision after the one that was locked.
Advanced(s, vs) ==
    [v \in Venues |->
        IF v \in vs THEN [Unlocked(s)[v] EXCEPT !.revision = handlers[s].base[v] + 1]
        ELSE Unlocked(s)[v]]

\* poker_operations has (branch_id, operation_id) as its primary key.
Insert(op, vs, inserted) ==
    /\ \A v \in vs : receipts[v][op] = None
    /\ receipts' = [v \in Venues |->
           IF v \in vs THEN [receipts[v] EXCEPT ![op] = inserted[v]] ELSE receipts[v]]

\* The records of the changed keys in the venues vs, and the receipt.
Write(s, vs, changed) ==
    LET op == handlers[s].op
        revision == [v \in vs |-> handlers[s].base[v] + 1]
        print == Fingerprint(FormOf(s))
    IN /\ versions' = [v \in Venues |-> [k \in Keys |->
              IF v \in vs /\ k \in changed THEN revision[v] ELSE versions[v][k]]]
       /\ content' = [v \in Venues |-> [k \in Keys |->
              IF v \in vs /\ k \in changed THEN op ELSE content[v][k]]]
       /\ Insert(op, vs, [v \in vs |-> Receipt(handlers[s].user.id, print, revision[v])])
       /\ applied' = [applied EXCEPT ![op] = @ + 1]
       /\ Answer(op, "saved")
       /\ Finish(s)
       /\ UNCHANGED forms

Committing(s, kind) == handlers[s].phase = "decided" /\ KindOf(s) = kind

CommitCommand(s) ==
    /\ Committing(s, "COMMAND")
    /\ rows' = Advanced(s, {FormOf(s).venue})
    /\ Write(s, {FormOf(s).venue}, Changes(FormOf(s).command))
    /\ UNCHANGED accountVars

CommitStaff(s) ==
    LET c == FormOf(s).command
    IN /\ Committing(s, "STAFF")
       /\ rows' = Advanced(s, {FormOf(s).venue})
       /\ Write(s, {FormOf(s).venue}, {All})
       /\ accounts' = After(accounts, FormOf(s).venue, c)
       /\ sessions' = IF c.kind = "CREATE" THEN sessions ELSE Revoked(c.target)

CommitOperator(s) ==
    LET c == FormOf(s).command
    IN /\ Committing(s, "OPERATOR")
       /\ rows' = Advanced(s, Affected(accounts, c))
       /\ Write(s, Affected(accounts, c), {All})
       /\ accounts' = After(accounts, c.venue, c)
       /\ sessions' = Revoked(c.target)

NewRow == [exists |-> TRUE, revision |-> 0, floor |-> 0, lock |-> None]

\* The creator becomes the administrator of the new venue.
CommitLocation(s) ==
    LET w == FormOf(s).command.venue
    IN /\ Committing(s, "LOCATION")
       /\ rows' = [Advanced(s, {FormOf(s).venue}) EXCEPT ![w] = NewRow]
       /\ Write(s, {FormOf(s).venue}, {All})
       /\ accounts' = WithRole(accounts, handlers[s].user.id, w, "ADMIN")
       /\ UNCHANGED sessions

\* Mutant: the cancellation leaves no receipt.
CancelsUnrecorded(op, v, receipt) == UNCHANGED receipts
Cancels(op, v, receipt) == Insert(op, {v}, [w \in {v} |-> receipt])

\* No receipt: the operation is cancelled, for good.
CommitRecovery(s) ==
    LET v == FormOf(s).venue
    IN /\ Committing(s, "RECOVER")
       /\ Cancels(handlers[s].op, v, Receipt(handlers[s].user.id, Cancelled, handlers[s].base[v]))
       /\ Answer(handlers[s].op, "cancelled")
       /\ Finish(s)
       /\ rows' = Unlocked(s)
       /\ UNCHANGED <<accounts, sessions, versions, content, applied, forms>>

\* replaceStore: a complete import of a venue's records, at a new revision.
\* The bound is one import of a venue.
Import(v) ==
    /\ v \in Importable
    /\ rows[v].exists
    /\ Free(v)
    /\ rows[v].floor = 0
    /\ rows' = [rows EXCEPT ![v].revision = @ + 1, ![v].floor = rows[v].revision + 1]
    /\ versions' = [versions EXCEPT ![v] = [k \in Keys |-> 0]]
    /\ content' = [content EXCEPT ![v] = [k \in Keys |-> "import"]]
    /\ UNCHANGED <<accounts, sessions, receipts, applied, accountsLock, forms, handlers, answers>>

-----------------------------------------------------------------------------
Init ==
    /\ AccountsInit
    /\ rows = [v \in Venues |-> [NewRow EXCEPT !.exists = v \in InitialVenues]]
    /\ versions = [v \in Venues |-> [k \in Keys |-> 0]]
    /\ content = [v \in Venues |-> [k \in Keys |-> None]]
    /\ receipts = [v \in Venues |-> [op \in Ops |-> None]]
    /\ accountsLock = None
    /\ forms = [op \in Ops |-> None]
    /\ handlers = [s \in Slots |-> Idle]
    /\ applied = [op \in Ops |-> 0]
    /\ answers = {}

\* Staff and clients: none of it has to happen.
Client ==
    \/ SignIn /\ UNCHANGED <<recordVars, accountsLock, forms, handlers, answers>>
    \/ \E op \in Ops :
          \/ \E t \in Tokens : PrepareCommand(op, t) \/ PrepareAccountChange(op, t)
          \/ PrepareOperator(op)
    \/ \E s \in Slots, op \in Ops :
          \/ \E t \in Tokens :
                \/ \E recover \in BOOLEAN : BeginMutation(s, op, t, recover)
                \/ BeginAccountChange(s, op, t)
          \/ BeginOperator(s, op)

\* What the server does next with the request in slot s, unless it fails.
Handle(s) ==
    \/ TakeAccounts(s) \/ OperatorTakesAccounts(s) \/ TakeRow(s)
    \/ Replay(s) \/ RecoverSettled(s) \/ Refuse(s) \/ Authorize(s)
    \/ CommitCommand(s) \/ CommitStaff(s) \/ CommitLocation(s) \/ CommitOperator(s)
    \/ CommitRecovery(s)

Next ==
    \/ Client
    \/ \E s \in Slots : Handle(s) \/ Fail(s)
    \/ \E v \in Venues : Import(v)

Spec == Init /\ [][Next]_vars

\* The server keeps working on every request it has begun.
FairSpec == Spec /\ \A s \in Slots : WF_vars(Handle(s))
====
