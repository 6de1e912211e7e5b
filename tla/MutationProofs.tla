--------------------------- MODULE MutationProofs ---------------------------
(***************************************************************************)
(* Proofs about accounts and about what commits under every mix of         *)
(* transactions, for any venues, people, sessions, operations, slots and   *)
(* commands.                                                               *)
(*                                                                         *)
(* The first part is about accounts: somebody can administer every venue,  *)
(* and who is removed stays out.  The second is about operations: each     *)
(* takes effect once, on an up-to-date review, by somebody who may do it   *)
(* still; that rests on what a transaction holds, the rows of the venues   *)
(* it is about, from the reading of their revision to the commit.          *)
(***************************************************************************)
EXTENDS MutationProperties, TLAPS

-----------------------------------------------------------------------------
(* The shape of the state: TypeOK without the bound on resets and without  *)
(* what receipts and reviews hold, which these theorems do not depend on.  *)

RoleTable == [Venues -> StaffRoles \cup {"NONE"}]
AccountTable == [People -> [active: BOOLEAN, password: Nat, roles: RoleTable]]
SignedIn == [state: {"verified", "open"}, user: People, venue: Venues, password: Nat]
RowType == [exists: BOOLEAN, revision: Nat, floor: Nat, lock: Slots \cup {None}]
HandlerType ==
    [phase: Phases, op: Ops \cup {None}, recover: BOOLEAN, token: Tokens \cup {None},
     user: UserType \cup {None}, need: SUBSET Venues, base: [Venues -> Nat]]

FormShape(form) ==
    form # None =>
        /\ form.venue \in Venues
        /\ form.kind = "STAFF" => form.command \in StaffCommands
        /\ form.kind = "LOCATION" => form.command.venue \in Venues
        /\ form.kind = "OPERATOR" => form.command \in OperatorCommands

\* A request has its form and, unless the operator made it, a session token.
Engaged(h) ==
    /\ h.op \in Ops /\ forms[h.op] # None
    /\ h.token \in Tokens \/ (~h.recover /\ forms[h.op].kind = "OPERATOR")

AccountShape ==
    /\ accounts \in AccountTable
    /\ sessions \in [Tokens -> {Unused, Ended} \cup SignedIn]

WorkShape ==
    /\ rows \in [Venues -> RowType]
    /\ handlers \in [Slots -> HandlerType]
    /\ forms = [op \in Ops |-> forms[op]]
    /\ \A op \in Ops : FormShape(forms[op])
    /\ \A s \in Slots : Handling(s) => Engaged(handlers[s])

Shape == AccountShape /\ WorkShape

-----------------------------------------------------------------------------
(* Who may change accounts holds the lock on the account tables, from      *)
(* taking it to the commit; so what was found about accounts meanwhile     *)
(* stays true.                                                             *)

ChangesAccounts(s) ==
    /\ handlers[s].phase \in {"row", "locked", "decided"}
    /\ KindOf(s) \in {"STAFF", "LOCATION", "OPERATOR"}

LockHeld == \A s \in Slots : ChangesAccounts(s) => accountsLock = s

\* The decision, once made, is right for the accounts as they are.
Justified(s) ==
    ChangesAccounts(s) =>
        /\ KindOf(s) = "LOCATION" =>
              handlers[s].user.id \in People /\ accounts[handlers[s].user.id].active
        /\ handlers[s].phase = "decided" =>
              /\ KindOf(s) = "STAFF" =>
                    StaffMay(accounts, handlers[s].user.id, FormOf(s).venue, FormOf(s).command)
              /\ KindOf(s) = "OPERATOR" => OperatorMay(accounts, FormOf(s).command)

AllJustified == \A s \in Slots : Justified(s)

AccountInv == Shape /\ LockHeld /\ AllJustified /\ AdminRemains /\ RevokedStaysOut

-----------------------------------------------------------------------------
(* Account commands as functions of the account table.                     *)

\* A command's target is a person, its kind one of five.
Proper(c) ==
    /\ c.kind \in {"CREATE", "ROLE", "GRANT", "PASSWORD", "DISABLE"}
    /\ c.target \in People /\ c.role \in StaffRoles /\ c.enable \in BOOLEAN

\* Nobody but the target changes, and the target's password only by a reset.
LEMMA AfterShape ==
    ASSUME NEW a \in AccountTable, NEW v \in Venues, NEW c, Proper(c)
    PROVE  /\ After(a, v, c) \in AccountTable
           /\ \A p \in People : p # c.target => After(a, v, c)[p] = a[p]
           /\ c.kind = "CREATE" =>
                 /\ After(a, v, c)[c.target].active
                 /\ After(a, v, c)[c.target].password = a[c.target].password
<1>1. CASE c.kind = "CREATE"
  BY <1>1 DEF AccountTable, RoleTable, Proper, After, Created, WithRole
<1>2. CASE c.kind \in {"ROLE", "GRANT"}
  BY <1>2 DEF AccountTable, RoleTable, Proper, After, WithRole
<1>3. CASE c.kind = "PASSWORD"
  BY <1>3 DEF AccountTable, RoleTable, Proper, After, WithPassword
<1>4. CASE c.kind = "DISABLE"
  BY <1>4 DEF AccountTable, RoleTable, Proper, After, Disabled
<1> QED
  BY <1>1, <1>2, <1>3, <1>4 DEF Proper

\* Venue w has an active administrator in the account table a.
HasAdmin(a, w) == \E p \in People : a[p].active /\ a[p].roles[w] = "ADMIN"

\* A command that takes nobody's administration away leaves every administrator.
LEMMA AdminsStay ==
    ASSUME NEW a \in AccountTable, NEW v \in Venues, NEW c, Proper(c), NEW w \in Venues,
           HasAdmin(a, w),
           c.kind = "CREATE" => VenuesOf(a, c.target) = {},
           c.kind \in {"ROLE", "GRANT"} /\ w = v /\ LosesAdmin(a, w, c)
              => KeepActiveAdmins(a, c.target, {w}),
           c.kind = "DISABLE" /\ LosesAdmin(a, w, c) => KeepActiveAdmins(a, c.target, {w})
    PROVE  HasAdmin(After(a, v, c), w)
<1>1. PICK p \in People : a[p].active /\ a[p].roles[w] = "ADMIN"
  BY DEF HasAdmin
<1>2. CASE p # c.target
  BY <1>1, <1>2, AfterShape DEF HasAdmin
<1>3. CASE p = c.target /\ LosesAdmin(a, w, c) /\ (c.kind = "DISABLE" \/ w = v)
  <2>1. KeepActiveAdmins(a, c.target, {w})
    BY <1>3 DEF LosesAdmin
  <2>2. PICK q \in People \ {c.target} : a[q].active /\ a[q].roles[w] = "ADMIN"
    BY <2>1 DEF KeepActiveAdmins
  <2> QED
    BY <2>2, AfterShape DEF HasAdmin
<1>4. CASE p = c.target /\ ~(LosesAdmin(a, w, c) /\ (c.kind = "DISABLE" \/ w = v))
  <2>1. c.kind # "CREATE"
    <3>1. w \in VenuesOf(a, p)
      BY <1>1 DEF VenuesOf
    <3> QED
      BY <3>1, <1>4
  <2>2. After(a, v, c)[p].active /\ After(a, v, c)[p].roles[w] = "ADMIN"
    <3>1. CASE c.kind \in {"ROLE", "GRANT"}
      BY <3>1, <1>1, <1>4 DEF LosesAdmin, AccountTable, RoleTable, After, WithRole
    <3>2. CASE c.kind = "PASSWORD"
      BY <3>2, <1>1, <1>4 DEF AccountTable, RoleTable, After, WithPassword
    <3>3. c.kind # "DISABLE"
      BY <1>1, <1>4 DEF LosesAdmin
    <3> QED
      BY <2>1, <3>1, <3>2, <3>3 DEF Proper
  <2> QED
    BY <2>2, <1>4 DEF HasAdmin
<1> QED
  BY <1>2, <1>3, <1>4

\* What the two handlers accept keeps an administrator in every venue that has one.
LEMMA StaffKeepsAdmins ==
    ASSUME NEW a \in AccountTable, NEW v \in Venues, NEW c, Proper(c), NEW actor,
           StaffMay(a, actor, v, c), NEW w \in Venues, HasAdmin(a, w)
    PROVE  HasAdmin(After(a, v, c), w)
<1>1. c.kind = "CREATE" => VenuesOf(a, c.target) = {}
  BY DEF StaffMay
<1>2. c.kind # "CREATE" /\ LosesAdmin(a, v, c) => KeepActiveAdmins(a, c.target, {v})
  BY DEF StaffMay
<1>3. c.kind = "DISABLE" /\ LosesAdmin(a, w, c) => w = v
  <2>1. LosesAdmin(a, w, c) => w \in VenuesOf(a, c.target)
    BY DEF LosesAdmin, VenuesOf
  <2>2. c.kind = "DISABLE" => VenuesOf(a, c.target) = {v}
    BY DEF StaffMay
  <2> QED
    BY <2>1, <2>2
<1> QED
  BY <1>1, <1>2, <1>3, AdminsStay

LEMMA OperatorKeepsAdmins ==
    ASSUME NEW a \in AccountTable, NEW c, Proper(c), c.venue \in Venues, c.kind # "ROLE",
           OperatorMay(a, c), NEW w \in Venues, HasAdmin(a, w)
    PROVE  HasAdmin(After(a, c.venue, c), w)
<1>1. c.kind = "CREATE" => VenuesOf(a, c.target) = {}
  BY DEF OperatorMay
<1>2. LosesAdmin(a, w, c) => w \in Affected(a, c)
  BY DEF LosesAdmin, Affected, VenuesOf
<1>3. c.kind = "DISABLE" /\ LosesAdmin(a, w, c) => KeepActiveAdmins(a, c.target, {w})
  BY <1>2 DEF OperatorMay, KeepActiveAdmins
<1>4. c.kind = "GRANT" /\ w = c.venue /\ LosesAdmin(a, w, c) => KeepActiveAdmins(a, c.target, {w})
  BY <1>2 DEF OperatorMay, KeepActiveAdmins
<1> QED
  BY <1>1, <1>3, <1>4, AdminsStay

-----------------------------------------------------------------------------
(* Every step keeps the shape.                                             *)

LEMMA RestingType == Idle \in HandlerType /\ Done \in HandlerType
BY DEF Idle, Done, HandlerType, Phases

LEMMA InitShape == Init => Shape
<1> SUFFICES ASSUME Init PROVE Shape
  OBVIOUS
<1>1. accounts \in AccountTable
  BY AccountsAssumption DEF Init, AccountsInit, AccountType, AccountTable, RoleTable
<1>2. sessions \in [Tokens -> {Unused, Ended} \cup SignedIn]
  BY AccountsAssumption DEF Init, AccountsInit, SessionType, SignedIn
<1>3. rows \in [Venues -> RowType]
  <2>1. ASSUME NEW v \in Venues
        PROVE  [NewRow EXCEPT !.exists = v \in InitialVenues] \in RowType
    <3>1. \A b \in BOOLEAN : [NewRow EXCEPT !.exists = b] \in RowType
      BY DEF NewRow, RowType
    <3>2. (v \in InitialVenues) \in BOOLEAN
      OBVIOUS
    <3> QED
      BY <3>1, <3>2, Zenon
  <2> QED
    BY <2>1 DEF Init
<1>4. handlers \in [Slots -> HandlerType] /\ \A s \in Slots : ~Handling(s)
  BY RestingType DEF Init, Handling, Idle
<1>5. forms = [op \in Ops |-> forms[op]] /\ \A op \in Ops : FormShape(forms[op])
  BY DEF Init, FormShape
<1> QED
  BY <1>1, <1>2, <1>3, <1>4, <1>5 DEF Shape, AccountShape, WorkShape

\* One slot goes on, or stops, with a form that is there.
LEMMA SlotStep ==
    ASSUME WorkShape, NEW s \in Slots, NEW h \in HandlerType,
           h.phase \in {"idle", "done"} \/ Engaged(h),
           handlers' = [handlers EXCEPT ![s] = h], forms' = forms,
           rows' \in [Venues -> RowType]
    PROVE  WorkShape'
<1>1. handlers' \in [Slots -> HandlerType]
  BY DEF WorkShape
<1>2. ASSUME NEW r \in Slots, Handling(r)'
      PROVE  Engaged(handlers[r])'
  <2>1. CASE r = s
    BY <2>1, <1>2 DEF WorkShape, Handling, Engaged
  <2>2. CASE r # s
    BY <2>2, <1>2 DEF WorkShape, Handling, Engaged
  <2> QED
    BY <2>1, <2>2
<1> QED
  BY <1>1, <1>2 DEF WorkShape, FormShape

LEMMA UnlockedShape ==
    ASSUME rows \in [Venues -> RowType], NEW s \in Slots
    PROVE  /\ Unlocked(s) \in [Venues -> RowType]
           /\ \A v \in Venues : Unlocked(s)[v].exists = rows[v].exists
BY DEF Unlocked, RowType

LEMMA AdvancedShape ==
    ASSUME WorkShape, NEW s \in Slots, NEW vs
    PROVE  /\ Advanced(s, vs) \in [Venues -> RowType]
           /\ \A v \in Venues : Advanced(s, vs)[v].exists = rows[v].exists
<1>1. rows \in [Venues -> RowType] /\ \A v \in Venues : handlers[s].base[v] \in Nat
  BY DEF WorkShape, HandlerType
<1> QED
  BY <1>1, UnlockedShape DEF Advanced, RowType

LEMMA FinishShape ==
    ASSUME WorkShape, NEW s \in Slots, Finish(s), forms' = forms, rows' \in [Venues -> RowType]
    PROVE  WorkShape'
<1>1. Done \in HandlerType /\ Done.phase = "done"
  BY RestingType DEF Done, Idle
<1> QED
  BY <1>1, SlotStep DEF Finish

\* Who a token stands for is a member of staff in a venue.
LEMMA AccessType ==
    ASSUME AccountShape, NEW t \in Tokens
    PROVE  /\ Access(t) \in UserType \cup {None}
           /\ Access(t) # None =>
                 /\ Access(t).id \in People /\ accounts[Access(t).id].active
                 /\ Access(t).venue \in Venues
<1>1. CASE Access(t) = None
  BY <1>1
<1>2. CASE Access(t) # None
  <2>1. sessions[t].state = "open" /\ accounts[sessions[t].user].active
           /\ sessions[t].venue \in VenuesOf(accounts, sessions[t].user)
    BY <1>2 DEF Access
  <2>2. sessions[t] \in SignedIn
    BY <2>1 DEF AccountShape, Unused, Ended
  <2>3. accounts[sessions[t].user].roles[sessions[t].venue] \in StaffRoles
    BY <2>1, <2>2 DEF AccountShape, AccountTable, RoleTable, VenuesOf, SignedIn
  <2>4. Access(t) = [id |-> sessions[t].user, venue |-> sessions[t].venue,
                     role |-> accounts[sessions[t].user].roles[sessions[t].venue]]
    BY <2>1 DEF Access
  <2> QED
    BY <2>1, <2>2, <2>3, <2>4 DEF UserType, SignedIn
<1> QED
  BY <1>1, <1>2

LEMMA SignInShape ==
    ASSUME AccountShape, SignIn
    PROVE  AccountShape'
<1>1. ASSUME NEW t \in Tokens, NEW p \in People, VerifyPassword(t, p)
      PROVE  AccountShape'
  <2>1. PICK v \in VenuesOf(accounts, p) :
           sessions' = [sessions EXCEPT ![t] =
              [state |-> "verified", user |-> p, venue |-> v, password |-> accounts[p].password]]
    BY <1>1 DEF VerifyPassword
  <2>2. v \in Venues /\ accounts[p].password \in Nat
    BY DEF VenuesOf, AccountShape, AccountTable
  <2> QED
    BY <1>1, <2>1, <2>2 DEF VerifyPassword, AccountShape, SignedIn
<1>2. ASSUME NEW t \in Tokens, OpenSession(t)
      PROVE  AccountShape'
  <2>1. sessions[t] \in SignedIn
    BY <1>2 DEF OpenSession, AccountShape, Unused, Ended
  <2>2. [sessions[t] EXCEPT !.state = "open"] \in SignedIn
    BY <2>1 DEF SignedIn
  <2> QED
    BY <1>2, <2>2 DEF OpenSession, AccountShape
<1>3. ASSUME NEW t \in Tokens, EndSession(t)
      PROVE  AccountShape'
  BY <1>3 DEF EndSession, AccountShape
<1>4. ASSUME NEW t \in Tokens, NEW v \in Venues, ChangeBranch(t, v)
      PROVE  AccountShape'
  <2>1. sessions[t].state = "open"
    BY <1>4 DEF ChangeBranch, Access
  <2>2. sessions[t] \in SignedIn
    BY <2>1 DEF AccountShape, Unused, Ended
  <2>3. [sessions[t] EXCEPT !.venue = v] \in SignedIn
    BY <2>2 DEF SignedIn
  <2> QED
    BY <1>4, <2>3 DEF ChangeBranch, AccountShape
<1> QED
  BY <1>1, <1>2, <1>3, <1>4 DEF SignIn

LEMMA PrepareShape ==
    ASSUME WorkShape, NEW op \in Ops, NEW form, FormShape(form), Prepare(op, form)
    PROVE  WorkShape'
<1>1. forms' = [forms EXCEPT ![op] = form] /\ forms[op] = None /\ UNCHANGED <<rows, handlers>>
  BY DEF Prepare, recordVars
<1>2. \A s \in Slots : Handling(s) => handlers[s].op # op
  BY <1>1 DEF WorkShape, Engaged
<1>3. \A s \in Slots : Engaged(handlers[s]) /\ handlers[s].op # op => Engaged(handlers[s])'
  BY <1>1 DEF WorkShape, Engaged
<1>4. handlers' \in [Slots -> HandlerType] /\ \A s \in Slots : Handling(s)' = Handling(s)
  BY <1>1 DEF WorkShape, Handling
<1>5. forms' = [o \in Ops |-> forms'[o]] /\ \A o \in Ops : FormShape(forms[o])'
  BY <1>1 DEF WorkShape, FormShape
<1> QED
  BY <1>1, <1>2, <1>3, <1>4, <1>5 DEF WorkShape

LEMMA FormsShape ==
    ASSUME Shape, NEW op \in Ops, NEW t \in Tokens,
           PrepareCommand(op, t) \/ PrepareAccountChange(op, t)
    PROVE  WorkShape'
<1>1. Access(t) # None
  BY DEF PrepareCommand, PrepareAccountChange
<1>2. Access(t).venue \in Venues
  BY <1>1, AccessType DEF Shape
<1>3. CASE PrepareCommand(op, t)
  <2>1. PICK c \in Commands : Prepare(op, Form("COMMAND", Access(t), c, Depends(c)))
    BY <1>3 DEF PrepareCommand
  <2>2. FormShape(Form("COMMAND", Access(t), c, Depends(c)))
    BY <1>2 DEF FormShape, Form
  <2> QED
    BY <2>1, <2>2, PrepareShape DEF Shape
<1>4. CASE PrepareAccountChange(op, t)
  <2>1. CASE \E c \in StaffCommands : Prepare(op, Form("STAFF", Access(t), c, {}))
    <3>1. PICK c \in StaffCommands : Prepare(op, Form("STAFF", Access(t), c, {}))
      BY <2>1
    <3>2. FormShape(Form("STAFF", Access(t), c, {}))
      BY <1>2 DEF FormShape, Form
    <3> QED
      BY <3>1, <3>2, PrepareShape DEF Shape
  <2>2. CASE \E w \in Venues \ InitialVenues :
                Prepare(op, Form("LOCATION", Access(t), [kind |-> "CREATE_LOCATION", venue |-> w], {}))
    <3>1. PICK w \in Venues \ InitialVenues :
             Prepare(op, Form("LOCATION", Access(t), [kind |-> "CREATE_LOCATION", venue |-> w], {}))
      BY <2>2
    <3>2. FormShape(Form("LOCATION", Access(t), [kind |-> "CREATE_LOCATION", venue |-> w], {}))
      BY <1>2 DEF FormShape, Form
    <3> QED
      BY <3>1, <3>2, PrepareShape DEF Shape
  <2> QED
    BY <1>4, <2>1, <2>2 DEF PrepareAccountChange
<1> QED
  BY <1>3, <1>4

LEMMA OperatorFormShape ==
    ASSUME WorkShape, NEW op \in Ops, PrepareOperator(op)
    PROVE  WorkShape'
<1>1. PICK c \in OperatorCommands :
         Prepare(op, [kind |-> "OPERATOR", by |-> Operator, venue |-> c.venue, revision |-> 0,
                      command |-> c, seen |-> <<>>])
  BY DEF PrepareOperator
<1>2. FormShape([kind |-> "OPERATOR", by |-> Operator, venue |-> c.venue, revision |-> 0,
                 command |-> c, seen |-> <<>>])
  BY MutationsAssumption DEF FormShape
<1> QED
  BY <1>1, <1>2, PrepareShape

LEMMA ArriveShape ==
    ASSUME WorkShape, NEW s \in Slots, NEW op \in Ops, NEW recover \in BOOLEAN,
           NEW t \in Tokens \cup {None}, NEW user \in UserType \cup {None},
           NEW phase \in Phases, NEW need \in SUBSET Venues, forms[op] # None,
           t \in Tokens \/ (~recover /\ forms[op].kind = "OPERATOR"),
           Arrive(s, op, recover, t, user, phase, need)
    PROVE  WorkShape'
<1>1. [phase |-> phase, op |-> op, recover |-> recover, token |-> t, user |-> user,
       need |-> need, base |-> Idle.base] \in HandlerType
  BY DEF HandlerType, Idle
<1>2. rows' \in [Venues -> RowType] /\ forms' = forms
  BY DEF Arrive, recordVars, WorkShape
<1>3. Engaged([phase |-> phase, op |-> op, recover |-> recover, token |-> t, user |-> user,
               need |-> need, base |-> Idle.base])
  BY DEF Engaged
<1> QED
  BY <1>1, <1>2, <1>3, SlotStep DEF Arrive

LEMMA BeginShape ==
    ASSUME Shape, NEW s \in Slots, NEW op \in Ops,
           \/ \E t \in Tokens, recover \in BOOLEAN : BeginMutation(s, op, t, recover)
           \/ \E t \in Tokens : BeginAccountChange(s, op, t)
           \/ BeginOperator(s, op)
    PROVE  WorkShape'
<1>1. forms[op] # None /\ forms[op].venue \in Venues
  BY DEF BeginMutation, BeginAccountChange, BeginOperator, Shape, WorkShape, FormShape
<1>2. ASSUME NEW t \in Tokens, NEW recover \in BOOLEAN, BeginMutation(s, op, t, recover)
      PROVE  WorkShape'
  <2>1. Arrive(s, op, recover, t, Access(t), "row", {forms[op].venue})
    BY <1>2 DEF BeginMutation
  <2>2. Access(t) \in UserType \cup {None} /\ "row" \in Phases /\ t \in Tokens
    BY AccessType DEF Shape, Phases
  <2> QED
    BY <1>1, <2>1, <2>2, ArriveShape DEF Shape
<1>3. ASSUME NEW t \in Tokens, BeginAccountChange(s, op, t)
      PROVE  WorkShape'
  <2>1. Arrive(s, op, FALSE, t, None, "accounts", {}) /\ "accounts" \in Phases
    BY <1>3 DEF BeginAccountChange, Phases
  <2>2. FALSE \in BOOLEAN /\ {} \in SUBSET Venues
           /\ t \in Tokens \cup {None} /\ None \in UserType \cup {None}
    OBVIOUS
  <2> QED
    BY <1>1, <2>1, <2>2, ArriveShape, Zenon DEF Shape
<1>4. CASE BeginOperator(s, op)
  <2>1. /\ forms[op].kind = "OPERATOR"
        /\ Arrive(s, op, FALSE, None, [id |-> Operator, venue |-> None, role |-> "NONE"],
                  "accounts", {})
    BY <1>4 DEF BeginOperator
  <2>2. [id |-> Operator, venue |-> None, role |-> "NONE"] \in UserType \cup {None}
           /\ "accounts" \in Phases
    BY DEF UserType, Phases
  <2>3. FALSE \in BOOLEAN /\ {} \in SUBSET Venues /\ None \in Tokens \cup {None}
    OBVIOUS
  <2> QED
    BY <1>1, <2>1, <2>2, <2>3, ArriveShape, Zenon DEF Shape
<1> QED
  BY <1>2, <1>3, <1>4

\* The command of a request that changes accounts is one the system has.
LEMMA ProperCommand ==
    ASSUME WorkShape, NEW s \in Slots, Handling(s)
    PROVE  /\ FormOf(s).venue \in Venues
           /\ KindOf(s) = "STAFF" => Proper(FormOf(s).command)
           /\ KindOf(s) = "OPERATOR" =>
                 /\ Proper(FormOf(s).command) /\ FormOf(s).command.venue \in Venues
                 /\ FormOf(s).command.kind # "ROLE"
           /\ KindOf(s) = "LOCATION" => FormOf(s).command.venue \in Venues
<1>1. FormShape(FormOf(s)) /\ FormOf(s) # None
  BY DEF WorkShape, FormOf, Engaged
<1>2. /\ KindOf(s) = "STAFF" => FormOf(s).command \in StaffCommands
      /\ KindOf(s) = "OPERATOR" => FormOf(s).command \in OperatorCommands
  BY <1>1 DEF KindOf, FormShape
<1>3. KindOf(s) = "STAFF" => Proper(FormOf(s).command)
  BY <1>2, MutationsAssumption DEF Proper
<1>4. KindOf(s) = "OPERATOR" =>
         /\ Proper(FormOf(s).command) /\ FormOf(s).command.venue \in Venues
         /\ FormOf(s).command.kind # "ROLE"
  BY <1>2, MutationsAssumption DEF Proper
<1> QED
  BY <1>1, <1>3, <1>4 DEF KindOf, FormShape

\* A request that takes the lock on the account tables, and one that ends
\* without a change of accounts.
Enters(s) == TakeAccounts(s) \/ OperatorTakesAccounts(s)
Leaves(s) ==
    \/ Replay(s) \/ RecoverSettled(s) \/ Refuse(s) \/ Fail(s) \/ CommitCommand(s) \/ CommitRecovery(s)

\* Leaving returns the locks of the request and changes nothing of the others.
LEMMA LeavesShape ==
    ASSUME Shape, NEW s \in Slots, Leaves(s)
    PROVE  /\ WorkShape'
           /\ Finish(s) /\ forms' = forms /\ UNCHANGED <<accounts, sessions>>
           /\ \A v \in Venues : rows'[v].exists = rows[v].exists
<1>1. /\ Finish(s) /\ forms' = forms /\ UNCHANGED <<accounts, sessions>>
      /\ rows' = Unlocked(s) \/ \E vs : rows' = Advanced(s, vs)
  <2>1. CASE Replay(s)
    BY <2>1 DEF Replay
  <2>2. CASE RecoverSettled(s)
    BY <2>2 DEF RecoverSettled
  <2>3. CASE Refuse(s) \/ Fail(s)
    BY <2>3 DEF Refuse, Fail, RollBack
  <2>4. CASE CommitCommand(s)
    BY <2>4 DEF CommitCommand, Write, accountVars
  <2>5. CASE CommitRecovery(s)
    BY <2>5 DEF CommitRecovery
  <2> QED
    BY <2>1, <2>2, <2>3, <2>4, <2>5 DEF Leaves
<1>2. /\ rows' \in [Venues -> RowType]
      /\ \A v \in Venues : rows'[v].exists = rows[v].exists
  BY <1>1, UnlockedShape, AdvancedShape DEF Shape, WorkShape
<1> QED
  BY <1>1, <1>2, FinishShape DEF Shape

LEMMA EntersShape ==
    ASSUME Shape, NEW s \in Slots, Enters(s)
    PROVE  WorkShape'
<1>1. Handling(s) /\ handlers[s] \in HandlerType /\ Engaged(handlers[s])
  BY DEF Enters, TakeAccounts, OperatorTakesAccounts, Handling, Shape, WorkShape
<1>2. rows' = rows /\ forms' = forms
  BY DEF Enters, TakeAccounts, OperatorTakesAccounts, recordVars
<1>3. CASE TakeAccounts(s)
  <2> DEFINE h == [handlers[s] EXCEPT !.phase = "row", !.need = {FormOf(s).venue},
                                      !.user = Access(handlers[s].token)]
  <2>1. handlers' = [handlers EXCEPT ![s] = h]
    BY <1>3 DEF TakeAccounts
  <2>2. Access(handlers[s].token) # None
    BY <1>3 DEF TakeAccounts, MayChangeAccounts, Matches
  <2>3. handlers[s].token \in Tokens
    <3>1. KindOf(s) # "OPERATOR"
      BY <1>3 DEF TakeAccounts
    <3> QED
      BY <1>1, <3>1 DEF Engaged, KindOf, FormOf
  <2>4. h \in HandlerType /\ Engaged(h)
    BY <1>1, <2>3, AccessType, ProperCommand DEF Shape, HandlerType, Phases, Engaged
  <2> QED
    BY <1>2, <2>1, <2>4, SlotStep DEF Shape, WorkShape
<1>4. CASE OperatorTakesAccounts(s)
  <2> DEFINE h == [handlers[s] EXCEPT !.phase = "row", !.need = Affected(accounts, FormOf(s).command)]
  <2>1. handlers' = [handlers EXCEPT ![s] = h] /\ KindOf(s) = "OPERATOR"
    BY <1>4 DEF OperatorTakesAccounts
  <2>2. Affected(accounts, FormOf(s).command) \subseteq Venues
    BY <1>1, <2>1, ProperCommand DEF Affected, VenuesOf, Shape
  <2>3. h \in HandlerType /\ Engaged(h)
    BY <1>1, <2>2 DEF HandlerType, Phases, Engaged
  <2> QED
    BY <1>2, <2>1, <2>3, SlotStep DEF Shape, WorkShape
<1> QED
  BY <1>3, <1>4 DEF Enters

LEMMA TakeRowShape ==
    ASSUME WorkShape, NEW s \in Slots, TakeRow(s)
    PROVE  WorkShape' /\ \A v \in Venues : rows'[v].exists = rows[v].exists
<1>1. handlers[s] \in HandlerType /\ Engaged(handlers[s])
  BY DEF TakeRow, Handling, WorkShape
<1>2. PICK v \in handlers[s].need :
         /\ rows' = [rows EXCEPT ![v].lock = s]
         /\ handlers' = [handlers EXCEPT
                ![s].need = @ \ {v}, ![s].base[v] = rows[v].revision,
                ![s].phase = IF handlers[s].need = {v} THEN "locked" ELSE "row"]
  BY DEF TakeRow
<1>3. v \in Venues /\ rows[v].revision \in Nat
  BY <1>1 DEF HandlerType, WorkShape, RowType
<1> DEFINE h == [handlers[s] EXCEPT !.need = @ \ {v}, !.base[v] = rows[v].revision,
                                    !.phase = IF handlers[s].need = {v} THEN "locked" ELSE "row"]
<1>4. handlers' = [handlers EXCEPT ![s] = h]
  BY <1>2
<1>5. h \in HandlerType /\ Engaged(h)
  BY <1>1, <1>3 DEF HandlerType, Phases, Engaged
<1>6. rows' \in [Venues -> RowType] /\ \A w \in Venues : rows'[w].exists = rows[w].exists
  BY <1>2, <1>3 DEF WorkShape, RowType
<1>7. forms' = forms
  BY DEF TakeRow
<1> QED
  BY <1>4, <1>5, <1>6, <1>7, SlotStep

LEMMA AuthorizeShape ==
    ASSUME WorkShape, NEW s \in Slots, Authorize(s)
    PROVE  WorkShape'
<1>1. handlers[s] \in HandlerType /\ Engaged(handlers[s])
  BY DEF Authorize, Handling, WorkShape
<1>2. handlers' = [handlers EXCEPT ![s] = [handlers[s] EXCEPT !.phase = "decided"]]
  BY DEF Authorize
<1>3. [handlers[s] EXCEPT !.phase = "decided"] \in HandlerType
         /\ Engaged([handlers[s] EXCEPT !.phase = "decided"])
  BY <1>1 DEF HandlerType, Phases, Engaged
<1>4. forms' = forms /\ rows' \in [Venues -> RowType]
  BY DEF Authorize, recordVars, WorkShape
<1> QED
  BY <1>2, <1>3, <1>4, SlotStep

-----------------------------------------------------------------------------
(* Commits that change accounts.                                           *)

LEMMA RevokedShape ==
    ASSUME AccountShape, NEW p
    PROVE  Revoked(p) \in [Tokens -> {Unused, Ended} \cup SignedIn]
BY DEF Revoked, AccountShape

\* Sessions of the target are closed unless its account is new; others are current still.
LEMMA CommandRevokes ==
    ASSUME AccountShape, RevokedStaysOut, NEW v \in Venues, NEW c, Proper(c),
           accounts' = After(accounts, v, c),
           \/ sessions' = Revoked(c.target)
           \/ c.kind = "CREATE" /\ sessions' = sessions
    PROVE  AccountShape' /\ RevokedStaysOut'
<1>1. accounts \in AccountTable /\ sessions \in [Tokens -> {Unused, Ended} \cup SignedIn]
  BY DEF AccountShape
<1>2. AccountShape'
  BY <1>1, AfterShape, RevokedShape, Zenon DEF AccountShape
<1>3. ASSUME NEW t \in Tokens, sessions'[t].state = "open"
      PROVE  Current(sessions'[t], accounts')
  <2>1. sessions'[t] = sessions[t] /\ (sessions[t].user # c.target \/ c.kind = "CREATE")
    BY <1>3 DEF Revoked, Ended, Unused
  <2>2. Current(sessions[t], accounts) /\ sessions[t].user \in People
    BY <1>1, <1>3, <2>1 DEF RevokedStaysOut, SignedIn, Unused, Ended
  <2>3. CASE sessions[t].user # c.target
    BY <1>1, <2>1, <2>2, <2>3, AfterShape DEF Current
  <2>4. CASE sessions[t].user = c.target /\ c.kind = "CREATE"
    BY <1>1, <2>1, <2>2, <2>4, AfterShape DEF Current
  <2> QED
    BY <2>1, <2>3, <2>4
<1> QED
  BY <1>2, <1>3 DEF RevokedStaysOut

LEMMA AccountCommit ==
    ASSUME AccountInv, NEW s \in Slots, CommitStaff(s) \/ CommitOperator(s)
    PROVE  /\ Shape' /\ AdminRemains' /\ RevokedStaysOut'
           /\ ChangesAccounts(s) /\ Finish(s) /\ forms' = forms
<1>1. /\ Handling(s) /\ ChangesAccounts(s) /\ handlers[s].phase = "decided"
      /\ Finish(s) /\ forms' = forms
  BY DEF CommitStaff, CommitOperator, Committing, Write, Handling, ChangesAccounts
<1>2. WorkShape' /\ \A v \in Venues : rows'[v].exists = rows[v].exists
  <2>1. \E vs : rows' = Advanced(s, vs)
    BY DEF CommitStaff, CommitOperator
  <2> QED
    BY <1>1, <2>1, AdvancedShape, FinishShape DEF AccountInv, Shape
<1>3. Justified(s) /\ accounts \in AccountTable
  BY DEF AccountInv, AllJustified, Shape, AccountShape
<1> DEFINE c == FormOf(s).command
<1>4. CASE CommitStaff(s)
  <2>1. KindOf(s) = "STAFF" /\ FormOf(s).venue \in Venues /\ Proper(c)
    BY <1>1, <1>4, ProperCommand DEF CommitStaff, Committing, AccountInv, Shape
  <2>2. /\ accounts' = After(accounts, FormOf(s).venue, c)
        /\ sessions' = IF c.kind = "CREATE" THEN sessions ELSE Revoked(c.target)
    BY <1>4 DEF CommitStaff
  <2>3. AccountShape' /\ RevokedStaysOut'
    BY <2>1, <2>2, CommandRevokes DEF AccountInv, Shape
  <2>4. StaffMay(accounts, handlers[s].user.id, FormOf(s).venue, c)
    BY <1>1, <1>3, <2>1 DEF Justified
  <2>5. \A w \in Venues : HasAdmin(accounts, w) => HasAdmin(accounts', w)
    BY <1>3, <2>1, <2>2, <2>4, StaffKeepsAdmins
  <2> QED
    BY <1>1, <1>2, <2>3, <2>5 DEF Shape, AccountInv, AdminRemains, HasAdmin
<1>5. CASE CommitOperator(s)
  <2>1. KindOf(s) = "OPERATOR" /\ c.venue \in Venues /\ Proper(c) /\ c.kind # "ROLE"
    BY <1>1, <1>5, ProperCommand DEF CommitOperator, Committing, AccountInv, Shape
  <2>2. accounts' = After(accounts, c.venue, c) /\ sessions' = Revoked(c.target)
    BY <1>5 DEF CommitOperator
  <2>3. AccountShape' /\ RevokedStaysOut'
    BY <2>1, <2>2, CommandRevokes DEF AccountInv, Shape
  <2>4. OperatorMay(accounts, c)
    BY <1>1, <1>3, <2>1 DEF Justified
  <2>5. \A w \in Venues : HasAdmin(accounts, w) => HasAdmin(accounts', w)
    BY <1>3, <2>1, <2>2, <2>4, OperatorKeepsAdmins
  <2> QED
    BY <1>1, <1>2, <2>3, <2>5 DEF Shape, AccountInv, AdminRemains, HasAdmin
<1> QED
  BY <1>4, <1>5

\* The creator of a venue, still active, is its first administrator.
LEMMA LocationCommit ==
    ASSUME AccountInv, NEW s \in Slots, CommitLocation(s)
    PROVE  /\ Shape' /\ AdminRemains' /\ RevokedStaysOut'
           /\ ChangesAccounts(s) /\ Finish(s) /\ forms' = forms
<1> DEFINE w == FormOf(s).command.venue
<1> DEFINE p == handlers[s].user.id
<1>1. /\ Handling(s) /\ ChangesAccounts(s) /\ KindOf(s) = "LOCATION"
      /\ Finish(s) /\ forms' = forms
  BY DEF CommitLocation, Committing, Write, Handling, ChangesAccounts
<1>2. w \in Venues /\ p \in People /\ accounts[p].active
  BY <1>1, ProperCommand DEF AccountInv, AllJustified, Justified, Shape
<1>3. rows' = [Advanced(s, {FormOf(s).venue}) EXCEPT ![w] = NewRow] /\ sessions' = sessions
         /\ accounts' = WithRole(accounts, p, w, "ADMIN")
  BY DEF CommitLocation
<1>4. /\ rows' \in [Venues -> RowType]
      /\ \A v \in Venues \ {w} : rows'[v].exists = rows[v].exists
  <2>1. NewRow \in RowType
    BY DEF NewRow, RowType
  <2> QED
    BY <1>2, <1>3, <2>1, AdvancedShape DEF AccountInv, Shape
<1>5. /\ accounts' \in AccountTable
      /\ \A q \in People : /\ accounts'[q].active = accounts[q].active
                           /\ accounts'[q].password = accounts[q].password
                           /\ \A v \in Venues \ {w} : accounts'[q].roles[v] = accounts[q].roles[v]
      /\ accounts'[p].roles[w] = "ADMIN"
  BY <1>2, <1>3 DEF AccountInv, Shape, AccountShape, AccountTable, RoleTable, WithRole, StaffRoles
<1>6. Shape'
  BY <1>1, <1>3, <1>4, <1>5, FinishShape DEF AccountInv, Shape, AccountShape
<1>7. AdminRemains'
  BY <1>2, <1>4, <1>5 DEF AccountInv, AdminRemains
<1>8. RevokedStaysOut'
  <2>1. \A t \in Tokens : sessions[t].state = "open" => sessions[t].user \in People
    BY DEF AccountInv, Shape, AccountShape, SignedIn, Unused, Ended
  <2> QED
    BY <1>3, <1>5, <2>1 DEF AccountInv, RevokedStaysOut, Current
<1> QED
  BY <1>1, <1>6, <1>7, <1>8

-----------------------------------------------------------------------------
(* The lock, and what was decided under it.                                *)

\* A step that changes neither accounts nor who is at work on them.
LEMMA LockUntouched ==
    ASSUME AccountInv, UNCHANGED <<accounts, accountsLock, handlers>>,
           \A op \in Ops : forms[op] # None => forms'[op] = forms[op]
    PROVE  LockHeld' /\ AllJustified'
<1>1. ASSUME NEW s \in Slots, ChangesAccounts(s)'
      PROVE  /\ ChangesAccounts(s) /\ FormOf(s)' = FormOf(s) /\ KindOf(s)' = KindOf(s)
  <2>1. Handling(s)
    BY <1>1 DEF ChangesAccounts, Handling
  <2>2. FormOf(s)' = FormOf(s)
    BY <2>1 DEF AccountInv, Shape, WorkShape, Engaged, FormOf
  <2> QED
    BY <1>1, <2>2 DEF ChangesAccounts, KindOf
<1>2. LockHeld'
  BY <1>1 DEF AccountInv, LockHeld
<1>3. ASSUME NEW s \in Slots PROVE Justified(s)'
  BY <1>1 DEF AccountInv, AllJustified, Justified
<1> QED
  BY <1>2, <1>3 DEF AllJustified

\* A step of s alone, after which s itself is as it should be.
LEMMA LockOfOthers ==
    ASSUME AccountInv, NEW s \in Slots, NEW h, handlers' = [handlers EXCEPT ![s] = h],
           forms' = forms,
           \/ accounts' = accounts
           \/ accountsLock = s,
           accountsLock' = accountsLock \/ accountsLock = None \/ accountsLock = s,
           ChangesAccounts(s)' => accountsLock' = s,
           Justified(s)'
    PROVE  LockHeld' /\ AllJustified'
<1>1. ASSUME NEW r \in Slots, r # s, ChangesAccounts(r)'
      PROVE  /\ ChangesAccounts(r) /\ FormOf(r)' = FormOf(r) /\ KindOf(r)' = KindOf(r)
             /\ handlers'[r] = handlers[r] /\ accountsLock = r
  <2>1. handlers'[r] = handlers[r]
    BY <1>1 DEF AccountInv, Shape, WorkShape
  <2>2. FormOf(r)' = FormOf(r) /\ KindOf(r)' = KindOf(r) /\ ChangesAccounts(r)
    BY <1>1, <2>1 DEF FormOf, KindOf, ChangesAccounts
  <2> QED
    BY <2>1, <2>2 DEF AccountInv, LockHeld
<1>2. LockHeld'
  BY <1>1, MutationsAssumption DEF LockHeld
<1>3. ASSUME NEW r \in Slots PROVE Justified(r)'
  <2>1. CASE r # s /\ ChangesAccounts(r)'
    <3>1. accounts' = accounts
      BY <1>1, <2>1
    <3>2. Justified(r)
      BY DEF AccountInv, AllJustified
    <3> QED
      BY <1>1, <2>1, <3>1, <3>2 DEF Justified
  <2>2. CASE ~ChangesAccounts(r)'
    BY <2>2 DEF Justified
  <2> QED
    BY <2>1, <2>2
<1> QED
  BY <1>2, <1>3 DEF AllJustified

LEMMA FinishKeepsLock ==
    ASSUME AccountInv, NEW s \in Slots, Finish(s), forms' = forms,
           accounts' = accounts \/ ChangesAccounts(s)
    PROVE  LockHeld' /\ AllJustified'
<1>1. handlers' = [handlers EXCEPT ![s] = Done] /\ handlers'[s].phase = "done"
  BY DEF Finish, Done, Idle, AccountInv, Shape, WorkShape
<1>2. ~ChangesAccounts(s)' /\ Justified(s)'
  BY <1>1 DEF ChangesAccounts, Justified
<1>3. accountsLock' = accountsLock \/ accountsLock = s
  BY DEF Finish, ReleaseAccounts
<1>4. accounts' = accounts \/ accountsLock = s
  BY DEF AccountInv, LockHeld
<1> QED
  BY <1>1, <1>2, <1>3, <1>4, LockOfOthers

LEMMA EntersLock ==
    ASSUME AccountInv, NEW s \in Slots, Enters(s)
    PROVE  LockHeld' /\ AllJustified'
<1>1. /\ accountsLock = None /\ accountsLock' = s /\ accounts' = accounts /\ forms' = forms
      /\ handlers[s].phase = "accounts"
      /\ \E h : handlers' = [handlers EXCEPT ![s] = h] /\ h.phase = "row"
  <2>1. handlers[s] \in HandlerType
    BY DEF AccountInv, Shape, WorkShape
  <2>2. CASE TakeAccounts(s)
    <3> DEFINE h == [handlers[s] EXCEPT !.phase = "row", !.need = {FormOf(s).venue},
                                        !.user = Access(handlers[s].token)]
    <3>1. handlers' = [handlers EXCEPT ![s] = h] /\ h.phase = "row"
      BY <2>1, <2>2 DEF TakeAccounts, HandlerType
    <3> QED
      BY <2>2, <3>1 DEF TakeAccounts
  <2>3. CASE OperatorTakesAccounts(s)
    <3> DEFINE h == [handlers[s] EXCEPT !.phase = "row",
                                        !.need = Affected(accounts, FormOf(s).command)]
    <3>1. handlers' = [handlers EXCEPT ![s] = h] /\ h.phase = "row"
      BY <2>1, <2>3 DEF OperatorTakesAccounts, HandlerType
    <3> QED
      BY <2>3, <3>1 DEF OperatorTakesAccounts
  <2> QED
    BY <2>2, <2>3 DEF Enters
<1>2. handlers'[s].phase = "row"
  BY <1>1 DEF AccountInv, Shape, WorkShape
<1>3. Justified(s)'
  <2>1. CASE TakeAccounts(s)
    <3>1. /\ handlers'[s].user = Access(handlers[s].token)
          /\ Access(handlers[s].token) # None
          /\ KindOf(s) # "OPERATOR"
      BY <2>1 DEF TakeAccounts, MayChangeAccounts, Matches, AccountInv, Shape, WorkShape, HandlerType
    <3>2. handlers[s].token \in Tokens
      BY <1>1, <3>1 DEF AccountInv, Shape, WorkShape, Handling, Engaged, KindOf, FormOf
    <3>3. handlers'[s].user.id \in People /\ accounts'[handlers'[s].user.id].active
      BY <1>1, <3>1, <3>2, AccessType DEF AccountInv, Shape
    <3> QED
      BY <1>2, <3>3 DEF Justified
  <2>2. CASE OperatorTakesAccounts(s)
    <3>1. KindOf(s)' = "OPERATOR"
      BY <1>1, <2>2 DEF OperatorTakesAccounts, KindOf, FormOf, AccountInv, Shape, WorkShape, HandlerType
    <3> QED
      BY <1>2, <3>1 DEF Justified
  <2> QED
    BY <2>1, <2>2 DEF Enters
<1> QED
  BY <1>1, <1>3, LockOfOthers

LEMMA ArriveLock ==
    ASSUME AccountInv, NEW s \in Slots, NEW op \in Ops, NEW recover, NEW t, NEW user,
           NEW phase, NEW need, Arrive(s, op, recover, t, user, phase, need),
           phase = "accounts" \/ recover = TRUE \/ (recover = FALSE /\ forms[op].kind = "COMMAND")
    PROVE  LockHeld' /\ AllJustified'
<1> DEFINE h == [phase |-> phase, op |-> op, recover |-> recover, token |-> t, user |-> user,
                 need |-> need, base |-> Idle.base]
<1>1. /\ handlers' = [handlers EXCEPT ![s] = h] /\ forms' = forms
      /\ accounts' = accounts /\ accountsLock' = accountsLock
  BY DEF Arrive
<1>2. handlers'[s] = h
  BY <1>1 DEF AccountInv, Shape, WorkShape
<1>3. ~ChangesAccounts(s)'
  BY <1>1, <1>2 DEF ChangesAccounts, KindOf, FormOf
<1>4. Justified(s)'
  BY <1>3 DEF Justified
<1> QED
  BY <1>1, <1>3, <1>4, LockOfOthers

LEMMA TakeRowLock ==
    ASSUME AccountInv, NEW s \in Slots, TakeRow(s)
    PROVE  LockHeld' /\ AllJustified'
<1>1. PICK v \in handlers[s].need :
         handlers' = [handlers EXCEPT
             ![s].need = @ \ {v}, ![s].base[v] = rows[v].revision,
             ![s].phase = IF handlers[s].need = {v} THEN "locked" ELSE "row"]
  BY DEF TakeRow
<1> DEFINE h == [handlers[s] EXCEPT !.need = @ \ {v}, !.base[v] = rows[v].revision,
                                    !.phase = IF handlers[s].need = {v} THEN "locked" ELSE "row"]
<1>2. /\ handlers' = [handlers EXCEPT ![s] = h] /\ forms' = forms /\ handlers[s].phase = "row"
      /\ accounts' = accounts /\ accountsLock' = accountsLock
  <2>1. handlers' = [handlers EXCEPT ![s] = h]
    BY <1>1
  <2> QED
    BY <2>1 DEF TakeRow
<1>3. /\ handlers'[s].phase \in {"row", "locked"} /\ handlers'[s].user = handlers[s].user
      /\ handlers'[s].op = handlers[s].op /\ handlers'[s].recover = handlers[s].recover
  BY <1>2 DEF AccountInv, Shape, WorkShape, HandlerType
<1>4. ChangesAccounts(s)' => ChangesAccounts(s) /\ KindOf(s)' = KindOf(s)
  BY <1>2, <1>3 DEF ChangesAccounts, KindOf, FormOf
<1>5. Justified(s)'
  BY <1>2, <1>3, <1>4 DEF AccountInv, AllJustified, Justified
<1> QED
  BY <1>2, <1>4, <1>5, LockOfOthers DEF AccountInv, LockHeld

LEMMA AuthorizeLock ==
    ASSUME AccountInv, NEW s \in Slots, Authorize(s)
    PROVE  LockHeld' /\ AllJustified'
<1>1. /\ handlers' = [handlers EXCEPT ![s] = [handlers[s] EXCEPT !.phase = "decided"]]
      /\ forms' = forms /\ accounts' = accounts /\ accountsLock' = accountsLock
      /\ handlers[s].phase = "locked" /\ Allowed(s)
  BY DEF Authorize, MayProceed
<1>2. /\ handlers'[s].phase = "decided" /\ handlers'[s].user = handlers[s].user
      /\ handlers'[s].op = handlers[s].op /\ handlers'[s].recover = handlers[s].recover
  BY <1>1 DEF AccountInv, Shape, WorkShape, HandlerType
<1>3. FormOf(s)' = FormOf(s) /\ KindOf(s)' = KindOf(s) /\ ChangesAccounts(s)' = ChangesAccounts(s)
  BY <1>1, <1>2 DEF ChangesAccounts, KindOf, FormOf
<1>4. Justified(s)'
  <2>1. /\ KindOf(s) = "STAFF" =>
              StaffMay(accounts, handlers[s].user.id, FormOf(s).venue, FormOf(s).command)
        /\ KindOf(s) = "OPERATOR" => OperatorMay(accounts, FormOf(s).command)
    BY <1>1 DEF Allowed
  <2>2. Justified(s)
    BY DEF AccountInv, AllJustified
  <2> QED
    BY <1>1, <1>2, <1>3, <2>1, <2>2 DEF Justified
<1> QED
  BY <1>1, <1>3, <1>4, LockOfOthers DEF AccountInv, LockHeld

-----------------------------------------------------------------------------
(* The invariant.                                                          *)

LEMMA InitInv == Init => AccountInv
<1> SUFFICES ASSUME Init PROVE AccountInv
  OBVIOUS
<1>1. Shape
  BY InitShape
<1>2. LockHeld /\ AllJustified
  BY DEF Init, LockHeld, AllJustified, Justified, ChangesAccounts, Idle
<1>3. AdminRemains
  <2>1. \A v \in Venues : rows[v].exists => v \in InitialVenues
    BY DEF Init, NewRow
  <2> QED
    BY <2>1, AdminAssumption DEF Init, AccountsInit, AdminRemains
<1>4. RevokedStaysOut
  BY AccountsAssumption DEF Init, AccountsInit, RevokedStaysOut
<1> QED
  BY <1>1, <1>2, <1>3, <1>4 DEF AccountInv

\* When accounts and sessions are as they were, so is what is said about them alone.
LEMMA AccountsUntouched ==
    ASSUME AccountInv, accounts' = accounts, sessions' = sessions,
           \A v \in Venues : rows'[v].exists = rows[v].exists
    PROVE  AccountShape' /\ AdminRemains' /\ RevokedStaysOut'
<1>1. AccountShape'
  BY DEF AccountInv, Shape, AccountShape
<1>2. AdminRemains'
  BY DEF AccountInv, AdminRemains
<1>3. RevokedStaysOut'
  BY DEF AccountInv, RevokedStaysOut, Current
<1> QED
  BY <1>1, <1>2, <1>3

\* A sign-in opens a session only with the present password of an active account.
LEMMA SignInRevoked ==
    ASSUME AccountShape, RevokedStaysOut, SignIn
    PROVE  RevokedStaysOut' /\ accounts' = accounts
<1>1. accounts' = accounts
  BY DEF SignIn, VerifyPassword, OpenSession, EndSession, ChangeBranch
<1>2. ASSUME NEW t \in Tokens, NEW r, sessions' = [sessions EXCEPT ![t] = r],
             r.state = "open" => Current(r, accounts)
      PROVE  RevokedStaysOut'
  BY <1>1, <1>2 DEF AccountShape, RevokedStaysOut, Current
<1>3. ASSUME NEW t \in Tokens, NEW p \in People, VerifyPassword(t, p)
      PROVE  RevokedStaysOut'
  <2>1. PICK v \in VenuesOf(accounts, p) :
           sessions' = [sessions EXCEPT ![t] =
              [state |-> "verified", user |-> p, venue |-> v, password |-> accounts[p].password]]
    BY <1>3 DEF VerifyPassword
  <2> QED
    BY <1>2, <2>1
<1>4. ASSUME NEW t \in Tokens, OpenSession(t)
      PROVE  RevokedStaysOut'
  <2>1. sessions[t] \in SignedIn
    BY <1>4 DEF OpenSession, AccountShape, Unused, Ended
  <2> DEFINE r == IF Current(sessions[t], accounts) THEN [sessions[t] EXCEPT !.state = "open"]
                  ELSE Ended
  <2>2. sessions' = [sessions EXCEPT ![t] = r]
    BY <1>4 DEF OpenSession
  <2>3. r.state = "open" => Current(r, accounts)
    BY <2>1 DEF Current, SignedIn, Ended, Unused
  <2> QED
    BY <1>2, <2>2, <2>3
<1>5. ASSUME NEW t \in Tokens, EndSession(t)
      PROVE  RevokedStaysOut'
  BY <1>2, <1>5 DEF EndSession, Ended, Unused
<1>6. ASSUME NEW t \in Tokens, NEW v \in Venues, ChangeBranch(t, v)
      PROVE  RevokedStaysOut'
  <2>1. sessions[t].state = "open"
    BY <1>6 DEF ChangeBranch, Access
  <2>2. sessions[t] \in SignedIn /\ Current(sessions[t], accounts)
    BY <2>1 DEF AccountShape, Unused, Ended, RevokedStaysOut
  <2>3. Current([sessions[t] EXCEPT !.venue = v], accounts)
    BY <2>2 DEF SignedIn, Current
  <2> QED
    BY <1>2, <1>6, <2>3 DEF ChangeBranch
<1> QED
  BY <1>1, <1>3, <1>4, <1>5, <1>6 DEF SignIn

LEMMA ClientInv ==
    ASSUME AccountInv, Client
    PROVE  AccountInv'
<1>1. CASE SignIn /\ UNCHANGED <<recordVars, accountsLock, forms, handlers, answers>>
  <2>1. AccountShape' /\ RevokedStaysOut' /\ accounts' = accounts
    BY <1>1, SignInShape, SignInRevoked DEF AccountInv, Shape
  <2>2. WorkShape' /\ AdminRemains'
    BY <1>1, <2>1 DEF recordVars, AccountInv, Shape, WorkShape, Handling, Engaged, FormShape,
                      AdminRemains
  <2>3. LockHeld' /\ AllJustified'
    BY <1>1, <2>1, LockUntouched
  <2> QED
    BY <2>1, <2>2, <2>3 DEF AccountInv, Shape
<1>2. CASE \E op \in Ops : \/ \E t \in Tokens : PrepareCommand(op, t) \/ PrepareAccountChange(op, t)
                           \/ PrepareOperator(op)
  <2>1. PICK op \in Ops : \/ \E t \in Tokens : PrepareCommand(op, t) \/ PrepareAccountChange(op, t)
                         \/ PrepareOperator(op)
    BY <1>2
  <2>2. PICK form : Prepare(op, form)
    BY <2>1 DEF PrepareCommand, PrepareAccountChange, PrepareOperator
  <2>3. WorkShape'
    BY <2>1, FormsShape, OperatorFormShape DEF AccountInv, Shape
  <2>4. LockHeld' /\ AllJustified'
    <3>1. \A o \in Ops : forms[o] # None => forms'[o] = forms[o]
      BY <2>2 DEF Prepare, AccountInv, Shape, WorkShape
    <3> QED
      BY <2>2, <3>1, LockUntouched DEF Prepare
  <2>5. AccountShape' /\ AdminRemains' /\ RevokedStaysOut'
    BY <2>2, AccountsUntouched DEF Prepare, recordVars
  <2> QED
    BY <2>3, <2>4, <2>5 DEF AccountInv, Shape
<1>3. CASE \E s \in Slots, op \in Ops :
              \/ \E t \in Tokens :
                    \/ \E recover \in BOOLEAN : BeginMutation(s, op, t, recover)
                    \/ BeginAccountChange(s, op, t)
              \/ BeginOperator(s, op)
  <2>1. PICK s \in Slots, op \in Ops :
              \/ \E t \in Tokens :
                    \/ \E recover \in BOOLEAN : BeginMutation(s, op, t, recover)
                    \/ BeginAccountChange(s, op, t)
              \/ BeginOperator(s, op)
    BY <1>3
  <2>2. WorkShape'
    BY <2>1, BeginShape DEF AccountInv
  <2>3. PICK recover, t, user, phase, need :
           /\ Arrive(s, op, recover, t, user, phase, need)
           /\ phase = "accounts" \/ recover = TRUE \/ (recover = FALSE /\ forms[op].kind = "COMMAND")
    BY <2>1 DEF BeginMutation, BeginAccountChange, BeginOperator
  <2>4. LockHeld' /\ AllJustified'
    BY <2>3, ArriveLock
  <2>5. AccountShape' /\ AdminRemains' /\ RevokedStaysOut'
    BY <2>3, AccountsUntouched DEF Arrive, recordVars
  <2> QED
    BY <2>2, <2>4, <2>5 DEF AccountInv, Shape
<1> QED
  BY <1>1, <1>2, <1>3 DEF Client

LEMMA RequestInv ==
    ASSUME AccountInv, NEW s \in Slots, Handle(s) \/ Fail(s)
    PROVE  AccountInv'
<1>1. CASE Enters(s)
  <2>1. WorkShape' /\ LockHeld' /\ AllJustified'
    BY <1>1, EntersShape, EntersLock DEF AccountInv
  <2>2. AccountShape' /\ AdminRemains' /\ RevokedStaysOut'
    BY <1>1, AccountsUntouched DEF Enters, TakeAccounts, OperatorTakesAccounts, recordVars
  <2> QED
    BY <2>1, <2>2 DEF AccountInv, Shape
<1>2. CASE TakeRow(s)
  <2>1. WorkShape' /\ \A v \in Venues : rows'[v].exists = rows[v].exists
    BY <1>2, TakeRowShape DEF AccountInv, Shape
  <2>2. LockHeld' /\ AllJustified'
    BY <1>2, TakeRowLock
  <2>3. AccountShape' /\ AdminRemains' /\ RevokedStaysOut'
    BY <1>2, <2>1, AccountsUntouched DEF TakeRow
  <2> QED
    BY <2>1, <2>2, <2>3 DEF AccountInv, Shape
<1>3. CASE Authorize(s)
  <2>1. WorkShape' /\ LockHeld' /\ AllJustified'
    BY <1>3, AuthorizeShape, AuthorizeLock DEF AccountInv, Shape
  <2>2. AccountShape' /\ AdminRemains' /\ RevokedStaysOut'
    BY <1>3, AccountsUntouched DEF Authorize, recordVars
  <2> QED
    BY <2>1, <2>2 DEF AccountInv, Shape
<1>4. CASE Leaves(s)
  <2>1. /\ WorkShape' /\ Finish(s) /\ forms' = forms /\ UNCHANGED <<accounts, sessions>>
        /\ \A v \in Venues : rows'[v].exists = rows[v].exists
    BY <1>4, LeavesShape DEF AccountInv
  <2>2. LockHeld' /\ AllJustified'
    BY <2>1, FinishKeepsLock
  <2>3. AccountShape' /\ AdminRemains' /\ RevokedStaysOut'
    BY <2>1, AccountsUntouched
  <2> QED
    BY <2>1, <2>2, <2>3 DEF AccountInv, Shape
<1>5. CASE CommitStaff(s) \/ CommitOperator(s)
  BY <1>5, AccountCommit, FinishKeepsLock DEF AccountInv
<1>6. CASE CommitLocation(s)
  BY <1>6, LocationCommit, FinishKeepsLock DEF AccountInv
<1> QED
  BY <1>1, <1>2, <1>3, <1>4, <1>5, <1>6 DEF Handle, Enters, Leaves

LEMMA ImportInv ==
    ASSUME AccountInv, NEW v \in Venues, Import(v)
    PROVE  AccountInv'
<1>1. rows' \in [Venues -> RowType] /\ \A w \in Venues : rows'[w].exists = rows[w].exists
  BY DEF Import, AccountInv, Shape, WorkShape, RowType
<1>2. WorkShape'
  BY <1>1 DEF Import, AccountInv, Shape, WorkShape, Handling, Engaged, FormShape
<1>3. LockHeld' /\ AllJustified'
  BY LockUntouched DEF Import
<1>4. AccountShape' /\ AdminRemains' /\ RevokedStaysOut'
  BY <1>1, AccountsUntouched DEF Import
<1> QED
  BY <1>2, <1>3, <1>4 DEF AccountInv, Shape

LEMMA NextInv == AccountInv /\ [Next]_vars => AccountInv'
<1> SUFFICES ASSUME AccountInv, [Next]_vars PROVE AccountInv'
  OBVIOUS
<1>1. CASE UNCHANGED vars
  <2>1. UNCHANGED <<accounts, sessions, rows, accountsLock, forms, handlers>>
    BY <1>1 DEF vars, recordVars
  <2>2. LockHeld' /\ AllJustified'
    BY <2>1, LockUntouched
  <2>3. AccountShape' /\ AdminRemains' /\ RevokedStaysOut'
    BY <2>1, AccountsUntouched
  <2>4. WorkShape'
    BY <2>1 DEF AccountInv, Shape, WorkShape, Handling, Engaged, FormShape
  <2> QED
    BY <2>2, <2>3, <2>4 DEF AccountInv, Shape
<1>2. CASE Next
  BY <1>2, ClientInv, RequestInv, ImportInv DEF Next
<1> QED
  BY <1>1, <1>2

LEMMA InvAlways == Spec => []AccountInv
BY InitInv, NextInv, PTL DEF Spec

\* Whatever staff and operators do to accounts at once, in any venues, every
\* venue keeps an active administrator (staff-safety.ts:27-49, staff.ts:310-317,
\* operator-accounts.ts:241-286, locations.ts:107-118).
THEOREM AdministratorRemains == Spec => []AdminRemains
<1>1. AccountInv => AdminRemains
  BY DEF AccountInv
<1> QED
  BY <1>1, InvAlways, PTL

\* No session survives its account's password or the disabling of its account,
\* however sign-ins and account changes interleave (auth.ts:110-129,
\* staff-safety.ts:51-62).
THEOREM RevokedSessionsStayOut == Spec => []RevokedStaysOut
<1>1. AccountInv => RevokedStaysOut
  BY DEF AccountInv
<1> QED
  BY <1>1, InvAlways, PTL

-----------------------------------------------------------------------------
(* Second part: what commits.                                              *)
(*                                                                         *)
(* The venues a transaction locks, and what holds while it has them.       *)

Working(s) == handlers[s].phase \in {"row", "locked", "decided"}
Decided(s) == handlers[s].phase = "decided"

Target(s) ==
    IF KindOf(s) = "OPERATOR" THEN Affected(accounts, FormOf(s).command) ELSE {FormOf(s).venue}

\* The row of v is locked by s, at the revision s has read.
Holds(s, v) == rows[v].lock = s /\ handlers[s].base[v] = rows[v].revision

UserHeld(s) ==
    /\ handlers[s].user \in UserType
    /\ KindOf(s) # "OPERATOR" =>
          /\ handlers[s].user # None /\ handlers[s].user.id \in People
          /\ handlers[s].user.venue = FormOf(s).venue

RowsHeld(s) ==
    /\ \A v \in handlers[s].need : rows[v].exists
    /\ \A v \in Target(s) : rows[v].exists /\ (v \in handlers[s].need \/ Holds(s, v))
    /\ handlers[s].phase # "row" => handlers[s].need = {}

\* What was found when the change was authorised still is so.
DecisionHeld(s) ==
    /\ KindOf(s) # "OPERATOR" =>
          LET user == handlers[s].user
          IN accounts[user.id].active /\ accounts[user.id].roles[user.venue] = user.role
    /\ KindOf(s) = "COMMAND" =>
          /\ ~Outdated(FormOf(s), FormOf(s).venue)
          /\ FormOf(s).command.setup => StaffCovers(FormOf(s).venue)
    /\ KindOf(s) = "LOCATION" => ~rows[FormOf(s).command.venue].exists
    /\ KindOf(s) \in {"STAFF", "OPERATOR"} => WithinResets(accounts, FormOf(s).command)

SlotHeld(s) ==
    /\ Handling(s) /\ handlers[s].recover => FormOf(s).kind # "OPERATOR"
    /\ Handling(s) /\ KindOf(s) = "OPERATOR" =>
          handlers[s].user \in UserType /\ handlers[s].user.id = Operator
    /\ Working(s) => UserHeld(s) /\ RowsHeld(s)
    /\ Decided(s) => DecisionHeld(s)

AllHeld == \A s \in Slots : SlotHeld(s)

-----------------------------------------------------------------------------
(* Venues, forms and receipts.                                             *)

\* Roles are in venues that exist; one that does not is as it was at first.
Placed ==
    /\ \A p \in People, v \in Venues : accounts[p].roles[v] # "NONE" => rows[v].exists
    /\ \A v \in Venues : ~rows[v].exists => rows[v] = [NewRow EXCEPT !.exists = FALSE]

\* Whatever a command was prepared on and is no longer so has left its mark in
\* the change versions or in the floor.
Traced(form) ==
    /\ form.revision <= rows[form.venue].revision
    /\ \A k \in Depends(form.command) :
          \/ content[form.venue][k] = form.seen[k]
          \/ versions[form.venue][k] > form.revision
          \/ rows[form.venue].floor > form.revision

FormHeld(form) ==
    form # None =>
        /\ form \in FormType
        /\ form.kind # "OPERATOR" => rows[form.venue].exists
        /\ form.kind = "COMMAND" => form.command \in Commands /\ Traced(form)

\* The venues in which an operation leaves its receipt.
Scope(op) ==
    IF forms[op].kind = "OPERATOR" THEN Affected(accounts, forms[op].command) ELSE {forms[op].venue}

\* The receipts of an operation tell how it was settled.
SettledOnce(op) ==
    /\ applied[op] \in {0, 1}
    /\ \A v \in Venues : receipts[v][op] # None =>
          /\ receipts[v][op].print = Cancelled <=> applied[op] = 0
          /\ receipts[v][op].print = Cancelled =>
                forms[op] # None /\ forms[op].kind # "OPERATOR" /\ v = forms[op].venue
    /\ applied[op] = 1 => forms[op] # None /\ \E v \in Scope(op) : receipts[v][op] # None

Numbered ==
    /\ \A v \in Venues, op \in Ops :
          receipts[v][op] # None => receipts[v][op].revision <= rows[v].revision
    /\ RevisionsDiffer

RecordTypes ==
    /\ accounts \in [People -> AccountType]
    /\ sessions \in [Tokens -> SessionType]
    /\ versions \in [Venues -> [Keys -> Nat]]
    /\ content \in [Venues -> [Keys -> Ops \cup {None, "import"}]]
    /\ receipts \in [Venues -> [Ops -> ReceiptType \cup {None}]]
    /\ accountsLock \in Slots \cup {None}
    /\ applied \in [Ops -> Nat]
    /\ answers \subseteq [op: Ops, result: {"saved", "cancelled"}]

CommitInv ==
    /\ AccountInv
    /\ RecordTypes
    /\ Placed
    /\ \A op \in Ops : FormHeld(forms[op])
    /\ AllHeld
    /\ \A op \in Ops : SettledOnce(op)
    /\ Numbered

-----------------------------------------------------------------------------
(* What account commands leave alone.                                      *)

\* The roles in venue w, and whether those who have one are active, are the same.
SameIn(a, b, w) ==
    \A p \in People :
        /\ b[p].roles[w] = a[p].roles[w]
        /\ a[p].roles[w] # "NONE" => b[p].active = a[p].active

\* A command touches only its target, and only one role of it.
LEMMA AfterTarget ==
    ASSUME NEW a \in AccountTable, NEW v \in Venues, NEW c, Proper(c)
    PROVE  /\ After(a, v, c) \in AccountTable
           /\ \A p \in People \ {c.target} : After(a, v, c)[p] = a[p]
           /\ \A w \in Venues :
                 \/ After(a, v, c)[c.target].roles[w] = a[c.target].roles[w]
                 \/ /\ w = v /\ c.kind \in {"CREATE", "ROLE", "GRANT"}
                    /\ After(a, v, c)[c.target].roles[w] \in StaffRoles
           /\ c.kind \in {"ROLE", "GRANT"} =>
                 After(a, v, c)[c.target].active = a[c.target].active
<1>1. c.target \in People
  BY DEF Proper
<1>2. CASE c.kind = "CREATE"
  BY <1>1, <1>2 DEF AccountTable, RoleTable, Proper, After, Created, WithRole
<1>3. CASE c.kind \in {"ROLE", "GRANT"}
  BY <1>1, <1>3 DEF AccountTable, RoleTable, Proper, After, WithRole
<1>4. CASE c.kind = "PASSWORD"
  BY <1>1, <1>4 DEF AccountTable, RoleTable, Proper, After, WithPassword
<1>5. CASE c.kind = "DISABLE"
  BY <1>1, <1>5 DEF AccountTable, RoleTable, Proper, After, Disabled
<1> QED
  BY <1>2, <1>3, <1>4, <1>5 DEF Proper

\* Nobody ever loses the last trace of a role, and who gains one gains it in v.
LEMMA RolesGrow ==
    ASSUME NEW a \in AccountTable, NEW v \in Venues, NEW c, Proper(c)
    PROVE  /\ \A p \in People : VenuesOf(a, p) \subseteq VenuesOf(After(a, v, c), p)
           /\ \A p \in People, w \in Venues :
                 After(a, v, c)[p].roles[w] # "NONE" =>
                    \/ a[p].roles[w] # "NONE"
                    \/ w = v /\ c.kind \in {"CREATE", "ROLE", "GRANT"}
<1>1. ASSUME NEW p \in People, NEW w \in Venues
      PROVE  \/ After(a, v, c)[p].roles[w] = a[p].roles[w]
             \/ /\ w = v /\ c.kind \in {"CREATE", "ROLE", "GRANT"}
                /\ After(a, v, c)[p].roles[w] # "NONE"
  <2>1. CASE p = c.target
    BY <2>1, AfterTarget DEF StaffRoles
  <2>2. CASE p # c.target
    BY <2>2, AfterTarget
  <2> QED
    BY <2>1, <2>2
<1> QED
  BY <1>1 DEF VenuesOf

LEMMA StaffSpares ==
    ASSUME NEW a \in AccountTable, NEW v \in Venues, NEW c, Proper(c), NEW actor,
           StaffMay(a, actor, v, c), NEW w \in Venues \ {v}
    PROVE  SameIn(a, After(a, v, c), w)
<1>1. \A p \in People : After(a, v, c)[p].roles[w] = a[p].roles[w]
  BY AfterTarget
<1>2. c.kind \in {"ROLE", "GRANT"} => After(a, v, c)[c.target].active = a[c.target].active
  BY AfterTarget
<1>3. c.kind \notin {"ROLE", "GRANT"} => a[c.target].roles[w] = "NONE"
  BY DEF StaffMay, VenuesOf
<1>4. \A p \in People \ {c.target} : After(a, v, c)[p] = a[p]
  BY AfterTarget
<1> QED
  BY <1>1, <1>2, <1>3, <1>4 DEF SameIn

LEMMA OperatorSpares ==
    ASSUME NEW a \in AccountTable, NEW c, Proper(c), c.venue \in Venues, c.kind # "ROLE",
           NEW w \in Venues, w \notin Affected(a, c)
    PROVE  SameIn(a, After(a, c.venue, c), w)
<1>1. a[c.target].roles[w] = "NONE" /\ (c.kind \in {"CREATE", "GRANT"} => w # c.venue)
  BY DEF Affected, VenuesOf
<1>2. \A p \in People : After(a, c.venue, c)[p].roles[w] = a[p].roles[w]
  BY <1>1, AfterTarget
<1>3. \A p \in People \ {c.target} : After(a, c.venue, c)[p] = a[p]
  BY AfterTarget
<1> QED
  BY <1>1, <1>2, <1>3 DEF SameIn

\* Whether there is staff for a venue depends on the staff of that venue only.
LEMMA CoverKept ==
    ASSUME NEW w \in Venues, SameIn(accounts, accounts', w)
    PROVE  StaffCovers(w)' <=> StaffCovers(w)
<1>1. \A p \in People :
         (accounts'[p].active /\ w \in VenuesOf(accounts', p)) <=>
         (accounts[p].active /\ w \in VenuesOf(accounts, p))
  BY DEF SameIn, VenuesOf
<1>2. \A p \in People : accounts'[p].roles[w] = accounts[p].roles[w]
  BY DEF SameIn
<1> QED
  BY <1>1, <1>2 DEF StaffCovers

-----------------------------------------------------------------------------
(* What a transaction about to commit has, and what its commit does.       *)

LEMMA TargetHeld ==
    ASSUME CommitInv, NEW s \in Slots, Decided(s)
    PROVE  /\ handlers[s] \in HandlerType /\ handlers[s].op \in Ops /\ FormOf(s) # None
           /\ Target(s) = Scope(handlers[s].op) /\ Target(s) \subseteq Venues /\ Target(s) # {}
           /\ FormOf(s).venue \in Venues
           /\ KindOf(s) # "RECOVER" => KindOf(s) = FormOf(s).kind /\ ~handlers[s].recover
           /\ KindOf(s) = "RECOVER" => FormOf(s).kind # "OPERATOR" /\ handlers[s].recover
           /\ \A v \in Target(s) : rows[v].exists /\ Holds(s, v)
           /\ handlers[s].user \in UserType
           /\ handlers[s].user.id \in People \cup {Operator}
<1>1. Working(s) /\ Handling(s) /\ handlers[s].phase # "row"
  BY DEF Decided, Working, Handling
<1>2. handlers[s] \in HandlerType /\ Engaged(handlers[s])
  BY <1>1 DEF CommitInv, AccountInv, Shape, WorkShape
<1>3. /\ UserHeld(s) /\ RowsHeld(s)
      /\ handlers[s].recover => FormOf(s).kind # "OPERATOR"
      /\ KindOf(s) = "OPERATOR" => handlers[s].user.id = Operator
  BY <1>1 DEF CommitInv, AllHeld, SlotHeld
<1>4. FormOf(s).venue \in Venues
  BY <1>1, ProperCommand DEF CommitInv, AccountInv, Shape
<1>5. FormOf(s) \in FormType
  BY <1>2 DEF CommitInv, FormHeld, FormOf, Engaged
<1>6. /\ KindOf(s) # "RECOVER" => KindOf(s) = FormOf(s).kind /\ ~handlers[s].recover
      /\ KindOf(s) = "RECOVER" => FormOf(s).kind # "OPERATOR" /\ handlers[s].recover
  BY <1>3, <1>5 DEF KindOf, FormType
<1>7. Target(s) = Scope(handlers[s].op)
  BY <1>6 DEF Target, Scope, FormOf
<1>8. Target(s) \subseteq Venues /\ Target(s) # {}
  <2>1. CASE KindOf(s) = "OPERATOR"
    <3>1. FormOf(s).command.venue \in Venues
      BY <1>1, <2>1, ProperCommand DEF CommitInv, AccountInv, Shape
    <3>2. OperatorMay(accounts, FormOf(s).command)
      BY <1>1, <2>1 DEF CommitInv, AccountInv, AllJustified, Justified, ChangesAccounts, Decided
    <3> QED
      BY <2>1, <3>1, <3>2 DEF Target, Affected, VenuesOf, OperatorMay
  <2>2. CASE KindOf(s) # "OPERATOR"
    BY <1>4, <2>2 DEF Target
  <2> QED
    BY <2>1, <2>2
<1>9. \A v \in Target(s) : rows[v].exists /\ Holds(s, v)
  BY <1>1, <1>3 DEF RowsHeld
<1>10. handlers[s].user.id \in People \cup {Operator}
  BY <1>3 DEF UserHeld
<1> QED
  BY <1>2, <1>3, <1>4, <1>6, <1>7, <1>8, <1>9, <1>10 DEF Engaged, FormOf, UserHeld

\* The four commits that change records, and what they do to a venue.
Commits(s) == CommitCommand(s) \/ CommitStaff(s) \/ CommitLocation(s) \/ CommitOperator(s)

Untouched(v) == versions'[v] = versions[v] /\ content'[v] = content[v]

AdvancedRow(row) ==
    [exists |-> TRUE, revision |-> row.revision + 1, floor |-> row.floor, lock |-> None]

Stamped(v) ==
    \A k \in Keys :
        \/ versions'[v][k] = versions[v][k] /\ content'[v][k] = content[v][k]
        \/ versions'[v][k] = rows[v].revision + 1

Signed(s, v) ==
    /\ receipts[v][handlers[s].op] = None
    /\ receipts'[v] = [receipts[v] EXCEPT ![handlers[s].op] =
           Receipt(handlers[s].user.id, Fingerprint(FormOf(s)), rows[v].revision + 1)]

\* Which venues a commit writes, and which keys.
LEMMA CommitWrites ==
    ASSUME CommitInv, NEW s \in Slots, Commits(s)
    PROVE  /\ Decided(s) /\ KindOf(s) \in {"COMMAND", "STAFF", "LOCATION", "OPERATOR"}
           /\ \E changed \in SUBSET Keys : Write(s, Target(s), changed)
           /\ \/ rows' = Advanced(s, Target(s))
              \/ /\ KindOf(s) = "LOCATION"
                 /\ rows' = [Advanced(s, Target(s)) EXCEPT ![FormOf(s).command.venue] = NewRow]
<1>1. CASE CommitCommand(s)
  <2>1. Decided(s) /\ KindOf(s) = "COMMAND" /\ Target(s) = {FormOf(s).venue}
    BY <1>1 DEF CommitCommand, Committing, Decided, Target
  <2>2. FormOf(s).command \in Commands
    BY <2>1, TargetHeld DEF CommitInv, FormHeld, FormOf
  <2>3. Changes(FormOf(s).command) \in SUBSET Keys
    BY <2>2, MutationsAssumption DEF Changes
  <2> QED
    BY <1>1, <2>1, <2>3 DEF CommitCommand
<1>2. CASE CommitStaff(s)
  BY <1>2, MutationsAssumption DEF CommitStaff, Committing, Decided, Target
<1>3. CASE CommitLocation(s)
  BY <1>3, MutationsAssumption DEF CommitLocation, Committing, Decided, Target
<1>4. CASE CommitOperator(s)
  BY <1>4, MutationsAssumption DEF CommitOperator, Committing, Decided, Target
<1> QED
  BY <1>1, <1>2, <1>3, <1>4 DEF Commits

LEMMA CommitEffect ==
    ASSUME CommitInv, NEW s \in Slots, Commits(s)
    PROVE  /\ \A v \in Target(s) :
                 rows'[v] = AdvancedRow(rows[v]) /\ Stamped(v) /\ Signed(s, v)
           /\ \A v \in Venues \ Target(s) :
                 /\ Untouched(v) /\ receipts'[v] = receipts[v]
                 /\ \/ rows'[v] = Unlocked(s)[v]
                    \/ KindOf(s) = "LOCATION" /\ ~rows[v].exists /\ rows'[v] = NewRow
           /\ applied' = [applied EXCEPT ![handlers[s].op] = @ + 1]
           /\ Answer(handlers[s].op, "saved") /\ Finish(s) /\ forms' = forms
<1> DEFINE op == handlers[s].op
<1> DEFINE w == FormOf(s).command.venue
<1>1. PICK changed \in SUBSET Keys : Write(s, Target(s), changed)
  BY CommitWrites
<1>2. /\ Decided(s) /\ Target(s) \subseteq Venues
      /\ \A v \in Target(s) : rows[v].exists /\ Holds(s, v)
  BY CommitWrites, TargetHeld
<1>3. /\ rows \in [Venues -> RowType] /\ versions \in [Venues -> [Keys -> Nat]]
      /\ content \in [Venues -> [Keys -> Ops \cup {None, "import"}]]
      /\ receipts \in [Venues -> [Ops -> ReceiptType \cup {None}]]
  BY DEF CommitInv, RecordTypes, AccountInv, Shape, WorkShape
<1>4. /\ Insert(op, Target(s), [v \in Target(s) |->
             Receipt(handlers[s].user.id, Fingerprint(FormOf(s)), handlers[s].base[v] + 1)])
      /\ versions' = [v \in Venues |-> [k \in Keys |->
             IF v \in Target(s) /\ k \in changed THEN handlers[s].base[v] + 1 ELSE versions[v][k]]]
      /\ content' = [v \in Venues |-> [k \in Keys |->
             IF v \in Target(s) /\ k \in changed THEN op ELSE content[v][k]]]
      /\ applied' = [applied EXCEPT ![op] = @ + 1]
      /\ Answer(op, "saved") /\ Finish(s) /\ forms' = forms
  BY <1>1 DEF Write
<1>5. ~rows[w].exists \/ KindOf(s) # "LOCATION"
  BY <1>2 DEF CommitInv, AllHeld, SlotHeld, DecisionHeld
<1>6. ASSUME NEW v \in Target(s)
      PROVE  rows'[v] = AdvancedRow(rows[v]) /\ Stamped(v) /\ Signed(s, v)
  <2>1. /\ v \in Venues /\ rows[v].exists /\ rows[v].lock = s
        /\ handlers[s].base[v] = rows[v].revision
    BY <1>2 DEF Holds
  <2>2. Advanced(s, Target(s))[v] = [rows[v] EXCEPT !.lock = None, !.revision = rows[v].revision + 1]
    BY <2>1, <1>3 DEF Advanced, Unlocked
  <2>3. rows'[v] = Advanced(s, Target(s))[v]
    <3>1. Advanced(s, Target(s)) = [u \in Venues |-> Advanced(s, Target(s))[u]]
      BY DEF Advanced
    <3> QED
      BY <3>1, <2>1, <1>5, CommitWrites
  <2>4. rows'[v] = AdvancedRow(rows[v])
    BY <2>1, <2>2, <2>3, <1>3 DEF RowType, AdvancedRow
  <2>5. Stamped(v)
    BY <2>1, <1>4 DEF Stamped
  <2>6. Signed(s, v)
    BY <2>1, <1>3, <1>4 DEF Signed, Insert
  <2> QED
    BY <2>4, <2>5, <2>6
<1>7. ASSUME NEW v \in Venues \ Target(s)
      PROVE  /\ Untouched(v) /\ receipts'[v] = receipts[v]
             /\ \/ rows'[v] = Unlocked(s)[v]
                \/ KindOf(s) = "LOCATION" /\ ~rows[v].exists /\ rows'[v] = NewRow
  <2>1. Advanced(s, Target(s))[v] = Unlocked(s)[v]
    BY DEF Advanced
  <2>2. \/ rows'[v] = Unlocked(s)[v]
        \/ KindOf(s) = "LOCATION" /\ ~rows[v].exists /\ rows'[v] = NewRow
    <3>1. Advanced(s, Target(s)) = [u \in Venues |-> Advanced(s, Target(s))[u]]
      BY DEF Advanced
    <3> QED
      BY <3>1, <2>1, <1>5, CommitWrites
  <2>3. versions'[v] = versions[v]
    BY <1>3, <1>4
  <2>4. content'[v] = content[v]
    BY <1>3, <1>4
  <2>5. receipts'[v] = receipts[v]
    BY <1>4 DEF Insert
  <2> QED
    BY <2>2, <2>3, <2>4, <2>5 DEF Untouched
<1> QED
  BY <1>4, <1>6, <1>7

\* A commit changes the accounts only of venues it holds.
LEMMA CommitAccounts ==
    ASSUME CommitInv, NEW s \in Slots, Commits(s)
    PROVE  /\ accounts' = accounts \/ ChangesAccounts(s)
           /\ \A v \in Venues \ Target(s) : rows[v].exists => SameIn(accounts, accounts', v)
           /\ \A p \in People : VenuesOf(accounts, p) \subseteq VenuesOf(accounts', p)
           /\ \A p \in People, v \in Venues : accounts'[p].roles[v] # "NONE" =>
                 \/ accounts[p].roles[v] # "NONE"
                 \/ rows[v].exists \/ rows'[v].exists
<1>1. accounts \in AccountTable /\ Handling(s) /\ Justified(s)
  BY CommitWrites DEF CommitInv, AccountInv, AllJustified, Shape, AccountShape, Decided, Handling
<1>2. /\ Decided(s) /\ WorkShape /\ Target(s) \subseteq Venues
      /\ \A v \in Target(s) : rows[v].exists
  BY CommitWrites, TargetHeld DEF CommitInv, AccountInv, Shape
<1> DEFINE c == FormOf(s).command
<1>3. CASE CommitCommand(s)
  BY <1>3 DEF CommitCommand, accountVars, SameIn
<1>4. CASE CommitStaff(s)
  <2>1. /\ KindOf(s) = "STAFF" /\ accounts' = After(accounts, FormOf(s).venue, c)
        /\ Target(s) = {FormOf(s).venue}
    BY <1>4 DEF CommitStaff, Committing, Target
  <2>2. Proper(c) /\ FormOf(s).venue \in Venues
    BY <1>1, <1>2, <2>1, ProperCommand
  <2>3. ChangesAccounts(s)
    BY <1>2, <2>1 DEF ChangesAccounts, Decided
  <2>4. StaffMay(accounts, handlers[s].user.id, FormOf(s).venue, c)
    BY <1>1, <1>2, <2>1, <2>3 DEF Justified, Decided
  <2>5. \A v \in Venues \ Target(s) : SameIn(accounts, accounts', v)
    BY <1>1, <2>1, <2>2, <2>4, StaffSpares
  <2> QED
    BY <1>1, <1>2, <2>1, <2>2, <2>3, <2>5, RolesGrow
<1>5. CASE CommitOperator(s)
  <2>1. /\ KindOf(s) = "OPERATOR" /\ accounts' = After(accounts, c.venue, c)
        /\ Target(s) = Affected(accounts, c)
    BY <1>5 DEF CommitOperator, Committing, Target
  <2>2. Proper(c) /\ c.venue \in Venues /\ c.kind # "ROLE"
    BY <1>1, <1>2, <2>1, ProperCommand
  <2>3. ChangesAccounts(s)
    BY <1>2, <2>1 DEF ChangesAccounts, Decided
  <2>4. \A v \in Venues \ Target(s) : SameIn(accounts, accounts', v)
    BY <1>1, <2>1, <2>2, OperatorSpares
  <2>5. c.kind \in {"CREATE", "GRANT"} => c.venue \in Target(s)
    BY <2>1 DEF Affected
  <2>6. \A p \in People, v \in Venues : accounts'[p].roles[v] # "NONE" =>
           accounts[p].roles[v] # "NONE" \/ rows[v].exists
    BY <1>1, <1>2, <2>1, <2>2, <2>5, RolesGrow
  <2> QED
    BY <1>1, <2>1, <2>2, <2>3, <2>4, <2>6, RolesGrow
<1>6. CASE CommitLocation(s)
  <2>1. /\ KindOf(s) = "LOCATION" /\ accounts' = WithRole(accounts, handlers[s].user.id, c.venue, "ADMIN")
        /\ rows' = [Advanced(s, {FormOf(s).venue}) EXCEPT ![c.venue] = NewRow]
    BY <1>6 DEF CommitLocation, Committing
  <2>2. ChangesAccounts(s) /\ c.venue \in Venues
    BY <1>1, <1>2, <2>1, ProperCommand DEF ChangesAccounts, Decided
  <2>3. ~rows[c.venue].exists /\ rows'[c.venue].exists /\ handlers[s].user.id \in People
    <3>1. ~rows[c.venue].exists
      BY <1>2, <2>1 DEF CommitInv, AllHeld, SlotHeld, DecisionHeld
    <3>2. rows'[c.venue] = NewRow
      BY <2>1, <2>2 DEF Advanced
    <3>3. handlers[s].user.id \in People
      BY <1>1, <2>1, <2>2 DEF Justified
    <3> QED
      BY <3>1, <3>2, <3>3 DEF NewRow
  <2>4. \A p \in People : /\ accounts'[p].active = accounts[p].active
                          /\ \A v \in Venues : \/ accounts'[p].roles[v] = accounts[p].roles[v]
                                               \/ v = c.venue /\ accounts'[p].roles[v] = "ADMIN"
    BY <1>1, <2>1, <2>2, <2>3 DEF AccountTable, RoleTable, WithRole
  <2> QED
    BY <2>2, <2>3, <2>4 DEF SameIn, VenuesOf
<1> QED
  BY <1>3, <1>4, <1>5, <1>6 DEF Commits

-----------------------------------------------------------------------------
(* A transaction is not disturbed by the steps of others.                  *)

\* What is known of the records and the staff of a venue is the same.
Spared(v) ==
    rows'[v] = rows[v] /\ Untouched(v) /\ SameIn(accounts, accounts', v)

LEMMA Undisturbed ==
    ASSUME CommitInv, NEW s \in Slots, handlers'[s] = handlers[s],
           \A op \in Ops : forms[op] # None => forms'[op] = forms[op],
           \A v \in Venues : rows[v].exists => rows'[v].exists,
           \A v \in Venues : rows[v].lock = s /\ rows[v].exists => Spared(v),
           ChangesAccounts(s) =>
              accounts' = accounts /\ \A v \in Venues : rows'[v].exists = rows[v].exists
    PROVE  SlotHeld(s)'
<1>1. CASE ~Handling(s)
  BY <1>1 DEF SlotHeld, Handling, Working, Decided
<1>2. CASE Handling(s)
  <2>1. handlers[s] \in HandlerType /\ Engaged(handlers[s]) /\ FormOf(s).venue \in Venues
    BY <1>2, ProperCommand DEF CommitInv, AccountInv, Shape, WorkShape
  <2>2. FormOf(s)' = FormOf(s) /\ KindOf(s)' = KindOf(s)
    BY <2>1 DEF FormOf, KindOf, Engaged
  <2>3. /\ handlers'[s].recover => FormOf(s)'.kind # "OPERATOR"
        /\ KindOf(s)' = "OPERATOR" =>
              handlers'[s].user \in UserType /\ handlers'[s].user.id = Operator
    BY <1>2, <2>2 DEF CommitInv, AllHeld, SlotHeld
  <2>4. ASSUME Working(s)
        PROVE  /\ Target(s)' = Target(s) /\ UserHeld(s) /\ RowsHeld(s)
               /\ KindOf(s) \in {"STAFF", "LOCATION", "OPERATOR"} => ChangesAccounts(s)
               /\ \A v \in Target(s) : v \in Venues
    <3>1. UserHeld(s) /\ RowsHeld(s)
      BY <2>4 DEF CommitInv, AllHeld, SlotHeld
    <3>2. KindOf(s) \in {"STAFF", "LOCATION", "OPERATOR"} => ChangesAccounts(s)
      BY <2>4 DEF ChangesAccounts, Working
    <3>3. Target(s)' = Target(s)
      BY <2>2, <3>2 DEF Target
    <3>4. \A v \in Target(s) : v \in Venues
      BY <1>2, <2>1, ProperCommand DEF Target, Affected, VenuesOf, CommitInv, AccountInv, Shape
    <3> QED
      BY <3>1, <3>2, <3>3, <3>4
  <2>5. Working(s) => UserHeld(s)' /\ RowsHeld(s)'
    <3> SUFFICES ASSUME Working(s) PROVE UserHeld(s)' /\ RowsHeld(s)'
      OBVIOUS
    <3>1. UserHeld(s)'
      BY <2>2, <2>4 DEF UserHeld
    <3>2. \A v \in handlers[s].need : rows'[v].exists
      BY <2>1, <2>4 DEF RowsHeld, HandlerType
    <3>3. \A v \in Target(s) : rows'[v].exists /\ (v \in handlers[s].need \/ Holds(s, v)')
      BY <2>4 DEF RowsHeld, Holds, Spared
    <3> QED
      BY <2>4, <3>1, <3>2, <3>3 DEF RowsHeld
  <2>6. Decided(s) => DecisionHeld(s)'
    <3> SUFFICES ASSUME Decided(s) PROVE DecisionHeld(s)'
      OBVIOUS
    <3> DEFINE user == handlers[s].user
    <3> DEFINE v == FormOf(s).venue
    <3>1. Working(s) /\ DecisionHeld(s)
      BY DEF Decided, Working, CommitInv, AllHeld, SlotHeld
    <3>2. KindOf(s) # "OPERATOR" => Spared(v)
      BY <2>1, <3>1, TargetHeld DEF Target, Holds
    <3>3. KindOf(s) # "OPERATOR" =>
             accounts'[user.id].active /\ accounts'[user.id].roles[user.venue] = user.role
      <4> SUFFICES ASSUME KindOf(s) # "OPERATOR"
                   PROVE  accounts'[user.id].active /\ accounts'[user.id].roles[user.venue] = user.role
        OBVIOUS
      <4>1. user.id \in People /\ user.venue = v /\ user \in UserType
        BY <2>4, <3>1 DEF UserHeld
      <4>2. user.venue # None
        BY <2>1, <4>1, MutationsAssumption
      <4>3. user.role \in StaffRoles
        BY <4>1, <4>2 DEF UserType
      <4> QED
        BY <3>1, <3>2, <4>1, <4>3 DEF DecisionHeld, Spared, SameIn, StaffRoles
    <3>4. KindOf(s) = "COMMAND" =>
             /\ ~Outdated(FormOf(s), v)'
             /\ FormOf(s).command.setup => StaffCovers(v)'
      <4> SUFFICES ASSUME KindOf(s) = "COMMAND"
                   PROVE  /\ ~Outdated(FormOf(s), v)'
                          /\ FormOf(s).command.setup => StaffCovers(v)'
        OBVIOUS
      <4>1. rows'[v] = rows[v] /\ versions'[v] = versions[v] /\ SameIn(accounts, accounts', v)
        BY <3>2 DEF Spared, Untouched
      <4>2. ~Outdated(FormOf(s), v)'
        BY <2>2, <3>1, <4>1 DEF DecisionHeld, Outdated
      <4>3. FormOf(s).command.setup => StaffCovers(v)'
        <5>1. PICK w \in Venues : w = v /\ w = v'
          BY <2>1, <2>2
        <5>2. SameIn(accounts, accounts', w) /\ (FormOf(s).command.setup => StaffCovers(w))
          BY <3>1, <4>1, <5>1 DEF DecisionHeld
        <5>3. FormOf(s).command.setup => StaffCovers(w)'
          BY <5>2, CoverKept
        <5> QED
          BY <5>1, <5>3, Zenon DEF StaffCovers
      <4> QED
        BY <4>2, <4>3
    <3>5. KindOf(s) = "LOCATION" => ~rows'[FormOf(s).command.venue].exists
      BY <1>2, <2>4, <3>1, ProperCommand DEF DecisionHeld, CommitInv, AccountInv, Shape
    <3>6. KindOf(s) \in {"STAFF", "OPERATOR"} => WithinResets(accounts, FormOf(s).command)'
      BY <2>2, <2>4, <3>1 DEF DecisionHeld, WithinResets
    <3> QED
      BY <2>2, <3>3, <3>4, <3>5, <3>6 DEF DecisionHeld
  <2> QED
    BY <1>2, <2>2, <2>3, <2>5, <2>6 DEF SlotHeld, Working, Decided
<1> QED
  BY <1>1, <1>2

\* The steps of a slot: it goes on, takes a row, ends without a change, or commits.
GoesOn(s) == Enters(s) \/ Authorize(s)
Quits(s) == Replay(s) \/ RecoverSettled(s) \/ Refuse(s) \/ Fail(s)
Ends(s) == Quits(s) \/ CommitRecovery(s)

LEMMA SlotSteps ==
    ASSUME NEW s \in Slots, Handle(s) \/ Fail(s)
    PROVE  GoesOn(s) \/ TakeRow(s) \/ Ends(s) \/ Commits(s)
BY DEF Handle, GoesOn, Enters, Ends, Quits, Commits

LEMMA GoesOnEffect ==
    ASSUME NEW s \in Slots, GoesOn(s)
    PROVE  /\ UNCHANGED <<accounts, sessions, recordVars, forms, answers>>
           /\ \E h : handlers' = [handlers EXCEPT ![s] = h]
<1>1. CASE TakeAccounts(s)
  BY <1>1 DEF TakeAccounts
<1>2. CASE OperatorTakesAccounts(s)
  BY <1>2 DEF OperatorTakesAccounts
<1>3. CASE Authorize(s)
  BY <1>3 DEF Authorize
<1> QED
  BY <1>1, <1>2, <1>3 DEF GoesOn, Enters

LEMMA EndsEffect ==
    ASSUME NEW s \in Slots, Ends(s)
    PROVE  /\ UNCHANGED <<accounts, sessions, versions, content, applied, forms>>
           /\ rows' = Unlocked(s) /\ Finish(s)
<1>1. CASE Replay(s)
  BY <1>1 DEF Replay
<1>2. CASE RecoverSettled(s)
  BY <1>2 DEF RecoverSettled
<1>3. CASE Refuse(s) \/ Fail(s)
  BY <1>3 DEF Refuse, Fail, RollBack
<1>4. CASE CommitRecovery(s)
  BY <1>4 DEF CommitRecovery
<1> QED
  BY <1>1, <1>2, <1>3, <1>4 DEF Ends, Quits

LEMMA CommitInvRows ==
    ASSUME CommitInv
    PROVE  \A v \in Venues : rows[v] \in RowType /\ rows[v].exists \in BOOLEAN
BY DEF CommitInv, AccountInv, Shape, WorkShape, RowType

\* A row that is returned, and one that is not the slot's.
LEMMA UnlockedRow ==
    ASSUME CommitInv, NEW s \in Slots, NEW v \in Venues
    PROVE  /\ Unlocked(s)[v].exists = rows[v].exists
           /\ Unlocked(s)[v].revision = rows[v].revision
           /\ Unlocked(s)[v].floor = rows[v].floor
           /\ Unlocked(s)[v].lock = IF rows[v].lock = s THEN None ELSE rows[v].lock
           /\ rows[v].lock # s => Unlocked(s)[v] = rows[v]
<1>1. rows[v] \in RowType
  BY DEF CommitInv, AccountInv, Shape, WorkShape
<1> QED
  BY <1>1 DEF Unlocked, RowType

LEMMA SameAccounts ==
    ASSUME accounts' = accounts, NEW v
    PROVE  SameIn(accounts, accounts', v)
BY DEF SameIn

LEMMA OthersHeld ==
    ASSUME CommitInv, NEW r \in Slots, Handle(r) \/ Fail(r), NEW s \in Slots, s # r
    PROVE  SlotHeld(s)'
<1>1. /\ handlers = [x \in Slots |-> handlers[x]] /\ rows = [v \in Venues |-> rows[v]]
      /\ \A v \in Venues : rows[v].lock = s => rows[v].lock # r /\ rows[v].lock # None
      /\ ChangesAccounts(r) /\ ChangesAccounts(s) => FALSE
  BY MutationsAssumption DEF CommitInv, AccountInv, Shape, WorkShape, LockHeld
<1>2. CASE GoesOn(r)
  <2>1. handlers'[s] = handlers[s] /\ rows' = rows /\ accounts' = accounts /\ forms' = forms
           /\ \A v \in Venues : Untouched(v)
    BY <1>1, <1>2, GoesOnEffect DEF recordVars, Untouched
  <2> QED
    BY <2>1, Undisturbed, SameAccounts DEF Spared
<1>3. CASE TakeRow(r)
  <2>1. PICK w \in Venues : Free(w) /\ rows' = [rows EXCEPT ![w].lock = r]
    <3>1. handlers[r].need \subseteq Venues
      BY DEF CommitInv, AccountInv, Shape, WorkShape, HandlerType
    <3> QED
      BY <1>3, <3>1 DEF TakeRow
  <2>2. \A v \in Venues : rows[v].lock = s => rows'[v] = rows[v]
    BY <1>1, <2>1 DEF Free
  <2>3. \A v \in Venues : rows'[v].exists = rows[v].exists
    BY <1>3, TakeRowShape DEF CommitInv, AccountInv, Shape
  <2>4. handlers'[s] = handlers[s] /\ accounts' = accounts /\ forms' = forms
           /\ \A v \in Venues : Untouched(v)
    BY <1>1, <1>3 DEF TakeRow, Untouched
  <2> QED
    BY <2>2, <2>3, <2>4, Undisturbed, SameAccounts DEF Spared
<1>4. CASE Ends(r)
  <2>1. \A v \in Venues : rows'[v].exists = rows[v].exists
    BY <1>4, EndsEffect, UnlockedRow
  <2>2. \A v \in Venues : rows[v].lock = s => rows'[v] = rows[v]
    BY <1>1, <1>4, EndsEffect, UnlockedRow
  <2>3. handlers'[s] = handlers[s] /\ accounts' = accounts /\ forms' = forms
           /\ \A v \in Venues : Untouched(v)
    BY <1>1, <1>4, EndsEffect DEF Finish, Untouched
  <2> QED
    BY <2>1, <2>2, <2>3, Undisturbed, SameAccounts DEF Spared
<1>5. CASE Commits(r)
  <2>1. Decided(r) /\ \A v \in Target(r) : rows[v].exists /\ rows[v].lock = r
    BY <1>5, CommitWrites, TargetHeld DEF Holds
  <2>2. ASSUME NEW v \in Venues, rows[v].lock = s, rows[v].exists PROVE Spared(v)
    <3>1. v \in Venues \ Target(r)
      BY <1>1, <2>1, <2>2
    <3>2. rows'[v] = rows[v] /\ Untouched(v)
      BY <1>1, <1>5, <2>2, <3>1, CommitEffect, UnlockedRow
    <3> QED
      BY <1>5, <2>2, <3>1, <3>2, CommitAccounts DEF Spared
  <2>3. \A v \in Venues : \/ rows'[v].exists = rows[v].exists
                          \/ KindOf(r) = "LOCATION" /\ rows'[v].exists
    <3> SUFFICES ASSUME NEW v \in Venues
                 PROVE  \/ rows'[v].exists = rows[v].exists
                        \/ KindOf(r) = "LOCATION" /\ rows'[v].exists
      OBVIOUS
    <3>1. CASE v \in Target(r)
      <4>1. rows'[v] = AdvancedRow(rows[v]) /\ rows[v].exists
        BY <1>5, <2>1, <3>1, CommitEffect
      <4>2. AdvancedRow(rows[v]).exists = TRUE
        BY DEF AdvancedRow
      <4> QED
        BY <4>1, <4>2, CommitInvRows
    <3>2. CASE v \notin Target(r)
      <4>1. \/ rows'[v] = Unlocked(r)[v]
            \/ KindOf(r) = "LOCATION" /\ rows'[v] = NewRow
        BY <1>5, <3>2, CommitEffect
      <4> QED
        BY <4>1, UnlockedRow DEF NewRow
    <3> QED
      BY <3>1, <3>2
  <2>4. KindOf(r) = "LOCATION" => ChangesAccounts(r)
    BY <2>1 DEF ChangesAccounts, Decided
  <2>5. ChangesAccounts(s) =>
           accounts' = accounts /\ \A v \in Venues : rows'[v].exists = rows[v].exists
    BY <1>1, <1>5, <2>3, <2>4, CommitAccounts
  <2>6. handlers'[s] = handlers[s] /\ forms' = forms
    BY <1>1, <1>5, CommitEffect DEF Finish
  <2>7. \A v \in Venues : rows[v].exists => rows'[v].exists
    BY <2>3
  <2> QED
    BY <2>2, <2>5, <2>6, <2>7, Undisturbed
<1> QED
  BY <1>2, <1>3, <1>4, <1>5, SlotSteps

-----------------------------------------------------------------------------
(* A slot's own steps.                                                     *)

LEMMA RestingHeld ==
    ASSUME CommitInv, NEW s \in Slots, Finish(s)
    PROVE  SlotHeld(s)'
<1>1. handlers'[s].phase = "done"
  BY DEF Finish, Done, Idle, CommitInv, AccountInv, Shape, WorkShape
<1> QED
  BY <1>1 DEF SlotHeld, Handling, Working, Decided

LEMMA EnterHeld ==
    ASSUME CommitInv, NEW s \in Slots, Enters(s)
    PROVE  SlotHeld(s)'
<1>1. Handling(s) /\ handlers[s] \in HandlerType /\ Engaged(handlers[s])
         /\ FormHeld(FormOf(s)) /\ FormOf(s) # None /\ FormOf(s).venue \in Venues
  <2>1. Handling(s)
    BY DEF Enters, TakeAccounts, OperatorTakesAccounts, Handling
  <2>2. handlers[s] \in HandlerType /\ Engaged(handlers[s])
    BY <2>1 DEF CommitInv, AccountInv, Shape, WorkShape
  <2> QED
    BY <2>1, <2>2, ProperCommand DEF CommitInv, AccountInv, Shape, FormOf, Engaged
<1>2. /\ handlers[s].recover => FormOf(s).kind # "OPERATOR"
      /\ KindOf(s) = "OPERATOR" => handlers[s].user \in UserType /\ handlers[s].user.id = Operator
  BY <1>1 DEF CommitInv, AllHeld, SlotHeld
<1>3. rows' = rows /\ accounts' = accounts /\ forms' = forms
  BY GoesOnEffect DEF GoesOn, recordVars
<1>4. CASE TakeAccounts(s)
  <2> DEFINE h == [handlers[s] EXCEPT !.phase = "row", !.need = {FormOf(s).venue},
                                      !.user = Access(handlers[s].token)]
  <2>1. handlers' = [handlers EXCEPT ![s] = h] /\ KindOf(s) # "OPERATOR"
           /\ Matches(Access(handlers[s].token), FormOf(s))
    BY <1>4 DEF TakeAccounts, MayChangeAccounts
  <2>2. /\ handlers'[s].phase = "row" /\ handlers'[s].need = {FormOf(s).venue}
        /\ handlers'[s].op = handlers[s].op /\ handlers'[s].recover = handlers[s].recover
        /\ handlers'[s].user = Access(handlers[s].token)
    BY <1>1, <2>1 DEF HandlerType, CommitInv, AccountInv, Shape, WorkShape
  <2>3. FormOf(s)' = FormOf(s) /\ KindOf(s)' = KindOf(s) /\ Target(s)' = {FormOf(s).venue}
    BY <1>3, <2>1, <2>2 DEF FormOf, KindOf, Target
  <2>4. handlers[s].token \in Tokens
    BY <1>1, <2>1 DEF Engaged, KindOf, FormOf
  <2>5. UserHeld(s)'
    BY <2>1, <2>2, <2>3, <2>4, AccessType DEF UserHeld, Matches, CommitInv, AccountInv, Shape
  <2>6. rows[FormOf(s).venue].exists
    BY <1>1, <1>2, <2>1 DEF FormHeld, KindOf
  <2>7. RowsHeld(s)'
    BY <1>3, <2>2, <2>3, <2>6 DEF RowsHeld
  <2> QED
    BY <1>2, <2>1, <2>2, <2>3, <2>5, <2>7 DEF SlotHeld, Decided
<1>5. CASE OperatorTakesAccounts(s)
  <2> DEFINE h == [handlers[s] EXCEPT !.phase = "row", !.need = Affected(accounts, FormOf(s).command)]
  <2>1. handlers' = [handlers EXCEPT ![s] = h] /\ KindOf(s) = "OPERATOR" /\ OperatorMayLock(s)
    BY <1>5 DEF OperatorTakesAccounts
  <2>2. /\ handlers'[s].phase = "row"
        /\ handlers'[s].need = Affected(accounts, FormOf(s).command)
        /\ handlers'[s].op = handlers[s].op /\ handlers'[s].recover = handlers[s].recover
        /\ handlers'[s].user = handlers[s].user
    BY <1>1, <2>1 DEF HandlerType, CommitInv, AccountInv, Shape, WorkShape
  <2>3. FormOf(s)' = FormOf(s) /\ KindOf(s)' = KindOf(s) /\ Target(s)' = handlers'[s].need
    BY <1>3, <2>1, <2>2 DEF FormOf, KindOf, Target
  <2>4. \A v \in handlers'[s].need : rows[v].exists
    BY <2>1, <2>2 DEF OperatorMayLock
  <2>5. RowsHeld(s)'
    BY <1>3, <2>2, <2>3, <2>4 DEF RowsHeld
  <2> QED
    BY <1>2, <2>1, <2>2, <2>3, <2>5 DEF SlotHeld, UserHeld, Decided
<1> QED
  BY <1>4, <1>5 DEF Enters

LEMMA TakeRowHeld ==
    ASSUME CommitInv, NEW s \in Slots, TakeRow(s)
    PROVE  SlotHeld(s)'
<1>1. Handling(s) /\ Working(s) /\ handlers[s].phase = "row" /\ handlers[s] \in HandlerType
  BY DEF TakeRow, Handling, Working, CommitInv, AccountInv, Shape, WorkShape
<1>2. PICK v \in handlers[s].need :
         /\ rows' = [rows EXCEPT ![v].lock = s]
         /\ handlers' = [handlers EXCEPT
                ![s].need = @ \ {v}, ![s].base[v] = rows[v].revision,
                ![s].phase = IF handlers[s].need = {v} THEN "locked" ELSE "row"]
  BY DEF TakeRow
<1>3. v \in Venues /\ rows \in [Venues -> RowType]
  BY <1>1 DEF HandlerType, CommitInv, AccountInv, Shape, WorkShape
<1>4. /\ handlers'[s].need = handlers[s].need \ {v}
      /\ handlers'[s].base = [handlers[s].base EXCEPT ![v] = rows[v].revision]
      /\ handlers'[s].phase = IF handlers[s].need = {v} THEN "locked" ELSE "row"
      /\ handlers'[s].op = handlers[s].op /\ handlers'[s].recover = handlers[s].recover
      /\ handlers'[s].user = handlers[s].user
  BY <1>1, <1>2 DEF HandlerType, CommitInv, AccountInv, Shape, WorkShape
<1>5. accounts' = accounts /\ forms' = forms
  BY DEF TakeRow
<1>6. FormOf(s)' = FormOf(s) /\ KindOf(s)' = KindOf(s) /\ Target(s)' = Target(s)
  BY <1>4, <1>5 DEF FormOf, KindOf, Target
<1>7. /\ handlers[s].recover => FormOf(s).kind # "OPERATOR"
      /\ KindOf(s) = "OPERATOR" => handlers[s].user \in UserType /\ handlers[s].user.id = Operator
      /\ UserHeld(s) /\ RowsHeld(s)
  BY <1>1 DEF CommitInv, AllHeld, SlotHeld
<1>8. /\ \A w \in Venues : rows'[w].exists = rows[w].exists /\ rows'[w].revision = rows[w].revision
      /\ \A w \in Venues \ {v} : rows'[w].lock = rows[w].lock
      /\ rows'[v].lock = s
  BY <1>2, <1>3 DEF RowType
<1>9. Target(s) \subseteq Venues /\ handlers[s].need \subseteq Venues
  BY <1>1, ProperCommand DEF HandlerType, Target, Affected, VenuesOf, CommitInv, AccountInv, Shape
<1>10. \A w \in Target(s) : w \in handlers'[s].need \/ Holds(s, w)'
  <2>1. Holds(s, v)'
    BY <1>1, <1>3, <1>4, <1>8 DEF Holds, HandlerType
  <2>2. ASSUME NEW w \in Target(s), w # v, w \notin handlers[s].need
        PROVE  Holds(s, w)'
    <3>1. Holds(s, w) /\ w \in Venues
      BY <1>7, <1>9, <2>2 DEF RowsHeld
    <3>2. handlers'[s].base[w] = handlers[s].base[w]
      BY <1>1, <1>4, <2>2, <3>1 DEF HandlerType
    <3> QED
      BY <1>8, <2>2, <3>1, <3>2 DEF Holds
  <2> QED
    BY <1>4, <2>1, <2>2
<1>11. RowsHeld(s)'
  BY <1>4, <1>6, <1>7, <1>8, <1>9, <1>10 DEF RowsHeld
<1>12. UserHeld(s)'
  BY <1>4, <1>6, <1>7 DEF UserHeld
<1> QED
  BY <1>4, <1>6, <1>7, <1>11, <1>12 DEF SlotHeld, Decided

LEMMA AuthorizeHeld ==
    ASSUME CommitInv, NEW s \in Slots, Authorize(s)
    PROVE  SlotHeld(s)'
<1>1. Handling(s) /\ Working(s) /\ handlers[s].phase = "locked" /\ handlers[s] \in HandlerType
         /\ Engaged(handlers[s]) /\ MayProceed(s)
  BY DEF Authorize, Handling, Working, CommitInv, AccountInv, Shape, WorkShape
<1>2. handlers' = [handlers EXCEPT ![s] = [handlers[s] EXCEPT !.phase = "decided"]]
  BY DEF Authorize
<1>3. /\ handlers'[s].need = handlers[s].need /\ handlers'[s].base = handlers[s].base
      /\ handlers'[s].phase = "decided" /\ handlers'[s].user = handlers[s].user
      /\ handlers'[s].op = handlers[s].op /\ handlers'[s].recover = handlers[s].recover
  BY <1>1, <1>2 DEF HandlerType, CommitInv, AccountInv, Shape, WorkShape
<1>4. rows' = rows /\ versions' = versions /\ accounts' = accounts /\ forms' = forms
  BY DEF Authorize, recordVars
<1>5. FormOf(s)' = FormOf(s) /\ KindOf(s)' = KindOf(s) /\ Target(s)' = Target(s)
  BY <1>3, <1>4 DEF FormOf, KindOf, Target
<1>6. /\ handlers[s].recover => FormOf(s).kind # "OPERATOR"
      /\ KindOf(s) = "OPERATOR" => handlers[s].user \in UserType /\ handlers[s].user.id = Operator
      /\ UserHeld(s) /\ RowsHeld(s)
  BY <1>1 DEF CommitInv, AllHeld, SlotHeld
<1>7. UserHeld(s)' /\ RowsHeld(s)'
  BY <1>1, <1>3, <1>4, <1>5, <1>6 DEF UserHeld, RowsHeld, Holds
<1>8. KindOf(s) # "OPERATOR" =>
         LET user == handlers[s].user
         IN accounts[user.id].active /\ accounts[user.id].roles[user.venue] = user.role
  BY <1>1, <1>6 DEF MayProceed, StillAuthorised, UserHeld, Access
<1>9. KindOf(s) = "COMMAND" =>
         /\ ~Outdated(FormOf(s), FormOf(s).venue)
         /\ FormOf(s).command.setup => StaffCovers(FormOf(s).venue)
  BY <1>1 DEF MayProceed, Allowed
<1>10. /\ KindOf(s) = "LOCATION" => ~rows[FormOf(s).command.venue].exists
       /\ KindOf(s) \in {"STAFF", "OPERATOR"} => WithinResets(accounts, FormOf(s).command)
  BY <1>1 DEF MayProceed, Allowed
<1>11. DecisionHeld(s)
  BY <1>8, <1>9, <1>10 DEF DecisionHeld
<1>12. DecisionHeld(s)'
  BY <1>3, <1>4, <1>5, <1>11 DEF DecisionHeld, Outdated, StaffCovers, VenuesOf, WithinResets
<1> QED
  BY <1>3, <1>5, <1>6, <1>7, <1>12 DEF SlotHeld

\* An arrival: the request has its user and, if it needs no account lock, its venue.
LEMMA ArriveHeld ==
    ASSUME CommitInv, NEW s \in Slots, NEW op \in Ops,
           \/ \E t \in Tokens, recover \in BOOLEAN : BeginMutation(s, op, t, recover)
           \/ \E t \in Tokens : BeginAccountChange(s, op, t)
           \/ BeginOperator(s, op)
    PROVE  SlotHeld(s)'
<1>1. forms[op] # None /\ forms[op].venue \in Venues /\ FormHeld(forms[op])
  BY DEF BeginMutation, BeginAccountChange, BeginOperator, CommitInv, AccountInv, Shape, WorkShape,
         FormShape
<1>2. ASSUME NEW recover, NEW t, NEW user, NEW phase, NEW need,
             Arrive(s, op, recover, t, user, phase, need)
      PROVE  /\ handlers'[s].op = op /\ handlers'[s].recover = recover
             /\ handlers'[s].phase = phase /\ handlers'[s].user = user
             /\ handlers'[s].need = need /\ rows' = rows
             /\ FormOf(s)' = forms[op]
             /\ KindOf(s)' = IF recover THEN "RECOVER" ELSE forms[op].kind
  BY <1>2 DEF Arrive, recordVars, FormOf, KindOf, CommitInv, AccountInv, Shape, WorkShape
<1>3. ASSUME NEW t \in Tokens, NEW recover \in BOOLEAN, BeginMutation(s, op, t, recover)
      PROVE  SlotHeld(s)'
  <2>1. /\ Arrive(s, op, recover, t, Access(t), "row", {forms[op].venue})
        /\ forms[op].kind # "OPERATOR" /\ Matches(Access(t), forms[op])
    BY <1>3 DEF BeginMutation
  <2>2. /\ handlers'[s].phase = "row" /\ handlers'[s].user = Access(t)
        /\ handlers'[s].need = {forms[op].venue} /\ rows' = rows
        /\ FormOf(s)' = forms[op] /\ KindOf(s)' # "OPERATOR"
    BY <1>2, <2>1
  <2>3. UserHeld(s)'
    BY <2>1, <2>2, AccessType DEF UserHeld, Matches, CommitInv, AccountInv, Shape
  <2>4. RowsHeld(s)'
    BY <1>1, <2>1, <2>2 DEF RowsHeld, Target, FormHeld
  <2> QED
    BY <2>1, <2>2, <2>3, <2>4 DEF SlotHeld, Decided
<1>4. ASSUME NEW t \in Tokens, BeginAccountChange(s, op, t)
      PROVE  SlotHeld(s)'
  <2>1. Arrive(s, op, FALSE, t, None, "accounts", {}) /\ forms[op].kind # "OPERATOR"
    BY <1>4 DEF BeginAccountChange
  <2>2. /\ handlers'[s].phase = "accounts" /\ ~handlers'[s].recover
        /\ KindOf(s)' # "OPERATOR"
    BY <1>2, <2>1
  <2> QED
    BY <2>2 DEF SlotHeld, Working, Decided
<1>5. CASE BeginOperator(s, op)
  <2>1. PICK user : user = [id |-> Operator, venue |-> None, role |-> "NONE"]
    OBVIOUS
  <2>2. Arrive(s, op, FALSE, None, user, "accounts", {})
    BY <1>5, <2>1 DEF BeginOperator
  <2>3. /\ handlers'[s].phase = "accounts" /\ ~handlers'[s].recover
        /\ handlers'[s].user = user
    BY <1>2, <2>2
  <2>4. user \in UserType /\ user.id = Operator
    BY <2>1 DEF UserType
  <2> QED
    BY <2>3, <2>4 DEF SlotHeld, Working, Decided
<1> QED
  BY <1>3, <1>4, <1>5

\* A step in which no handler and no account takes part.
LEMMA ElsewhereHeld ==
    ASSUME CommitInv, handlers' = handlers, accounts' = accounts,
           \A op \in Ops : forms[op] # None => forms'[op] = forms[op],
           \A v \in Venues : rows'[v].exists = rows[v].exists,
           \A v \in Venues : rows[v].lock # None => rows'[v] = rows[v] /\ Untouched(v)
    PROVE  AllHeld'
<1>1. ASSUME NEW s \in Slots PROVE SlotHeld(s)'
  BY MutationsAssumption, Undisturbed, SameAccounts DEF Spared
<1> QED
  BY <1>1 DEF AllHeld

LEMMA HeldAlways == CommitInv /\ [Next]_vars => AllHeld'
<1> SUFFICES ASSUME CommitInv, [Next]_vars PROVE AllHeld'
  OBVIOUS
<1>1. ASSUME NEW r \in Slots, Handle(r) \/ Fail(r)
      PROVE  AllHeld'
  <2>1. SlotHeld(r)'
    <3>1. CASE GoesOn(r)
      BY <3>1, EnterHeld, AuthorizeHeld DEF GoesOn
    <3>2. CASE Ends(r)
      BY <3>2, EndsEffect, RestingHeld
    <3>3. CASE Commits(r)
      BY <3>3, CommitEffect, RestingHeld
    <3> QED
      BY <1>1, <3>1, <3>2, <3>3, SlotSteps, TakeRowHeld
  <2> QED
    BY <1>1, <2>1, OthersHeld DEF AllHeld
<1>2. CASE SignIn /\ UNCHANGED <<recordVars, accountsLock, forms, handlers, answers>>
  <2>1. accounts' = accounts
    BY <1>2, SignInRevoked DEF CommitInv, AccountInv, Shape
  <2> QED
    BY <1>2, <2>1, ElsewhereHeld DEF recordVars, Untouched
<1>3. ASSUME NEW op \in Ops, NEW form, Prepare(op, form)
      PROVE  AllHeld'
  <2>1. \A o \in Ops : forms[o] # None => forms'[o] = forms[o]
    BY <1>3 DEF Prepare, CommitInv, AccountInv, Shape, WorkShape
  <2> QED
    BY <1>3, <2>1, ElsewhereHeld DEF Prepare, recordVars, Untouched
<1>4. ASSUME NEW r \in Slots, NEW op \in Ops,
             \/ \E t \in Tokens, recover \in BOOLEAN : BeginMutation(r, op, t, recover)
             \/ \E t \in Tokens : BeginAccountChange(r, op, t)
             \/ BeginOperator(r, op)
      PROVE  AllHeld'
  <2>1. PICK h : /\ handlers' = [handlers EXCEPT ![r] = h]
                 /\ UNCHANGED <<accounts, sessions, recordVars, accountsLock, forms, answers>>
    BY <1>4 DEF BeginMutation, BeginAccountChange, BeginOperator, Arrive
  <2>2. ASSUME NEW s \in Slots, s # r PROVE SlotHeld(s)'
    <3>1. handlers'[s] = handlers[s]
      BY <2>1, <2>2 DEF CommitInv, AccountInv, Shape, WorkShape
    <3> QED
      BY <2>1, <3>1, Undisturbed, SameAccounts DEF Spared, recordVars, Untouched
  <2> QED
    BY <1>4, <2>2, ArriveHeld DEF AllHeld
<1>5. CASE Client
  <2>1. CASE \E op \in Ops : \/ \E t \in Tokens : PrepareCommand(op, t) \/ PrepareAccountChange(op, t)
                             \/ PrepareOperator(op)
    BY <1>3, <2>1 DEF PrepareCommand, PrepareAccountChange, PrepareOperator
  <2>2. CASE \E s \in Slots, op \in Ops :
                \/ \E t \in Tokens :
                      \/ \E recover \in BOOLEAN : BeginMutation(s, op, t, recover)
                      \/ BeginAccountChange(s, op, t)
                \/ BeginOperator(s, op)
    BY <1>4, <2>2
  <2> QED
    BY <1>2, <1>5, <2>1, <2>2 DEF Client
<1>6. ASSUME NEW v \in Venues, Import(v)
      PROVE  AllHeld'
  <2>1. /\ handlers' = handlers /\ accounts' = accounts /\ forms' = forms
        /\ rows[v].lock = None
        /\ rows' = [rows EXCEPT ![v].revision = @ + 1, ![v].floor = rows[v].revision + 1]
        /\ versions' = [versions EXCEPT ![v] = [k \in Keys |-> 0]]
        /\ content' = [content EXCEPT ![v] = [k \in Keys |-> "import"]]
    BY <1>6 DEF Import, Free
  <2>2. \A u \in Venues : rows'[u].exists = rows[u].exists
    BY <2>1 DEF CommitInv, AccountInv, Shape, WorkShape, RowType
  <2>3. \A u \in Venues : rows[u].lock # None => rows'[u] = rows[u] /\ Untouched(u)
    BY <2>1 DEF Untouched, CommitInv, RecordTypes, AccountInv, Shape, WorkShape
  <2> QED
    BY <2>1, <2>2, <2>3, ElsewhereHeld
<1>7. CASE UNCHANGED vars
  BY <1>7, ElsewhereHeld DEF vars, recordVars, Untouched
<1> QED
  BY <1>1, <1>5, <1>6, <1>7 DEF Next

-----------------------------------------------------------------------------
(* Venues only move forward, and leave a trace of what they overwrite.     *)

Forward(v) ==
    /\ rows[v].exists => rows'[v].exists
    /\ ~rows'[v].exists => rows'[v] = rows[v]
    /\ rows'[v].revision >= rows[v].revision /\ rows'[v].floor >= rows[v].floor
    /\ \A k \in Keys :
          \/ content'[v][k] = content[v][k] /\ versions'[v][k] = versions[v][k]
          \/ versions'[v][k] > rows[v].revision
          \/ rows'[v].floor > rows[v].revision

\* A step that changes at most who holds the row of v.
LEMMA LockedForward ==
    ASSUME CommitInv, NEW v \in Venues, Untouched(v),
           rows'[v].exists = rows[v].exists, rows'[v].revision = rows[v].revision,
           rows'[v].floor = rows[v].floor, ~rows[v].exists => rows'[v] = rows[v]
    PROVE  Forward(v)
<1>1. rows[v].revision \in Nat /\ rows[v].floor \in Nat
  BY DEF CommitInv, AccountInv, Shape, WorkShape, RowType
<1> QED
  BY <1>1 DEF Forward, Untouched

LEMMA SameForward ==
    ASSUME CommitInv, NEW v \in Venues, Untouched(v), rows'[v] = rows[v]
    PROVE  Forward(v)
BY LockedForward

LEMMA AbsentRow ==
    ASSUME CommitInv, NEW v \in Venues, ~rows[v].exists
    PROVE  rows[v].lock = None /\ rows[v].revision = 0 /\ rows[v].floor = 0
BY DEF CommitInv, Placed, NewRow

LEMMA RowsForward == CommitInv /\ [Next]_vars => \A v \in Venues : Forward(v)
<1> SUFFICES ASSUME CommitInv, [Next]_vars, NEW v \in Venues PROVE Forward(v)
  OBVIOUS
<1>1. rows[v].revision \in Nat /\ rows[v].floor \in Nat /\ rows[v].exists \in BOOLEAN
         /\ rows \in [Venues -> RowType]
  BY DEF CommitInv, AccountInv, Shape, WorkShape, RowType
<1>2. ASSUME NEW s \in Slots, GoesOn(s) PROVE Forward(v)
  BY <1>2, GoesOnEffect, SameForward DEF recordVars, Untouched
<1>3. ASSUME NEW s \in Slots, TakeRow(s) PROVE Forward(v)
  <2>1. PICK u \in handlers[s].need : rows' = [rows EXCEPT ![u].lock = s]
    BY <1>3 DEF TakeRow
  <2>2. u \in Venues /\ rows[u].exists
    <3>1. Working(s) /\ handlers[s].need \subseteq Venues
      BY <1>3 DEF TakeRow, Working, CommitInv, AccountInv, Shape, WorkShape, HandlerType
    <3> QED
      BY <3>1 DEF CommitInv, AllHeld, SlotHeld, RowsHeld
  <2>3. Untouched(v)
    BY <1>3 DEF TakeRow, Untouched
  <2>4. /\ rows'[v].exists = rows[v].exists /\ rows'[v].revision = rows[v].revision
        /\ rows'[v].floor = rows[v].floor /\ (v # u => rows'[v] = rows[v])
    BY <1>1, <2>1, <2>2 DEF RowType
  <2> QED
    BY <2>2, <2>3, <2>4, LockedForward
<1>4. ASSUME NEW s \in Slots, Ends(s) PROVE Forward(v)
  <2>1. ~rows[v].exists => rows[v].lock # s
    BY AbsentRow, MutationsAssumption
  <2>2. Untouched(v) /\ rows' = Unlocked(s)
    BY <1>4, EndsEffect DEF Untouched
  <2> QED
    BY <2>1, <2>2, UnlockedRow, LockedForward
<1>5. ASSUME NEW s \in Slots, Commits(s) PROVE Forward(v)
  <2>1. CASE v \in Target(s)
    <3>1. rows'[v] = AdvancedRow(rows[v]) /\ Stamped(v)
      BY <1>5, <2>1, CommitEffect
    <3>2. /\ rows'[v].exists = TRUE /\ rows'[v].revision = rows[v].revision + 1
          /\ rows'[v].floor = rows[v].floor
      BY <3>1 DEF AdvancedRow
    <3>3. \A k \in Keys : \/ content'[v][k] = content[v][k] /\ versions'[v][k] = versions[v][k]
                          \/ versions'[v][k] > rows[v].revision
      BY <1>1, <3>1 DEF Stamped
    <3> QED
      BY <1>1, <3>2, <3>3 DEF Forward
  <2>2. CASE v \notin Target(s)
    <3>1. Untouched(v) /\ (rows'[v] = Unlocked(s)[v] \/ (~rows[v].exists /\ rows'[v] = NewRow))
      BY <1>5, <2>2, CommitEffect
    <3>2. CASE rows'[v] = Unlocked(s)[v]
      <4>1. ~rows[v].exists => rows[v].lock # s
        BY AbsentRow, MutationsAssumption
      <4> QED
        BY <3>1, <3>2, <4>1, UnlockedRow, LockedForward
    <3>3. CASE ~rows[v].exists /\ rows'[v] = NewRow
      <4>1. rows[v].revision = 0 /\ rows[v].floor = 0
        BY <3>3, AbsentRow
      <4> QED
        BY <3>1, <3>3, <4>1 DEF Forward, Untouched, NewRow
    <3> QED
      BY <3>1, <3>2, <3>3
  <2> QED
    BY <2>1, <2>2
<1>6. CASE Client
  <2>1. UNCHANGED recordVars
    BY <1>6 DEF Client, PrepareCommand, PrepareAccountChange, PrepareOperator, Prepare,
                BeginMutation, BeginAccountChange, BeginOperator, Arrive
  <2> QED
    BY <2>1, SameForward DEF recordVars, Untouched
<1>7. ASSUME NEW u \in Venues, Import(u) PROVE Forward(v)
  <2>1. /\ rows[u].exists
        /\ rows' = [rows EXCEPT ![u].revision = @ + 1, ![u].floor = rows[u].revision + 1]
        /\ versions' = [versions EXCEPT ![u] = [k \in Keys |-> 0]]
        /\ content' = [content EXCEPT ![u] = [k \in Keys |-> "import"]]
        /\ rows[u].floor = 0
    BY <1>7 DEF Import
  <2>2. CASE u = v
    <3>1. /\ rows'[v].exists = rows[v].exists /\ rows'[v].revision = rows[v].revision + 1
          /\ rows'[v].floor = rows[v].revision + 1
      BY <1>1, <2>1, <2>2 DEF RowType
    <3> QED
      BY <1>1, <2>1, <2>2, <3>1 DEF Forward
  <2>3. CASE u # v
    <3>1. rows'[v] = rows[v] /\ Untouched(v)
      BY <1>1, <2>1, <2>3 DEF Untouched, CommitInv, RecordTypes
    <3> QED
      BY <3>1, SameForward
  <2> QED
    BY <2>2, <2>3
<1>8. CASE UNCHANGED vars
  BY <1>8, SameForward DEF vars, recordVars, Untouched
<1> QED
  BY <1>2, <1>3, <1>4, <1>5, <1>6, <1>7, <1>8, SlotSteps DEF Next

\* Roles appear only in venues that are there.
LEMMA PlacedAlways == CommitInv /\ [Next]_vars => Placed'
<1> SUFFICES ASSUME CommitInv, [Next]_vars PROVE Placed'
  OBVIOUS
<1>1. \A v \in Venues : Forward(v)
  BY RowsForward
<1>2. \A v \in Venues : ~rows'[v].exists => rows'[v] = [NewRow EXCEPT !.exists = FALSE]
  BY <1>1 DEF Forward, CommitInv, Placed
<1>3. \/ accounts' = accounts
      \/ \E s \in Slots : Commits(s)
  <2>1. ASSUME NEW s \in Slots, Handle(s) \/ Fail(s)
        PROVE  accounts' = accounts \/ Commits(s)
    BY <2>1, SlotSteps, GoesOnEffect, EndsEffect DEF TakeRow
  <2>2. SignIn => accounts' = accounts
    BY SignInRevoked DEF CommitInv, AccountInv, Shape
  <2>3. Client => accounts' = accounts
    BY <2>2 DEF Client, PrepareCommand, PrepareAccountChange, PrepareOperator, Prepare,
                BeginMutation, BeginAccountChange, BeginOperator, Arrive
  <2>4. \A v \in Venues : Import(v) => accounts' = accounts
    BY DEF Import
  <2> QED
    BY <2>1, <2>3, <2>4 DEF Next, vars
<1>4. ASSUME NEW p \in People, NEW v \in Venues, accounts'[p].roles[v] # "NONE"
      PROVE  rows'[v].exists
  <2>1. accounts[p].roles[v] # "NONE" \/ rows[v].exists \/ rows'[v].exists
    BY <1>3, <1>4, CommitAccounts
  <2> QED
    BY <1>1, <2>1 DEF Forward, CommitInv, Placed
<1> QED
  BY <1>2, <1>4 DEF Placed

-----------------------------------------------------------------------------
(* Forms.                                                                  *)

LEMMA SeenType ==
    ASSUME CommitInv, NEW v \in Venues, NEW K \in SUBSET Keys
    PROVE  [k \in K |-> content[v][k]] \in
              UNION {[L -> Ops \cup {None, "import"}] : L \in SUBSET Keys}
<1>1. content[v] \in [Keys -> Ops \cup {None, "import"}]
  BY DEF CommitInv, RecordTypes
<1>2. [k \in K |-> content[v][k]] \in [K -> Ops \cup {None, "import"}]
  BY <1>1
<1> QED
  BY <1>2

\* A form made from a snapshot of the user's venue.
LEMMA NewFormHeld ==
    ASSUME CommitInv, UNCHANGED recordVars, NEW t \in Tokens, Access(t) # None,
           NEW kind \in {"COMMAND", "STAFF", "LOCATION"}, NEW K \in SUBSET Keys,
           NEW c \in Commands \cup StaffCommands \cup [kind: {"CREATE_LOCATION"}, venue: Venues],
           kind = "COMMAND" => c \in Commands /\ K = Depends(c),
           NEW form, form = Form(kind, Access(t), c, K)
    PROVE  FormHeld(form)'
<1> DEFINE user == Access(t)
<1>1. user.id \in People /\ user.venue \in Venues
  BY AccessType DEF CommitInv, AccountInv, Shape
<1>2. rows[user.venue].revision \in Nat
  BY <1>1 DEF CommitInv, AccountInv, Shape, WorkShape, RowType
<1>3. /\ form.kind = kind /\ form.by = user.id /\ form.venue = user.venue /\ form.command = c
      /\ form.revision = rows[user.venue].revision
      /\ form.seen = [k \in K |-> content[user.venue][k]]
  BY DEF Form
<1>4. form \in FormType
  <2>1. form.seen \in UNION {[L -> Ops \cup {None, "import"}] : L \in SUBSET Keys}
    BY <1>1, <1>3, SeenType
  <2>2. form = [kind |-> form.kind, by |-> form.by, venue |-> form.venue,
                revision |-> form.revision, command |-> form.command, seen |-> form.seen]
    BY <1>3 DEF Form
  <2> QED
    BY <1>1, <1>2, <1>3, <2>1, <2>2 DEF FormType
<1>5. rows[user.venue].exists
  <2>1. user.venue \in VenuesOf(accounts, user.id)
    BY DEF Access
  <2> QED
    BY <1>1, <2>1 DEF VenuesOf, CommitInv, Placed
<1>6. kind = "COMMAND" => Traced(form)
  BY <1>2, <1>3 DEF Traced
<1>7. FormHeld(form)
  BY <1>3, <1>4, <1>5, <1>6 DEF FormHeld
<1>8. rows' = rows /\ content' = content /\ versions' = versions
  BY DEF recordVars
<1> QED
  BY <1>7, <1>8 DEF FormHeld, Traced

LEMMA PreparedHeld ==
    ASSUME CommitInv, NEW op \in Ops, NEW form, Prepare(op, form),
           \/ \E t \in Tokens : PrepareCommand(op, t) \/ PrepareAccountChange(op, t)
           \/ PrepareOperator(op)
    PROVE  FormHeld(forms[op])'
<1>1. UNCHANGED recordVars
  BY DEF Prepare
<1>2. forms = [o \in Ops |-> forms[o]]
  BY DEF CommitInv, AccountInv, Shape, WorkShape
<1>3. ASSUME NEW f, Prepare(op, f), FormHeld(f)' PROVE FormHeld(forms[op])'
  <2>1. forms'[op] = f
    BY <1>2, <1>3 DEF Prepare
  <2> QED
    BY <1>3, <2>1 DEF FormHeld, Traced
<1>4. ASSUME NEW t \in Tokens, PrepareCommand(op, t) PROVE FormHeld(forms[op])'
  <2>1. PICK c \in Commands : Prepare(op, Form("COMMAND", Access(t), c, Depends(c)))
    BY <1>4 DEF PrepareCommand
  <2>2. Access(t) # None /\ Depends(c) \in SUBSET Keys
    BY <1>4, MutationsAssumption DEF PrepareCommand, Depends
  <2> DEFINE K == Depends(c)
  <2>3. PICK f : f = Form("COMMAND", Access(t), c, K)
    OBVIOUS
  <2>4. K = Depends(c) /\ K \in SUBSET Keys
    BY <2>2
  <2> HIDE DEF K
  <2>5. FormHeld(f)'
    BY <1>1, <2>2, <2>3, <2>4, NewFormHeld
  <2> QED
    BY <1>3, <2>1, <2>3, <2>4, <2>5
<1>5. ASSUME NEW t \in Tokens, PrepareAccountChange(op, t) PROVE FormHeld(forms[op])'
  <2>1. Access(t) # None
    BY <1>5 DEF PrepareAccountChange
  <2>2. ASSUME NEW c \in StaffCommands, Prepare(op, Form("STAFF", Access(t), c, {}))
        PROVE  FormHeld(forms[op])'
    <3>1. PICK f : f = Form("STAFF", Access(t), c, {})
      OBVIOUS
    <3>2. {} \in SUBSET Keys
      OBVIOUS
    <3>3. FormHeld(f)'
      BY <1>1, <2>1, <3>1, <3>2, NewFormHeld
    <3> QED
      BY <1>3, <2>2, <3>1, <3>3
  <2>3. ASSUME NEW w \in Venues,
               Prepare(op, Form("LOCATION", Access(t), [kind |-> "CREATE_LOCATION", venue |-> w], {}))
        PROVE  FormHeld(forms[op])'
    <3>1. PICK c : c = [kind |-> "CREATE_LOCATION", venue |-> w]
      OBVIOUS
    <3>2. PICK f : f = Form("LOCATION", Access(t), c, {})
      OBVIOUS
    <3>3. {} \in SUBSET Keys /\ c \in [kind: {"CREATE_LOCATION"}, venue: Venues]
      BY <3>1
    <3>4. FormHeld(f)'
      BY <1>1, <2>1, <3>2, <3>3, NewFormHeld
    <3> QED
      BY <1>3, <2>3, <3>1, <3>2, <3>4
  <2> QED
    BY <1>5, <2>2, <2>3 DEF PrepareAccountChange
<1>6. CASE PrepareOperator(op)
  <2>1. PICK c \in OperatorCommands :
           Prepare(op, [kind |-> "OPERATOR", by |-> Operator, venue |-> c.venue, revision |-> 0,
                        command |-> c, seen |-> <<>>])
    BY <1>6 DEF PrepareOperator
  <2>2. PICK f : f = [kind |-> "OPERATOR", by |-> Operator, venue |-> c.venue, revision |-> 0,
                      command |-> c, seen |-> <<>>]
    OBVIOUS
  <2>3. c.venue \in Venues
    BY MutationsAssumption
  <2>4. f \in FormType /\ f.kind = "OPERATOR"
    BY <2>2, <2>3 DEF FormType
  <2>5. FormHeld(f)'
    BY <2>4 DEF FormHeld
  <2> QED
    BY <1>3, <2>1, <2>2, <2>5
<1> QED
  BY <1>4, <1>5, <1>6

-----------------------------------------------------------------------------
(* Types.                                                                  *)

LEMMA DecidedHandling ==
    ASSUME NEW s \in Slots, Decided(s)
    PROVE  Handling(s)
BY DEF Decided, Handling

LEMMA PrintType ==
    ASSUME CommitInv, NEW s \in Slots, Handling(s)
    PROVE  Fingerprint(FormOf(s)) \in Fingerprints
<1>1. FormOf(s) \in FormType
  BY DEF CommitInv, FormHeld, FormOf, AccountInv, Shape, WorkShape, Engaged
<1>2. CASE FormOf(s).kind = "STAFF"
  <2>1. FormOf(s).by \in People /\ FormOf(s).command \in
           Commands \cup StaffCommands \cup [kind: {"CREATE_LOCATION"}, venue: Venues]
    BY <1>1, <1>2 DEF FormType
  <2>2. accounts[FormOf(s).by].password \in Nat
    BY <2>1 DEF CommitInv, AccountInv, Shape, AccountShape, AccountTable
  <2> QED
    BY <1>2, <2>1, <2>2 DEF Fingerprint, Fingerprints
<1>3. CASE FormOf(s).kind # "STAFF"
  <2>1. FormOf(s).command \in Commands \cup StaffCommands \cup OperatorCommands
           \cup [kind: {"CREATE_LOCATION"}, venue: Venues]
    BY <1>1 DEF FormType
  <2> QED
    BY <1>3, <2>1 DEF Fingerprint, Fingerprints
<1> QED
  BY <1>2, <1>3

LEMMA AccountBound ==
    ASSUME NEW a \in [People -> AccountType], NEW v \in Venues, NEW c, Proper(c), WithinResets(a, c)
    PROVE  After(a, v, c) \in [People -> AccountType]
<1>1. c.target \in People /\ MaxResets \in Nat
  BY AccountsAssumption DEF Proper
<1>2. CASE c.kind = "CREATE"
  BY <1>1, <1>2 DEF AccountType, Proper, After, Created, WithRole
<1>3. CASE c.kind \in {"ROLE", "GRANT"}
  BY <1>1, <1>3 DEF AccountType, Proper, After, WithRole
<1>4. CASE c.kind = "PASSWORD"
  BY <1>1, <1>4 DEF AccountType, Proper, After, WithPassword, WithinResets
<1>5. CASE c.kind = "DISABLE"
  BY <1>1, <1>5 DEF AccountType, Proper, After, Disabled
<1> QED
  BY <1>2, <1>3, <1>4, <1>5 DEF Proper

LEMMA RevokedType ==
    ASSUME sessions \in [Tokens -> SessionType], NEW p
    PROVE  Revoked(p) \in [Tokens -> SessionType]
BY DEF Revoked, SessionType

\* The accounts and sessions after a commit.
LEMMA CommitAccountTypes ==
    ASSUME CommitInv, NEW s \in Slots, Commits(s)
    PROVE  accounts' \in [People -> AccountType] /\ sessions' \in [Tokens -> SessionType]
<1>1. accounts \in [People -> AccountType] /\ sessions \in [Tokens -> SessionType]
  BY DEF CommitInv, RecordTypes
<1>2. Handling(s) /\ Decided(s) /\ DecisionHeld(s) /\ WorkShape /\ FormOf(s).venue \in Venues
  BY CommitWrites, TargetHeld DEF CommitInv, AccountInv, Shape, AllHeld, SlotHeld, Decided, Handling
<1> DEFINE c == FormOf(s).command
<1>3. CASE CommitCommand(s)
  BY <1>1, <1>3 DEF CommitCommand, accountVars
<1>4. CASE CommitStaff(s)
  <2>1. /\ KindOf(s) = "STAFF" /\ accounts' = After(accounts, FormOf(s).venue, c)
        /\ sessions' = IF c.kind = "CREATE" THEN sessions ELSE Revoked(c.target)
    BY <1>4 DEF CommitStaff, Committing
  <2>2. Proper(c) /\ WithinResets(accounts, c)
    BY <1>2, <2>1, ProperCommand DEF DecisionHeld
  <2>3. accounts' \in [People -> AccountType]
    BY <1>1, <1>2, <2>1, <2>2, AccountBound
  <2>4. sessions' \in [Tokens -> SessionType]
    BY <1>1, <2>1, RevokedType
  <2> QED
    BY <2>3, <2>4
<1>5. CASE CommitOperator(s)
  <2>1. /\ KindOf(s) = "OPERATOR" /\ accounts' = After(accounts, c.venue, c)
        /\ sessions' = Revoked(c.target)
    BY <1>5 DEF CommitOperator, Committing
  <2>2. Proper(c) /\ WithinResets(accounts, c) /\ c.venue \in Venues
    BY <1>2, <2>1, ProperCommand DEF DecisionHeld
  <2>3. accounts' \in [People -> AccountType]
    BY <1>1, <2>1, <2>2, AccountBound
  <2>4. sessions' \in [Tokens -> SessionType]
    BY <1>1, <2>1, RevokedType
  <2> QED
    BY <2>3, <2>4
<1>6. CASE CommitLocation(s)
  <2>1. /\ accounts' = WithRole(accounts, handlers[s].user.id, c.venue, "ADMIN")
        /\ sessions' = sessions
    BY <1>6 DEF CommitLocation
  <2>2. accounts' \in [People -> AccountType]
    BY <1>1, <2>1 DEF WithRole, AccountType, StaffRoles
  <2> QED
    BY <1>1, <2>1, <2>2
<1> QED
  BY <1>3, <1>4, <1>5, <1>6 DEF Commits

LEMMA CommitRecordTypes ==
    ASSUME CommitInv, NEW s \in Slots, Commits(s)
    PROVE  RecordTypes'
<1> DEFINE op == handlers[s].op
<1>1. PICK changed \in SUBSET Keys : Write(s, Target(s), changed)
  BY CommitWrites
<1>2. /\ Target(s) \subseteq Venues /\ handlers[s].base \in [Venues -> Nat]
      /\ op \in Ops /\ handlers[s].user.id \in People \cup {Operator}
      /\ Fingerprint(FormOf(s)) \in Fingerprints
  BY CommitWrites, TargetHeld, DecidedHandling, PrintType DEF HandlerType
<1>3. RecordTypes
  BY DEF CommitInv
<1>4. /\ Insert(op, Target(s), [v \in Target(s) |->
             Receipt(handlers[s].user.id, Fingerprint(FormOf(s)), handlers[s].base[v] + 1)])
      /\ versions' = [v \in Venues |-> [k \in Keys |->
             IF v \in Target(s) /\ k \in changed THEN handlers[s].base[v] + 1 ELSE versions[v][k]]]
      /\ content' = [v \in Venues |-> [k \in Keys |->
             IF v \in Target(s) /\ k \in changed THEN op ELSE content[v][k]]]
      /\ applied' = [applied EXCEPT ![op] = @ + 1]
      /\ Answer(op, "saved") /\ Finish(s)
  BY <1>1 DEF Write
<1>5. \A v \in Target(s) :
         Receipt(handlers[s].user.id, Fingerprint(FormOf(s)), handlers[s].base[v] + 1) \in ReceiptType
  BY <1>2 DEF Receipt, ReceiptType
<1>6. receipts' \in [Venues -> [Ops -> ReceiptType \cup {None}]]
  <2>1. \A v \in Venues : receipts[v] \in [Ops -> ReceiptType \cup {None}]
    BY <1>3 DEF RecordTypes
  <2>2. \A v \in Target(s) : [receipts[v] EXCEPT ![op] =
           Receipt(handlers[s].user.id, Fingerprint(FormOf(s)), handlers[s].base[v] + 1)]
              \in [Ops -> ReceiptType \cup {None}]
    BY <1>2, <1>5, <2>1
  <2> QED
    BY <1>4, <2>1, <2>2 DEF Insert
<1>7. versions' \in [Venues -> [Keys -> Nat]]
  <2>1. \A v \in Venues, k \in Keys :
           (IF v \in Target(s) /\ k \in changed THEN handlers[s].base[v] + 1 ELSE versions[v][k]) \in Nat
    BY <1>2, <1>3 DEF RecordTypes
  <2> QED
    BY <1>4, <2>1
<1>8. content' \in [Venues -> [Keys -> Ops \cup {None, "import"}]]
  <2>1. \A v \in Venues, k \in Keys :
           (IF v \in Target(s) /\ k \in changed THEN op ELSE content[v][k]) \in Ops \cup {None, "import"}
    BY <1>2, <1>3 DEF RecordTypes
  <2> QED
    BY <1>4, <2>1
<1>9. applied' \in [Ops -> Nat]
  <2>1. op \in Ops /\ applied \in [Ops -> Nat] /\ applied' = [applied EXCEPT ![op] = applied[op] + 1]
    BY <1>2, <1>3, <1>4 DEF RecordTypes
  <2> HIDE DEF op
  <2> QED
    BY <2>1
<1>10. answers' \subseteq [op: Ops, result: {"saved", "cancelled"}]
  BY <1>2, <1>3, <1>4 DEF RecordTypes, Answer
<1>11. accountsLock' \in Slots \cup {None}
  BY <1>3, <1>4 DEF RecordTypes, Finish, ReleaseAccounts
<1> QED
  BY <1>6, <1>7, <1>8, <1>9, <1>10, <1>11, CommitAccountTypes DEF RecordTypes

LEMMA EndsRecordTypes ==
    ASSUME CommitInv, NEW s \in Slots, Ends(s)
    PROVE  RecordTypes'
<1>1. RecordTypes /\ UNCHANGED <<accounts, sessions, versions, content, applied>> /\ Finish(s)
  BY EndsEffect DEF CommitInv
<1>2. accountsLock' \in Slots \cup {None}
  BY <1>1 DEF RecordTypes, Finish, ReleaseAccounts
<1>3. /\ receipts' \in [Venues -> [Ops -> ReceiptType \cup {None}]]
      /\ answers' \subseteq [op: Ops, result: {"saved", "cancelled"}]
  <2>1. CASE Refuse(s) \/ Fail(s)
    BY <1>1, <2>1 DEF Refuse, Fail, RollBack, RecordTypes
  <2>2. CASE ~(Refuse(s) \/ Fail(s))
    <3>1. handlers[s].op \in Ops
      <4>1. Handling(s)
        BY <2>2 DEF Ends, Quits, Replay, Replayable, RecoverSettled, Settled, CommitRecovery,
                    Committing, Handling
      <4> QED
        BY <4>1 DEF CommitInv, AccountInv, Shape, WorkShape, Engaged
    <3>2. CASE Replay(s)
      BY <1>1, <3>1, <3>2 DEF Replay, Answer, RecordTypes
    <3>3. CASE RecoverSettled(s)
      BY <1>1, <3>1, <3>3 DEF RecoverSettled, Answer, RecordTypes
    <3>4. CASE CommitRecovery(s)
      <4> DEFINE v == FormOf(s).venue
      <4> DEFINE receipt == Receipt(handlers[s].user.id, Cancelled, handlers[s].base[v])
      <4>1. /\ Decided(s) /\ Answer(handlers[s].op, "cancelled")
            /\ Insert(handlers[s].op, {v}, [w \in {v} |-> receipt])
        BY <3>4 DEF CommitRecovery, Committing, Decided, Cancels
      <4>2. receipt \in ReceiptType
        BY <4>1, TargetHeld DEF Receipt, ReceiptType, HandlerType
      <4>3. \A w \in Venues : receipts[w] \in [Ops -> ReceiptType \cup {None}]
        BY <1>1 DEF RecordTypes
      <4> HIDE DEF receipt
      <4>4. receipts' \in [Venues -> [Ops -> ReceiptType \cup {None}]]
        BY <3>1, <4>1, <4>2, <4>3 DEF Insert
      <4> QED
        BY <1>1, <3>1, <4>1, <4>4 DEF Answer, RecordTypes
    <3> QED
      BY <2>2, <3>2, <3>3, <3>4 DEF Ends, Quits
  <2> QED
    BY <2>1, <2>2
<1> QED
  BY <1>1, <1>2, <1>3 DEF RecordTypes

LEMMA SignInTypes ==
    ASSUME CommitInv, SignIn
    PROVE  sessions' \in [Tokens -> SessionType]
<1>1. sessions \in [Tokens -> SessionType] /\ accounts \in [People -> AccountType]
  BY DEF CommitInv, RecordTypes
<1>2. ASSUME NEW t \in Tokens, NEW r \in SessionType, sessions' = [sessions EXCEPT ![t] = r]
      PROVE  sessions' \in [Tokens -> SessionType]
  BY <1>1, <1>2
<1>3. Ended \in SessionType
  BY DEF SessionType
<1>4. ASSUME NEW t \in Tokens, NEW p \in People, VerifyPassword(t, p)
      PROVE  sessions' \in [Tokens -> SessionType]
  <2>1. PICK v \in VenuesOf(accounts, p) :
           sessions' = [sessions EXCEPT ![t] =
              [state |-> "verified", user |-> p, venue |-> v, password |-> accounts[p].password]]
    BY <1>4 DEF VerifyPassword
  <2>2. v \in Venues /\ accounts[p].password \in 0..MaxResets
    BY <1>1 DEF VenuesOf, AccountType
  <2>3. [state |-> "verified", user |-> p, venue |-> v, password |-> accounts[p].password]
           \in SessionType
    BY <2>2 DEF SessionType
  <2> QED
    BY <1>2, <2>1, <2>3
<1>5. ASSUME NEW t \in Tokens, sessions[t].state \in {"verified", "open"}
      PROVE  /\ [sessions[t] EXCEPT !.state = "open"] \in SessionType
             /\ \A v \in Venues : [sessions[t] EXCEPT !.venue = v] \in SessionType
  BY <1>1, <1>5 DEF SessionType, Unused, Ended
<1>6. ASSUME NEW t \in Tokens, OpenSession(t)
      PROVE  sessions' \in [Tokens -> SessionType]
  <2> DEFINE r == IF Current(sessions[t], accounts) THEN [sessions[t] EXCEPT !.state = "open"]
                  ELSE Ended
  <2>1. sessions' = [sessions EXCEPT ![t] = r]
    BY <1>6 DEF OpenSession
  <2>2. r \in SessionType
    BY <1>3, <1>5, <1>6 DEF OpenSession
  <2> QED
    BY <1>2, <2>1, <2>2
<1>7. ASSUME NEW t \in Tokens, EndSession(t)
      PROVE  sessions' \in [Tokens -> SessionType]
  BY <1>2, <1>3, <1>7 DEF EndSession
<1>8. ASSUME NEW t \in Tokens, NEW v \in Venues, ChangeBranch(t, v)
      PROVE  sessions' \in [Tokens -> SessionType]
  <2>1. sessions[t].state = "open" /\ sessions' = [sessions EXCEPT ![t] = [sessions[t] EXCEPT !.venue = v]]
    BY <1>8 DEF ChangeBranch, Access
  <2> QED
    BY <1>2, <1>5, <2>1
<1> QED
  BY <1>4, <1>6, <1>7, <1>8 DEF SignIn

LEMMA TypesAlways == CommitInv /\ [Next]_vars => RecordTypes'
<1> SUFFICES ASSUME CommitInv, [Next]_vars PROVE RecordTypes'
  OBVIOUS
<1>1. RecordTypes
  BY DEF CommitInv
<1>2. ASSUME UNCHANGED <<accounts, recordVars, accountsLock, answers>>,
             sessions' \in [Tokens -> SessionType]
      PROVE  RecordTypes'
  BY <1>1, <1>2 DEF RecordTypes, recordVars
<1>3. ASSUME NEW s \in Slots, Handle(s) \/ Fail(s) PROVE RecordTypes'
  <2>1. CASE Enters(s)
    <3>1. accountsLock' = s
      BY <2>1 DEF Enters, TakeAccounts, OperatorTakesAccounts
    <3>2. UNCHANGED <<accounts, sessions, recordVars, answers>>
      BY <2>1, GoesOnEffect DEF GoesOn
    <3> QED
      BY <1>1, <3>1, <3>2 DEF RecordTypes, recordVars
  <2>2. CASE Authorize(s)
    BY <1>1, <1>2, <2>2 DEF Authorize, RecordTypes
  <2>3. CASE TakeRow(s)
    BY <1>1, <2>3 DEF TakeRow, RecordTypes
  <2> QED
    BY <1>3, <2>1, <2>2, <2>3, SlotSteps, EndsRecordTypes, CommitRecordTypes DEF GoesOn
<1>4. CASE Client
  <2>1. CASE SignIn /\ UNCHANGED <<recordVars, accountsLock, forms, handlers, answers>>
    BY <1>2, <2>1, SignInTypes, SignInRevoked DEF CommitInv, AccountInv, Shape
  <2>2. ASSUME UNCHANGED <<accounts, sessions, recordVars, accountsLock, answers>>
        PROVE  RecordTypes'
    BY <1>1, <1>2, <2>2 DEF RecordTypes
  <2> QED
    BY <1>4, <2>1, <2>2 DEF Client, PrepareCommand, PrepareAccountChange, PrepareOperator, Prepare,
                            BeginMutation, BeginAccountChange, BeginOperator, Arrive
<1>5. ASSUME NEW v \in Venues, Import(v) PROVE RecordTypes'
  BY <1>1, <1>5 DEF Import, RecordTypes
<1>6. CASE UNCHANGED vars
  BY <1>1, <1>2, <1>6 DEF vars, RecordTypes
<1> QED
  BY <1>3, <1>4, <1>5, <1>6 DEF Next

-----------------------------------------------------------------------------
(* Reviews.                                                                *)

LEMMA TracedTypes ==
    ASSUME CommitInv, [Next]_vars, NEW v \in Venues
    PROVE  /\ rows[v].floor \in Nat /\ rows[v].revision \in Nat
           /\ rows'[v].floor \in Nat /\ rows'[v].revision \in Nat
           /\ \A k \in Keys : versions[v][k] \in Nat /\ versions'[v][k] \in Nat
BY NextInv, TypesAlways DEF CommitInv, AccountInv, Shape, WorkShape, RowType, RecordTypes

\* A command's review is still accounted for when its venue has moved forward.
LEMMA TracedForward ==
    ASSUME CommitInv, [Next]_vars, NEW form, form # None, FormHeld(form)
    PROVE  FormHeld(form)'
<1>1. form \in FormType /\ form.venue \in Venues
  BY DEF FormHeld, FormType
<1>2. Forward(form.venue) /\ rows[form.venue].floor \in Nat /\ rows[form.venue].revision \in Nat
         /\ rows'[form.venue].revision >= rows[form.venue].revision
  BY <1>1, RowsForward DEF CommitInv, AccountInv, Shape, WorkShape, RowType, Forward
<1>3. Depends(form.command) \subseteq Keys \/ form.kind # "COMMAND"
  BY MutationsAssumption DEF FormHeld, Depends
<1>4. form.kind = "COMMAND" => form.revision \in Nat
  BY <1>1 DEF FormType
<1>5. form.kind = "COMMAND" => Traced(form)'
  BY <1>1, <1>2, <1>3, <1>4, TracedTypes DEF FormHeld, Traced, Forward
<1> QED
  BY <1>1, <1>2, <1>5 DEF FormHeld, Forward

LEMMA FormsAlways == CommitInv /\ [Next]_vars => \A op \in Ops : FormHeld(forms[op])'
<1> SUFFICES ASSUME CommitInv, [Next]_vars, NEW op \in Ops PROVE FormHeld(forms[op])'
  OBVIOUS
<1>1. \/ forms'[op] = forms[op]
      \/ /\ \E form : Prepare(op, form)
         /\ \/ \E t \in Tokens : PrepareCommand(op, t) \/ PrepareAccountChange(op, t)
            \/ PrepareOperator(op)
  <2>1. ASSUME NEW s \in Slots, Handle(s) \/ Fail(s) PROVE forms' = forms
    BY <2>1, SlotSteps, GoesOnEffect, EndsEffect, CommitEffect DEF TakeRow
  <2>2. ASSUME NEW o \in Ops, \/ \E t \in Tokens : PrepareCommand(o, t) \/ PrepareAccountChange(o, t)
                              \/ PrepareOperator(o)
        PROVE  /\ \E form : Prepare(o, form)
               /\ o # op => forms'[op] = forms[op]
    <3>1. PICK form : Prepare(o, form)
      BY <2>2 DEF PrepareCommand, PrepareAccountChange, PrepareOperator
    <3>2. forms = [x \in Ops |-> forms[x]] /\ forms' = [forms EXCEPT ![o] = form]
      BY <3>1 DEF Prepare, CommitInv, AccountInv, Shape, WorkShape
    <3> QED
      BY <3>1, <3>2
  <2>3. CASE Client
    BY <2>2, <2>3 DEF Client, BeginMutation, BeginAccountChange, BeginOperator, Arrive
  <2> QED
    BY <2>1, <2>3 DEF Next, Import, vars
<1>2. CASE forms'[op] = forms[op]
  BY <1>2, RowsForward, TracedForward DEF CommitInv, FormHeld
<1> QED
  BY <1>1, <1>2, PreparedHeld

-----------------------------------------------------------------------------
(* How operations are settled.                                             *)

\* Where the receipt would be there is none: nothing was done or cancelled.
LEMMA Unsettled ==
    ASSUME CommitInv, NEW s \in Slots, Decided(s),
           \A v \in Target(s) : receipts[v][handlers[s].op] = None
    PROVE  applied[handlers[s].op] = 0 /\ \A v \in Venues : receipts[v][handlers[s].op] = None
<1> DEFINE op == handlers[s].op
<1>1. op \in Ops /\ SettledOnce(op) /\ Target(s) = Scope(op)
  BY TargetHeld DEF CommitInv
<1>2. applied[op] = 0
  BY <1>1 DEF SettledOnce
<1>3. \A v \in Venues : receipts[v][op] # None => v \in Target(s)
  BY <1>1, <1>2 DEF SettledOnce, Scope
<1> QED
  BY <1>2, <1>3

LEMMA CommitSettles ==
    ASSUME CommitInv, NEW s \in Slots, Commits(s)
    PROVE  /\ applied[handlers[s].op] = 0 /\ applied'[handlers[s].op] = 1
           /\ \A v \in Venues : receipts[v][handlers[s].op] = None
           /\ \A v \in Venues : receipts'[v][handlers[s].op] # None =>
                 receipts'[v][handlers[s].op].print # Cancelled
           /\ \A v \in Target(s) :
                 /\ receipts'[v][handlers[s].op] # None
                 /\ receipts'[v][handlers[s].op].revision = rows[v].revision + 1
                 /\ rows'[v].revision = rows[v].revision + 1
           /\ \A v \in Venues \ Target(s) : receipts'[v] = receipts[v]
           /\ \A o \in Ops \ {handlers[s].op} :
                 applied'[o] = applied[o] /\ \A v \in Venues : receipts'[v][o] = receipts[v][o]
<1> DEFINE op == handlers[s].op
<1>1. /\ Decided(s) /\ op \in Ops /\ Target(s) \subseteq Venues
      /\ handlers[s].user.id \in People \cup {Operator}
      /\ Fingerprint(FormOf(s)) \in Fingerprints
  BY CommitWrites, TargetHeld, DecidedHandling, PrintType
<1>2. \A v \in Target(s) : rows'[v] = AdvancedRow(rows[v]) /\ Signed(s, v)
  BY CommitEffect
<1>3. /\ \A v \in Venues \ Target(s) : receipts'[v] = receipts[v]
      /\ applied' = [applied EXCEPT ![op] = @ + 1]
  BY CommitEffect
<1>4. applied[op] = 0 /\ \A v \in Venues : receipts[v][op] = None
  BY <1>1, <1>2, Unsettled DEF Signed
<1>5. applied \in [Ops -> Nat] /\ receipts \in [Venues -> [Ops -> ReceiptType \cup {None}]]
  BY DEF CommitInv, RecordTypes
<1>6. applied'[op] = 1 /\ \A o \in Ops \ {op} : applied'[o] = applied[o]
  BY <1>1, <1>3, <1>4, <1>5
<1>7. ASSUME NEW v \in Target(s)
      PROVE  /\ receipts'[v][op] # None /\ receipts'[v][op].print # Cancelled
             /\ receipts'[v][op].revision = rows[v].revision + 1
             /\ rows'[v].revision = rows[v].revision + 1
             /\ \A o \in Ops \ {op} : receipts'[v][o] = receipts[v][o]
  <2> DEFINE receipt == Receipt(handlers[s].user.id, Fingerprint(FormOf(s)), rows[v].revision + 1)
  <2>1. v \in Venues /\ rows[v].revision \in Nat
    BY <1>1 DEF CommitInv, AccountInv, Shape, WorkShape, RowType
  <2>2. receipt \in ReceiptType
    BY <1>1, <2>1 DEF Receipt, ReceiptType
  <2>3. receipts'[v] = [receipts[v] EXCEPT ![op] = receipt]
    BY <1>2 DEF Signed
  <2>4. receipt.print # Cancelled /\ receipt.revision = rows[v].revision + 1
    BY <1>1, ReceiptAssumption DEF Receipt
  <2>5. receipt # None
    BY <2>2, ReceiptAssumption
  <2>6. rows'[v].revision = rows[v].revision + 1
    <3>1. AdvancedRow(rows[v]).revision = rows[v].revision + 1
      BY DEF AdvancedRow
    <3> QED
      BY <1>2, <3>1
  <2> HIDE DEF receipt
  <2> QED
    BY <1>1, <1>5, <2>1, <2>3, <2>4, <2>5, <2>6
<1> QED
  BY <1>1, <1>3, <1>4, <1>6, <1>7

LEMMA RecoverySettles ==
    ASSUME CommitInv, NEW s \in Slots, CommitRecovery(s)
    PROVE  LET op == handlers[s].op
               v == FormOf(s).venue
           IN /\ op \in Ops /\ forms[op] # None /\ forms[op].kind # "OPERATOR"
              /\ v = forms[op].venue /\ v \in Venues
              /\ applied[op] = 0 /\ applied' = applied
              /\ \A w \in Venues : receipts[w][op] = None
              /\ receipts'[v][op] # None /\ receipts'[v][op].print = Cancelled
              /\ receipts'[v][op].revision = rows[v].revision
              /\ \A w \in Venues \ {v} : receipts'[w] = receipts[w]
              /\ \A o \in Ops \ {op} : receipts'[v][o] = receipts[v][o]
<1> DEFINE op == handlers[s].op
<1> DEFINE v == FormOf(s).venue
<1> DEFINE receipt == Receipt(handlers[s].user.id, Cancelled, handlers[s].base[v])
<1>1. /\ Decided(s) /\ KindOf(s) = "RECOVER" /\ applied' = applied
      /\ Insert(op, {v}, [w \in {v} |-> receipt])
  BY DEF CommitRecovery, Committing, Decided, Cancels
<1>2. /\ op \in Ops /\ FormOf(s) = forms[op] /\ forms[op] # None /\ forms[op].kind # "OPERATOR"
      /\ v \in Venues /\ Target(s) = {v} /\ handlers[s].base[v] = rows[v].revision
  BY <1>1, TargetHeld DEF Target, FormOf, Holds
<1>3. receipts[v][op] = None /\ receipts'[v] = [receipts[v] EXCEPT ![op] = receipt]
         /\ \A w \in Venues \ {v} : receipts'[w] = receipts[w]
  <2>1. /\ \A w \in {v} : receipts[w][op] = None
        /\ receipts' = [w \in Venues |-> IF w \in {v} THEN [receipts[w] EXCEPT ![op] = [x \in {v} |-> receipt][w]]
                                         ELSE receipts[w]]
    BY <1>1 DEF Insert
  <2> HIDE DEF receipt
  <2> QED
    BY <1>2, <2>1
<1>4. applied[op] = 0 /\ \A w \in Venues : receipts[w][op] = None
  BY <1>1, <1>2, <1>3, Unsettled
<1>5. receipt \in ReceiptType /\ receipt.print = Cancelled /\ receipt.revision = rows[v].revision
  <2>1. handlers[s].user.id \in People \cup {Operator} /\ handlers[s].base[v] \in Nat
    BY <1>1, <1>2, TargetHeld DEF HandlerType
  <2> QED
    BY <1>2, <2>1 DEF Receipt, ReceiptType
<1>6. receipt # None
  BY <1>5, ReceiptAssumption
<1>7. receipts[v] \in [Ops -> ReceiptType \cup {None}]
  BY <1>2 DEF CommitInv, RecordTypes
<1> HIDE DEF receipt
<1>8. receipts'[v][op] = receipt /\ \A o \in Ops \ {op} : receipts'[v][o] = receipts[v][o]
  BY <1>2, <1>3, <1>7
<1> QED
  BY <1>1, <1>2, <1>3, <1>4, <1>5, <1>6, <1>8

\* Every other step leaves receipts and changes alone.
LEMMA SettleSteps ==
    ASSUME CommitInv, [Next]_vars
    PROVE  \/ \E s \in Slots : Commits(s) \/ CommitRecovery(s)
           \/ receipts' = receipts /\ applied' = applied /\ accounts' = accounts
<1>1. ASSUME NEW s \in Slots, Handle(s) \/ Fail(s)
      PROVE  Commits(s) \/ CommitRecovery(s)
                \/ (receipts' = receipts /\ applied' = applied /\ accounts' = accounts)
  <2>1. CASE GoesOn(s) \/ TakeRow(s)
    BY <2>1, GoesOnEffect DEF TakeRow, recordVars
  <2>2. CASE Quits(s)
    BY <2>2 DEF Quits, Replay, RecoverSettled, Refuse, Fail, RollBack
  <2> QED
    BY <1>1, <2>1, <2>2, SlotSteps DEF Ends
<1>2. SignIn => accounts' = accounts
  BY SignInRevoked DEF CommitInv, AccountInv, Shape
<1>3. Client => receipts' = receipts /\ applied' = applied /\ accounts' = accounts
  <2>1. ASSUME Client, ~SignIn PROVE UNCHANGED <<accounts, recordVars>>
    BY <2>1 DEF Client, PrepareCommand, PrepareAccountChange, PrepareOperator, Prepare,
                BeginMutation, BeginAccountChange, BeginOperator, Arrive
  <2>2. Client => UNCHANGED recordVars
    BY DEF Client, PrepareCommand, PrepareAccountChange, PrepareOperator, Prepare,
           BeginMutation, BeginAccountChange, BeginOperator, Arrive
  <2> QED
    BY <1>2, <2>1, <2>2 DEF recordVars
<1>4. \A v \in Venues : Import(v) => receipts' = receipts /\ applied' = applied /\ accounts' = accounts
  BY DEF Import
<1>5. UNCHANGED vars => receipts' = receipts /\ applied' = applied /\ accounts' = accounts
  BY DEF vars, recordVars
<1> QED
  BY <1>1, <1>3, <1>4, <1>5 DEF Next

LEMMA FormsStay ==
    ASSUME CommitInv, [Next]_vars, NEW op \in Ops, forms[op] # None
    PROVE  forms'[op] = forms[op]
<1>1. ASSUME NEW s \in Slots, Handle(s) \/ Fail(s) PROVE forms' = forms
  BY <1>1, SlotSteps, GoesOnEffect, EndsEffect, CommitEffect DEF TakeRow
<1>2. ASSUME NEW o \in Ops, NEW form, Prepare(o, form)
      PROVE  forms'[op] = forms[op]
  BY <1>2 DEF Prepare, CommitInv, AccountInv, Shape, WorkShape
<1>3. CASE Client
  BY <1>2, <1>3 DEF Client, PrepareCommand, PrepareAccountChange, PrepareOperator,
                    BeginMutation, BeginAccountChange, BeginOperator, Arrive
<1> QED
  BY <1>1, <1>3 DEF Next, Import, vars

\* An operation is never about fewer venues than it was.
LEMMA ScopeGrows ==
    ASSUME CommitInv, [Next]_vars, NEW op \in Ops, forms[op] # None
    PROVE  Scope(op) \subseteq Scope(op)'
<1>1. forms'[op] = forms[op]
  BY FormsStay
<1>2. \A p \in People : VenuesOf(accounts, p) \subseteq VenuesOf(accounts', p)
  <2>1. CASE \E s \in Slots : Commits(s)
    BY <2>1, CommitAccounts
  <2>2. CASE accounts' = accounts
    BY <2>2 DEF VenuesOf
  <2>3. \A s \in Slots : CommitRecovery(s) => accounts' = accounts
    BY DEF CommitRecovery
  <2> QED
    BY <2>1, <2>2, <2>3, SettleSteps
<1>3. forms[op].kind = "OPERATOR" => forms[op].command.target \in People
  BY MutationsAssumption DEF CommitInv, AccountInv, Shape, WorkShape, FormShape
<1> QED
  BY <1>1, <1>2, <1>3 DEF Scope, Affected

LEMMA SettledAlways == CommitInv /\ [Next]_vars => \A op \in Ops : SettledOnce(op)'
<1> SUFFICES ASSUME CommitInv, [Next]_vars, NEW op \in Ops PROVE SettledOnce(op)'
  OBVIOUS
<1>1. SettledOnce(op)
  BY DEF CommitInv
<1>2. ASSUME applied'[op] = applied[op], \A v \in Venues : receipts'[v][op] = receipts[v][op]
      PROVE  SettledOnce(op)'
  <2>1. forms[op] # None => forms'[op] = forms[op] /\ Scope(op) \subseteq Scope(op)'
    BY FormsStay, ScopeGrows
  <2>2. forms[op] # None => Scope(op) \subseteq Venues
    BY MutationsAssumption
    DEF Scope, Affected, VenuesOf, CommitInv, AccountInv, Shape, WorkShape, FormShape
  <2>3. applied'[op] = 1 => forms'[op] # None /\ \E v \in Scope(op)' : receipts'[v][op] # None
    BY <1>1, <1>2, <2>1, <2>2 DEF SettledOnce
  <2> QED
    BY <1>1, <1>2, <2>1, <2>3 DEF SettledOnce
<1>3. ASSUME NEW s \in Slots, Commits(s) PROVE SettledOnce(op)'
  <2>1. CASE handlers[s].op = op
    <3>1. /\ applied'[op] = 1
          /\ \A v \in Venues : receipts'[v][op] # None => receipts'[v][op].print # Cancelled
          /\ \A v \in Target(s) : receipts'[v][op] # None
      BY <1>3, <2>1, CommitSettles
    <3>2. Target(s) = Scope(op) /\ Target(s) # {} /\ forms[op] # None
      BY <1>3, <2>1, CommitWrites, TargetHeld DEF FormOf
    <3>3. forms'[op] # None /\ Scope(op) \subseteq Scope(op)'
      BY <3>2, FormsStay, ScopeGrows
    <3> QED
      BY <3>1, <3>2, <3>3 DEF SettledOnce
  <2>2. CASE handlers[s].op # op
    BY <1>2, <1>3, <2>2, CommitSettles
  <2> QED
    BY <2>1, <2>2
<1>4. ASSUME NEW s \in Slots, CommitRecovery(s) PROVE SettledOnce(op)'
  <2> DEFINE u == FormOf(s).venue
  <2>1. CASE handlers[s].op = op
    <3>1. /\ forms[op] # None /\ forms[op].kind # "OPERATOR" /\ u = forms[op].venue
          /\ applied[op] = 0 /\ applied' = applied
          /\ \A v \in Venues : receipts[v][op] = None
          /\ receipts'[u][op].print = Cancelled
          /\ \A v \in Venues \ {u} : receipts'[v] = receipts[v]
      BY <1>4, <2>1, RecoverySettles
    <3>2. forms'[op] = forms[op]
      BY <3>1, FormsStay
    <3> HIDE DEF u
    <3> QED
      BY <3>1, <3>2 DEF SettledOnce
  <2>2. CASE handlers[s].op # op
    <3>1. /\ applied' = applied
          /\ \A v \in Venues \ {u} : receipts'[v] = receipts[v]
          /\ \A o \in Ops \ {handlers[s].op} : receipts'[u][o] = receipts[u][o]
      BY <1>4, RecoverySettles
    <3> HIDE DEF u
    <3> QED
      BY <1>2, <2>2, <3>1
  <2> QED
    BY <2>1, <2>2
<1> QED
  BY <1>2, <1>3, <1>4, SettleSteps

\* A receipt of a change has a revision of its own in its venue.
LEMMA NumberedAlways == CommitInv /\ [Next]_vars => Numbered'
<1> SUFFICES ASSUME CommitInv, [Next]_vars PROVE Numbered'
  OBVIOUS
<1>1. \A v \in Venues : /\ rows[v].revision \in Nat /\ rows'[v].revision \in Nat
                        /\ rows'[v].revision >= rows[v].revision
  BY RowsForward, TracedTypes DEF Forward
<1>2. \A v \in Venues, op \in Ops : receipts[v][op] # None =>
         receipts[v][op].revision \in Nat /\ receipts[v][op].revision <= rows[v].revision
  BY DEF CommitInv, RecordTypes, ReceiptType, Numbered
<1>3. ASSUME NEW v \in Venues, NEW op \in Ops
      PROVE  \/ receipts'[v][op] = receipts[v][op]
             \/ /\ receipts[v][op] = None
                /\ \/ /\ receipts'[v][op].revision = rows[v].revision + 1
                      /\ rows'[v].revision = rows[v].revision + 1
                   \/ /\ receipts'[v][op].revision = rows[v].revision
                      /\ receipts'[v][op].print = Cancelled
                /\ \A o \in Ops \ {op} : receipts'[v][o] = receipts[v][o]
  <2>1. ASSUME NEW s \in Slots, Commits(s), receipts'[v][op] # receipts[v][op]
        PROVE  /\ receipts[v][op] = None
               /\ receipts'[v][op].revision = rows[v].revision + 1
               /\ rows'[v].revision = rows[v].revision + 1
               /\ \A o \in Ops \ {op} : receipts'[v][o] = receipts[v][o]
    <3>1. handlers[s].op = op
      BY <2>1, CommitSettles
    <3>2. v \in Target(s)
      BY <2>1, CommitSettles
    <3> QED
      BY <2>1, <3>1, <3>2, CommitSettles
  <2>2. ASSUME NEW s \in Slots, CommitRecovery(s), receipts'[v][op] # receipts[v][op]
        PROVE  /\ receipts[v][op] = None
               /\ receipts'[v][op].revision = rows[v].revision
               /\ receipts'[v][op].print = Cancelled
               /\ \A o \in Ops \ {op} : receipts'[v][o] = receipts[v][o]
    BY <2>2, RecoverySettles
  <2> QED
    BY <2>1, <2>2, SettleSteps
<1>4. \A v \in Venues, op \in Ops : receipts'[v][op] # None =>
         receipts'[v][op].revision <= rows'[v].revision
  BY <1>1, <1>2, <1>3
<1>5. ASSUME NEW v \in Venues, NEW op1 \in Ops, NEW op2 \in Ops, op1 # op2,
             receipts'[v][op1] # None, receipts'[v][op2] # None,
             Cancelled \notin {receipts'[v][op1].print, receipts'[v][op2].print}
      PROVE  receipts'[v][op1].revision # receipts'[v][op2].revision
  <2>1. CASE receipts'[v][op1] = receipts[v][op1] /\ receipts'[v][op2] = receipts[v][op2]
    BY <1>5, <2>1 DEF CommitInv, Numbered, RevisionsDiffer
  <2>2. CASE receipts'[v][op1] # receipts[v][op1]
    <3>1. /\ receipts'[v][op1].revision = rows[v].revision + 1
          /\ receipts'[v][op2] = receipts[v][op2]
      BY <1>3, <1>5, <2>2
    <3> QED
      BY <1>1, <1>2, <1>5, <3>1
  <2>3. CASE receipts'[v][op2] # receipts[v][op2]
    <3>1. /\ receipts'[v][op2].revision = rows[v].revision + 1
          /\ receipts'[v][op1] = receipts[v][op1]
      BY <1>3, <1>5, <2>3
    <3> QED
      BY <1>1, <1>2, <1>5, <3>1
  <2> QED
    BY <2>1, <2>2, <2>3
<1> QED
  BY <1>4, <1>5 DEF Numbered, RevisionsDiffer

-----------------------------------------------------------------------------
(* The invariant, and what follows from it.                                *)

LEMMA InitCommitInv == Init => CommitInv
<1> SUFFICES ASSUME Init PROVE CommitInv
  OBVIOUS
<1>1. AccountInv
  BY InitInv
<1>2. RecordTypes
  BY AccountsAssumption DEF Init, AccountsInit, RecordTypes
<1>3. Placed
  <2>1. \A v \in Venues : rows[v] = [NewRow EXCEPT !.exists = v \in InitialVenues]
    BY DEF Init
  <2>2. \A v \in Venues : rows[v].exists <=> v \in InitialVenues
    BY <2>1 DEF NewRow
  <2>3. ASSUME NEW v \in Venues, ~rows[v].exists
        PROVE  rows[v] = [NewRow EXCEPT !.exists = FALSE]
    <3>1. (v \in InitialVenues) = FALSE
      BY <2>2, <2>3
    <3> QED
      BY <2>1, <3>1, Zenon
  <2> QED
    BY <2>2, <2>3, RolesAssumption DEF Init, AccountsInit, Placed
<1>4. \A op \in Ops : FormHeld(forms[op])
  BY DEF Init, FormHeld
<1>5. AllHeld
  BY DEF Init, Idle, AllHeld, SlotHeld, Handling, Working, Decided
<1>6. \A op \in Ops : SettledOnce(op)
  BY DEF Init, SettledOnce
<1>7. Numbered
  BY DEF Init, Numbered, RevisionsDiffer
<1> QED
  BY <1>1, <1>2, <1>3, <1>4, <1>5, <1>6, <1>7 DEF CommitInv

LEMMA NextCommitInv == CommitInv /\ [Next]_vars => CommitInv'
<1> SUFFICES ASSUME CommitInv, [Next]_vars PROVE CommitInv'
  OBVIOUS
<1>1. AccountInv'
  BY NextInv DEF CommitInv
<1> QED
  BY <1>1, TypesAlways, PlacedAlways, FormsAlways, HeldAlways, SettledAlways, NumberedAlways
  DEF CommitInv

LEMMA CommitInvAlways == Spec => []CommitInv
BY InitCommitInv, NextCommitInv, PTL DEF Spec

\* The types of the state of the transactions: a receipt, for one, is of
\* somebody known and of a revision its venue has reached (repository.ts:190-213).
THEOREM MutationTypes == Spec => []TypeOK
<1>1. CommitInv => TypeOK
  <2> SUFFICES ASSUME CommitInv PROVE TypeOK
    OBVIOUS
  <2>1. RecordTypes /\ WorkShape
    BY DEF CommitInv, AccountInv, Shape
  <2>2. ASSUME NEW v \in Venues, NEW op \in Ops, receipts[v][op] # None
        PROVE  /\ receipts[v][op].actor \in People \cup {Operator}
               /\ receipts[v][op].revision \in 0..rows[v].revision
    <3>1. receipts[v][op] \in ReceiptType /\ rows[v].revision \in Nat
      BY <2>1, <2>2 DEF RecordTypes, WorkShape, RowType
    <3>2. receipts[v][op].revision <= rows[v].revision
      BY <2>2 DEF CommitInv, Numbered
    <3> QED
      BY <3>1, <3>2 DEF ReceiptType
  <2>3. \A op \in Ops : forms[op] # None => forms[op] \in FormType
    BY DEF CommitInv, FormHeld
  <2>4. ASSUME NEW s \in Slots
        PROVE  LET h == handlers[s]
               IN /\ h.phase \in Phases /\ h.recover \in BOOLEAN
                  /\ h.op \in Ops \cup {None} /\ h.token \in Tokens \cup {None}
                  /\ h.user # None => h.user \in UserType
                  /\ h.need \subseteq Venues /\ h.base \in [Venues -> Nat]
                  /\ Handling(s) => h.op \in Ops /\ forms[h.op] # None
    <3>1. handlers[s] \in HandlerType
      BY <2>1 DEF WorkShape
    <3> QED
      BY <2>1, <3>1 DEF WorkShape, HandlerType, Engaged
  <2>5. rows \in [Venues -> [exists: BOOLEAN, revision: Nat, floor: Nat, lock: Slots \cup {None}]]
    BY <2>1 DEF WorkShape, RowType
  <2> QED
    BY <2>1, <2>2, <2>3, <2>4, <2>5 DEF TypeOK, RecordTypes
<1> QED
  BY <1>1, CommitInvAlways, PTL

\* No two changes of a venue have the same revision: each was made from the
\* records as the one before had left them (repository.ts:82-87, 190-213).
THEOREM EveryChangeHasItsRevision == Spec => []RevisionsDiffer
<1>1. CommitInv => RevisionsDiffer
  BY DEF CommitInv, Numbered
<1> QED
  BY <1>1, CommitInvAlways, PTL

-----------------------------------------------------------------------------
(* What holds when a change commits.                                       *)

\* A request ends only by a step of its own.
LEMMA EndsItself ==
    ASSUME CommitInv, [Next]_vars, NEW s \in Slots, Handling(s), ~Handling(s)'
    PROVE  Ends(s) \/ Commits(s)
<1>1. handlers = [x \in Slots |-> handlers[x]] /\ handlers[s] \in HandlerType
  BY DEF CommitInv, AccountInv, Shape, WorkShape
<1>2. handlers'[s] # handlers[s]
  BY DEF Handling
<1>3. ASSUME NEW r \in Slots, Handle(r) \/ Fail(r) PROVE r = s
  <2>1. \E h : handlers' = [handlers EXCEPT ![r] = h]
    <3>1. CASE TakeRow(r)
      <4>1. PICK v \in handlers[r].need :
               handlers' = [handlers EXCEPT
                   ![r].need = @ \ {v}, ![r].base[v] = rows[v].revision,
                   ![r].phase = IF handlers[r].need = {v} THEN "locked" ELSE "row"]
        BY <3>1 DEF TakeRow
      <4> DEFINE h == [handlers[r] EXCEPT !.need = @ \ {v}, !.base[v] = rows[v].revision,
                                          !.phase = IF handlers[r].need = {v} THEN "locked" ELSE "row"]
      <4>2. handlers' = [handlers EXCEPT ![r] = h]
        BY <4>1
      <4> HIDE DEF h
      <4> QED
        BY <4>2
    <3>2. CASE Ends(r) \/ Commits(r)
      BY <3>2, EndsEffect, CommitEffect DEF Finish
    <3> QED
      BY <1>3, <3>1, <3>2, SlotSteps, GoesOnEffect
  <2> QED
    BY <1>1, <1>2, <2>1
<1>4. ~Client
  <2>1. SUFFICES ASSUME Client PROVE FALSE
    OBVIOUS
  <2>2. \E r \in Slots : handlers[r] = Idle /\ \E h : handlers' = [handlers EXCEPT ![r] = h]
    <3>1. handlers' # handlers
      BY <1>2
    <3>2. PICK r \in Slots, op \in Ops :
             \/ \E t \in Tokens :
                   \/ \E recover \in BOOLEAN : BeginMutation(r, op, t, recover)
                   \/ BeginAccountChange(r, op, t)
             \/ BeginOperator(r, op)
      BY <2>1, <3>1 DEF Client, PrepareCommand, PrepareAccountChange, PrepareOperator, Prepare
    <3>3. handlers[r] = Idle
      BY <3>2 DEF BeginMutation, BeginAccountChange, BeginOperator, Arrive
    <3>4. \E h : handlers' = [handlers EXCEPT ![r] = h]
      BY <3>2 DEF BeginMutation, BeginAccountChange, BeginOperator, Arrive
    <3> QED
      BY <3>3, <3>4
  <2>3. handlers[s] # Idle
    BY DEF Handling, Idle
  <2> QED
    BY <1>1, <1>2, <2>2, <2>3
<1>5. Handle(s) \/ Fail(s)
  BY <1>2, <1>3, <1>4 DEF Next, Import, vars
<1>6. ~GoesOn(s)
  <2>1. SUFFICES ASSUME GoesOn(s) PROVE FALSE
    OBVIOUS
  <2>2. CASE TakeAccounts(s)
    BY <1>1, <2>2 DEF TakeAccounts, Handling, HandlerType
  <2>3. CASE OperatorTakesAccounts(s)
    BY <1>1, <2>3 DEF OperatorTakesAccounts, Handling, HandlerType
  <2>4. CASE Authorize(s)
    BY <1>1, <2>4 DEF Authorize, Handling, HandlerType
  <2> QED
    BY <2>1, <2>2, <2>3, <2>4 DEF GoesOn, Enters
<1>7. ~TakeRow(s)
  <2>1. SUFFICES ASSUME TakeRow(s) PROVE FALSE
    OBVIOUS
  <2>2. handlers'[s].phase \in {"row", "locked"}
    BY <1>1, <2>1 DEF TakeRow, HandlerType
  <2> QED
    BY <2>2 DEF Handling
<1> QED
  BY <1>5, <1>6, <1>7, SlotSteps

\* A command's change is made on the records its form was filled in from.
LEMMA CommitReviewed ==
    ASSUME CommitInv, [Next]_vars, NEW s \in Slots, Handling(s), KindOf(s) = "COMMAND",
           applied' # applied, ~Handling(s)', NEW k \in Depends(FormOf(s).command)
    PROVE  content[FormOf(s).venue][k] = FormOf(s).seen[k]
<1>1. Commits(s)
  BY EndsItself, EndsEffect
<1>2. /\ Decided(s) /\ ~Outdated(FormOf(s), FormOf(s).venue) /\ FormOf(s).venue \in Venues
      /\ FormOf(s).kind = "COMMAND" /\ FormOf(s) # None /\ handlers[s].op \in Ops
  BY <1>1, CommitWrites, TargetHeld DEF CommitInv, AllHeld, SlotHeld, DecisionHeld
<1>3. Traced(FormOf(s))
  BY <1>2 DEF CommitInv, FormHeld, FormOf
<1> QED
  BY <1>2, <1>3 DEF Outdated, Traced

\* A command is never saved on a review that is no longer what the records
\* say, whatever was committed, imported or is under way in other requests
\* (repository.ts:121-140 under the lock of lines 82-87).
THEOREM ReviewsAreCurrent == Spec => ReviewCurrent
<1>1. CommitInv /\ [Next]_vars =>
         [\A s \in Slots :
             LET form == FormOf(s)
             IN (Handling(s) /\ KindOf(s) = "COMMAND" /\ applied' # applied /\ ~Handling(s)') =>
                   \A k \in Depends(form.command) : content[form.venue][k] = form.seen[k]]_vars
  BY CommitReviewed
<1> QED
  BY <1>1, CommitInvAlways, PTL DEF Spec, ReviewCurrent

\* Whoever's change commits is still active in the role it was authorised in:
\* what would end his access has to wait for the venue's row
\* (repository.ts:89-99, staff.ts:197-207).
THEOREM AccessIsHeld == Spec => AccessHeld
<1>1. CommitInv /\ [Next]_vars =>
         [\A s \in Slots :
             LET user == handlers[s].user
             IN (Handling(s) /\ KindOf(s) # "OPERATOR" /\ answers' # answers
                   /\ handlers[s].phase = "decided" /\ ~Handling(s)') =>
                   /\ accounts[user.id].active
                   /\ accounts[user.id].roles[user.venue] = user.role]_vars
  BY DEF CommitInv, AllHeld, SlotHeld, Decided, DecisionHeld
<1> QED
  BY <1>1, CommitInvAlways, PTL DEF Spec, AccessHeld

\* When setup completes there is staff for both sides of a review, though
\* roles were read before the change (repository.ts:141-178).
THEOREM SetupIsCovered == Spec => SetupCovered
<1>1. ASSUME CommitInv, [Next]_vars, NEW s \in Slots, Handling(s), KindOf(s) = "COMMAND",
             FormOf(s).command.setup, applied' # applied, ~Handling(s)'
      PROVE  \E v \in Venues : v = FormOf(s).venue /\ StaffCovers(v)'
  <2>1. Commits(s)
    BY <1>1, EndsItself, EndsEffect
  <2>2. PICK v \in Venues : v = FormOf(s).venue
    <3>1. FormOf(s).venue \in Venues
      BY <1>1, <2>1, CommitWrites, TargetHeld
    <3> QED
      BY <3>1
  <2>3. StaffCovers(v)
    BY <1>1, <2>1, <2>2, CommitWrites DEF CommitInv, AllHeld, SlotHeld, DecisionHeld
  <2>4. accounts' = accounts
    BY <1>1, <2>1, CommitAccounts DEF ChangesAccounts
  <2>5. StaffCovers(v)'
    BY <2>3, <2>4, CoverKept, SameAccounts
  <2> QED
    BY <2>2, <2>5
<1>2. CommitInv /\ [Next]_vars =>
         [\A s \in Slots :
             (Handling(s) /\ KindOf(s) = "COMMAND" /\ FormOf(s).command.setup
                /\ applied' # applied /\ ~Handling(s)') =>
                   \E v \in Venues : v = FormOf(s).venue /\ StaffCovers(v)']_vars
  BY <1>1
<1> QED
  BY <1>2, CommitInvAlways, PTL DEF Spec, SetupCovered

-----------------------------------------------------------------------------
(* The refinement: every step settles one operation, repeats an answer, or *)
(* is none of the client's business.                                       *)

Marked(op) == \E v \in Venues : receipts[v][op] # None /\ receipts[v][op].print = Cancelled

LEMMA OutcomeIs ==
    ASSUME CommitInv, NEW op \in Ops
    PROVE  /\ applied[op] = 1 => Outcome(op) = "saved"
           /\ applied[op] = 0 /\ Marked(op) => Outcome(op) = "cancelled"
           /\ applied[op] = 0 /\ ~Marked(op) => Outcome(op) = "none"
<1>1. applied[op] = 1 => ~Marked(op)
  BY DEF CommitInv, SettledOnce, Marked
<1>2. ASSUME applied[op] = 1, ~Marked(op) PROVE Outcome(op) = "saved"
  BY <1>2 DEF Outcome, Marked
<1>3. ASSUME applied[op] = 0, Marked(op) PROVE Outcome(op) = "cancelled"
  BY <1>3 DEF Outcome, Marked
<1>4. ASSUME applied[op] = 0, ~Marked(op) PROVE Outcome(op) = "none"
  BY <1>4 DEF Outcome, Marked
<1> QED
  BY <1>1, <1>2, <1>3, <1>4

\* What is answered from a receipt is how the operation was settled.
LEMMA ReplaySaved ==
    ASSUME CommitInv, NEW s \in Slots, Replay(s)
    PROVE  handlers[s].op \in Ops /\ Outcome(handlers[s].op) = "saved"
<1> DEFINE op == handlers[s].op
<1>1. Replayable(s) /\ Handling(s)
  BY DEF Replay, Replayable, Handling
<1>2. op \in Ops /\ SettledOnce(op) /\ Fingerprint(FormOf(s)) # Cancelled
  BY <1>1, PrintType, ReceiptAssumption DEF CommitInv, AccountInv, Shape, WorkShape, Engaged
<1>3. \E v \in Venues : receipts[v][op] # None /\ SameRequest(s, receipts[v][op])
  <2>1. CASE OperatorReceipts(s) # {} /\ \A receipt \in OperatorReceipts(s) : SameRequest(s, receipt)
              /\ KindOf(s) = "OPERATOR"
    <3>1. PICK v \in Affected(accounts, FormOf(s).command) :
             receipts[v][op] # None /\ receipts[v][op] \in OperatorReceipts(s)
      BY <2>1 DEF OperatorReceipts
    <3>2. v \in Venues
      BY <1>1, <2>1, ProperCommand DEF Affected, VenuesOf, CommitInv, AccountInv, Shape
    <3> QED
      BY <2>1, <3>1, <3>2
  <2>2. CASE Previous(s) # None /\ SameRequest(s, Previous(s))
    BY <1>1, <2>2, ProperCommand DEF Previous, CommitInv, AccountInv, Shape
  <2> QED
    BY <1>1, <2>1, <2>2 DEF Replayable
<1>4. applied[op] = 1
  BY <1>2, <1>3 DEF SettledOnce, SameRequest
<1> QED
  BY <1>2, <1>4, OutcomeIs

LEMMA RecoveryTrue ==
    ASSUME CommitInv, NEW s \in Slots, RecoverSettled(s)
    PROVE  /\ handlers[s].op \in Ops
           /\ Outcome(handlers[s].op) =
                 IF Previous(s).print = Cancelled THEN "cancelled" ELSE "saved"
<1> DEFINE op == handlers[s].op
<1>1. Handling(s) /\ Previous(s) # None
  BY DEF RecoverSettled, Settled, Handling
<1>2. op \in Ops /\ SettledOnce(op) /\ FormOf(s).venue \in Venues
  BY <1>1, ProperCommand DEF CommitInv, AccountInv, Shape, WorkShape, Engaged
<1>3. CASE Previous(s).print = Cancelled
  <2>1. applied[op] = 0 /\ Marked(op)
    BY <1>1, <1>2, <1>3 DEF SettledOnce, Marked, Previous
  <2> QED
    BY <1>2, <1>3, <2>1, OutcomeIs
<1>4. CASE Previous(s).print # Cancelled
  <2>1. applied[op] = 1
    BY <1>1, <1>2, <1>4 DEF SettledOnce, Previous
  <2> QED
    BY <1>2, <1>4, <2>1, OutcomeIs
<1> QED
  BY <1>3, <1>4

\* How an operation stands depends on its receipts and changes only.
LEMMA OutcomeSame ==
    ASSUME NEW op, applied'[op] = applied[op], \A v \in Venues : receipts'[v][op] = receipts[v][op]
    PROVE  Outcome(op)' = Outcome(op)
BY DEF Outcome

LEMMA CommitOutcome ==
    ASSUME CommitInv, NEW s \in Slots, Commits(s)
    PROVE  /\ handlers[s].op \in Ops /\ Outcome(handlers[s].op) = "none"
           /\ \A op \in Ops : Outcome(op)' = IF op = handlers[s].op THEN "saved" ELSE Outcome(op)
           /\ Answer(handlers[s].op, "saved")
<1>1. PICK o \in Ops : o = handlers[s].op
  BY CommitWrites, TargetHeld
<1>2. /\ applied[o] = 0 /\ \A v \in Venues : receipts[v][o] = None
      /\ applied'[o] = 1
      /\ \A v \in Venues : receipts'[v][o] # None => receipts'[v][o].print # Cancelled
  BY <1>1, CommitSettles
<1>3. Outcome(o) = "none"
  BY <1>2, OutcomeIs DEF Marked
<1>4. Outcome(o)' = "saved"
  BY <1>2 DEF Outcome
<1>5. \A op \in Ops \ {o} : Outcome(op)' = Outcome(op)
  BY <1>1, CommitSettles, OutcomeSame
<1> QED
  BY <1>1, <1>3, <1>4, <1>5, CommitEffect

LEMMA RecoveryOutcome ==
    ASSUME CommitInv, NEW s \in Slots, CommitRecovery(s)
    PROVE  /\ handlers[s].op \in Ops /\ Outcome(handlers[s].op) = "none"
           /\ \A op \in Ops : Outcome(op)' = IF op = handlers[s].op THEN "cancelled" ELSE Outcome(op)
           /\ Answer(handlers[s].op, "cancelled")
<1>1. PICK o \in Ops, u \in Venues : o = handlers[s].op /\ u = FormOf(s).venue
  BY RecoverySettles
<1>2. /\ applied[o] = 0 /\ applied' = applied /\ \A v \in Venues : receipts[v][o] = None
      /\ receipts'[u][o] # None /\ receipts'[u][o].print = Cancelled
      /\ \A v \in Venues \ {u} : receipts'[v] = receipts[v]
      /\ \A op \in Ops \ {o} : receipts'[u][op] = receipts[u][op]
  BY <1>1, RecoverySettles
<1>3. Outcome(o) = "none"
  BY <1>2, OutcomeIs DEF Marked
<1>4. Outcome(o)' = "cancelled"
  <2>1. applied'[o] = 0 /\ \E v \in Venues : receipts'[v][o] # None /\ receipts'[v][o].print = Cancelled
    BY <1>1, <1>2
  <2> QED
    BY <2>1 DEF Outcome
<1>5. \A op \in Ops \ {o} : Outcome(op)' = Outcome(op)
  BY <1>2, OutcomeSame
<1> QED
  BY <1>1, <1>3, <1>4, <1>5 DEF CommitRecovery

\* However often a request is sent, lost or asked about, its operation is
\* settled once, and every answer ever given says how (repository.ts:103-120,
\* operation-recovery.ts:70-115).
THEOREM EffectsAreOnce == Spec => EffectsOnce
<1>1. Init => Contract!Init
  <2> SUFFICES ASSUME Init PROVE Contract!Init
    OBVIOUS
  <2>1. \A op \in Ops : Outcome(op) = "none"
    BY DEF Init, Outcome
  <2> QED
    BY <2>1 DEF Init, Contract!Init
<1>2. CommitInv /\ [Next]_vars => [Contract!Next]_(Contract!vars)
  <2> SUFFICES ASSUME CommitInv, [Next]_vars
               PROVE  Contract!Next \/ UNCHANGED Contract!vars
    OBVIOUS
  <2>1. ASSUME NEW op \in Ops, NEW as \in {"saved", "cancelled"}, Outcome(op) = "none",
               \A o \in Ops : Outcome(o)' = IF o = op THEN as ELSE Outcome(o),
               Answer(op, as)
        PROVE  Contract!Next
    <3>1. [o \in Ops |-> Outcome(o)]' = [[o \in Ops |-> Outcome(o)] EXCEPT ![op] = as]
      BY <2>1
    <3>2. Contract!Settle(op, as)
      BY <2>1, <3>1 DEF Contract!Settle, Answer
    <3> QED
      BY <3>2 DEF Contract!Next
  <2>2. ASSUME NEW op \in Ops, NEW as \in {"saved", "cancelled"}, Outcome(op) = as, Answer(op, as),
               \A o \in Ops : Outcome(o)' = Outcome(o)
        PROVE  Contract!Next
    <3>1. Contract!Repeat(op)
      BY <2>2 DEF Contract!Repeat, Answer
    <3> QED
      BY <3>1 DEF Contract!Next
  <2>3. ASSUME receipts' = receipts, applied' = applied
        PROVE  \A o \in Ops : Outcome(o)' = Outcome(o)
    BY <2>3, OutcomeSame
  <2>4. ASSUME UNCHANGED <<receipts, applied, answers>>
        PROVE  UNCHANGED Contract!vars
    BY <2>3, <2>4 DEF Contract!vars
  <2>5. ASSUME NEW s \in Slots, Handle(s) \/ Fail(s)
        PROVE  Contract!Next \/ UNCHANGED Contract!vars
    <3>1. CASE Commits(s)
      BY <2>1, <3>1, CommitOutcome
    <3>2. CASE CommitRecovery(s)
      BY <2>1, <3>2, RecoveryOutcome
    <3>3. CASE Replay(s)
      BY <2>2, <2>3, <3>3, ReplaySaved DEF Replay
    <3>4. CASE RecoverSettled(s)
      BY <2>2, <2>3, <3>4, RecoveryTrue DEF RecoverSettled
    <3>5. CASE Refuse(s) \/ Fail(s)
      BY <2>4, <3>5 DEF Refuse, Fail, RollBack
    <3>6. CASE GoesOn(s) \/ TakeRow(s)
      BY <2>4, <3>6, GoesOnEffect DEF TakeRow, recordVars
    <3> QED
      BY <2>5, <3>1, <3>2, <3>3, <3>4, <3>5, <3>6, SlotSteps DEF Ends, Quits
  <2>6. CASE Client
    <3>1. UNCHANGED <<recordVars, answers>>
      BY <2>6 DEF Client, PrepareCommand, PrepareAccountChange, PrepareOperator, Prepare,
                  BeginMutation, BeginAccountChange, BeginOperator, Arrive
    <3> QED
      BY <2>4, <3>1 DEF recordVars
  <2>7. \A v \in Venues : Import(v) => UNCHANGED Contract!vars
    BY <2>4 DEF Import
  <2>8. CASE UNCHANGED vars
    BY <2>4, <2>8 DEF vars, recordVars
  <2> QED
    BY <2>5, <2>6, <2>7, <2>8 DEF Next
<1> QED
  BY <1>1, <1>2, CommitInvAlways, PTL DEF Spec, EffectsOnce, Contract!Spec
=============================================================================
