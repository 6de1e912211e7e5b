# Poker venue operations: TLA+ models, checks and proofs

The repository is a staff application for poker venues (Next.js, React, PostgreSQL):
business days, tables and seats, player check-in, buy-ins and cash-outs against cash or
credit, independent review of every money movement, an append-only ledger with
reversals, and reconciliation of the cash drawer. This directory models the rules that
decide what is recorded, the transactions through which staff get at the records, the
browser that sends a command and shows its result, and the work a server process admits;
checks them with TLC on small instances, and proves the most important properties with
TLAPS for every value of the constants.

Contents: [inventory](#inventory) - [plan](#plan) - [how the model maps to the
code](#how-the-model-maps-to-the-code) - [properties](#properties) - [runs and
bounds](#runs-and-bounds) - [proofs](#proofs) - [disagreements found](#disagreements-found) -
[limits](#limits)

## Inventory

Paths are relative to the repository root.

| Part | Code | State | Operations |
|---|---|---|---|
| Venue operations | `src/domain/operations.ts`, `ledger-impact.ts`, `settings.ts`, `selectors.ts` | settings, tables, profiles, days, sessions, approvals, transactions, audit log | the fourteen commands of `applyCommand` |
| Ledger rollups | `src/server/ledger-rollups.ts`, `aggregates.ts` | financial totals per venue, day, player, player-day, table-day | one increment per posted entry; read back as balances and day totals |
| Integrity checks | `src/domain/store-integrity.ts`, `src/server/integrity.ts`, `backup.ts` | none | replay of a complete store before a backup or restore is accepted |
| Mutation protocol | `src/server/repository.ts`, `operation-recovery.ts`, `storage.ts`, `command-store.ts`, `src/domain/command-concurrency.ts` | branch revision, change versions, operation receipts, concurrency floor | `mutate`, `recoverOperation`, `replaceStore`, scoped load |
| Staff accounts | `src/server/staff.ts`, `staff-safety.ts`, `operator-accounts.ts`, `auth.ts` | users, memberships, sessions | create, change role, disable, reset password, login, logout, change venue |
| Admission and gates | `src/server/login-admission.ts`, `password-work.ts`, `csv-export-work.ts`, `auth.ts`, `readiness-gate.ts`, `readiness.ts` | attempt counters, running and queued work, probe cache | claim and clear attempts, run/queue/expire work, probe and invalidate |
| Backups and restore | `src/server/backup.ts`, `scripts/backup-files.ts`, `backup-local.ts` | files in `.local/backups`, table locks | back up all records, save a safety copy, replace all records |
| Browser protocol | `src/lib/pending-operation.ts`, `background-refresh.ts`, `usePokerManagementState.tsx`, `src/contexts/auth-context.tsx` | checkpoint, uncertain request, latest snapshot, sign-in epoch | submit, retry, recover, refresh, sign in and out |
| Reads and reports | `src/server/queries.ts`, `aggregates.ts`, `src/domain/selectors.ts`, `dashboard-summary.ts`, `reporting.ts`, `approval-notifications.ts` | none | select the records of a page, compute what it shows |
| Plumbing, prototype, views, scripts | `src/server/database.ts`, `schema.ts`, `health.ts`, `src/prototype`, `src/components`, `scripts` | none of the rules | I/O and presentation |

**Interaction.** A browser submits one command with an operation id, the revision it
reviewed and the identity it believes it has. `mutate` opens a database transaction,
reads the caller's access, locks the venue's row, reads the access again, answers a
repeated operation from its receipt, refuses stale reviews by revision and dependency
key, loads the records the command needs, runs the pure function `applyCommand`, and
writes the changed records, rollups, change versions and receipt in the same
transaction. Recovery takes the same lock and leaves a cancellation for an operation it
has not seen. Staff administration locks the account tables first and then the venue. A
restore locks every table, copies what they hold to a file and then replaces it.

**What is hard.** The rules of one command are easy to test; their combinations are not:
several requests about one player pending at once, a decision on a request whose visit,
table, limit or day changed since it was made, reversal of entries that later entries
depend on, days closed again after corrections, roles that change between two votes.
Around them: lost and repeated requests, access revoked while a request waits for a
lock, restores, clocks, and bounded queues. `PROJECT.json` lists each hazard at its line.

**What makes each part correct.** *Venue:* nobody owes more than his limit or less than
nothing, also counting what is pending; one seat, one player; a visit is settled by exactly one standing
cash-out; an approval posts once; an entry is reversed at most once; reviews are
independent; history never changes; the books balance. *Rollups:* equal to the sums they
replace. *Mutation protocol:* commands of a venue are serial and each operation id takes
effect at most once, with access that is current at commit. *Accounts:* an active
administrator remains, and a revoked session or old password opens nothing. *Gates:* limits hold,
nothing admitted is lost, slots are returned. *Backups:* a saved change is always somewhere, and
nothing of before a restore is applied after it. *Browser:* an uncertain save is never sent
twice as two operations nor forgotten.

## Plan

1. **The venue** (`LedgerRules`, `Venue`, properties, runs, proofs) - this is what the
   application is for, and every other part exists to run these commands safely. Done.
2. **Mutation protocol and accounts** (`Accounts`, `Mutations`, refining `OnceOnly`):
   transactions as several steps with concurrent account changes, repeated requests,
   recovery and import. Done.
3. **What surrounds a command** (`VenueIntegrity`, `VenueDependencies`, `VenueScope`,
   `VenueReads`): the checks of a backup, the keys that make a review stale, the rows
   a command is decided on, the records a page is sent. Done.
4. **Browser** (`Browser`, `StaffAccess`): checkpoints, lost and late answers, retry,
   recovery, tabs; sign-in and sign-out. Done.
5. **Gates** (`Admission`, `Readiness`), **backups and restores** (`Backups`). Done.
6. **More proofs**: seating, reversal and pending work of the venue; row locks and with
   them types, serial revisions and the refinement of `OnceOnly` by the protocol; the gates; that
   unchanged keys mean an unchanged verdict, that the scoped load decides as the whole
   venue does, that rollups are the sums of the ledger and money is conserved, that a
   backup is accepted, and that screens show the records. Done.
7. **Left to model**: a change of venue in the browser.

## How the model maps to the code

### The venue

`LedgerRules` holds the functions of the domain that need no state: the review level
(`policy`), what an entry does to cash and credit (`ledgerImpact`), and the rules a table
plays under (`effectiveTableRules`, `tableRuleIssue`).

`Venue` holds the records and the commands. Each command of `applyCommand` is one action,
named after it, with its guards in the order of the code; a command that throws is no
step. One command is one atomic action because `mutate` runs it under the venue's row
lock in one database transaction and writes all of its changes or none
(`src/server/repository.ts:70-217`). The application's own retries and the order in which
commands reach the lock are the interleavings of the model.

| Code | Model |
|---|---|
| `store.settings` (undefined until saved) | `settings`, with `saved` |
| `store.tables`, overrides as optional fields | `tables`, one record per possible table, `rules` a partial function |
| `store.profiles`, unique by phone | `profiles`, one record per possible player |
| `store.days`, `currentDayId` | `days`, a sequence; the last one is current (only `OPEN_DAY` sets it, to the day it appends) |
| `store.sessions`, `approvals`, `transactions` | sequences in the order records are added; an id is a position. The code prepends approvals and entries; no rule depends on that |
| `readModel.balances` (PLAYER rollup) / `debt()` | `outstanding` |
| DAY rollup / `totalsForDay()` | `dayCash` |
| `reservedCredit()` | `ReservedCredit`, the number of units the pending buy-ins stand for |
| `validateEntry()` | `ValidEntry`, evaluated when a request is made and again at each approval |
| `postEntry()` | `Post` |
| `sessionStart`, a wall-clock time | `start`; `ClockMaySlip` decides whether readings may repeat or go back |
| the signed-in actor, read again under the lock | an element of `Staff`; one id with two roles is a person whose role changes meanwhile |

Commands: `UPDATE_SETTINGS`, `COMPLETE_SETUP`, `TABLE` (`CreateTable`, `UpdateTable`),
`UPDATE_PROFILE`, `OPEN_DAY`, `REOPEN_DAY`, `CLOSE_DAY`, `CHECK_IN` (`CheckInKnown`,
`CheckInNew`), `MOVE`, `SWAP_SEATS`, `REQUEST` (`RequestForVisit` for buy-in and cash-out,
`RequestEntry` for the rest), `CORRECT`, and `DECIDE` (`Approve`, `Reject`).

Left out because no property depends on them: names, notes and reasons with their minimum
lengths, VIP and Risk tags, rake and tips guidance, game names, the audit log, business
dates (days are numbered in date order, which `OPEN_DAY` enforces), and the limit
`MAX_MONEY` on one amount. The check `COMPLETE_SETUP` makes on the venue's staff
(`repository.ts:141-178`) reads another component's tables and is in `Mutations`.

Four modules say what surrounds a command, over the variables of `Venue`; they add no steps.

| Module | Code | What it defines |
|---|---|---|
| `VenueIntegrity` | `assertFinancialIntegrity`, `validateStore` | the checks record by record, and the replay of the ledger from its first entry (`ReplaySound`, `BalancesSound`) |
| `VenueDependencies` | `commandDependencies`, `changedDependencyKeys` | commands as a browser prepares them, `Dependencies(c)`, `ChangedKeys` of a step, and `Verdict(c)`: whether `c` would be accepted now, and to what effect |
| `VenueScope` | `loadCommandStore`, `reservedCredit` | the rows read for a command; `Scoped(c)` is the instance of `VenueDependencies` in which the other records are absent |
| `VenueReads` | `operationalSnapshot`, `readPageWithin`, `populateReadModel`, selectors, dashboard, notifications, `rangeReport` | the ids a page is sent, and what each screen computes from a store that has only these |

`Verdict` repeats the guards of the actions of `Venue` with the same operators (`ValidEntry`,
`EnsureSeat`, `CreditAvailable`, ...), so a command is judged by the rules the actions follow.
`VenueReads` sees a store as sets of ids; its `server` field tells whether totals and counts come
from SQL, as `store.readModel` does in the code.

### The transactions

`Mutations` models what happens around a command; `Accounts`, which it extends, has the
account tables, sessions and sign-in. A request is handled in a *slot* (a connection with
its transaction) and goes through phases; between two of them anything else may happen,
and `Fail` may end it: a crash, a lost connection, a lock timeout.

| Phase | Code | Actions that leave it |
|---|---|---|
| `accounts` | waiting for the lock on the account tables (`manageStaff`, `createLocation`, `manageOperatorAccount`) | `TakeAccounts`, `OperatorTakesAccounts`, `Refuse`, `Replay` |
| `row` | access has been read; waiting for `FOR UPDATE` on a venue, or on several in the order of their ids | `TakeRow` |
| `locked` | access is read again, then receipt, revision and dependency keys, then what the command itself requires | `Authorize`, `Replay`, `RecoverSettled`, `Refuse` |
| `decided` | everything is checked; the changes are made and committed | `CommitCommand`, `CommitStaff`, `CommitLocation`, `CommitOperator`, `CommitRecovery`, `Refuse` (a command `applyCommand` turns down) |

The checks and the commit are separate steps because READ COMMITTED lets other
transactions commit between two statements; only the locks keep what was read true.
The four kinds of mutation and recovery share these actions where the code repeats itself.

| Code | Model |
|---|---|
| `poker_branch_state` (revision, `concurrencyFloor`, row lock) | `rows` |
| `poker_change_versions` | `versions` |
| the records of a venue | `content`: which operation wrote the records of each dependency key last. What a command decides is `Venue`'s subject |
| `poker_operations` | `receipts`: actor, fingerprint, revision, by venue and operation |
| `lockStaffAccounts` | `accountsLock` |
| `poker_users`, `poker_memberships` | `accounts` |
| `poker_sessions`, and a sign-in between the password check and the insert | `sessions` |
| a command prepared in a browser on the snapshot it shows, with its operation id | `forms` (`seen` is a history variable: what the reviewed keys held) |
| a command's keys (`commandDependencies`, `changedDependencyKeys`) | constants `reads` and `writes` of each command, with `venue:day` and `venue:all` added as the code does |
| answers to clients | `answers` (history) |
| how often the changes of an operation were committed | `applied` (history) |

A request may be begun any number of times, by recovery too, as long as slots are free: that
is the client's retry, a second tab and a duplicated message at once. A password is
the number of its resets. `manageStaff` keys its fingerprint with the caller's password
hash; `Fingerprint` keeps that, so a repeated staff command after a reset is refused and
not taken for a replay. `Import` is `replaceStore` at the next revision, as the sample
loader calls it; that script insists on a venue without records, the model does not.

The sample keys of `MutationMC` stand for those of `VenueDependencies`, where their coverage is checked.

`OnceOnly` is the abstract specification: an operation is settled once, as saved or as
cancelled, and every answer agrees. `EffectsOnce` says that `Mutations` implements
it, with `Outcome` computed from how often the operation changed records and from its
receipt. An operation that changed records twice, or after its cancellation, has the
outcome "twice", which `OnceOnly` never reaches.

### The browser

`Browser` has tabs that share a cookie and the local storage, and a server reduced to what
`OnceOnly` promises: an operation is saved once or cancelled. `submit` is three steps, because
another tab may run between them: `List` (the checkpoints are listed), `Send` (the checkpoint is
written and the command posted), and one of `HearSaved`, `HearRefused`, `HearExpired`, `GiveUp`.
A request nobody waits for stays on its way for any time, so a copy may be handled
after its tab has given up, retried or been reloaded.

| Code | Model |
|---|---|
| `inFlight`, and the call a tab waits for | `tabs[t].busy`, `doing` |
| `uncertain.current` | `tabs[t].uncertain` |
| `recoveryCheckpoint` | `tabs[t].recovery` |
| `latestRevision` | `tabs[t].shown` |
| local storage under the checkpoint keys | `storage` |
| POST bodies and answers on the network | `requests`, `replies`, `reads` |
| what the person at the tab wants and was told | `issued`, `told`, `learned` (history) |

An intent is what a person wants done; entering it again makes a new operation id. Somebody
enters a change again only after being told that it was not saved, or without having been
told anything; what the tab is still busy with is not entered twice (`NotUnderWay`).

`StaffAccess` is the provider of one document: whose access it shows while `GET`, `POST` and
`DELETE /api/auth` are answered late or not at all. The epoch the provider counts becomes
the mark `fresh` on a call under way. `marks` is the sign-out intent, in the session storage
and in the address; `Logout(stored, recorded)` lets either or both fail to be written. `asked` and
`kept` are history, read by no guard: that staff asked to sign out and the server has not confirmed
it, whatever was written, and the places in which that was put down and that last: the document
(until it is left), the address (until a navigation), the session storage (until the tab
leaves after a confirmation). `Enter` is any other document in the tab. A document from
the back/forward cache (`Return`) was hidden when it was left and is locked before it runs.

### The server process

`Admission` has three gates of `createWorkGate` with the jobs of three sources: a sign-in holds
a slot of the sign-in gate while it claims its attempt (`ClaimAttempt`), waits for a slot of
the hashing gate (`Verify`) and ends in the transaction that creates the session (`SignInEnds`);
a password change needs the hashing gate only; an export has its gate without a queue.
`late` holds the queued jobs whose deadline has passed and whose timer has not fired yet:
the job that finishes may meet them first.

`Readiness` is the gate of `readiness-gate.ts` as one record (key, generation, cache, flight)
with `read`, `finish` and `invalidate` as operators on it, and `readinessResponse` around
it. `works` is whether the clock can be read at that step.

### Backups and restores

`Backups` has runs of two scripts, `local:backup` and `local:restore --confirm`, beside staff who
sign in and send commands. What a command writes is one thing here, itself: it is in the records
and has a receipt, in the database or in the copy a file holds.

| Code | Model |
|---|---|
| REPEATABLE READ transaction of `createBackup` | `view`: the receipts are those of the moment the records were read |
| `LOCK TABLE ... IN ACCESS EXCLUSIVE MODE` | `LockTables` waits until nobody has read in a transaction (`Undisturbed`); until the restore ends, nothing else reads or writes (`Unlocked`) |
| statements of a restore, READ COMMITTED | `ReceiptsRead`: what the table holds by then |
| the `.partial` name, the hard link, the synced directory | phases `staged`, `linked`, `saved`; a file is `linked`, then `durable` |
| deletion of `poker_sessions`; `concurrencyFloor` | `SessionsLeft`, `floor` |
| an exception, a killed script, power loss | `ScriptFails`, `PowerFails(gone)`: transactions roll back, and `gone` are names the directory was not synced with |

`commands[c].since` and `restores` are history: how many restores there had been at the review.
Dependency keys are `Mutations`' subject; here a command of any revision from the floor on may be
saved.

## Properties

`VenueProperties` states what must hold of the records alone, `VenueLedger` what needs sums.

* `TypeOK` - the records' types.
* `CreditSafe` - debt is never negative, and debt plus reserved buy-ins is within the limit.
* `SeatingExclusive` - one active visit per player, one occupant per seat, on the open day at an open table.
* `PostedOnce` - approved if and only if posted, and posted once.
* `IndependentReview`, `PayoutsByAdmin` - who voted.
* `PendingCurrent` - what a pending request is about is still there.
* `ReviewerRemains` - whoever has voted, some member of the staff may still decide a pending request
  whose author has the reviewers its level asks for.
* `SetupStaffSuffices` - the same from any one independent reviewer on, which is what setup asks
  for; the code does not have it (see "Disagreements found").
* `BuyInPossible` - every table's effective rules admit a positive buy-in.
* `HistoryKept`, `NoLaterVisitReopened` - action properties: what no step may do.
* `RollupsMatchLedger`, `MoneyConserved` - the books.

Around the commands:

* `BackupAccepted` (`VenueIntegrity`) - whatever staff did, a backup of the records would pass
  every check before it is restored. It includes that a visit is OUT exactly while one
  cash-out of it stands and that the last count of a closed day was taken against its ledger.
* `ReviewStands` (`VenueDependencies`) - as long as no key of a prepared command changes, it is
  accepted or refused as before, to the same effect, and its keys stay the same.
* `ScopeDecides` (`VenueScope`) - on the few rows it reads, a command is decided as on all, but for
  a table created closed while a request without a table is pending (`Unread`), which is created.
* `ScreensTrue` (`VenueReads`) - each page shows what the complete records would show.

`MutationProperties`:

* `EffectsOnce` - the refinement of `OnceOnly`.
* `ReviewCurrent` - no command is saved on a review that is out of date.
* `RevisionsDiffer` - changes of a venue are serial.
* `AccessHeld`, `SetupCovered` - what was checked under the lock still holds at commit.
* `AdminRemains` - every venue keeps an active administrator.
* `RevokedStaysOut` - no session survives a password reset or the disabling of its account.
* `Answered` - every request that was begun is answered (liveness).
* `TypeOK` - types, and no receipt from a revision the venue has not reached.

`Browser` and `StaffAccess`:

* `AnswersTrue` - what staff are told of a change stays true, and entering anew a change one was
  not told was saved does not save it twice.
* `NothingForgotten` - a saved change nobody was told of is in a checkpoint.
* `SavedIsShown` - whoever was told of a save sees records that contain it.
* `HiddenUntilConfirmed` - after a sign-out was asked for, and until it is confirmed, nobody is shown
  in that document, nor in a later one as long as the address or the storage keeps the intent.
* `AccountAskedFor` - after a sign-in was sent, no other account comes to be shown.
* `CheckingEnds` - "Checking staff access" ends (liveness).

`Admission`, `Readiness` and `Backups`:

* `GatesFair` - no more jobs than slots, and no job waits while a slot is free.
* `EveryoneAnswered` - whoever came is answered and gives back every slot (liveness).
* `NewerAttemptsKept` - a success does not erase attempts counted after its own.
* `ReportCurrent` - an outcome is reported for the configuration in which its probe began.
* `RequestsAnswered` - who waits is answered though the database never is (liveness).
* `SavedIsKept` - whatever fails and when, a saved change is in the database or in a file that
  survives the power, and wherever records are kept they agree with the receipts.
* `RestoreReviewed` - no command is saved that was reviewed before a restore.

The definitions marked *mutant* are the changes a plausible
mistake would make (a reservation ignored, a status not reset, a second vote allowed).
Nothing uses them in the specification; with one of them in place of the definition after
it, the corresponding property fails, which shows that the property depends on that code.

## Runs and bounds

The `Venue` runs use `VenueMC`, which gives the constants their values, the others
`MutationMC`, `BrowserMC` and `ServerWorkMC`, which runs `StaffAccess` too. `MaxVisits`,
`MaxRequests`, `MaxDays` and `MaxCloses` bound how many records of a kind a behaviour
creates; they are guards of the actions that append. Deadlock checking is off: with all
bounds used up, a venue, a browser or a server legitimately has nothing left to do.

| Run | Instance | Shows |
|---|---|---|
| `VenueCredit` | 1 credit player, 1 seat, 2 visits, limits 2-3, amounts 0-2, 4 requests (buy-in, cash-out, repayment, reversal) | `CreditSafe`, `RollupsMatchLedger`, `MoneyConserved`, `BackupAccepted`, `NoLaterVisitReopened` |
| `VenueSeating` | 2 credit players, 2 tables of 2 seats, 2 visits, 2 requests, with symmetry | `SeatingExclusive`, `PendingCurrent`, `ScopeDecides`, `ReviewStands` |
| `VenueReview` | 4 staff roles of 3 people (a cashier, an administrator, a manager who is promoted), all three review levels, 2 requests | `IndependentReview`, `PostedOnce`, `PayoutsByAdmin`, `ReviewerRemains` |
| `VenueDays` | 1 cash player, 2 visits, 3 requests, 2 days, each closed up to twice | `BackupAccepted`, `ScreensTrue`, `HistoryKept` |
| `VenueSetup` | every entry type, 3 venue rules, 5 overrides, 2 feature sets, bans | `TypeOK`, `BuyInPossible` |
| `VenueClock` | 1 player, 2 visits, a clock that may slip | `NoLaterVisitReopened` is violated |
| `VenueSmallStaff` | a cashier and an administrator, 1 request above the dual threshold | `SetupStaffSuffices` is violated |
| `MutationOnce` | 2 venues, a cashier and an administrator, 2 operations of 3 kinds, 2 commands with overlapping keys, 3 slots, one import | `TypeOK`, `RevisionsDiffer`, `EffectsOnce`, `ReviewCurrent` |
| `MutationAccess` | 2 venues, 3 people, one session open and one sign-in, 10 commands, 2 operations, 2 slots | `AdminRemains`, `RevokedStaysOut`, `AccessHeld`, `SetupCovered` |
| `MutationLocks` | 2 venues, the second created meanwhile; a command, a staff command, an operator command and a creation, 3 slots | `Answered` |
| `Browser` | 2 tabs, 2 people, 1 intent, 2 operations, 2 revisions, 1 snapshot on its way, with symmetry | `AnswersTrue`, `NothingForgotten`, `SavedIsShown` |
| `ServerWork` | 3 sign-ins of one account (one with the right password) and a hash with 2 + 1 slots; or 2 exports; or 3 health requests, 4 configurations, 3 changes; or 2 commands, 2 sign-ins and 3 runs of the backup scripts; or a tab with 2 accounts, 2 reads at once and 3 documents | `GatesFair`, `EveryoneAnswered`, `NewerAttemptsKept`, `ReportCurrent`, `RequestsAnswered`, `SavedIsKept`, `RestoreReviewed`, `HiddenUntilConfirmed`, `AccountAskedFor`, `CheckingEnds` |

The bounds are the smallest with which each situation the hazards name occurs: two
pending reservations that only together exceed the limit, a reversal of a settlement and
the settlement that follows it, a vote before and after a
promotion, a day closed again after a correction. Thresholds of the review policy are
constants, so that small amounts meet all three levels; 1,000,000 and 2,500,000 sen in the
code. Symmetry is used in `VenueSeating`, where players and tables are interchangeable, in the
safety runs of the protocol and in `Browser`; no run with a liveness property uses it.

In `VenueSeating` two visits are enough for both seats of a move or a swap, for a visit that is over
beside an open one of the same player or on the same seat, and for a request about each;
`ScopeDecides` and `ReviewStands` are evaluated in it for every command that can be prepared, the
exception of the first among them. In `VenueReview` a cashier's DUAL request has two reviewers, of
whom one may be promoted between the votes, and a manager's has too few: the case `ReviewerRemains`
leaves to `SetupStaffSuffices` occurs. In `VenueDays` `Recent = 1` and `RecentDays = 1` stand for
the 20 entries and requests and the 7 days a page gets besides its own: three requests and two days
are already more than those, so records are left out of nearly every page.

Two operations are enough for the races of the protocol: each property speaks of one
operation or of two, and each operation may be under way in every slot at once. In
`MutationAccess` the commands are
chosen so that each can take away what another relies on: the second administrator of a
venue, the only manager, the role of the caller. The
bounds are `MaxResets`, one sign-in per token, and one import per venue.

In `Browser` one change entered twice is what could be saved twice; the second person matters
because the session may change under a tab while its requests are on their way. In `StaffAccess` a
third document is one restored after a reload; staff ask to sign out with neither place taking the
intent, so that the state in which `HiddenUntilConfirmed` claims nothing is reached, too. In
`ServerWork` three sign-ins fill the slots and the place of the sign-in gate and, with the password
change, the queue of the hashing gate. Three runs of the scripts are a backup and two restores, of
the same file, at once, or one of the safety copy of the other; with two commands a restored
revision is given again to another command. The five subjects share no state, so a behaviour is
about one of them.

**Fairness.** `Answered` assumes `WF_vars(Handle(s))` for each slot: the server goes on with a
request it has begun while it can, which Node and PostgreSQL do. Nothing is assumed of
`Fail`, so no request is answered only because it timed out. Weak fairness is enough
although locks are contended: a slot handles one request in a behaviour, so a lock
cannot be taken away from the same request for ever. `EveryoneAnswered` assumes
`WF(Proceed)`: derivations, statements and exports that have begun come to an end, in some order.
Timers are not assumed to fire at all. `RequestsAnswered` assumes that time passes and the
deadline's timer fires, never that a probe settles. `CheckingEnds` assumes that
effects run and that every call is answered or given up, which `requestManagementJson` enforces
with its timeout.

No command of the venue has to happen (staff may stop working), so
there is no fairness to assume and no liveness to state about it; `ReviewerRemains` is the
safety half of "a day can be closed", for staff that are enough. The same holds of `Browser`: a request may be
uncertain for as long as nobody asks.

## Proofs

Eight modules hold theorems; every step is checked by `tlapm`.

`VenueProofs`, on types: `TypeCorrect == Spec => []TypeOK`. `TypeOK` alone is not inductive: a
reversal looks up the entry it reverses, an opposite amount is only counted if the original was,
and posting looks up the day's cash. The inductive invariant `TypeInv` adds `Linked`: every
day has its total, a request reverses an entry if and only if it is a reversal, that entry is in the
ledger and is not a reversal itself, and the amount of any other entry is natural. Assumptions:
`ThresholdAssumption` and `VenueAssumption`, which TLC evaluates on every run.

`VenueProofs`, on credit: `CreditIsSafe == Spec => []CreditSafe`, for any players, limits and
amounts. `ReservedCredit` is defined as the cardinality of a set of units so that
reservations can be reasoned about with the theorems on finite sets: adding a request adds
a disjoint block (`UnitsAdded`, `BlockSize`) and deciding one removes it
(`ReservedOfDecided`). The invariant `CreditInv` adds to `DebtsWithin`: players with requests, visits or
entries are registered (`PlayersKnown`), CASH players have limit zero (`CashLimits`) and no entry
of theirs moves credit (`CashEntries`), and a reversal request names the player of the
entry it reverses (`ReversalsOfPlayer`). The delicate case is an approval:
a posted buy-in turns a reservation into the same debt, a settlement lowers the debt by no more
than its amount, and a reversal is bounded by the check that counts reservations.

`VenueReviewProofs`, on requests: `ReviewIsIndependent`, `ApprovalPostsOnce`, `PayoutsNeedAdmin` and
`HistoryIsKept`. They share the lemma `StepShape`: any step appends a request without
votes, decides one pending request (a vote, a rejection, or a vote and one posting), or
leaves requests and ledger alone. `PostedOnce` needs that every entry's `approvalId` is a
request that exists (`PostingsKnown`), `PayoutsByAdmin` that the level of a payout's request is
never MANAGER (`AdminLevels`). `ReviewersSuffice == Spec => []ReviewerRemains` is
about any staff: `StaffedFor` says of each request which reviewers its level takes, other than
its author: one supervisor, one administrator, or two supervisors of whom one holds the
administrator's role only (demoted, he could cast the second vote and leave nobody to cast an
administrator's). Its invariant `VotesOpen` is that every vote is some
staff member's and the votes of a request still pending do not complete its review, so only a
DUAL request has any, and it has one vote or no administrator's.

`VenueReviewProofs`, on the floor: `PendingStaysCurrent`, which is inductive with `TypeInv`
and holds whatever the clock does; `BuyInStaysPossible`, from `RulesChecked` (the saved rules and
every table's pass the checks of the forms), where `ConsistentIsPlayable` shows that rules
which pass leave a multiple of the step to buy in with; and `SeatingIsExclusive` and
`LaterVisitsStay`. These two have the hypothesis `~ClockMaySlip`, and need it: a
reversed cash-out seats a visit again if no visit of its player started later, and `VenueClock` shows
a clock with which that is the wrong question. `SeatingInv` adds that visits start
in the order of their records (`InOrder`), that an active visit is its player's last (part of
`Seated`), and that a reversal and its entry are of the same day and visit (`ReversalsMatch`,
`CashOutsKnown`), so that no visit of an earlier day comes back.

`VenueCommandProofs`: `UntouchedReviewStands == Spec => ReviewStands`, for every command its run
looks at (`Prepared`). What may change while the keys stay the same is bounded by two facts.
`Grows`, of any step: visits keep their player, day and start, requests everything but status and
votes, entries everything, and a balance moves only with an entry of its player. `LinkInv`, an
invariant: what a request or an entry says of its visit's player is true (`VisitKnown`), and a
cash-out nobody has reversed is its visit's only one, at the table the visit is still at
(`CashOutsStand`) - without it the table key of the entry would not cover the table a reversed
cash-out seats the visit at again. `PlayerStill`, `SeatStill`, `ReversalStill` and the others say
what each kind of key vouches for, and one lemma per command that its keys vouch for everything its
verdict reads.

The same module proves `FewRowsDecide == Spec => []ScopeDecides`, for every command, those that
create and close tables and change rules included. Its one exception, `Unread`, is stated with the
outcome: there the scope accepts what the records would refuse. It rests on `TypeInv` and `LinkInv`
only: a scope is a function of one state. What a command looks up by key is read with it
(`VisitsSeen` and the lemmas after it); the harder half is what it decides by the *absence* of a
row: that nobody sits there, that no later visit exists, that no pending request is in the way.
There the load reads not all such rows but the last visit of a player, or the first blocker, and the
scope must find one exactly when the venue has one. `LeastOf` and `GreatestOf` (by well-founded
induction on `<`) supply the row the load would have chosen. A swap needs `VisitKnown` besides: the
players whose seats are looked up are those the two visits name.

`VenueLedgerProofs`: `SummariesAddUp == Spec => []RollupsMatchLedger` and `MoneyIsConserved`, which
has the hypothesis that the set of players is finite, as a sum over them needs. The
properties add up sets of entries with folds, which pick elements with a `CHOOSE`, so the first half
is about sums. `SumExists`: the recursion they are defined by has a solution, by well-founded
induction on the size of the set. `AddsAgree` and `AddsRemove`: the sum does not depend on what else
could be added up, nor on the order. `SumExtended` and `SumChanged`: one more element adds its term,
one changed term changes the sum by as much. `LedgerInv` adds to `RollupsMatchLedger` that every
entry is of a day there is, without which the total a new day begins with, zero, need not be
right. `MoneyInv` adds to `MoneyConserved` that every single entry moves cash and debt,
together, by its value, whether settled against credit or paid (`ImpactBalances`), and that a reversal
is of an entry in the ledger that is no reversal itself, so what it moves, the opposite, is the
opposite of a value (`PostingBalanced`).

The same module proves `BackupsAreAccepted == ~ClockMaySlip => (Spec => []BackupAccepted)`; a check
of a backup is that seats are exclusive, hence the hypothesis. Much of it follows from the
invariants above; `BackupInv` is the rest. `DaysRight`: every day but the last is closed, and the
last count of a closed day was compared with what the drawer should hold now. `VisitsRight` and
`RequestsLinked`: what records refer to exists (`Stays`: nothing a step does unmakes it).
`EntriesCopied`: an entry says what its request said, so links need only be followed from requests.
`VotesTell`: the vote that completes a review is its last. `ReversedOnce`: a pending reversal is its
entry's only one. The replay is `ReplayInv`. It compares each entry with the entries before it,
where the commands looked at balances and visits of the moment. `PastStays` says that what lies
before an entry stays as it was, so only the entry just posted is to be compared, and for that one
the balance of the moment *is* the replayed one (`LedgerInv`), and the visit of the moment is
active, or cashed out once, exactly if the replay finds none or one cash-out that stands
(`CashOutsStand`, `OutRight`).

The last theorem of the module is `ScreensAreTrue == ~ClockMaySlip => (Spec => []ScreensTrue)`. It
needs no invariant but those above (`ReadInv`): what a page shows is a function of one state. It has
two halves. One is about which records are sent. `SnapshotSent`: a snapshot has the newest pending
requests and days, every active visit, and the latest visits of the players it names, today and on
the days asked for. `NewestKept` and `LatestKept`: the newest or latest of what was sent are then the
newest or latest of all there is. `ReferencesThere`: what records refer to exists, which with the
loads by id gives `Explained`. The other half is about totals. The server's rollup adds every amount to
one column, with its sign; the browser's functions sum the types a column counts and subtract
the sum of those it deducts. `SumWithSigns`, `SumOfDifferences`, `ColumnIs` and `RollupIs` show that
these agree, and `DebtShown`, `CashShown` and `TotalsShown` that balances, a day's expected cash and its
columns come out alike from rollups and from entries. `ReadsAssumption` is that a page shows at
least one row. The hypothesis is that of `SeatingIsExclusive`: only if a player's active visit is his
latest does his latest visit tell whether he is seated.

`MutationProofs`, on accounts: `AdministratorRemains == Spec => []AdminRemains` and
`RevokedSessionsStayOut == Spec => []RevokedStaysOut`, for any venues, people, requests
and commands at once. Assumptions: `AccountsAssumption`, `MutationsAssumption`, and
`AdminAssumption`, that every venue has an administrator when staff begin to use it. The
administrator rule is checked when a request is authorised and must hold when it
commits, so `AdminRemains` alone is not inductive. `AccountInv` adds `LockHeld`, that a request
that will change accounts holds their lock from reading the caller's access to its end, and
`AllJustified`, that what it was authorised on (`StaffMay`, `OperatorMay`, the
creator of a venue being active) is true of the accounts as they are now: only the
holder of the lock changes them (`LockOfOthers`). `AdminsStay` is the heart of it: a
change of one person's account leaves the venue another active administrator. For
sessions, `CommandRevokes` shows that a command closes the target's sessions or creates the
account, and `SignInRevoked` that a sign-in compares the hash again.

`MutationProofs`, on what is committed: `MutationTypes`, `ReviewsAreCurrent`,
`AccessIsHeld`, `SetupIsCovered`, `EveryChangeHasItsRevision` and `EffectsAreOnce`, the refinement
of `OnceOnly`, for any venues, forms, keys and requests at once. They rest on one invariant,
`CommitInv`, which says for each phase of a transaction what the locks it has taken so far protect:
the rows it has locked are at the revision it read (`Holds`), and what it decided on (caller's
role, versions of the keys, staff of the venue, limits of resets) is true now
(`DecisionHeld`). Three parts are about the database. `Traced`: whatever a form was prepared on
and is no longer so has left its mark in the change versions or in the floor, which is why
comparing versions is enough. `SettledOnce`: an operation was applied at most once, its receipts
say how it was settled, and an applied one has a receipt where a repetition will look.
`Numbered`: no receipt is ahead of its venue's revision and no two changes share one. The lemmas
follow the steps: `Commits` and the others change only rows they hold, so everyone else's part of
the invariant stays. The refinement then follows from `SettledOnce` before and after a commit.
Besides the assumptions above these use `ReceiptAssumption` (a hash is never the
fingerprint that marks a cancellation, `operation-recovery.ts:10`) and `RolesAssumption` (roles are in
venues that exist, a foreign key of `schema.ts:16`). Proving it also showed that two arms of the
`CASE` in `Outcome` overlapped; they no longer do.

`StaffAccessProofs`: `HiddenUntilConfirmedAlways` and `AccountAskedForAlways`, for any accounts and
any number of reads at once. The inductive invariant is `Inv`: `TypeInv`; `Hidden`, that a tab asked
to sign out is locked, or has yet to look for an intent that is still where `kept` says it was put,
and that a locked document, and one that has not looked yet, shows nobody; and `Asked`, that while a
sign-in is expected to answer, every fresh read expects that account. Without `Asked` a read begun
for another account could be heard after the sign-in.

`BrowserProofs`: `AnswersAreTrue`, `NothingIsForgotten` and `SavesAreShown`, for any tabs, people,
changes, operations and reads on their way; the only assumption is `BrowserAssumption`. The
inductive invariant `Inv` says what ties storage, tabs and messages together. `OpsOK`: a checkpoint
is in the storage exactly while staff have been told nothing, and an operation they were told was
not saved is cancelled, or is known to no tab and on its way in no request that could save it.
`OnePerIntent`: of the operations for one change at most one is open or saved. `TabsOK`: after a tab
has listed the checkpoints no operation of its change is open and no other tab has listed for the
same change (this bridges the gap between listing and writing), no two tabs are uncertain of the
same operation, and a first attempt has no other copy on its way. That last part is why a refusal of
the first attempt, and of no later one, may release the checkpoint. `MsgsOK` and `RepliesOK`: a tab
waits for one request or one answer, of the operation it is busy with.

`ServerWorkProofs`, on gates: `GatesStayFair` and `NewerAttemptsStay`, for any jobs, gates, slots,
accounts and limits; and `ReportsAreCurrent`, for any configurations, requests and changes of
configuration. `GatesInv`: whoever has a slot is at a step in which he needs it, whoever
queues is waiting there and only once, and nobody queues beside a free slot. It needs lemmas
on sequences: what `Taken` starts, drops and leaves of a queue, and `RemoveAtIs`. `CountInv`: an
account's counter, in the window of a claim, is at least what that claim counted, and equal only
if the claim is the latest. `ReadinessInv`: a kept outcome is of the generation of its
probe, and whoever waits does so for a probe of the generation he asked in. `ReadinessAssumption`
says that the values for "nothing" are none of the others.

`ServerWorkProofs`, on backups: `SavedChangesAreKept` and `ReviewsEndWithRestore`, for any commands,
sign-ins and runs of the scripts; the only assumption is `BackupAssumption`. The invariant `BackupInv`
adds: what a restore has read of the tables it locked is what they hold, and nobody else has locked
them (`ScriptOK`); how far a script is tells what is on the disk, so at the replacement the copy
of the old records is published and durable (`FileOK`); and a command whose sign-in still counts
was reviewed after the last restore (`CommandOK`).

Model-checked only: `Answered`, `CheckingEnds`, `EveryoneAnswered` and `RequestsAnswered`, which are
liveness under fairness and out of the provers' reach.

## Disagreements found

* **Later visits are decided by the wall clock.** `validateEntry` compares `sessionStart`
  (`src/domain/operations.ts:879`) although the operating rules promise "no later visit"
  (`README.md:208`) and the data guide warns that "wall-clock timestamps are not a
  substitute" for record order (`docs/data-integrity-and-recovery.md:17`). Run
  `VenueClock`: with a clock that steps back between two check-ins, an older visit is
  reopened after a later one was settled. With an ordered clock the property holds (`VenueCredit`).
* **Setup accepts staff who cannot decide a DUAL request.** The operating guide calls "an admin and a
  separate cashier" sufficient (`README.md:79`) and `COMPLETE_SETUP` checks just that
  (`src/server/repository.ts:155-178`). A cashier's request from the dual threshold on takes two
  reviewers; `canApprove` refuses whoever has voted, and `DECIDE` asks it before a rejection, too
  (`src/domain/operations.ts:67-75, 766`). Run `VenueSmallStaff`: once the administrator has
  voted, nobody may approve or reject the request, and the day cannot be closed
  until somebody else is given a reviewer's role. `ReviewerRemains` states what staff are enough.

One difference is between two uses of the same code and contradicts no document, so it has no run. A
table created with status CLOSED has no id yet, and `applyCommand` compares that with the table ids of
pending requests (`src/domain/operations.ts:269-276`): on complete records, as in the prototype
(`src/prototype/runtime.ts:398`), a pending repayment or limit change, which has no table either,
refuses the creation. The server reads such requests only for a table with an id
(`src/server/command-store.ts:150-154`) and creates it. `CreateTable` is the server's, and `Unread`
in `ScopeDecides` is the difference.

## Limits

* One venue: venues share no records except staff accounts.
* Amounts are unbounded integers; the code refuses sums outside the safe-integer range.
* The database is taken at its word: a commit is atomic, a rollback leaves nothing, a lock
  has one holder.
* `Backups` takes a command to be sent with the sign-in it was reviewed under. A tab left open over
  a restore and signed in again could send an older form: the floor refuses revisions below the
  backup's, but later ones are given again. That is why staff are to close other tabs
  (`README.md:110`).
* `Backups` does not model the preview, the offline verification, file limits, or what a backup's
  validation requires beyond receipts (`VenueIntegrity` has the financial part). The directory of
  the backups is taken to be on the disk already, and its sync, which is skipped on Windows
  (`docs/data-integrity-and-recovery.md:60`), to be done. `replaceStore` on its own, as an import,
  is in `Mutations`.
* `ReviewStands` leaves out three commands whose keys do not name all they are checked against:
  closing a table, which looks for visits and requests there, creating one closed, which would look
  for requests without a table (above), and `UPDATE_SETTINGS`, whose rules
  must fit the tables' own. They are validated again when they run and write what their author
  sent, so a change meanwhile refuses them or does not matter. `ScopeDecides` includes them.
* `HiddenUntilConfirmed` claims nothing of a new document when the intent was not written down where
  it would find it: if neither the storage nor the address took it, or if only the address did
  and staff navigate elsewhere in the tab. Such a document shows the account if its session is
  still open. The guide says so of a reload when both fail, and tells staff to keep the page open
  and retry (`docs/production-readiness.md:224`).
* `Browser` has no drafts, no background refresh beyond "records may arrive at any time", and no
  change of venue; its server is one step per request, which `Mutations` justifies.
* `VenueReads` shows one row per page and leaves out searching, sorting and formats.

### Not modelled

Most of the repository's lines have no state a model could be wrong about: React views,
dialogs, message catalogues and styling (`src/components`, `src/messages`), operator, load-test and
recovery-drill scripts (`scripts`), prototype mode, which runs the same `applyCommand` on sample
data, and the plumbing around the database (pool, schema migration, configuration
checks, HTTP mapping). The reasons are under "components" in `PROJECT.json`. Of the server and
domain code that is modelled, what is left out is wording, validation of formats, searching and
sorting.
