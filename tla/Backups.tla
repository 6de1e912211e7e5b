------------------------------ MODULE Backups ------------------------------
(***************************************************************************)
(* Backups and restores while staff work: what a script reads from the     *)
(* database, how it publishes the file, and the replacement of all records *)
(* by those of a file (backup.ts, backup-files.ts, backup-local.ts).       *)
(*                                                                         *)
(* Scripts and commands run at the same time; any of them, or the power,   *)
(* may fail between two steps.  The database loses nothing it committed; a *)
(* name in a directory may be lost until the directory is synced.          *)
(***************************************************************************)
EXTENDS Naturals

CONSTANTS
    Commands,   \* as prepared by staff, with their operation ids
    MaxScripts, \* bound: runs of local:backup and local:restore
    MaxSignIns  \* bound: sign-ins; each opens a session with a new token

ASSUME BackupAssumption == MaxScripts \in Nat /\ MaxSignIns \in Nat

\* In the order they start.  Each publishes at most one file, under a name of its own.
Scripts == 1 .. MaxScripts

VARIABLES
    database,   \* records, receipts, revision, floor and sessions
    disk,       \* [Scripts -> the file of each in .local/backups]
    scripts,    \* [Scripts -> a run and what it has read]
    commands,   \* [Commands -> what was reviewed, under which sign-in, and how far it is]
    signedIn,   \* how many tokens were issued
    restores    \* history: how many restores were committed

backupVars == <<database, disk, scripts, commands, signedIn, restores>>

\* Everything a backup contains: the commands whose changes are in the records, and the
\* revision in the receipt of each (0: there is none).
Snapshots == [records : SUBSET Commands, receipts : [Commands -> Nat], revision : Nat]
NoRecords == [records |-> {}, receipts |-> [c \in Commands |-> 0], revision |-> 0]

Stages == {"idle", "asked", "locked", "reading", "captured", "staged", "linked", "saved", "ended"}

NewScript == [mode |-> "backup", at |-> "idle", source |-> NoRecords, copy |-> NoRecords,
              view |-> NoRecords.receipts]
EndedScript == [NewScript EXCEPT !.at = "ended"]

NoFile == [content |-> NoRecords, linked |-> FALSE, durable |-> FALSE]

\* A command that is new, saved or refused.
Command(at) == [at |-> at, token |-> 0, revision |-> 0, since |-> 0]

DatabaseType == [records : SUBSET Commands, receipts : [Commands -> Nat], revision : Nat,
                 floor : Nat, sessions : SUBSET (1 .. MaxSignIns)]
FileType == [content : Snapshots, linked : BOOLEAN, durable : BOOLEAN]
ScriptType == [mode : {"backup", "restore"}, at : Stages, source : Snapshots, copy : Snapshots,
               view : [Commands -> Nat]]
CommandType == [at : {"new", "reviewed", "open", "saved", "refused"}, token : 0 .. MaxSignIns,
                revision : Nat, since : Nat]

BackupTypeOK ==
    /\ database \in DatabaseType
    /\ disk \in [Scripts -> FileType]
    /\ scripts \in [Scripts -> ScriptType]
    /\ commands \in [Commands -> CommandType]
    /\ signedIn \in 0 .. MaxSignIns /\ restores \in Nat

----------------------------------------------------------------------------
(* Locks.                                                                  *)

\* Mutant: the tables are locked in a mode that others may go on in.
UnlockedForOthers == TRUE

\* A restore holds all tables ACCESS EXCLUSIVE until it ends: nobody else reads or writes.
Unlocked ==
    \A s \in Scripts :
        scripts[s].mode = "backup" \/ scripts[s].at \in {"idle", "asked", "ended"}

\* It gets them when every transaction that has read from one of them is over.
Undisturbed ==
    /\ Unlocked
    /\ \A s \in Scripts : scripts[s].at # "reading"
    /\ \A c \in Commands : commands[c].at # "open"

----------------------------------------------------------------------------
(* Staff.                                                                  *)

SignIn ==
    /\ Unlocked /\ signedIn < MaxSignIns
    /\ signedIn' = signedIn + 1
    /\ database' = [database EXCEPT !.sessions = @ \cup {signedIn'}]
    /\ UNCHANGED <<disk, scripts, commands, restores>>

\* A command is prepared on the records and sent with the sign-in of its tab.
Review(c, t) ==
    /\ Unlocked /\ commands[c].at = "new"
    /\ commands' = [commands EXCEPT ![c] = [at |-> "reviewed", token |-> t,
                                            revision |-> database.revision, since |-> restores]]
    /\ UNCHANGED <<database, disk, scripts, signedIn, restores>>

\* mutate() reads the caller's access, and has read from the tables.
BeginCommand(c) ==
    /\ Unlocked /\ commands[c].at = "reviewed" /\ commands[c].token \in database.sessions
    /\ commands' = [commands EXCEPT ![c].at = "open"]
    /\ UNCHANGED <<database, disk, scripts, signedIn, restores>>

\* It reads the access again; the review must be of the floor's revision or a later one.
\* Whether a key of the command changed since does not matter here.
CommitCommand(c) ==
    LET revision == database.revision + 1 IN
    /\ Unlocked /\ commands[c].at = "open" /\ commands[c].token \in database.sessions
    /\ database.receipts[c] = 0
    /\ commands[c].revision \in database.floor .. database.revision
    /\ database' = [database EXCEPT !.records = @ \cup {c}, !.revision = revision,
                                    !.receipts = [@ EXCEPT ![c] = revision]]
    /\ commands' = [commands EXCEPT ![c] = Command("saved")]
    /\ UNCHANGED <<disk, scripts, signedIn, restores>>

\* A check fails, or the request is lost.
RefuseCommand(c) ==
    /\ commands[c].at \in {"reviewed", "open"}
    /\ commands' = [commands EXCEPT ![c] = Command("refused")]
    /\ UNCHANGED <<database, disk, scripts, signedIn, restores>>

----------------------------------------------------------------------------
(* A script reads the records.                                             *)

Starts(s) == scripts[s].at = "idle" /\ \A earlier \in 1 .. s - 1 : scripts[earlier].at # "idle"

\* parseBackup(): no receipt is of a revision the records have not reached.
Parses(snapshot) == \A c \in Commands : snapshot.receipts[c] <= snapshot.revision

\* A complete file that readBackupFile() accepts.
Readable(f) == disk[f].linked /\ Parses(disk[f].content)

AskRestore(s, f) ==
    /\ Starts(s) /\ Readable(f)
    /\ scripts' = [scripts EXCEPT ![s] = [@ EXCEPT !.mode = "restore", !.at = "asked",
                                                   !.source = disk[f].content]]
    /\ UNCHANGED <<database, disk, commands, signedIn, restores>>

LockTables(s) ==
    /\ scripts[s].at = "asked" /\ Undisturbed
    /\ scripts' = [scripts EXCEPT ![s].at = "locked"]
    /\ UNCHANGED <<database, disk, commands, signedIn, restores>>

RecordsOf(d) == [records |-> d.records, receipts |-> NoRecords.receipts, revision |-> d.revision]

\* The records are read first.  A backup's transaction is REPEATABLE READ: what it will read
\* of the receipts is what they are now.
ReadRecords(s) ==
    /\ \/ Starts(s) /\ Unlocked
       \/ scripts[s].at = "locked"
    /\ scripts' = [scripts EXCEPT ![s] = [@ EXCEPT !.at = "reading", !.view = database.receipts,
                                                   !.copy = RecordsOf(database)]]
    /\ UNCHANGED <<database, disk, commands, signedIn, restores>>

\* A restore's transaction is READ COMMITTED, and relies on its locks.
ReceiptsRead(s) == IF scripts[s].mode = "backup" THEN scripts[s].view ELSE database.receipts

\* captureBackup() parses what it has read; captureUnverified() of a restore does not.
ReadReceipts(s) ==
    LET copy == [scripts[s].copy EXCEPT !.receipts = ReceiptsRead(s)] IN
    /\ scripts[s].at = "reading" /\ (scripts[s].mode = "backup" => Parses(copy))
    /\ scripts' = [scripts EXCEPT ![s] = [@ EXCEPT !.at = "captured", !.copy = copy,
                                                   !.view = NoRecords.receipts]]
    /\ UNCHANGED <<database, disk, commands, signedIn, restores>>

----------------------------------------------------------------------------
(* The file (write of createBackupFileAccess).                             *)

\* Written and synced under a name nobody reads, and published under another when complete.
Stage(s) ==
    /\ scripts[s].at = "captured"
    /\ scripts' = [scripts EXCEPT ![s].at = "staged"]
    /\ UNCHANGED <<database, disk, commands, signedIn, restores>>

Link(s) ==
    /\ scripts[s].at = "staged"
    /\ disk' = [disk EXCEPT ![s] = [content |-> scripts[s].copy, linked |-> TRUE, durable |-> FALSE]]
    /\ scripts' = [scripts EXCEPT ![s].at = "linked"]
    /\ UNCHANGED <<database, commands, signedIn, restores>>

\* The staging name is removed and the directory synced, with every name in it.
SyncDirectory(s) ==
    /\ scripts[s].at = "linked"
    /\ disk' = [f \in Scripts |-> [disk[f] EXCEPT !.durable = @ \/ disk[f].linked]]
    /\ scripts' = [scripts EXCEPT ![s].at = "saved"]
    /\ UNCHANGED <<database, commands, signedIn, restores>>

EndBackup(s) ==
    /\ scripts[s].mode = "backup" /\ scripts[s].at = "saved"
    /\ scripts' = [scripts EXCEPT ![s] = EndedScript]
    /\ UNCHANGED <<database, disk, commands, signedIn, restores>>

----------------------------------------------------------------------------
(* The replacement.                                                        *)

\* Mutant: poker_sessions is left alone.
SessionsKept == database.sessions

\* Nobody stays signed in.
SessionsLeft == {}

\* All tables are emptied and filled from the file; replaceStore() makes its revision the floor.
CommitRestore(s) ==
    LET source == scripts[s].source IN
    /\ scripts[s].mode = "restore" /\ scripts[s].at = "saved"
    /\ database' = [records |-> source.records, receipts |-> source.receipts,
                    revision |-> source.revision, floor |-> source.revision,
                    sessions |-> SessionsLeft]
    /\ restores' = restores + 1
    /\ scripts' = [scripts EXCEPT ![s] = EndedScript]
    /\ UNCHANGED <<disk, commands, signedIn>>

\* A step throws, the script or its connection dies: its transaction is rolled back, and what
\* it has published stays.
ScriptFails(s) ==
    /\ scripts[s].at \notin {"idle", "ended"}
    /\ scripts' = [scripts EXCEPT ![s] = EndedScript]
    /\ UNCHANGED <<database, disk, commands, signedIn, restores>>

\* The power fails: names the directory was not synced with may be gone.
PowerFails(gone) ==
    /\ \A f \in gone : disk[f].linked /\ ~disk[f].durable
    /\ disk' = [f \in Scripts |-> IF f \in gone THEN NoFile ELSE disk[f]]
    /\ scripts' = [s \in Scripts |->
                     IF scripts[s].at = "idle" THEN scripts[s] ELSE EndedScript]
    /\ commands' = [c \in Commands |->
                      IF commands[c].at = "open" THEN Command("refused") ELSE commands[c]]
    /\ UNCHANGED <<database, signedIn, restores>>

----------------------------------------------------------------------------

BackupInit ==
    /\ database = [records |-> {}, receipts |-> [c \in Commands |-> 0], revision |-> 0,
                   floor |-> 0, sessions |-> {}]
    /\ disk = [s \in Scripts |-> NoFile]
    /\ scripts = [s \in Scripts |-> NewScript]
    /\ commands = [c \in Commands |-> Command("new")]
    /\ signedIn = 0 /\ restores = 0

BackupNext ==
    \/ SignIn
    \/ \E c \in Commands, t \in database.sessions : Review(c, t)
    \/ \E c \in Commands : BeginCommand(c) \/ CommitCommand(c) \/ RefuseCommand(c)
    \/ \E s, f \in Scripts : AskRestore(s, f)
    \/ \E s \in Scripts :
           \/ LockTables(s) \/ ReadRecords(s) \/ ReadReceipts(s)
           \/ Stage(s) \/ Link(s) \/ SyncDirectory(s) \/ EndBackup(s)
           \/ CommitRestore(s) \/ ScriptFails(s)
    \/ \E gone \in SUBSET Scripts : PowerFails(gone)

BackupSpec == BackupInit /\ [][BackupNext]_backupVars

----------------------------------------------------------------------------
(* Properties.                                                             *)

\* Records and receipts tell the same commands.
Whole(snapshot) == snapshot.records = {c \in Commands : snapshot.receipts[c] # 0}

\* In the database, or in a file that survives the power.
InSafety(c) ==
    \/ c \in database.records
    \/ \E f \in Scripts : disk[f].linked /\ disk[f].durable /\ c \in disk[f].content.records

\* Whatever fails and when, a change that was saved is in the database or in a file that
\* survives the power, and wherever records are kept a saved change has its receipt, so that
\* it is neither repeated nor denied (restoreBackup's locks and safety copy, captureBackup).
SavedIsKept ==
    /\ Whole(database)
    /\ \A f \in Scripts : disk[f].linked => Whole(disk[f].content)
    /\ \A c \in Commands : commands[c].at = "saved" => InSafety(c)

\* No command is saved that was reviewed on the records before a restore, though revisions
\* are given again after it (restoreBackup closes every session).
RestoreReviewed ==
    [][\A c \in Commands : commands'[c].at = "saved" /\ commands[c].at # "saved" =>
           commands[c].since = restores]_backupVars

============================================================================
