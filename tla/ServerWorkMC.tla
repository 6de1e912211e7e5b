---------------------------- MODULE ServerWorkMC ----------------------------
(***************************************************************************)
(* One server process, its operator's scripts and a tab that signs in and  *)
(* out, with values of the constants for TLC.  What the process admits,    *)
(* what it reports about its readiness, what scripts do to the database    *)
(* and whose access a tab shows share nothing, and neither do sign-ins and *)
(* exports: a behaviour is about one of them.                              *)
(***************************************************************************)
EXTENDS Admission, Readiness, Backups, StaffAccess

CONSTANTS j1, j2, j3, h1, e1, e2, ann, ben, r1, r2, r3, main, spare, moved, bad, k1, k2

VARIABLE subject

Ann == [j \in SignIns |-> ann]
TwoSlots == [g \in Gates |-> IF g = "login" THEN 2 ELSE 1]
FewPlaces == [g \in Gates |-> CASE g = "login" -> 1 [] g = "hash" -> 2 [] g = "export" -> 0]

\* spare differs from main in what needs no other pool.
Pool == [k \in Configurations |-> IF k = moved THEN moved ELSE main]

\* A tab on the login page in which nothing is under way.
AccessIdle ==
    /\ cookie = Nobody /\ doc = Restored("login")
    /\ reads = {} /\ signIn = NoSignIn /\ signOut = FALSE
    /\ marks = [stored |-> FALSE, url |-> FALSE]
    /\ asked = FALSE /\ kept = {} /\ documents = 0

Init ==
    /\ AdmissionInit /\ ReadinessInit /\ BackupInit
    /\ subject \in {"signIn", "export", "health", "backup", "access"}
    /\ subject = "health" \/ environment = main
    /\ IF subject = "access" THEN AccessInit ELSE AccessIdle

Idle(jobs) == \A j \in jobs : step'[j] = "new"

Serve ==
    \/ /\ subject = "signIn" /\ AdmissionNext /\ Idle(Exports)
       /\ UNCHANGED <<readinessVars, backupVars>>
    \/ /\ subject = "export" /\ AdmissionNext /\ Idle(Jobs \ Exports)
       /\ UNCHANGED <<readinessVars, backupVars>>
    \/ subject = "health" /\ ReadinessNext /\ UNCHANGED <<admissionVars, backupVars>>
    \/ subject = "backup" /\ BackupNext /\ UNCHANGED <<admissionVars, readinessVars>>

Next ==
    /\ UNCHANGED subject
    /\ \/ Serve /\ UNCHANGED accessVars
       \/ /\ subject = "access" /\ AccessNext
          /\ UNCHANGED <<admissionVars, readinessVars, backupVars>>

Spec == /\ Init /\ [][Next]_<<admissionVars, readinessVars, backupVars, accessVars, subject>>
        /\ AdmissionFairness /\ ReadinessFairness /\ AccessFairness
============================================================================
