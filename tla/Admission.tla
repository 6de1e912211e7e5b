----------------------------- MODULE Admission -----------------------------
(***************************************************************************)
(* The work a server process admits at once: sign-ins, the derivation of   *)
(* password hashes inside and outside of them, and exports                 *)
(* (password-work.ts, login-admission.ts, csv-export-work.ts, auth.ts).    *)
(*                                                                         *)
(* A gate has a few slots and a queue.  A sign-in holds a slot of the      *)
(* sign-in gate while it counts the attempt and waits for, and then holds, *)
(* a slot of the hashing gate.  Timers may fire long after their time.     *)
(***************************************************************************)
EXTENDS Naturals, FiniteSets, Sequences, SequencesExt

CONSTANTS
    SignIns, Hashes, Exports,   \* jobs of each kind
    Accounts,
    AccountOf,                  \* [SignIns -> Accounts]
    Right,                      \* the sign-ins whose password is right
    Slots, Places,              \* [Gates -> Nat]: WorkLimits.active and .queued
    Limit,                      \* LOGIN_LIMITS.accountAttempts
    Budget,                     \* LOGIN_LIMITS.globalAttempts
    None

Gates == {"login", "hash", "export"}
Jobs == SignIns \cup Hashes \cup Exports

ASSUME AdmissionAssumption ==
    /\ AccountOf \in [SignIns -> Accounts] /\ Right \subseteq SignIns
    /\ Slots \in [Gates -> Nat \ {0}] /\ Places \in [Gates -> Nat]
    /\ Limit \in Nat \ {0} /\ Budget \in Nat \ {0}
    /\ None \notin Jobs

VARIABLES
    holds,     \* [Gates -> SUBSET Jobs]: the slots taken
    queue,     \* [Gates -> Seq(Jobs)]
    late,      \* jobs whose deadline in a queue has passed
    step,      \* [Jobs -> Steps]
    answer,    \* [Jobs -> what the caller was told]
    attempts,  \* poker_login_attempts: a counter and its window for each account
    used,      \* poker_login_budget.attempts, in its window
    claim,     \* [SignIns -> the counter as a sign-in found it]
    latest     \* history: the sign-in counted last in each account's window

gateVars == <<holds, queue, late>>
countVars == <<attempts, used, claim, latest>>
admissionVars == <<gateVars, step, answer, countVars>>

Steps == {"new", "waiting", "claim", "verify", "waitingHash", "hashing", "hashed", "work", "done"}

----------------------------------------------------------------------------
(* createWorkGate                                                          *)

GateOf(j) == IF j \in SignIns THEN "login" ELSE IF j \in Hashes THEN "hash" ELSE "export"

\* What a job does in a slot it gets, and while it waits for one.
Running(g, j) == IF g = "login" THEN "claim" ELSE IF g = "hash" THEN "hashing" ELSE "work"
Waiting(g) == IF g = "hash" THEN "waitingHash" ELSE "waiting"

HasSlot(g) == Cardinality(holds[g]) < Slots[g]

\* run(): start, wait, or be turned away at once.
EnterGate(g, j) ==
    \/ /\ HasSlot(g)
       /\ holds' = [holds EXCEPT ![g] = @ \cup {j}]
       /\ step' = [step EXCEPT ![j] = Running(g, j)]
       /\ UNCHANGED <<queue, late, answer>>
    \/ /\ ~HasSlot(g) /\ Len(queue[g]) < Places[g]
       /\ queue' = [queue EXCEPT ![g] = Append(@, j)]
       /\ step' = [step EXCEPT ![j] = Waiting(g)]
       /\ UNCHANGED <<holds, late, answer>>
    \/ /\ ~HasSlot(g) /\ Len(queue[g]) >= Places[g]
       /\ step' = [step EXCEPT ![j] = "done"]
       /\ answer' = [answer EXCEPT ![j] = "busy"]
       /\ UNCHANGED gateVars

Arrive(j) ==
    /\ step[j] = "new"
    /\ EnterGate(GateOf(j), j)
    /\ UNCHANGED countVars

DeadlinePasses(g, j) ==
    /\ j \in Range(queue[g]) \ late
    /\ late' = late \cup {j}
    /\ UNCHANGED <<holds, queue, step, answer, countVars>>

\* Mutant: a job whose time is over is taken from the queue and forgotten.
DroppedSilently(js) == step' = step /\ answer' = answer

\* expire(): the caller hears that the service is busy, and a sign-in is over with its hash.
Expired(js) ==
    /\ step' = [j \in Jobs |-> IF j \in js THEN "done" ELSE step[j]]
    /\ answer' = [j \in Jobs |-> IF j \in js THEN "busy" ELSE answer[j]]

TimerFires(g, j) ==
    /\ j \in late
    /\ \E i \in 1..Len(queue[g]) :
          queue[g][i] = j /\ queue' = [queue EXCEPT ![g] = RemoveAt(@, i)]
    /\ late' = late \ {j}
    /\ Expired({j})
    /\ UNCHANGED <<holds, countVars>>

\* Mutant: after an expired job the next one is not looked at.
TakenOne(q) ==
    IF q = <<>> THEN [over |-> {}, started |-> {}, rest |-> q]
    ELSE [over |-> {q[1]} \cap late, started |-> {q[1]} \ late, rest |-> Tail(q)]

\* Who expires, who starts and who goes on waiting when a slot is free: the first one still in
\* time starts, and those before it, whose timers lag, expire.
Taken(q) ==
    LET first == Min({i \in 1..Len(q) : q[i] \notin late} \cup {Len(q) + 1})
    IN  [over |-> {q[i] : i \in 1..(first - 1)},
         started |-> {q[i] : i \in {first} \cap 1..Len(q)},
         rest |-> SubSeq(q, first + 1, Len(q))]

\* The finally of a job that has settled.
Release(g, j) ==
    LET t == Taken(queue[g]) IN
    /\ j \in holds[g]
    /\ IF g = "hash" THEN step[j] # "hashing" ELSE step[j] = "done"
    /\ holds' = [holds EXCEPT ![g] = (@ \ {j}) \cup t.started]
    /\ queue' = [queue EXCEPT ![g] = t.rest]
    /\ late' = late \ t.over
    /\ step' = [k \in Jobs |-> IF k \in t.started THEN Running(g, k)
                               ELSE IF k \in t.over THEN "done" ELSE step[k]]
    /\ answer' = [k \in Jobs |-> IF k \in t.over THEN "busy" ELSE answer[k]]
    /\ UNCHANGED countVars

----------------------------------------------------------------------------
(* The work.                                                               *)

End(j, result) ==
    /\ step' = [step EXCEPT ![j] = "done"]
    /\ answer' = [answer EXCEPT ![j] = result]

\* A derivation or an export ends, well or with an error.
HashEnds(j) ==
    /\ step[j] = "hashing"
    /\ IF j \in SignIns
       THEN step' = [step EXCEPT ![j] = "hashed"] /\ UNCHANGED answer
       ELSE End(j, "made")
    /\ UNCHANGED <<gateVars, countVars>>

ExportEnds(j) ==
    /\ step[j] = "work"
    /\ End(j, "made")
    /\ UNCHANGED <<gateVars, countVars>>

\* A counter that stops one above its limit and starts anew with a window.
NoCounter == [count |-> 0, window |-> None]
Counted(counter, j) ==
    IF counter = NoCounter THEN [count |-> 1, window |-> j]
    ELSE [counter EXCEPT !.count = IF @ > Limit THEN @ ELSE @ + 1]

\* claimLoginAttempt: the process's budget first, then the account's counter.
ClaimAttempt(j) ==
    LET a == AccountOf[j]
        mine == Counted(attempts[a], j)
        within == IF used > Budget THEN used ELSE used + 1
    IN  /\ step[j] = "claim"
        /\ used' = within
        /\ IF within > Budget
           THEN End(j, "tooMany") /\ UNCHANGED <<attempts, claim, latest>>
           ELSE /\ attempts' = [attempts EXCEPT ![a] = mine]
                /\ claim' = [claim EXCEPT ![j] = IF mine.count > Limit THEN @ ELSE mine]
                /\ latest' = [latest EXCEPT ![a] = j]
                /\ IF mine.count > Limit THEN End(j, "tooMany")
                   ELSE step' = [step EXCEPT ![j] = "verify"] /\ UNCHANGED answer
        /\ UNCHANGED gateVars

\* The windows pass: a counter starts anew, or is removed, with the next claim.
AccountWindowPasses(a) ==
    /\ attempts[a] # NoCounter
    /\ attempts' = [attempts EXCEPT ![a] = NoCounter]
    /\ latest' = [latest EXCEPT ![a] = None]
    /\ UNCHANGED <<gateVars, step, answer, used, claim>>

\* (Before the budget is used up, nobody could tell.)
BudgetWindowPasses ==
    /\ used >= Budget /\ used' = 0
    /\ UNCHANGED <<gateVars, step, answer, attempts, claim, latest>>

\* verifyPassword derives a hash, for unknown accounts as well.
Verify(j) ==
    /\ step[j] = "verify"
    /\ EnterGate("hash", j)
    /\ UNCHANGED countVars

\* Mutant: whatever was counted meanwhile, the counter with as many attempts is taken away.
CurrentCount(counter, mine) == counter.count = mine.count

\* The counter is as the claim left it: the same count in the same window.
Current(counter, mine) == counter = mine

Refused(j) == End(j, "refused") /\ UNCHANGED attempts

\* A password no hash is derived for: its length is none a password can have.
RefuseUnhashed(j) ==
    /\ step[j] = "verify" /\ j \notin Right
    /\ Refused(j)
    /\ claim' = [claim EXCEPT ![j] = NoCounter]
    /\ UNCHANGED <<gateVars, used, latest>>

\* clearSuccessfulLoginAttempt, in the transaction that inserts the session.  With the right
\* password as well a sign-in is refused if the account has changed since, or has no venue.
SignInEnds(j) ==
    LET a == AccountOf[j] IN
    /\ step[j] = "hashed"
    /\ \/ /\ j \in Right
          /\ End(j, "signedIn")
          /\ attempts' = IF Current(attempts[a], claim[j])
                         THEN [attempts EXCEPT ![a] = NoCounter] ELSE attempts
       \/ Refused(j)
    /\ claim' = [claim EXCEPT ![j] = NoCounter]
    /\ UNCHANGED <<gateVars, used, latest>>

----------------------------------------------------------------------------

AdmissionInit ==
    /\ holds = [g \in Gates |-> {}]
    /\ queue = [g \in Gates |-> <<>>]
    /\ late = {}
    /\ step = [j \in Jobs |-> "new"]
    /\ answer = [j \in Jobs |-> None]
    /\ attempts = [a \in Accounts |-> NoCounter]
    /\ used = 0
    /\ claim = [j \in SignIns |-> NoCounter]
    /\ latest = [a \in Accounts |-> None]

\* What goes on by itself once a job has come.
Proceed ==
    \/ \E j \in Jobs : HashEnds(j) \/ ExportEnds(j)
    \/ \E j \in SignIns : ClaimAttempt(j) \/ Verify(j) \/ RefuseUnhashed(j) \/ SignInEnds(j)
    \/ \E g \in Gates, j \in Jobs : Release(g, j)

AdmissionNext ==
    \/ \E j \in Jobs : Arrive(j)
    \/ Proceed
    \/ \E g \in Gates, j \in Jobs : DeadlinePasses(g, j) \/ TimerFires(g, j)
    \/ \E a \in Accounts : AccountWindowPasses(a)
    \/ BudgetWindowPasses

\* Some derivation, statement or export ends, and what it ends continues, as long as there is one.
AdmissionFairness == WF_admissionVars(Proceed)

----------------------------------------------------------------------------
(* Properties.                                                             *)

\* No gate lets more jobs work than it has slots, and none lets one wait while a slot is free
\* (createWorkGate).
GatesFair ==
    \A g \in Gates : /\ Cardinality(holds[g]) <= Slots[g]
                     /\ queue[g] # <<>> => ~HasSlot(g)

\* Whoever comes is answered and gives back every slot, with sign-ins that wait in one gate for
\* another, and timers that may never fire: again and again, nobody who came is left
\* (login, verifyPassword).
EveryoneAnswered ==
    []<>(\A j \in Jobs : step[j] # "new" => answer[j] # None /\ \A g \in Gates : j \notin holds[g])

\* A sign-in that succeeds does not erase what was counted after its own attempt, however late
\* it succeeds (clearSuccessfulLoginAttempt).
NewerAttemptsKept ==
    [][\A j \in Right :
          LET a == AccountOf[j]
          IN  step[j] = "hashed" /\ step'[j] = "done" /\ attempts'[a] # attempts[a]
              => latest[a] = j]_admissionVars

============================================================================
