----------------------------- MODULE Readiness -----------------------------
(***************************************************************************)
(* What the health endpoint reports: one probe of the database at a time,  *)
(* its outcome kept for a moment, and neither ever used for another        *)
(* configuration than the one it was started for (readiness.ts,            *)
(* readiness-gate.ts).                                                     *)
(*                                                                         *)
(* A probe may take any time, longer than its deadline, when whoever waits *)
(* is told so.  Its timer may lag, and the clock may jump back.  The       *)
(* symbol `generation` is here the number of invalidations.                *)
(***************************************************************************)
EXTENDS Naturals

CONSTANTS
    Configurations,   \* of the process's environment, with the target database
    Connection,       \* [Configurations -> identities of the database pool], which are texts
    Broken, Unfit,    \* configurations that cannot be read, or that the preflight refuses
    Readers,          \* requests of the health endpoint
    MaxChanges,       \* bound: changes of the configuration
    Absent

Found == {"ready", "notReady"}   \* what a probe finds
Told == Found \cup {"timeout", "busy", "unfit"}

\* A probe under way, and an outcome that is kept.
FlightType == [key : Configurations, generation : Nat,
               resolved : Told \cup {Absent}, overdue : BOOLEAN]
CacheType == [key : Configurations, generation : Nat, from : Nat,
              outcome : Told, expired : BOOLEAN]

ASSUME ReadinessAssumption ==
    /\ Broken \cup Unfit \subseteq Configurations
    /\ Absent \notin Configurations \cup Told \cup {"waiting"}
    /\ Absent \notin FlightType /\ Absent \notin CacheType
    /\ \A k \in Configurations : Connection[k] # Absent
    /\ MaxChanges \in Nat

VARIABLES
    environment,   \* the configuration the process has now
    changes,       \* counts its changes, for the bound
    seen,          \* activeConfiguration
    bound,         \* boundConnection
    gate,          \* currentKey, generation, cache and active of the gate
    outcome        \* [Readers -> what a request waits for or was told]

readinessVars == <<environment, changes, seen, bound, gate, outcome>>

\* A request: what it was told and for which configuration, and the generations in which it
\* asked, in which the probe began, and in which it was told.
NewRequest == [told |-> Absent, of |-> Absent, asked |-> 0, from |-> 0, at |-> 0]

----------------------------------------------------------------------------
(* The gate.                                                               *)

\* finish() keeps an outcome only in the generation and for the key of its probe.
Kept(g) == g.generation = g.flight.generation /\ g.key = g.flight.key

Resolved(f, told) == [f EXCEPT !.resolved = IF @ = Absent THEN told ELSE @]

\* finish() with an outcome to keep, and a clock that works or not.
Finish(g, told, works) ==
    LET result == IF g.flight.overdue \/ ~works THEN "timeout" ELSE told
        entry == [key |-> g.flight.key, generation |-> g.generation, from |-> g.flight.generation,
                  outcome |-> result, expired |-> FALSE]
    IN  IF g.flight.resolved # Absent THEN g
        ELSE [g EXCEPT !.flight.resolved = result,
                       !.cache = IF ~Kept(g) THEN @ ELSE IF works THEN entry ELSE Absent]

\* Mutant: only the cache is emptied.
InvalidateCache(g) == [g EXCEPT !.generation = @ + 1, !.cache = Absent]

\* invalidate(): who waits for the probe under way is told to come again.
Invalidate(g) ==
    [g EXCEPT !.generation = @ + 1, !.cache = Absent,
              !.flight = IF @ = Absent THEN Absent ELSE Resolved(@, "busy")]

\* Only a probe of this key and generation is waited for.
Joinable(g, k) == g.flight.key = k /\ g.flight.generation = g.generation

\* A probe starts when the one before has settled.
RoomForProbe(g) == g.flight = Absent

NewFlight(g, k) ==
    [key |-> k, generation |-> g.generation, resolved |-> Absent, overdue |-> FALSE]

Valid(g, k) ==
    /\ g.cache # Absent
    /\ g.cache.generation = g.generation /\ g.cache.key = k /\ ~g.cache.expired

\* read(): what the gate becomes, what the request is told, from a probe of which generation.
Read(g0, k, works) ==
    LET g == IF k = g0.key THEN g0 ELSE [Invalidate(g0) EXCEPT !.key = k]
        none == [g EXCEPT !.cache = Absent]
        Late == IF none.flight.overdue THEN Finish(none, "timeout", works) ELSE none
    IN  CASE ~works ->
               [gate |-> [none EXCEPT !.flight = IF @ = Absent THEN Absent ELSE Resolved(@, "timeout")],
                told |-> "timeout", from |-> g.generation]
          [] works /\ Valid(g, k) ->
               [gate |-> g, told |-> g.cache.outcome, from |-> g.cache.from]
          [] works /\ ~Valid(g, k) /\ RoomForProbe(g) ->
               [gate |-> [none EXCEPT !.flight = NewFlight(g, k)],
                told |-> "probing", from |-> g.generation]
          [] works /\ ~Valid(g, k) /\ ~RoomForProbe(g) /\ ~Joinable(g, k) ->
               [gate |-> none, told |-> "busy", from |-> g.generation]
          [] works /\ ~Valid(g, k) /\ ~RoomForProbe(g) /\ Joinable(g, k) ->
               [gate |-> Late,
                told |-> IF Late.flight.resolved = Absent THEN "waiting" ELSE Late.flight.resolved,
                from |-> g.flight.generation]

\* Those who wait learn the result of the flight of g.
Heard(g) ==
    [r \in Readers |->
        IF outcome[r].told = "waiting" /\ g.flight # Absent /\ g.flight.resolved # Absent
        THEN [outcome[r] EXCEPT !.told = g.flight.resolved, !.at = g.generation]
        ELSE outcome[r]]

Gate(g) == gate' = g /\ outcome' = Heard(g)

\* Mutant: the timer is never set.
NeverDue(f) == FALSE

Due(f) == f.overdue

\* The deadline's timer: whoever waits is told, the probe goes on.
DeadlineFires(works) ==
    /\ gate.flight # Absent /\ Due(gate.flight) /\ gate.flight.resolved = Absent
    /\ Gate(Finish(gate, "timeout", works))
    /\ UNCHANGED <<environment, changes, seen, bound>>

\* The database work of the probe settles, and with it the slot is free.
ProbeSettles(found, works) ==
    LET g == Finish(gate, found, works) IN
    /\ gate.flight # Absent
    /\ gate' = [g EXCEPT !.flight = Absent]
    /\ outcome' = Heard(g)
    /\ UNCHANGED <<environment, changes, seen, bound>>

ProbeOverdue ==
    /\ gate.flight # Absent /\ ~gate.flight.overdue
    /\ gate' = [gate EXCEPT !.flight.overdue = TRUE]
    /\ UNCHANGED <<environment, changes, seen, bound, outcome>>

CacheExpires ==
    /\ gate.cache # Absent /\ ~gate.cache.expired
    /\ gate' = [gate EXCEPT !.cache.expired = TRUE]
    /\ UNCHANGED <<environment, changes, seen, bound, outcome>>

----------------------------------------------------------------------------
(* The service.                                                            *)

\* The environment is changed under the process, which keeps its pool.
Configure(k) ==
    /\ changes < MaxChanges /\ k # environment
    /\ environment' = k /\ changes' = changes + 1
    /\ UNCHANGED <<seen, bound, gate, outcome>>

\* readinessResponse() looks at the environment: another one invalidates the gate.
Looked == IF environment \in Broken \/ environment # seen THEN Invalidate(gate) ELSE gate
Look == seen' = IF environment \in Broken THEN Absent ELSE environment

\* A connection differs from the one the pool was made for.
OtherPool == bound # Absent /\ bound # Connection[environment]

Fit == environment \notin Broken \cup Unfit /\ ~OtherPool

Request(r, told, from, g) ==
    outcome' = [Heard(g) EXCEPT ![r] =
                   [told |-> told, of |-> environment, asked |-> g.generation, from |-> from,
                    at |-> g.generation]]

RespondUnfit(r) ==
    /\ outcome[r] = NewRequest /\ ~Fit
    /\ Look /\ gate' = Looked
    /\ Request(r, "unfit", 0, Looked)
    /\ UNCHANGED <<environment, changes, bound>>

Respond(r, works) ==
    LET read == Read(Looked, environment, works)
        told == IF read.told = "probing" THEN "waiting" ELSE read.told
    IN  /\ outcome[r] = NewRequest /\ Fit
        /\ Look /\ gate' = read.gate
        /\ bound' = Connection[environment]
        /\ Request(r, told, read.from, read.gate)
        /\ UNCHANGED <<environment, changes>>

----------------------------------------------------------------------------

ReadinessInit ==
    /\ environment \in Configurations /\ changes = 0
    /\ seen = Absent /\ bound = Absent
    /\ gate = [key |-> Absent, generation |-> 0, cache |-> Absent, flight |-> Absent]
    /\ outcome = [r \in Readers |-> NewRequest]

ReadinessNext ==
    \/ \E k \in Configurations : Configure(k)
    \/ \E r \in Readers : RespondUnfit(r) \/ \E works \in BOOLEAN : Respond(r, works)
    \/ \E works \in BOOLEAN : DeadlineFires(works) \/ \E found \in Found : ProbeSettles(found, works)
    \/ ProbeOverdue \/ CacheExpires

\* Time passes and timers fire; that a probe ever settles is not assumed.
ReadinessFairness ==
    /\ WF_readinessVars(ProbeOverdue)
    /\ WF_readinessVars(\E works \in BOOLEAN : DeadlineFires(works))

----------------------------------------------------------------------------
(* Properties.                                                             *)

\* What a request is told of the database was found by a probe begun and told in the
\* configuration the request came with, and through a pool made for it
\* (readinessResponse, finish, read).
ReportCurrent ==
    \A r \in Readers : outcome[r].told \in Found =>
        /\ outcome[r].from = outcome[r].asked /\ outcome[r].from = outcome[r].at
        /\ Connection[outcome[r].of] = bound

\* Everyone who waits is answered, though the database never is (deadlineMs).
RequestsAnswered == []<>(\A r \in Readers : outcome[r].told # "waiting")

============================================================================
