----------------------------- MODULE RuntimeUnits -----------------------------
(***************************************************************************)
(* The desktop's supervisor of the units it spawns itself (the controller  *)
(* and the web server): start and wait for the port, stop with escalation, *)
(* restart after a crash.  Units run by launchd, external or embedded ones *)
(* are only looked at, and left out.                                       *)
(*                                                                         *)
(* Processes are numbered as they are spawned and are external: one may    *)
(* open its port, exit, or ignore the signals.  A timer that restarts a    *)
(* unit has no handle: it is only counted.  `late' is a history, read by   *)
(* the properties only.                                                    *)
(***************************************************************************)
EXTENDS Naturals, Sequences, FiniteSets

CONSTANTS
    Order, Dependents,      \* the units as the cold start takes them, those stopped before each
    Requests,               \* requests the user interface may have under way
    MaxConsecutiveRestarts, \* MAX_CONSECUTIVE_RESTARTS
    MaxProcesses, MaxCrashes, MaxRequests \* bounds

Units == {Order[i] : i \in DOMAIN Order}

ASSUME UnitConstants ==
    /\ Order \in Seq(Units) /\ Order # <<>> /\ Dependents \in [Units -> SUBSET Units]
    /\ {MaxConsecutiveRestarts, MaxProcesses, MaxCrashes, MaxRequests} \subseteq Nat

None == 0
Pids == 1 .. MaxProcesses
Phases == {"idle", "starting", "running", "stopping", "stopped", "failed"}
Steps == [do : {"start"}, unit : Units] \cup [do : {"stop"}, units : SUBSET Units]
Idle == [todo |-> <<>>, exits |-> {}, port |-> {}]

VARIABLES
    phase, child,    \* of each unit: its phase, and its entry in `children`
    stoppedByUser, autoRestartAttempts,
    timers,          \* of each unit: how many auto-restart timers are armed
    waits,           \* of each unit: how many timers' starts wait for its port
    request,         \* of each request: the steps left, the exits or port awaited
    spawned, unitOf, \* how many processes there have been, the unit of each
    live, listening, \* the processes that run, that have opened their port
    crashes, asked,  \* how many crashes and requests there have been
    late             \* units with a process that missed the deadline of its start, or
                     \* that was still to stop when the next start came

record == <<phase, child, stoppedByUser, autoRestartAttempts>>
os == <<spawned, unitOf, live, listening, crashes, late>>
vars == <<record, timers, waits, request, os, asked>>

TypeOK ==
    /\ phase \in [Units -> Phases] /\ child \in [Units -> {None} \cup Pids]
    /\ stoppedByUser \in [Units -> BOOLEAN]
    /\ autoRestartAttempts \in [Units -> 0 .. MaxCrashes]
    /\ timers \in [Units -> 0 .. MaxCrashes] /\ waits \in [Units -> Nat]
    /\ request \in [Requests -> [todo : Seq(Steps), exits : SUBSET Pids, port : SUBSET Units]]
    /\ spawned \in 0 .. MaxProcesses /\ unitOf \in [Pids -> Units]
    /\ live \subseteq 1 .. spawned /\ listening \subseteq live
    /\ crashes \in 0 .. MaxCrashes /\ asked \in 0 .. MaxRequests /\ late \subseteq Units

Init ==
    /\ phase = [u \in Units |-> "idle"] /\ child = [u \in Units |-> None]
    /\ stoppedByUser = [u \in Units |-> FALSE] /\ autoRestartAttempts = [u \in Units |-> 0]
    /\ timers = [u \in Units |-> 0] /\ waits = [u \in Units |-> 0]
    /\ request = [r \in Requests |-> Idle]
    /\ spawned = 0 /\ unitOf = [p \in Pids |-> Head(Order)]
    /\ live = {} /\ listening = {} /\ crashes = 0 /\ asked = 0 /\ late = {}

Active(u) == phase[u] \in {"starting", "running"}
OfUnit(u, P) == {p \in P : unitOf[p] = u}

\* History: a process of the unit runs on past its time; until none of them is left.
LateIf(u, overdue) ==
    late' = IF overdue /\ OfUnit(u, live) # {} THEN late \cup {u} ELSE late
GoneOf(p) == late' = IF OfUnit(unitOf[p], live \ {p}) = {} THEN late \ {unitOf[p]} ELSE late

(***************************************************************************)
(* startUnit: nothing if the unit is active; else a process is spawned     *)
(* and its port awaited.  A spawn that fails leaves the phase failed.      *)
(***************************************************************************)

\* Mutant: a unit that only starts is not taken for active.
StartRunningOnly(u) ==
    /\ phase[u] # "running" /\ spawned < MaxProcesses
    /\ spawned' = spawned + 1 /\ unitOf' = [unitOf EXCEPT ![spawned'] = u]
    /\ live' = live \cup {spawned'} /\ child' = [child EXCEPT ![u] = spawned']
    /\ phase' = [phase EXCEPT ![u] = "starting"]
    /\ stoppedByUser' = [stoppedByUser EXCEPT ![u] = FALSE]
    /\ LateIf(u, phase[u] = "stopping")
    /\ UNCHANGED <<autoRestartAttempts, listening, crashes>>

Spawn(u) ==
    /\ ~Active(u) /\ spawned < MaxProcesses
    /\ spawned' = spawned + 1 /\ unitOf' = [unitOf EXCEPT ![spawned'] = u]
    /\ live' = live \cup {spawned'} /\ child' = [child EXCEPT ![u] = spawned']
    /\ phase' = [phase EXCEPT ![u] = "starting"]
    /\ stoppedByUser' = [stoppedByUser EXCEPT ![u] = FALSE]
    /\ LateIf(u, phase[u] = "stopping")
    /\ UNCHANGED <<autoRestartAttempts, listening, crashes>>

\* The wait for the port ends.  The process that listens need not be the one started.
PortReady(u) ==
    /\ OfUnit(u, listening) # {}
    /\ IF child[u] # None
       THEN /\ phase' = [phase EXCEPT ![u] = "running"]
            /\ autoRestartAttempts' = [autoRestartAttempts EXCEPT ![u] = 0]
       ELSE UNCHANGED <<phase, autoRestartAttempts>>
    /\ UNCHANGED <<child, stoppedByUser, late>>

\* The wait is over for good; a process that is only slow runs on.
PortTimeout(u) ==
    /\ OfUnit(u, listening) = {}
    /\ phase' = [phase EXCEPT ![u] = "failed"]
    /\ LateIf(u, TRUE)
    /\ UNCHANGED <<child, stoppedByUser, autoRestartAttempts>>

(***************************************************************************)
(* The requests: the cold start, startOne, stopOne (dependents first) and  *)
(* dispose.  The interface offers a stop of a unit only while it is        *)
(* active; its recovery of a controller that does not answer asks for a    *)
(* start in any phase.                                                     *)
(***************************************************************************)
Start(u) == [do |-> "start", unit |-> u]
Stop(U) == [do |-> "stop", units |-> U]

Begin(r, rest, exits, port) ==
    request' = [request EXCEPT ![r] = [todo |-> rest, exits |-> exits, port |-> port]]

DoStart(r, u, rest) ==
    \/ Active(u) /\ Begin(r, rest, {}, {}) /\ UNCHANGED <<record, os>>
    \/ Spawn(u) /\ Begin(r, rest, {}, {u})

\* stopUnit: without a child only the phase is corrected, an armed timer stays armed.
DoStop(r, U, rest) ==
    LET held == {u \in U : child[u] # None}
    IN  /\ phase' = [u \in Units |-> IF u \in held THEN "stopping"
                                     ELSE IF u \in U /\ Active(u) THEN "failed" ELSE phase[u]]
        /\ stoppedByUser' = [u \in Units |-> u \in held \/ stoppedByUser[u]]
        /\ Begin(r, rest, {child[u] : u \in held}, {})
        /\ UNCHANGED <<child, autoRestartAttempts, os>>

\* The window answers requests once the cold start is through.
Asks(r) ==
    /\ request[r] = Idle /\ asked < MaxRequests /\ asked' = asked + 1
    /\ \A q \in Requests : \A i \in DOMAIN request[q].todo : request[q].todo[i].do # "start"

StartOne(r, u) ==
    /\ Asks(r)
    /\ DoStart(r, u, <<>>) /\ UNCHANGED <<timers, waits>>

StopOne(r, u) ==
    /\ Asks(r) /\ Active(u)
    /\ IF Dependents[u] = {} THEN DoStop(r, {u}, <<>>) ELSE DoStop(r, Dependents[u], <<Stop({u})>>)
    /\ UNCHANGED <<timers, waits>>

Dispose(r) == Asks(r) /\ DoStop(r, Units, <<>>) /\ UNCHANGED <<timers, waits>>

\* The cold start takes one unit after the other.
ColdStart(r) ==
    /\ asked = 0 /\ Asks(r)
    /\ DoStart(r, Head(Order), [i \in 1 .. Len(Order) - 1 |-> Start(Order[i + 1])])
    /\ UNCHANGED <<timers, waits>>

Step(r) ==
    /\ request[r].todo # <<>> /\ request[r].exits = {} /\ request[r].port = {}
    /\ LET step == Head(request[r].todo)
       IN  IF step.do = "start" THEN DoStart(r, step.unit, Tail(request[r].todo))
                                ELSE DoStop(r, step.units, Tail(request[r].todo))
    /\ UNCHANGED <<timers, waits, asked>>

\* The controller does not become ready in time: the cold start is given up.
ColdStartFails(r) ==
    /\ request[r].todo # <<>> /\ Head(request[r].todo).do = "start" /\ request[r].port = {}
    /\ request' = [request EXCEPT ![r] = Idle]
    /\ UNCHANGED <<record, timers, waits, os, asked>>

\* Mutant: a stop waits until the process is gone.
StopDeadlineGone(r) ==
    /\ request[r].exits # {} /\ request[r].exits \cap live = {}
    /\ request' = [request EXCEPT ![r].exits = {}]
    /\ UNCHANGED <<record, timers, waits, os, asked>>

\* Five seconds after the stop, two after SIGKILL, the stop returns whatever happened.
StopDeadline(r) ==
    /\ request[r].exits # {}
    /\ request' = [request EXCEPT ![r].exits = {}]
    /\ UNCHANGED <<record, timers, waits, os, asked>>

StartReturns(r) ==
    /\ \E u \in request[r].port : PortReady(u) \/ PortTimeout(u)
    /\ request' = [request EXCEPT ![r].port = {}]
    /\ UNCHANGED <<timers, waits, spawned, unitOf, live, listening, crashes, asked>>

(***************************************************************************)
(* A process exits: its unit loses its child, whichever process that is,   *)
(* stops that wait for the exit return, and after a crash of a unit nobody *)
(* stopped a restart is armed, unless there were too many.  A run of two   *)
(* minutes starts the count again.                                         *)
(***************************************************************************)
Crash(u, attempts) ==
    /\ autoRestartAttempts' = [autoRestartAttempts EXCEPT ![u] = attempts]
    /\ timers' = IF attempts > MaxConsecutiveRestarts THEN timers
                 ELSE [timers EXCEPT ![u] = @ + 1]

\* Mutant: an exit with code 0 leaves the unit's phase.
ExitsCalm(p, code) ==
    /\ p \in live
    /\ live' = live \ {p} /\ listening' = listening \ {p}
    /\ LET u == unitOf[p]
       IN  /\ phase' = [phase EXCEPT ![u] = IF code = 0 THEN @ ELSE "failed"]
           /\ child' = [child EXCEPT ![u] = None]
           /\ IF code = 0 \/ stoppedByUser[u]
              THEN UNCHANGED <<autoRestartAttempts, timers, crashes>>
              ELSE /\ crashes < MaxCrashes /\ crashes' = crashes + 1
                   /\ \E attempts \in {1, autoRestartAttempts[u] + 1} : Crash(u, attempts)
    /\ request' = [r \in Requests |-> [request[r] EXCEPT !.exits = @ \ {p}]]
    /\ GoneOf(p)
    /\ UNCHANGED <<stoppedByUser, waits, spawned, unitOf, asked>>

Exits(p, code) ==
    /\ p \in live
    /\ live' = live \ {p} /\ listening' = listening \ {p}
    /\ LET u == unitOf[p]
       IN  /\ phase' = [phase EXCEPT ![u] = IF code = 0 THEN "stopped" ELSE "failed"]
           /\ child' = [child EXCEPT ![u] = None]
           /\ IF code = 0 \/ stoppedByUser[u]
              THEN UNCHANGED <<autoRestartAttempts, timers, crashes>>
              ELSE /\ crashes < MaxCrashes /\ crashes' = crashes + 1
                   /\ \E attempts \in {1, autoRestartAttempts[u] + 1} : Crash(u, attempts)
    /\ request' = [r \in Requests |-> [request[r] EXCEPT !.exits = @ \ {p}]]
    /\ GoneOf(p)
    /\ UNCHANGED <<stoppedByUser, waits, spawned, unitOf, asked>>

\* The process could not be spawned: an error, and no exit.
FailsToSpawn(p) ==
    /\ p \in live \ listening
    /\ live' = live \ {p} /\ phase' = [phase EXCEPT ![unitOf[p]] = "failed"]
    /\ GoneOf(p)
    /\ UNCHANGED <<child, stoppedByUser, autoRestartAttempts, timers, waits, request, spawned,
                   unitOf, listening, crashes, asked>>

Listens(p) ==
    /\ p \in live \ listening /\ OfUnit(unitOf[p], listening) = {}
    /\ listening' = listening \cup {p}
    /\ UNCHANGED <<record, timers, waits, request, spawned, unitOf, live, crashes,
                   asked, late>>

TimerFires(u) ==
    /\ timers[u] > 0 /\ timers' = [timers EXCEPT ![u] = @ - 1]
    /\ \/ Active(u) /\ UNCHANGED <<record, os, waits>>
       \/ Spawn(u) /\ waits' = [waits EXCEPT ![u] = @ + 1]
    /\ UNCHANGED <<request, asked>>

TimerStartReturns(u) ==
    /\ waits[u] > 0 /\ waits' = [waits EXCEPT ![u] = @ - 1]
    /\ PortReady(u) \/ PortTimeout(u)
    /\ UNCHANGED <<timers, request, spawned, unitOf, live, listening, crashes, asked>>

Proceed(r) == Step(r) \/ StopDeadline(r) \/ StartReturns(r)

Next ==
    \/ \E r \in Requests :
            \/ ColdStart(r) \/ ColdStartFails(r) \/ Dispose(r) \/ Proceed(r)
            \/ \E u \in Units : StartOne(r, u) \/ StopOne(r, u)
    \/ \E u \in Units : TimerFires(u) \/ TimerStartReturns(u)
    \/ \E p \in Pids : Listens(p) \/ FailsToSpawn(p) \/ \E code \in {0, 1} : Exits(p, code)

Spec == Init /\ [][Next]_vars

\* Timers fire, and a process that runs comes to listen.
FairSpec ==
    /\ Spec
    /\ \A r \in Requests : WF_vars(Proceed(r))
    /\ \A p \in Pids : WF_vars(Listens(p))

\* Every process that runs is the one its unit holds and can stop: timers, starts by hand,
\* recoveries and exits in any order leave no second process of a unit beside it
\* (startUnit, attachManagedChildEvents, which clears the entry whichever process exits).
\* Two things do, and exempt the unit until its processes are gone: a process that misses
\* the deadline of its start runs on in a unit marked failed, and a start that comes while
\* the unit is stopping, by a late timer or by hand, does not wait for its process.
EveryProcessIsHeld == \A p \in live : unitOf[p] \notin late => child[unitOf[p]] = p

\* A unit shown as running has a process, though a wait for its port may end after the
\* process it was started for has gone (startUnit after waitForPort); with the same
\* exemption, since a second process may exit and leave the unit running without an entry.
RunningIsAlive == \A u \in Units \ late : phase[u] = "running" => child[u] \in live

\* A request returns, also when a process ignores both signals, could not be spawned, or
\* is gone before its port opened (stopUnit's deadline, waitForPort's time-out).
RequestsReturn == \A r \in Requests : request[r] # Idle ~> request[r] = Idle

\* A unit that was stopped by hand is started again by a request only, never by a restart
\* that was armed before (attachManagedEvents, stopUnit).
StopHolds ==
    [][\A u \in Units : stoppedByUser[u] /\ phase'[u] = "starting" => request' # request]_vars

===============================================================================
