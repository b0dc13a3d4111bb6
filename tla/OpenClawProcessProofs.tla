------------------------ MODULE OpenClawProcessProofs ------------------------
(***************************************************************************)
(* What the process manager guarantees for any number of restart() calls,  *)
(* crashes, hangs, handovers and watches, whatever its scans of the        *)
(* processes find: its types, which gateways may run beside the current    *)
(* one, and that crash restarts do not stay disabled.                      *)
(***************************************************************************)
EXTENDS OpenClawProcess, FiniteSetTheorems, TLAPS

(***************************************************************************)
(* The inductive invariant.                                                *)
(***************************************************************************)

\* A restart() that waits has sent SIGTERM to a child that has not exited.
WaitedFor == (\E c \in Callers : caller[c] = "stopping") => child # None /\ killed

\* The gateways that neither hand over nor were missed by a start().
Current == live \ (left \cup leaving)

\* There is at most one of them, who hands over does not listen, and before the first
\* handover there is no gateway but the child.
OneCurrent ==
    /\ \A p, q \in Current : p = q
    /\ listening \cap leaving = {}
    /\ handovers = 0 => live \subseteq {child}

IInv == TypeOK /\ WaitedFor /\ OneCurrent /\ RestartsStayEnabled

(***************************************************************************)
(* Sets of processes.                                                      *)
(***************************************************************************)

\* Fewer processes are still at most one.
LEMMA StillOne ==
    ASSUME NEW S \in SUBSET Nat, NEW T \in SUBSET S, NEW n \in Nat,
           S \subseteq 1 .. n, Cardinality(S) <= 1
    PROVE  Cardinality(T) <= 1
  <1>1. IsFiniteSet(1 .. n)
    BY FS_Interval
  <1>2. IsFiniteSet(S)
    BY <1>1, FS_Subset
  <1>3. IsFiniteSet(T) /\ Cardinality(T) <= Cardinality(S)
    BY <1>2, FS_Subset
  <1> QED
    BY <1>2, <1>3, FS_CardinalityType

LEMMA NoneIsOne == Cardinality({}) <= 1 /\ \A p : Cardinality({p}) <= 1
  BY FS_EmptySet, FS_Singleton

\* The part of TypeOK that start() and the exit handler write.
ServiceOK ==
    /\ child \in {None} \cup Pids /\ killed \in BOOLEAN /\ expected \in BOOLEAN
    /\ successor \in {None} \cup Pids /\ watchTimer \in {None} \cup Watches
    /\ watch \in WatchStates
    /\ spawned \in 0 .. MaxProcesses
    /\ hung \subseteq live /\ listening \subseteq live \ hung /\ live \subseteq 1 .. spawned
    /\ leaving \subseteq live /\ left \subseteq live
    /\ Cardinality(listening) <= 1
    /\ child # None => child \in live

\* The rest of it.
OthersOK ==
    /\ autoRestartEnabled \in BOOLEAN
    /\ consecutiveRestarts \in Nat /\ scheduled \in Nat
    /\ caller \in [Callers -> {"idle", "stopping", "done"}]
    /\ asked \in [Callers -> 0 .. MaxProcesses]
    /\ crashes \in 0 .. MaxFailures /\ strays \in 0 .. MaxFailures /\ hangs \in 0 .. MaxHangs
    /\ handovers \in 0 .. MaxHandovers

LEMMA TypeParts == TypeOK <=> ServiceOK /\ OthersOK
  BY DEF TypeOK, ServiceOK, OthersOK

LEMMA TypePartsNext == ServiceOK' /\ OthersOK' => TypeOK'
  BY DEF TypeOK, ServiceOK, OthersOK

\* Whatever stops listening, no more than one still does.
LEMMA ListeningStillOne ==
    ASSUME ServiceOK, NEW T \in SUBSET listening
    PROVE  Cardinality(T) <= 1
  <1>1. spawned \in Nat /\ listening \subseteq 1 .. spawned /\ listening \in SUBSET Nat
    BY DEF ServiceOK
  <1> QED
    BY <1>1, StillOne DEF ServiceOK

\* Fewer processes are still processes, and keep their kinds.
LEMMA OnlyRunKeeps ==
    ASSUME ServiceOK, OneCurrent, NEW alive \in SUBSET live, OnlyRun(alive),
           spawned' = spawned
    PROVE  /\ hung' \subseteq live' /\ listening' \subseteq live' \ hung'
           /\ live' \subseteq 1 .. spawned'
           /\ leaving' \subseteq live' /\ left' \subseteq live'
           /\ Cardinality(listening') <= 1
           /\ Current' \subseteq Current /\ listening' \cap leaving' = {}
           /\ live' = alive
  <1>1. /\ live' = alive /\ hung' = hung \cap alive /\ listening' = listening \cap alive
        /\ leaving' = leaving \cap alive /\ left' = left \cap alive
    BY DEF OnlyRun
  <1>2. Cardinality(listening') <= 1
    BY <1>1, ListeningStillOne
  <1>3. Current' \subseteq Current /\ listening' \cap leaving' = {}
    BY <1>1 DEF Current, OneCurrent
  <1>4. hung' \subseteq live' /\ listening' \subseteq live' \ hung'
        /\ leaving' \subseteq live' /\ left' \subseteq live'
        /\ live' \subseteq 1 .. spawned'
    BY <1>1 DEF ServiceOK
  <1> QED
    BY <1>1, <1>2, <1>3, <1>4

\* Without a child no process is it.
LEMMA NoChildRuns == ASSUME ServiceOK, child = None PROVE child \notin live
  BY DEF ServiceOK, None

LEMMA Stuttering == ASSUME IInv, UNCHANGED vars PROVE IInv'
  BY DEF vars, service, os, bounds, IInv, TypeOK, WaitedFor, OneCurrent, Current,
         RestartsStayEnabled

(***************************************************************************)
(* start() and the exit handler.                                           *)
(***************************************************************************)

\* start() with a child changes nothing but what it is handed; without one it
\* spawns a child, and what still runs beside it is left.
LEMMA StartKeeps ==
    ASSUME ServiceOK, OneCurrent,
           NEW was \in {None, child},
           NEW timer \in {None} \cup Watches,
           NEW watching \in WatchStates,
           NEW alive \in SUBSET live,
           was # None => alive = live,
           was = None => child \notin alive,
           handovers' = handovers,
           Start(was, timer, watching, alive)
    PROVE  /\ ServiceOK' /\ OneCurrent'
           /\ child' # None \/ UNCHANGED child
           /\ was # None => UNCHANGED <<child, killed>>
  <1>1. CASE was # None
    <2>1. child' = child /\ OnlyRun(live)
          /\ UNCHANGED <<killed, spawned, expected, successor>>
          /\ watchTimer' = timer /\ watch' = watching
      BY <1>1 DEF Start
    <2>2. /\ hung' \subseteq live' /\ listening' \subseteq live' \ hung'
          /\ live' \subseteq 1 .. spawned'
          /\ leaving' \subseteq live' /\ left' \subseteq live'
          /\ Cardinality(listening') <= 1
          /\ Current' \subseteq Current /\ listening' \cap leaving' = {}
          /\ live' = live
      BY <2>1, OnlyRunKeeps
    <2>3. OneCurrent'
      BY <2>1, <2>2 DEF OneCurrent
    <2> QED
      BY <1>1, <2>1, <2>2, <2>3 DEF ServiceOK
  <1>2. CASE was = None
    <2>1. /\ spawned' = spawned + 1 /\ spawned < MaxProcesses /\ child' = spawned'
          /\ killed' = FALSE /\ expected' = FALSE /\ successor' = None /\ watchTimer' = None
          /\ watch' = [w \in Watches |->
                         IF w = timer /\ watching[w].state = "armed" THEN Off ELSE watching[w]]
      BY <1>2 DEF Start, Spawns
    <2>2. PICK others \in {{}, alive} :
             /\ live' = others \cup {spawned + 1}
             /\ hung' = hung \cap others /\ listening' = listening \cap others
             /\ leaving' = leaving \cap others /\ left' = others
      BY <1>2 DEF Start, KillOrphans
    <2>3. spawned \in Nat /\ spawned + 1 \in 1 .. MaxProcesses
      BY <2>1, ProcessConstants DEF ServiceOK
    <2>4. watch' \in WatchStates
      BY <2>1 DEF WatchStates, Off, Unseen
    <2>5. Cardinality(listening') <= 1
      BY <2>2, ListeningStillOne
    <2>6. others \subseteq live /\ live \subseteq 1 .. spawned
      BY <2>2 DEF ServiceOK
    <2>7. /\ child' \in Pids /\ child' # None /\ spawned' \in 0 .. MaxProcesses
          /\ child' = spawned + 1
      BY <2>1, <2>3 DEF Pids, None
    <2>8. /\ hung' \subseteq live' /\ listening' \subseteq live' \ hung'
          /\ leaving' \subseteq live' /\ left' \subseteq live' /\ child' \in live'
          /\ live' \subseteq 1 .. spawned'
      <3>1. spawned + 1 \notin others
        BY <2>3, <2>6
      <3>2. hung' \subseteq live' /\ listening' \subseteq live' \ hung'
            /\ leaving' \subseteq live' /\ left' \subseteq live' /\ child' \in live'
        BY <2>2, <2>7, <3>1 DEF ServiceOK
      <3>3. \A q \in others : q \in 1 .. spawned + 1
        BY <2>3, <2>6
      <3> QED
        BY <2>1, <2>2, <2>3, <3>2, <3>3
    <2>9. ServiceOK'
      BY <2>1, <2>4, <2>5, <2>7, <2>8 DEF ServiceOK
    <2>10. OneCurrent'
      <3>1. \A p, q \in Current' : p = q
        BY <2>2 DEF Current
      <3>2. listening' \cap leaving' = {}
        BY <2>2 DEF OneCurrent
      <3>3. handovers' = 0 => live' \subseteq {child'}
        BY <1>2, <2>1, <2>2 DEF OneCurrent
      <3> QED
        BY <3>1, <3>2, <3>3 DEF OneCurrent
    <2> QED
      BY <1>2, <2>7, <2>9, <2>10
  <1> QED
    BY <1>1, <1>2

\* What scheduleRestart() leaves counted.
LEMMA ScheduleKeeps ==
    ASSUME OthersOK, ScheduleRestart
    PROVE  consecutiveRestarts' \in Nat /\ scheduled' \in Nat
  <1>1. CASE ~autoRestartEnabled
    BY <1>1 DEF ScheduleRestart, OthersOK
  <1>2. CASE autoRestartEnabled
    <2>1. PICK before \in {0, consecutiveRestarts} :
             /\ consecutiveRestarts' = before + 1
             /\ scheduled' = IF before + 1 > MaxConsecutive THEN scheduled ELSE scheduled + 1
      BY <1>2 DEF ScheduleRestart
    <2> QED
      BY <2>1 DEF OthersOK
  <1> QED
    BY <1>1, <1>2

\* The exit handler: the child is gone, and a restart() that waited has brought
\* its successor and enabled crash restarts again.
LEMMA ExitKeeps ==
    ASSUME IInv, NEW how \in {"term", "zero", "crash"}, child # None, ChildExits(how),
           handovers' = handovers
    PROVE  /\ ServiceOK' /\ OneCurrent' /\ WaitedFor' /\ RestartsStayEnabled'
           /\ autoRestartEnabled' \in BOOLEAN
           /\ consecutiveRestarts' \in Nat /\ scheduled' \in Nat
           /\ caller' \in [Callers -> {"idle", "stopping", "done"}]
  <1> USE DEF None
  <1>0. ServiceOK /\ OthersOK /\ OneCurrent
    BY TypeParts DEF IInv
  <1>1. consecutiveRestarts' \in Nat /\ scheduled' \in Nat
    BY <1>0, ScheduleKeeps DEF ChildExits, OthersOK
  <1>2. PICK w \in Watches :
          LET timer == IF WatchBegins(how) THEN w ELSE watchTimer
              watching == IF WatchBegins(how)
                          THEN [watch EXCEPT ![w].state = "armed"] ELSE watch
          IN IF \E c \in Callers : caller[c] = "stopping"
             THEN /\ Start(None, timer, watching, live \ {child})
                  /\ autoRestartEnabled' = TRUE
                  /\ caller' = [c \in Callers |->
                                  IF caller[c] = "stopping" THEN "done" ELSE caller[c]]
             ELSE /\ child' = None /\ killed' = FALSE
                  /\ watchTimer' = timer /\ watch' = watching
                  /\ expected' = (expected /\ ~WatchBegins(how))
                  /\ OnlyRun(live \ {child})
                  /\ UNCHANGED <<successor, spawned, autoRestartEnabled, caller>>
    BY DEF ChildExits
  <1> DEFINE timer == IF WatchBegins(how) THEN w ELSE watchTimer
             watching == IF WatchBegins(how)
                         THEN [watch EXCEPT ![w].state = "armed"] ELSE watch
  <1>3. timer \in {None} \cup Watches
    BY <1>0 DEF ServiceOK
  <1>4. watching \in WatchStates
    BY <1>0 DEF ServiceOK, WatchStates
  <1>5. CASE \E c \in Callers : caller[c] = "stopping"
    <2>1. /\ Start(None, timer, watching, live \ {child})
          /\ autoRestartEnabled' = TRUE
          /\ caller' = [c \in Callers |->
                          IF caller[c] = "stopping" THEN "done" ELSE caller[c]]
      BY <1>2, <1>5
    <2>2. ServiceOK' /\ OneCurrent'
      BY <1>0, <1>3, <1>4, <2>1, StartKeeps DEF None
    <2>3. /\ caller' \in [Callers -> {"idle", "stopping", "done"}]
          /\ \A c \in Callers : caller'[c] # "stopping"
      BY <1>0, <2>1 DEF OthersOK
    <2> QED
      BY <1>1, <2>1, <2>2, <2>3 DEF WaitedFor, RestartsStayEnabled
  <1>6. CASE ~ \E c \in Callers : caller[c] = "stopping"
    <2>1. /\ child' = None /\ killed' = FALSE
          /\ watchTimer' = timer /\ watch' = watching
          /\ expected' \in BOOLEAN
          /\ OnlyRun(live \ {child})
          /\ UNCHANGED <<successor, spawned, autoRestartEnabled, caller>>
      BY <1>2, <1>6
    <2>2. /\ hung' \subseteq live' /\ listening' \subseteq live' \ hung'
          /\ live' \subseteq 1 .. spawned'
          /\ leaving' \subseteq live' /\ left' \subseteq live'
          /\ Cardinality(listening') <= 1
          /\ Current' \subseteq Current /\ listening' \cap leaving' = {}
          /\ live' = live \ {child}
      BY <1>0, <2>1, OnlyRunKeeps
    <2>3. ServiceOK'
      BY <1>0, <1>3, <1>4, <2>1, <2>2 DEF ServiceOK
    <2>4. OneCurrent'
      BY <1>0, <2>2 DEF OneCurrent
    <2> QED
      BY <1>0, <1>1, <1>6, <2>1, <2>3, <2>4 DEF IInv, OthersOK, WaitedFor, RestartsStayEnabled
  <1> QED
    BY <1>5, <1>6

(***************************************************************************)
(* Each action preserves the invariant.                                    *)
(***************************************************************************)

LEMMA RestartKeeps ==
    ASSUME IInv, NEW c \in Callers, Restart(c)
    PROVE  IInv'
  <1>0. ServiceOK /\ OthersOK /\ OneCurrent
    BY TypeParts DEF IInv
  <1>1. asked' \in [Callers -> 0 .. MaxProcesses]
    BY <1>0 DEF Restart, ServiceOK, OthersOK
  <1>2. CASE child = None \/ killed
    <2>1. /\ autoRestartEnabled' = TRUE /\ caller' = [caller EXCEPT ![c] = "done"]
          /\ Start(child, watchTimer, watch, live)
          /\ UNCHANGED <<consecutiveRestarts, scheduled, bounds>>
      BY <1>2 DEF Restart
    <2>2. ServiceOK' /\ OneCurrent' /\ (child # None => UNCHANGED <<child, killed>>)
      BY <1>0, <2>1, NoChildRuns, StartKeeps DEF ServiceOK, bounds
    <2>3. OthersOK' /\ \A d \in Callers : caller'[d] = "stopping" => caller[d] = "stopping"
      BY <1>0, <1>1, <2>1 DEF OthersOK, bounds
    <2> QED
      BY <2>1, <2>2, <2>3, TypePartsNext DEF IInv, WaitedFor, RestartsStayEnabled
  <1>3. CASE child # None /\ ~killed
    <2>1. /\ autoRestartEnabled' = FALSE /\ caller' = [caller EXCEPT ![c] = "stopping"]
          /\ killed' = TRUE
          /\ UNCHANGED <<child, spawned, expected, successor, watchTimer, watch, os>>
          /\ UNCHANGED <<consecutiveRestarts, scheduled, bounds>>
      BY <1>3 DEF Restart
    <2>2. ServiceOK' /\ OneCurrent'
      BY <1>0, <2>1 DEF ServiceOK, OneCurrent, Current, os, bounds
    <2>3. OthersOK' /\ caller'[c] = "stopping"
      BY <1>0, <1>1, <2>1 DEF OthersOK, bounds
    <2> QED
      BY <1>3, <2>1, <2>2, <2>3, TypePartsNext DEF IInv, WaitedFor, RestartsStayEnabled
  <1> QED
    BY <1>2, <1>3

LEMMA StopTimesOutKeeps ==
    ASSUME IInv, NEW c \in Callers, StopTimesOut(c)
    PROVE  IInv'
  <1>0. ServiceOK /\ OthersOK /\ OneCurrent
    BY TypeParts DEF IInv
  <1>1. child # None /\ killed
    BY DEF IInv, WaitedFor, StopTimesOut
  <1>2. /\ autoRestartEnabled' = TRUE /\ caller' = [caller EXCEPT ![c] = "done"]
        /\ Start(child, watchTimer, watch, live)
        /\ UNCHANGED <<consecutiveRestarts, scheduled, asked, bounds>>
    BY <1>1 DEF StopTimesOut
  <1>3. ServiceOK' /\ OneCurrent' /\ UNCHANGED <<child, killed>>
    BY <1>0, <1>1, <1>2, StartKeeps DEF ServiceOK, bounds
  <1>4. OthersOK'
    BY <1>0, <1>2 DEF OthersOK, bounds
  <1> QED
    BY <1>1, <1>2, <1>3, <1>4, TypePartsNext DEF IInv, WaitedFor, RestartsStayEnabled

\* A start() by a timer: with a child it changes nothing, and no restart() waits
\* for one that is not there.
LEMMA TimerStartKeeps ==
    ASSUME IInv, NEW was \in {None, child}, was # None \/ child = None,
           NEW timer \in {None} \cup Watches, NEW watching \in WatchStates,
           Start(was, timer, watching, live),
           UNCHANGED <<autoRestartEnabled, consecutiveRestarts, caller, asked, bounds>>,
           scheduled' \in Nat
    PROVE  IInv'
  <1>0. ServiceOK /\ OthersOK /\ OneCurrent
    BY TypeParts DEF IInv
  <1>1. ServiceOK' /\ OneCurrent' /\ (was # None => UNCHANGED <<child, killed>>)
    BY <1>0, NoChildRuns, StartKeeps DEF bounds
  <1>2. OthersOK'
    BY <1>0 DEF OthersOK, bounds
  <1> QED
    BY <1>1, <1>2, TypePartsNext DEF IInv, WaitedFor, RestartsStayEnabled

LEMMA ScheduledStartKeeps ==
    ASSUME IInv, ScheduledStart PROVE IInv'
  <1>1. scheduled' \in Nat /\ watchTimer \in {None} \cup Watches /\ watch \in WatchStates
    BY DEF IInv, TypeOK, ScheduledStart
  <1> QED
    BY <1>1, TimerStartKeeps DEF ScheduledStart

\* A step of a watch that starts nothing.
LEMMA WatchLeavesAlone ==
    ASSUME IInv, watch' \in WatchStates, watchTimer' \in {None} \cup Watches,
           successor' \in {None, successor}, consecutiveRestarts' \in Nat,
           UNCHANGED <<child, killed, expected, spawned, autoRestartEnabled, scheduled,
                       caller, asked, os, bounds>>
    PROVE  IInv'
  BY DEF IInv, TypeOK, WaitedFor, OneCurrent, Current, RestartsStayEnabled, os, bounds

LEMMA WatchingKeeps ==
    ASSUME IInv, NEW w \in Watches, Watching(w) PROVE IInv'
  <1>0. TypeOK
    BY DEF IInv
  <1>1. Off \in [state : {"off", "armed", "probing"},
                  seen : [port : BOOLEAN, successor : BOOLEAN]]
    BY DEF Off, Unseen
  <1>2. [watch EXCEPT ![w] = Off] \in WatchStates
    BY <1>0, <1>1 DEF TypeOK, WatchStates
  <1>3. CASE Probe(w)
    <2>1. watch' \in WatchStates
      BY <1>0, <1>3 DEF Probe, TypeOK, WatchStates
    <2> QED
      BY <1>0, <1>3, <2>1, WatchLeavesAlone DEF Probe, TypeOK, service
  <1>4. CASE ProbeSeesPort(w)
    BY <1>0, <1>2, <1>4, WatchLeavesAlone DEF ProbeSeesPort, TypeOK
  <1>5. CASE ProbeAgain(w)
    <2>1. watch' \in WatchStates
      BY <1>0, <1>1, <1>5 DEF ProbeAgain, TypeOK, WatchStates
    <2> QED
      BY <1>0, <1>5, <2>1, WatchLeavesAlone DEF ProbeAgain, TypeOK
  <1>6. CASE ProbeGivesUp(w)
    <2>1. CASE child = None
      BY <1>0, <1>2, <1>6, <2>1, TimerStartKeeps DEF ProbeGivesUp, TypeOK
    <2>2. CASE child # None
      BY <1>0, <1>2, <1>6, <2>2, WatchLeavesAlone DEF ProbeGivesUp, TypeOK
    <2> QED
      BY <2>1, <2>2
  <1> QED
    BY <1>3, <1>4, <1>5, <1>6 DEF Watching

\* restartForHealth() finds no child to kill.
LEMMA HealthTickKeeps ==
    ASSUME IInv, HealthTick PROVE IInv' /\ UNCHANGED vars
  <1>1. OnlyRun(live)
    BY DEF IInv, TypeOK, HealthTick, IsAlive
  <1>2. UNCHANGED os
    BY <1>1 DEF OnlyRun, os, IInv, TypeOK
  <1>3. UNCHANGED vars
    BY <1>2 DEF HealthTick, vars
  <1> QED
    BY <1>3, Stuttering

LEMMA ListensKeeps ==
    ASSUME IInv, NEW p \in Pids, Listens(p) PROVE IInv'
  <1>1. Cardinality(listening') <= 1
    BY NoneIsOne DEF Listens
  <1>2. listening' \subseteq live' \ hung' /\ listening' \cap leaving' = {}
    BY DEF Listens
  <1> QED
    BY <1>1, <1>2 DEF Listens, service, bounds, IInv, TypeOK, WaitedFor, OneCurrent,
                      Current, RestartsStayEnabled

LEMMA HangsKeeps ==
    ASSUME IInv, NEW p \in Pids, Hangs(p) PROVE IInv'
  <1>1. Cardinality(listening') <= 1
    BY TypeParts, ListeningStillOne DEF IInv, Hangs
  <1>2. hung' \subseteq live' /\ listening' \subseteq live' \ hung' /\ hangs' \in 0 .. MaxHangs
        /\ listening' \subseteq listening
    BY ProcessConstants DEF IInv, TypeOK, Hangs
  <1> QED
    BY <1>1, <1>2 DEF Hangs, service, IInv, TypeOK, WaitedFor, OneCurrent, Current,
                      RestartsStayEnabled

\* One more failure is within its bound.
LEMMA FailureFits ==
    ASSUME OthersOK, Failures < MaxFailures
    PROVE  crashes + 1 \in 0 .. MaxFailures /\ strays + 1 \in 0 .. MaxFailures
  BY ProcessConstants DEF OthersOK, Failures

\* Nothing waits for another gateway than the child.
LEMMA StrayGoesKeeps ==
    ASSUME IInv, NEW p, StrayGoes(p), OthersOK', UNCHANGED handovers
    PROVE  IInv'
  <1>0. ServiceOK /\ OneCurrent
    BY TypeParts DEF IInv
  <1>1. /\ OnlyRun(live \ {p}) /\ p # child
        /\ UNCHANGED <<child, killed, expected, successor, watchTimer, spawned,
                       autoRestartEnabled, watch, caller>>
    BY DEF StrayGoes, service
  <1>2. /\ hung' \subseteq live' /\ listening' \subseteq live' \ hung'
        /\ live' \subseteq 1 .. spawned'
        /\ leaving' \subseteq live' /\ left' \subseteq live'
        /\ Cardinality(listening') <= 1
        /\ Current' \subseteq Current /\ listening' \cap leaving' = {}
        /\ live' = live \ {p}
    BY <1>0, <1>1, OnlyRunKeeps
  <1>3. ServiceOK'
    BY <1>0, <1>1, <1>2 DEF ServiceOK
  <1>4. OneCurrent'
    BY <1>0, <1>1, <1>2 DEF OneCurrent
  <1> QED
    BY <1>1, <1>3, <1>4, TypePartsNext DEF IInv, WaitedFor, RestartsStayEnabled

LEMMA CrashesKeeps ==
    ASSUME IInv, NEW p \in Pids, Crashes(p) PROVE IInv'
  <1>0. OthersOK
    BY TypeParts DEF IInv
  <1>1. /\ crashes' \in 0 .. MaxFailures /\ strays' \in 0 .. MaxFailures
        /\ UNCHANGED <<asked, hangs, handovers>>
    BY <1>0, FailureFits DEF Crashes, OthersOK
  <1>2. ASSUME NEW how \in {"crash", "zero"}, p = child, ChildExits(how) PROVE IInv'
    <2>1. child # None
      BY <1>2 DEF Pids, None
    <2>2. /\ ServiceOK' /\ OneCurrent' /\ WaitedFor' /\ RestartsStayEnabled'
          /\ autoRestartEnabled' \in BOOLEAN
          /\ consecutiveRestarts' \in Nat /\ scheduled' \in Nat
          /\ caller' \in [Callers -> {"idle", "stopping", "done"}]
      BY <1>1, <1>2, <2>1, ExitKeeps
    <2>3. OthersOK'
      BY <1>0, <1>1, <2>2 DEF OthersOK
    <2> QED
      BY <2>2, <2>3, TypePartsNext DEF IInv
  <1>3. CASE StrayGoes(p)
    <2>1. OthersOK'
      BY <1>0, <1>1, <1>3 DEF OthersOK, StrayGoes
    <2> QED
      BY <1>1, <1>3, <2>1, StrayGoesKeeps
  <1> QED
    BY <1>2, <1>3 DEF Crashes

LEMMA StrayEndsKeeps ==
    ASSUME IInv, NEW p \in Pids, StrayEnds(p) PROVE IInv'
  <1>1. OthersOK'
    BY TypeParts DEF IInv, OthersOK, StrayEnds, StrayGoes, bounds
  <1> QED
    BY <1>1, StrayGoesKeeps DEF StrayEnds, bounds

\* Who hands over is current no more; its successor takes its place, among the current
\* gateways or among those that were left.
LEMMA BeginsHandoverKeeps ==
    ASSUME IInv, NEW p \in Pids, BeginsHandover(p) PROVE IInv'
  <1>0. ServiceOK /\ OthersOK /\ OneCurrent
    BY TypeParts DEF IInv
  <1>1. p \in live /\ p \notin leaving /\ live \subseteq 1 .. spawned /\ spawned \in Nat
    BY <1>0 DEF BeginsHandover, ServiceOK, OneCurrent
  <1>2. /\ handovers' \in 1 .. MaxHandovers
        /\ expected' = TRUE /\ listening' = {} /\ leaving' = leaving \cup {p}
        /\ UNCHANGED <<child, killed, watchTimer, autoRestartEnabled, consecutiveRestarts,
                       watch, scheduled, caller, asked, hung, crashes, hangs>>
    BY <1>0, ProcessConstants DEF BeginsHandover, OthersOK
  <1>3. strays' \in 0 .. MaxFailures
    BY <1>0, FailureFits DEF BeginsHandover, OthersOK
  <1>4. OthersOK'
    BY <1>0, <1>2, <1>3 DEF OthersOK
  <1>5. Cardinality(listening') <= 1 /\ listening' \cap leaving' = {} /\ handovers' # 0
    BY <1>2, NoneIsOne
  <1>6. CASE spawned < MaxProcesses /\ spawned' = spawned + 1 /\ successor' = spawned'
             /\ live' = live \cup {spawned'}
             /\ left' = IF p \in left THEN left \cup {spawned'} ELSE left
    <2>1. spawned' \in Pids /\ live' \subseteq 1 .. spawned' /\ spawned' \in 0 .. MaxProcesses
      BY <1>1, <1>6, ProcessConstants DEF Pids
    <2>2. hung' \subseteq live' /\ listening' \subseteq live' \ hung'
          /\ leaving' \subseteq live' /\ left' \subseteq live'
          /\ (child' # None => child' \in live')
      BY <1>0, <1>1, <1>2, <1>6 DEF ServiceOK
    <2>3. ServiceOK'
      BY <1>0, <1>2, <1>5, <1>6, <2>1, <2>2 DEF ServiceOK
    <2>4. \A q, t \in Current' : q = t
      <3>1. CASE p \in left
        <4>1. Current' \subseteq Current
          BY <1>2, <1>6, <3>1 DEF Current
        <4> QED
          BY <1>0, <4>1 DEF OneCurrent
      <3>2. CASE p \notin left
        <4>1. Current \subseteq {p}
          BY <1>0, <1>1, <3>2 DEF OneCurrent, Current
        <4>2. Current' \subseteq {spawned'}
          BY <1>2, <1>6, <3>2, <4>1 DEF Current
        <4> QED
          BY <4>2
      <3> QED
        BY <3>1, <3>2
    <2> QED
      BY <1>2, <1>4, <1>5, <2>3, <2>4, TypePartsNext
         DEF IInv, WaitedFor, OneCurrent, RestartsStayEnabled
  <1>7. CASE UNCHANGED <<spawned, successor, live, left>>
    <2>1. ServiceOK'
      BY <1>0, <1>1, <1>2, <1>5, <1>7 DEF ServiceOK
    <2>2. Current' \subseteq Current
      BY <1>2, <1>7 DEF Current
    <2>3. OneCurrent'
      BY <1>0, <1>5, <2>2 DEF OneCurrent
    <2> QED
      BY <1>2, <1>4, <2>1, <2>3, TypePartsNext DEF IInv, WaitedFor, RestartsStayEnabled
  <1> QED
    BY <1>6, <1>7 DEF BeginsHandover

LEMMA ChildEndsKeeps ==
    ASSUME IInv, ChildEnds PROVE IInv'
  <1>0. OthersOK
    BY TypeParts DEF IInv
  <1>1. PICK how \in {"zero", "term"} : ChildExits(how)
    BY DEF ChildEnds
  <1>2. /\ ServiceOK' /\ OneCurrent' /\ WaitedFor' /\ RestartsStayEnabled'
        /\ autoRestartEnabled' \in BOOLEAN
        /\ consecutiveRestarts' \in Nat /\ scheduled' \in Nat
        /\ caller' \in [Callers -> {"idle", "stopping", "done"}]
    BY <1>1, ExitKeeps DEF ChildEnds, bounds
  <1>3. OthersOK'
    BY <1>0, <1>2 DEF OthersOK, ChildEnds, bounds
  <1> QED
    BY <1>2, <1>3, TypePartsNext DEF IInv

(***************************************************************************)
(* The theorems.                                                           *)
(***************************************************************************)

LEMMA IInvInit == Init => IInv
  <1> SUFFICES ASSUME Init PROVE IInv
    OBVIOUS
  <1>1. Cardinality(listening) <= 1
    BY NoneIsOne DEF Init
  <1>2. ServiceOK
    <2>1. child \in Pids /\ spawned \in 0 .. MaxProcesses
      BY ProcessConstants DEF Init, Pids
    <2>2. watch \in WatchStates
      BY DEF Init, WatchStates, Unseen
    <2>3. hung \subseteq live /\ listening \subseteq live \ hung /\ live \subseteq 1 .. spawned
          /\ leaving \subseteq live /\ left \subseteq live
          /\ child \in live
      BY DEF Init
    <2>4. killed \in BOOLEAN /\ expected \in BOOLEAN
          /\ successor = None /\ watchTimer = None
      BY DEF Init
    <2> QED
      BY <1>1, <2>1, <2>2, <2>3, <2>4 DEF ServiceOK
  <1>3. OthersOK
    BY ProcessConstants DEF Init, OthersOK
  <1> QED
    BY <1>2, <1>3, TypeParts DEF Init, IInv, WaitedFor, OneCurrent, Current,
                                   RestartsStayEnabled, None

LEMMA IInvStep == IInv /\ [Next]_vars => IInv'
  <1> SUFFICES ASSUME IInv, [Next]_vars PROVE IInv'
    OBVIOUS
  <1>1. ASSUME NEW c \in Callers, Restart(c) \/ StopTimesOut(c) PROVE IInv'
    BY <1>1, RestartKeeps, StopTimesOutKeeps
  <1>2. CASE ScheduledStart \/ HealthTick \/ ChildEnds
    BY <1>2, ScheduledStartKeeps, HealthTickKeeps, ChildEndsKeeps
  <1>3. ASSUME NEW w \in Watches, Watching(w) PROVE IInv'
    BY <1>3, WatchingKeeps
  <1>4. ASSUME NEW p \in Pids, \/ Listens(p) \/ Crashes(p) \/ Hangs(p)
                                \/ BeginsHandover(p) \/ StrayEnds(p)
        PROVE  IInv'
    BY <1>4, ListensKeeps, CrashesKeeps, HangsKeeps, BeginsHandoverKeeps, StrayEndsKeeps
  <1>5. CASE UNCHANGED vars
    BY <1>5, Stuttering
  <1> QED
    BY <1>1, <1>2, <1>3, <1>4, <1>5 DEF Next

THEOREM Invariance == Spec => []IInv
  BY IInvInit, IInvStep, PTL DEF Spec

\* The manager's fields and the processes keep their types, however restarts,
\* timers, watches and exits interleave.
THEOREM TypeCorrect == Spec => []TypeOK
  BY Invariance, PTL DEF IInv

\* At most one of a set of processes.
LEMMA AtMostOne ==
    ASSUME NEW S, \A p, q \in S : p = q
    PROVE  Cardinality(S) <= 1
  <1>1. CASE S = {}
    BY <1>1, NoneIsOne
  <1>2. CASE S # {}
    <2>1. PICK p \in S : TRUE
      BY <1>2
    <2>2. S = {p}
      BY <2>1
    <2> QED
      BY <2>2, NoneIsOne
  <1> QED
    BY <1>1, <1>2

LEMMA OneGatewayHolds == IInv => OneGateway
  <1> SUFFICES ASSUME IInv PROVE OneGateway
    OBVIOUS
  <1>1. Cardinality(live \ (left \cup leaving)) <= 1
    BY AtMostOne DEF IInv, OneCurrent, Current
  <1>2. handovers = 0 => Cardinality(live) <= 1
    BY AtMostOne DEF IInv, OneCurrent
  <1> QED
    BY <1>1, <1>2 DEF OneGateway

\* Whatever overlaps, and whether or not scans of the processes work: no two gateways
\* run but those that hand over, and those a start() could not find and kill
\* (openclaw-process.ts:93), of which there are none before a controlled restart.
THEOREM NeverTwoGateways == Spec => []OneGateway
  BY Invariance, OneGatewayHolds, PTL

\* However restart() calls overlap each other and the exits of the child, crash
\* restarts are enabled whenever none of them waits (enableAutoRestart()).
THEOREM RestartsEnabled == Spec => []RestartsStayEnabled
  BY Invariance, PTL DEF IInv

===============================================================================
