--------------------------- MODULE RuntimeUnitsProofs ---------------------------
(***************************************************************************)
(* What the desktop's supervisor guarantees for any units, any number of   *)
(* processes and crashes, and requests in any order: types, that a child   *)
(* is a process of its unit and that, but for units with a process that    *)
(* outlived the deadline of its start or the stop before the next start,   *)
(* no process runs beside the one its unit can stop.                       *)
(***************************************************************************)
EXTENDS RuntimeUnits, SequenceTheorems, TLAPS

(***************************************************************************)
(* The inductive invariant.                                                *)
(***************************************************************************)

\* The entry in `children` is a process that was spawned for the unit.
ChildIsOfUnit == \A u \in Units : child[u] # None => unitOf[child[u]] = u /\ child[u] \in 1 .. spawned

\* Restarts are counted, and armed, once for each crash.
CrashesCount == \A u \in Units : autoRestartAttempts[u] <= crashes /\ timers[u] <= crashes

TInv == TypeOK /\ ChildIsOfUnit /\ CrashesCount

\* A unit whose process runs, and is not late, is in a phase in which no start spawns
\* another without making it late.
LiveIsNotRestarted ==
    \A p \in live : unitOf[p] \notin late =>
        phase[unitOf[p]] \in {"starting", "running", "stopping"}

HInv == EveryProcessIsHeld /\ RunningIsAlive /\ LiveIsNotRestarted

(***************************************************************************)
(* The parts of the state.                                                 *)
(***************************************************************************)

UnitsOK ==
    /\ phase \in [Units -> Phases] /\ child \in [Units -> {None} \cup Pids]
    /\ stoppedByUser \in [Units -> BOOLEAN]

CountsOK ==
    /\ autoRestartAttempts \in [Units -> 0 .. MaxCrashes]
    /\ timers \in [Units -> 0 .. MaxCrashes] /\ waits \in [Units -> Nat]
    /\ crashes \in 0 .. MaxCrashes /\ asked \in 0 .. MaxRequests
    /\ CrashesCount

RequestsOK ==
    request \in [Requests -> [todo : Seq(Steps), exits : SUBSET Pids, port : SUBSET Units]]

OsOK ==
    /\ spawned \in 0 .. MaxProcesses /\ unitOf \in [Pids -> Units]
    /\ live \subseteq 1 .. spawned /\ listening \subseteq live
    /\ late \subseteq Units

LEMMA Parts == TInv <=> UnitsOK /\ CountsOK /\ RequestsOK /\ OsOK /\ ChildIsOfUnit
  BY Zenon DEF TInv, TypeOK, UnitsOK, CountsOK, RequestsOK, OsOK

LEMMA PartsNext == UnitsOK' /\ CountsOK' /\ RequestsOK' /\ OsOK' /\ ChildIsOfUnit' => TInv'
  BY Zenon DEF TInv, TypeOK, UnitsOK, CountsOK, RequestsOK, OsOK

LEMMA Bounds == /\ MaxProcesses \in Nat /\ MaxCrashes \in Nat /\ MaxRequests \in Nat
                /\ MaxConsecutiveRestarts \in Nat /\ None \notin Pids
                /\ Dependents \in [Units -> SUBSET Units]
                /\ Order \in Seq(Units) /\ Order # <<>>
  BY UnitConstants DEF None, Pids

(***************************************************************************)
(* The steps a request has left.                                           *)
(***************************************************************************)

LEMMA StepTypes ==
    /\ \A u \in Units : Start(u) \in Steps /\ Start(u).do = "start" /\ Start(u).unit = u
    /\ \A U \in SUBSET Units : Stop(U) \in Steps /\ Stop(U).do = "stop" /\ Stop(U).units = U
    /\ \A step \in Steps : step.do = "start" => step.unit \in Units
    /\ \A step \in Steps : step.do # "start" => step.do = "stop" /\ step.units \in SUBSET Units
  BY DEF Start, Stop, Steps

LEMMA Rest ==
    ASSUME NEW todo \in Seq(Steps), todo # <<>>
    PROVE  /\ Head(todo) \in Steps /\ Tail(todo) \in Seq(Steps)
           /\ 1 \in DOMAIN todo /\ Head(todo) = todo[1]
           /\ \A i \in DOMAIN Tail(todo) : i + 1 \in DOMAIN todo /\ Tail(todo)[i] = todo[i + 1]
  BY HeadTailProperties

\* The cold start's steps.
ColdSteps == [i \in 1 .. Len(Order) - 1 |-> Start(Order[i + 1])]

LEMMA ColdStepsAreStarts ==
    /\ Head(Order) \in Units
    /\ ColdSteps \in Seq(Steps)
    /\ \A i \in DOMAIN ColdSteps : ColdSteps[i].do = "start"
  <1>1. Len(Order) \in Nat /\ Len(Order) > 0 /\ \A i \in 1 .. Len(Order) : Order[i] \in Units
    BY Bounds
  <1>2. \A i \in 1 .. Len(Order) - 1 : Start(Order[i + 1]) \in Steps /\ Start(Order[i + 1]).do = "start"
    BY <1>1, StepTypes
  <1> QED
    BY <1>1, <1>2, Bounds DEF ColdSteps

(***************************************************************************)
(* Types, the units' processes and the counts: kept by every step.         *)
(***************************************************************************)

LEMMA SpawnTyped ==
    ASSUME TInv, NEW u \in Units, Spawn(u)
    PROVE  UnitsOK' /\ OsOK' /\ ChildIsOfUnit' /\ UNCHANGED <<autoRestartAttempts, crashes>>
  <1>0. UnitsOK /\ OsOK /\ ChildIsOfUnit
    BY Parts
  <1>1. spawned' = spawned + 1 /\ spawned' \in Pids /\ spawned' \in 0 .. MaxProcesses
    BY <1>0, Bounds DEF Spawn, OsOK, Pids
  <1>2. UnitsOK'
    BY <1>0, <1>1 DEF UnitsOK, Spawn, Phases
  <1>3. OsOK'
    BY <1>0, <1>1 DEF OsOK, Spawn, LateIf
  <1>4. ChildIsOfUnit'
    BY <1>0, <1>1, Bounds DEF ChildIsOfUnit, Spawn, UnitsOK, OsOK, None, Pids
  <1> QED
    BY <1>2, <1>3, <1>4 DEF Spawn

LEMMA BeginTyped ==
    ASSUME RequestsOK, NEW r \in Requests, NEW rest \in Seq(Steps),
           NEW exits \in SUBSET Pids, NEW port \in SUBSET Units, Begin(r, rest, exits, port)
    PROVE  RequestsOK'
  BY DEF RequestsOK, Begin

LEMMA DoStartTyped ==
    ASSUME TInv, NEW r \in Requests, NEW u \in Units, NEW rest \in Seq(Steps), DoStart(r, u, rest),
           UNCHANGED <<timers, waits>>, asked' \in 0 .. MaxRequests
    PROVE  TInv'
  <1>0. UnitsOK /\ CountsOK /\ RequestsOK /\ OsOK /\ ChildIsOfUnit
    BY Parts
  <1>1. RequestsOK'
    BY <1>0, BeginTyped DEF DoStart
  <1>2. UnitsOK' /\ OsOK' /\ ChildIsOfUnit' /\ UNCHANGED <<autoRestartAttempts, crashes>>
    <2>1. CASE UNCHANGED <<record, os>>
      BY <1>0, <2>1 DEF record, os, UnitsOK, OsOK, ChildIsOfUnit
    <2>2. CASE Spawn(u)
      BY <2>2, SpawnTyped
    <2> QED
      BY <2>1, <2>2 DEF DoStart
  <1>3. CountsOK'
    BY <1>0, <1>2 DEF CountsOK, CrashesCount
  <1> QED
    BY <1>1, <1>2, <1>3, PartsNext

LEMMA DoStopTyped ==
    ASSUME TInv, NEW r \in Requests, NEW U \in SUBSET Units, NEW rest \in Seq(Steps),
           DoStop(r, U, rest), UNCHANGED <<timers, waits>>, asked' \in 0 .. MaxRequests
    PROVE  TInv'
  <1>0. UnitsOK /\ CountsOK /\ RequestsOK /\ OsOK /\ ChildIsOfUnit
    BY Parts
  <1> DEFINE held == {u \in U : child[u] # None}
             exits == {child[u] : u \in held}
  <1>1. exits \in SUBSET Pids
    BY <1>0 DEF UnitsOK
  <1>2. RequestsOK'
    BY <1>0, <1>1, BeginTyped DEF DoStop
  <1>3. UnitsOK'
    <2>1. phase' \in [Units -> Phases]
      BY <1>0 DEF DoStop, UnitsOK, Phases
    <2>2. stoppedByUser' \in [Units -> BOOLEAN]
      BY <1>0 DEF DoStop, UnitsOK
    <2>3. child' = child
      BY DEF DoStop
    <2> QED
      BY <1>0, <2>1, <2>2, <2>3 DEF UnitsOK
  <1>4. OsOK' /\ ChildIsOfUnit'
    BY <1>0 DEF DoStop, os, OsOK, ChildIsOfUnit
  <1>5. CountsOK'
    BY <1>0 DEF DoStop, os, CountsOK, CrashesCount
  <1> QED
    BY <1>2, <1>3, <1>4, <1>5, PartsNext

LEMMA AsksTyped == ASSUME TInv, NEW r, Asks(r) PROVE asked' \in 0 .. MaxRequests
  BY Parts, Bounds DEF Asks, CountsOK

LEMMA StepTyped == ASSUME TInv, NEW r \in Requests, Step(r) PROVE TInv'
  <1> DEFINE todo == request[r].todo
  <1>1. todo \in Seq(Steps) /\ todo # <<>> /\ asked' \in 0 .. MaxRequests
    BY Parts DEF RequestsOK, CountsOK, Step
  <1>2. Head(todo) \in Steps /\ Tail(todo) \in Seq(Steps)
    BY <1>1, Rest
  <1>3. CASE Head(todo).do = "start"
    BY <1>1, <1>2, <1>3, StepTypes, DoStartTyped DEF Step
  <1>4. CASE Head(todo).do # "start"
    BY <1>1, <1>2, <1>4, StepTypes, DoStopTyped DEF Step
  <1> QED
    BY <1>3, <1>4

LEMMA RequestTyped ==
    ASSUME TInv, NEW r \in Requests,
           \/ ColdStart(r) \/ Dispose(r)
           \/ \E u \in Units : StartOne(r, u) \/ StopOne(r, u)
    PROVE  TInv'
  <1>0. <<>> \in Seq(Steps) /\ \A U \in SUBSET Units : <<Stop(U)>> \in Seq(Steps)
    BY StepTypes
  <1>1. CASE ColdStart(r)
    BY <1>1, AsksTyped, ColdStepsAreStarts, DoStartTyped DEF ColdStart, ColdSteps
  <1>2. CASE Dispose(r)
    BY <1>0, <1>2, AsksTyped, DoStopTyped DEF Dispose
  <1>3. ASSUME NEW u \in Units, StartOne(r, u) PROVE TInv'
    BY <1>0, <1>3, AsksTyped, DoStartTyped DEF StartOne
  <1>4. ASSUME NEW u \in Units, StopOne(r, u) PROVE TInv'
    BY <1>0, <1>4, AsksTyped, DoStopTyped, Bounds DEF StopOne
  <1> QED
    BY <1>1, <1>2, <1>3, <1>4

\* A request that is answered, given up or past its deadline.
LEMMA RequestAlone ==
    ASSUME TInv, NEW r \in Requests,
           \/ request' = [request EXCEPT ![r] = Idle]
           \/ request' = [request EXCEPT ![r].exits = {}]
           \/ request' = [request EXCEPT ![r].port = {}]
    PROVE  RequestsOK'
  <1>0. RequestsOK
    BY Parts
  <1>1. CASE request' = [request EXCEPT ![r] = Idle]
    <2>1. Idle \in [todo : Seq(Steps), exits : SUBSET Pids, port : SUBSET Units]
      BY DEF Idle
    <2> QED
      BY <1>0, <1>1, <2>1 DEF RequestsOK
  <1>2. CASE request' = [request EXCEPT ![r].exits = {}]
    BY <1>0, <1>2 DEF RequestsOK
  <1>3. CASE request' = [request EXCEPT ![r].port = {}]
    BY <1>0, <1>3 DEF RequestsOK
  <1> QED
    BY <1>1, <1>2, <1>3

LEMMA RequestEndsTyped ==
    ASSUME TInv, NEW r \in Requests, ColdStartFails(r) \/ StopDeadline(r)
    PROVE  TInv'
  <1>0. UnitsOK /\ CountsOK /\ OsOK /\ ChildIsOfUnit
    BY Parts
  <1>1. RequestsOK'
    BY RequestAlone DEF ColdStartFails, StopDeadline
  <1>2. UNCHANGED <<record, timers, waits, os, asked>>
    BY DEF ColdStartFails, StopDeadline
  <1> QED
    BY <1>0, <1>1, <1>2, PartsNext DEF record, os, UnitsOK, CountsOK, CrashesCount, OsOK, ChildIsOfUnit

\* The wait for a port ends.
LEMMA PortTyped ==
    ASSUME TInv, NEW u \in Units, PortReady(u) \/ PortTimeout(u),
           UNCHANGED <<spawned, unitOf, live, listening, crashes>>
    PROVE  /\ UnitsOK' /\ OsOK' /\ ChildIsOfUnit'
           /\ autoRestartAttempts' \in [Units -> 0 .. MaxCrashes]
           /\ \A v \in Units : autoRestartAttempts'[v] <= crashes
  <1>0. UnitsOK /\ CountsOK /\ OsOK /\ ChildIsOfUnit
    BY Parts
  <1>1. child' = child /\ stoppedByUser' = stoppedByUser
    BY DEF PortReady, PortTimeout
  <1>2. phase' \in [Units -> Phases]
    BY <1>0 DEF PortReady, PortTimeout, UnitsOK, Phases
  <1>3. /\ autoRestartAttempts' \in [Units -> 0 .. MaxCrashes]
        /\ \A v \in Units : autoRestartAttempts'[v] <= crashes
    <2>1. CASE autoRestartAttempts' = autoRestartAttempts
      BY <1>0, <2>1 DEF CountsOK, CrashesCount
    <2>2. CASE autoRestartAttempts' = [autoRestartAttempts EXCEPT ![u] = 0]
      <3>1. 0 \in 0 .. MaxCrashes /\ 0 <= crashes
        BY <1>0, Bounds DEF CountsOK
      <3> QED
        BY <1>0, <2>2, <3>1 DEF CountsOK, CrashesCount
    <2> QED
      BY <2>1, <2>2 DEF PortReady, PortTimeout
  <1> QED
    BY <1>0, <1>1, <1>2, <1>3 DEF UnitsOK, OsOK, ChildIsOfUnit, PortReady, PortTimeout, LateIf

LEMMA StartReturnsTyped == ASSUME TInv, NEW r \in Requests, StartReturns(r) PROVE TInv'
  <1>0. CountsOK /\ RequestsOK
    BY Parts
  <1>1. PICK u \in request[r].port : PortReady(u) \/ PortTimeout(u)
    BY DEF StartReturns
  <1>2. u \in Units
    BY <1>0 DEF RequestsOK
  <1>3. /\ UnitsOK' /\ OsOK' /\ ChildIsOfUnit'
        /\ autoRestartAttempts' \in [Units -> 0 .. MaxCrashes]
        /\ \A v \in Units : autoRestartAttempts'[v] <= crashes
    BY <1>1, <1>2, PortTyped DEF StartReturns
  <1>4. RequestsOK'
    BY RequestAlone DEF StartReturns
  <1>5. CountsOK'
    BY <1>0, <1>3 DEF StartReturns, CountsOK, CrashesCount
  <1> QED
    BY <1>3, <1>4, <1>5, PartsNext

LEMMA TimerStartReturnsTyped == ASSUME TInv, NEW u \in Units, TimerStartReturns(u) PROVE TInv'
  <1>0. CountsOK /\ RequestsOK
    BY Parts
  <1>1. /\ UnitsOK' /\ OsOK' /\ ChildIsOfUnit'
        /\ autoRestartAttempts' \in [Units -> 0 .. MaxCrashes]
        /\ \A v \in Units : autoRestartAttempts'[v] <= crashes
    BY PortTyped DEF TimerStartReturns
  <1>2. waits' \in [Units -> Nat]
    BY <1>0 DEF TimerStartReturns, CountsOK
  <1>3. CountsOK' /\ RequestsOK'
    BY <1>0, <1>1, <1>2 DEF TimerStartReturns, CountsOK, CrashesCount, RequestsOK
  <1> QED
    BY <1>1, <1>3, PartsNext

LEMMA TimerFiresTyped == ASSUME TInv, NEW u \in Units, TimerFires(u) PROVE TInv'
  <1>0. UnitsOK /\ CountsOK /\ RequestsOK /\ OsOK /\ ChildIsOfUnit
    BY Parts
  <1>1. /\ timers' \in [Units -> 0 .. MaxCrashes]
        /\ \A v \in Units : timers'[v] <= crashes
    BY <1>0, Bounds DEF TimerFires, CountsOK, CrashesCount
  <1>2. /\ UnitsOK' /\ OsOK' /\ ChildIsOfUnit' /\ UNCHANGED <<autoRestartAttempts, crashes>>
        /\ waits' \in [Units -> Nat]
    <2>1. CASE UNCHANGED <<record, os, waits>>
      BY <1>0, <2>1 DEF record, os, UnitsOK, OsOK, ChildIsOfUnit, CountsOK
    <2>2. CASE Spawn(u) /\ waits' = [waits EXCEPT ![u] = @ + 1]
      BY <1>0, <2>2, SpawnTyped DEF CountsOK
    <2> QED
      BY <2>1, <2>2 DEF TimerFires
  <1>3. CountsOK' /\ RequestsOK'
    BY <1>0, <1>1, <1>2 DEF TimerFires, CountsOK, CrashesCount, RequestsOK
  <1> QED
    BY <1>2, <1>3, PartsNext

LEMMA ExitsTyped == ASSUME TInv, NEW p \in Pids, NEW code \in {0, 1}, Exits(p, code) PROVE TInv'
  <1>0. UnitsOK /\ CountsOK /\ RequestsOK /\ OsOK /\ ChildIsOfUnit
    BY Parts
  <1> DEFINE u == unitOf[p]
  <1>1. u \in Units
    BY <1>0 DEF OsOK
  <1>2. UnitsOK' /\ ChildIsOfUnit'
    BY <1>0, <1>1 DEF Exits, UnitsOK, ChildIsOfUnit, Phases
  <1>3. OsOK'
    BY <1>0 DEF Exits, OsOK, GoneOf
  <1>4. RequestsOK'
    BY <1>0 DEF Exits, RequestsOK
  <1>5. CountsOK'
    <2>1. CASE UNCHANGED <<autoRestartAttempts, timers, crashes>>
      BY <1>0, <2>1 DEF Exits, CountsOK, CrashesCount
    <2>2. ASSUME crashes < MaxCrashes, crashes' = crashes + 1,
                 NEW attempts \in {1, autoRestartAttempts[u] + 1}, Crash(u, attempts)
          PROVE  CountsOK'
      <3>0. /\ autoRestartAttempts[u] \in Nat /\ autoRestartAttempts[u] <= crashes
            /\ timers[u] \in Nat /\ timers[u] <= crashes
            /\ crashes \in Nat /\ crashes + 1 <= MaxCrashes /\ MaxCrashes \in Nat
        <4> HIDE DEF u
        <4>1. MaxCrashes \in Nat /\ crashes \in 0 .. MaxCrashes
          BY <1>0, Bounds DEF CountsOK
        <4>2. autoRestartAttempts[u] \in 0 .. MaxCrashes /\ timers[u] \in 0 .. MaxCrashes
          BY <1>0, <1>1 DEF CountsOK
        <4>3. autoRestartAttempts[u] <= crashes /\ timers[u] <= crashes
          BY <1>0, <1>1 DEF CountsOK, CrashesCount
        <4> QED
          BY <2>2, <4>1, <4>2, <4>3
      <3>1. attempts \in 0 .. crashes' /\ crashes' \in 0 .. MaxCrashes
        <4> HIDE DEF u
        <4> QED
          BY <2>2, <3>0
      <3>2. /\ autoRestartAttempts' \in [Units -> 0 .. MaxCrashes]
            /\ \A v \in Units : autoRestartAttempts'[v] <= crashes'
        <4>1. autoRestartAttempts' = [autoRestartAttempts EXCEPT ![u] = attempts]
          BY <2>2 DEF Crash
        <4>2. /\ autoRestartAttempts \in [Units -> 0 .. MaxCrashes]
              /\ \A v \in Units : autoRestartAttempts[v] <= crashes
              /\ crashes \in Nat /\ crashes + 1 <= MaxCrashes /\ MaxCrashes \in Nat
          BY <1>0, <2>2, Bounds DEF CountsOK, CrashesCount
        <4>3. attempts \in 0 .. MaxCrashes /\ attempts <= crashes + 1
          BY <2>2, <3>1, <4>2
        <4> HIDE DEF u
        <4>4. \A v \in Units : autoRestartAttempts'[v] = IF v = u THEN attempts
                                                        ELSE autoRestartAttempts[v]
          BY <1>1, <4>1, <4>2
        <4>5. autoRestartAttempts' \in [Units -> 0 .. MaxCrashes]
          BY <1>1, <4>1, <4>2, <4>3
        <4>6. ASSUME NEW v \in Units PROVE autoRestartAttempts'[v] <= crashes'
          <5>1. autoRestartAttempts[v] \in 0 .. MaxCrashes /\ autoRestartAttempts[v] <= crashes
            BY <4>2
          <5> QED
            BY <2>2, <4>2, <4>3, <4>4, <5>1
        <4> QED
          BY <4>5, <4>6
      <3>3. /\ timers' \in [Units -> 0 .. MaxCrashes]
            /\ \A v \in Units : timers'[v] <= crashes'
        <4>1. CASE timers' = timers
          BY <1>0, <2>2, <4>1 DEF CountsOK, CrashesCount
        <4>2. CASE timers' = [timers EXCEPT ![u] = @ + 1]
          <5>1. timers[u] + 1 \in 0 .. MaxCrashes /\ timers[u] + 1 <= crashes'
            BY <2>2, <3>0
          <5>2. \A v \in Units : timers[v] \in 0 .. MaxCrashes /\ timers[v] <= crashes'
            BY <1>0, <2>2, Bounds DEF CountsOK, CrashesCount
          <5> QED
            BY <1>0, <4>2, <5>1, <5>2 DEF CountsOK
        <4> QED
          BY <2>2, <4>1, <4>2 DEF Crash
      <3> QED
        BY <1>0, <3>1, <3>2, <3>3 DEF Exits, CountsOK, CrashesCount
    <2> QED
      BY <2>1, <2>2 DEF Exits
  <1> QED
    BY <1>2, <1>3, <1>4, <1>5, PartsNext

LEMMA ProcessTyped == ASSUME TInv, NEW p \in Pids, Listens(p) \/ FailsToSpawn(p) PROVE TInv'
  <1>0. UnitsOK /\ CountsOK /\ RequestsOK /\ OsOK /\ ChildIsOfUnit
    BY Parts
  <1>1. UnitsOK' /\ ChildIsOfUnit'
    BY <1>0 DEF Listens, FailsToSpawn, record, UnitsOK, ChildIsOfUnit, Phases, OsOK
  <1>2. OsOK'
    BY <1>0 DEF Listens, FailsToSpawn, OsOK, GoneOf
  <1>3. CountsOK' /\ RequestsOK'
    BY <1>0 DEF Listens, FailsToSpawn, record, CountsOK, CrashesCount, RequestsOK
  <1> QED
    BY <1>1, <1>2, <1>3, PartsNext

LEMMA TInvInit == Init => TInv
  <1> SUFFICES ASSUME Init PROVE TInv
    OBVIOUS
  <1>1. Head(Order) \in Units /\ Idle \in [todo : Seq(Steps), exits : SUBSET Pids, port : SUBSET Units]
    BY ColdStepsAreStarts DEF Idle
  <1>2. UnitsOK
    BY DEF Init, UnitsOK, Phases
  <1>3. CountsOK
    BY Bounds DEF Init, CountsOK, CrashesCount
  <1>4. RequestsOK
    BY <1>1 DEF Init, RequestsOK
  <1>5. OsOK /\ ChildIsOfUnit
    BY <1>1, Bounds DEF Init, OsOK, ChildIsOfUnit, None
  <1> QED
    BY <1>2, <1>3, <1>4, <1>5, Parts

LEMMA TInvStep == TInv /\ [Next]_vars => TInv'
  <1> SUFFICES ASSUME TInv, [Next]_vars PROVE TInv'
    OBVIOUS
  <1>1. ASSUME NEW r \in Requests,
               ColdStart(r) \/ Dispose(r) \/ \E u \in Units : StartOne(r, u) \/ StopOne(r, u)
        PROVE  TInv'
    BY <1>1, RequestTyped
  <1>2. ASSUME NEW r \in Requests, ColdStartFails(r) \/ Proceed(r) PROVE TInv'
    BY <1>2, RequestEndsTyped, StepTyped, StartReturnsTyped DEF Proceed
  <1>3. ASSUME NEW u \in Units, TimerFires(u) \/ TimerStartReturns(u) PROVE TInv'
    BY <1>3, TimerFiresTyped, TimerStartReturnsTyped
  <1>4. ASSUME NEW p \in Pids, Listens(p) \/ FailsToSpawn(p) \/ \E code \in {0, 1} : Exits(p, code)
        PROVE  TInv'
    BY <1>4, ProcessTyped, ExitsTyped
  <1>5. CASE UNCHANGED vars
    BY <1>5 DEF vars, record, os, TInv, TypeOK, ChildIsOfUnit, CrashesCount
  <1> QED
    BY <1>1, <1>2, <1>3, <1>4, <1>5 DEF Next

\* Types, for every number of units, processes, crashes and requests (startUnit, stopUnit,
\* attachManagedChildEvents): a restart is never armed more often than a process crashed.
THEOREM TypeCorrect == Spec => []TypeOK
  <1>1. Spec => []TInv
    BY TInvInit, TInvStep, PTL DEF Spec
  <1> QED
    BY <1>1, PTL DEF TInv

\* The entry in `children` is a process spawned for that unit, whatever the processes do
\* (startUnit, attachManagedChildEvents).
THEOREM ChildOfUnit == Spec => []ChildIsOfUnit
  <1>1. Spec => []TInv
    BY TInvInit, TInvStep, PTL DEF Spec
  <1> QED
    BY <1>1, PTL DEF TInv

(***************************************************************************)
(* No process beside the one its unit holds, in units that are not late.   *)
(***************************************************************************)

\* A process of the unit that runs while it stops makes it late, and in any other phase a
\* start may spawn in there is none.
LEMMA SpawnHeld ==
    ASSUME TInv, HInv, NEW u \in Units, Spawn(u)
    PROVE  HInv'
  <1>0. UnitsOK /\ OsOK /\ ChildIsOfUnit
    BY Parts
  <1>1. \A p \in live : p \in Pids /\ unitOf[p] \in Units /\ p # spawned + 1
    BY <1>0, Bounds DEF OsOK, Pids
  <1>2. late \subseteq late' /\ \A p \in live : unitOf[p] = u => u \in late'
    BY DEF HInv, LiveIsNotRestarted, Spawn, Active, LateIf, OfUnit
  <1>3. spawned' = spawned + 1 /\ spawned' \in Pids
    BY <1>0, Bounds DEF Spawn, OsOK, Pids
  <1>4. /\ unitOf'[spawned'] = u /\ child'[u] = spawned' /\ phase'[u] = "starting"
        /\ \A p \in live : unitOf'[p] = unitOf[p]
        /\ \A v \in Units \ {u} : child'[v] = child[v] /\ phase'[v] = phase[v]
        /\ live' = live \cup {spawned'}
    BY <1>0, <1>1, <1>3 DEF Spawn, OsOK, UnitsOK
  <1>5. EveryProcessIsHeld' /\ LiveIsNotRestarted'
    BY <1>1, <1>2, <1>4 DEF HInv, EveryProcessIsHeld, LiveIsNotRestarted
  <1>6. RunningIsAlive'
    BY <1>2, <1>4 DEF HInv, RunningIsAlive
  <1> QED
    BY <1>5, <1>6 DEF HInv

LEMMA UnchangedHeld == ASSUME HInv, UNCHANGED <<record, os>> PROVE HInv'
  BY DEF record, os, HInv, EveryProcessIsHeld, RunningIsAlive, LiveIsNotRestarted

LEMMA DoStartHeld ==
    ASSUME TInv, HInv, NEW r, NEW u \in Units, NEW rest, DoStart(r, u, rest)
    PROVE  HInv'
  BY UnchangedHeld, SpawnHeld DEF DoStart

LEMMA DoStopHeld ==
    ASSUME TInv, HInv, NEW r, NEW U \in SUBSET Units, NEW rest, DoStop(r, U, rest)
    PROVE  HInv'
  <1>0. UnitsOK /\ OsOK
    BY Parts
  <1>1. child' = child /\ live' = live /\ unitOf' = unitOf /\ late' = late
    BY DEF DoStop, os
  <1>2. \A v \in Units : /\ phase'[v] = "running" => phase[v] = "running"
                         /\ child[v] # None => phase'[v] \in {"stopping", phase[v]}
    BY DEF DoStop, Active
  <1>3. \A p \in live : /\ unitOf[p] \in Units
                        /\ unitOf[p] \notin late => child[unitOf[p]] # None
    BY <1>0, Bounds DEF HInv, EveryProcessIsHeld, OsOK, Pids, None
  <1>4. EveryProcessIsHeld'
    BY <1>1 DEF HInv, EveryProcessIsHeld
  <1>5. RunningIsAlive'
    BY <1>1, <1>2 DEF HInv, RunningIsAlive
  <1>6. LiveIsNotRestarted'
    BY <1>1, <1>2, <1>3 DEF HInv, LiveIsNotRestarted
  <1> QED
    BY <1>4, <1>5, <1>6 DEF HInv

\* The port that opens in a unit that is not late is that of the unit's own process; a
\* process that has not opened its port in time makes its unit late.
LEMMA PortHeld ==
    ASSUME TInv, HInv, NEW u \in Units, PortReady(u) \/ PortTimeout(u),
           UNCHANGED <<spawned, unitOf, live, listening, crashes>>
    PROVE  HInv'
  <1>0. UnitsOK /\ OsOK
    BY Parts
  <1>1. child' = child
    BY DEF PortReady, PortTimeout
  <1>2. CASE PortReady(u) /\ child[u] # None
    <2>1. PICK p \in listening : unitOf[p] = u
      BY <1>2 DEF PortReady, OfUnit
    <2>2. p \in live /\ (u \notin late => child[u] = p)
      BY <1>0, <2>1 DEF OsOK, HInv, EveryProcessIsHeld
    <2>3. phase' = [phase EXCEPT ![u] = "running"] /\ late' = late
      BY <1>2 DEF PortReady
    <2> QED
      BY <1>0, <1>1, <2>2, <2>3
      DEF UnitsOK, HInv, EveryProcessIsHeld, RunningIsAlive, LiveIsNotRestarted
  <1>3. CASE PortReady(u) /\ child[u] = None
    BY <1>1, <1>3 DEF PortReady, HInv, EveryProcessIsHeld, RunningIsAlive, LiveIsNotRestarted
  <1>4. CASE PortTimeout(u)
    <2>1. late \subseteq late' /\ \A p \in live : unitOf[p] = u => u \in late'
      BY <1>4 DEF PortTimeout, LateIf, OfUnit
    <2>2. phase' = [phase EXCEPT ![u] = "failed"]
      BY <1>4 DEF PortTimeout
    <2> QED
      BY <1>0, <1>1, <2>1, <2>2
      DEF UnitsOK, HInv, EveryProcessIsHeld, RunningIsAlive, LiveIsNotRestarted
  <1> QED
    BY <1>2, <1>3, <1>4

\* A process that is gone: its unit is late as long as others of it run, and runs no
\* process if it is not late.
LEMMA GoneHeld ==
    ASSUME TInv, HInv, NEW p \in live, live' = live \ {p}, unitOf' = unitOf, GoneOf(p),
           NEW state \in {"stopped", "failed"}, phase' = [phase EXCEPT ![unitOf[p]] = state],
           child' = child \/ child' = [child EXCEPT ![unitOf[p]] = None]
    PROVE  HInv'
  <1>0. UnitsOK /\ OsOK /\ ChildIsOfUnit
    BY Parts
  <1>1. p \in Pids /\ unitOf[p] \in Units /\ \A q \in live : unitOf[q] \in Units
    BY <1>0, Bounds DEF OsOK, Pids
  <1>2. /\ late' \subseteq late /\ \A v \in Units \ {unitOf[p]} : v \in late => v \in late'
        /\ \A q \in live \ {p} : unitOf[q] = unitOf[p] => late' = late
    BY DEF GoneOf, OfUnit
  <1>3. \A q \in live \ {p} : unitOf[q] \notin late' => unitOf[q] # unitOf[p] /\ unitOf[q] \notin late
    BY <1>1, <1>2 DEF HInv, EveryProcessIsHeld
  <1>4. \A v \in Units \ {unitOf[p]} : /\ phase'[v] = phase[v] /\ child'[v] = child[v]
                                       /\ child[v] # p
    BY <1>0, <1>1, Bounds DEF UnitsOK, ChildIsOfUnit
  <1>5. phase'[unitOf[p]] = state
    BY <1>0, <1>1 DEF UnitsOK
  <1>6. EveryProcessIsHeld'
    BY <1>1, <1>3, <1>4 DEF HInv, EveryProcessIsHeld
  <1>7. LiveIsNotRestarted'
    BY <1>1, <1>3, <1>4 DEF HInv, LiveIsNotRestarted
  <1>8. RunningIsAlive'
    BY <1>2, <1>4, <1>5 DEF HInv, RunningIsAlive
  <1> QED
    BY <1>6, <1>7, <1>8 DEF HInv

(***************************************************************************)
(* The inductive invariant is kept.                                        *)
(***************************************************************************)

LEMMA HInvInit == Init => HInv
  BY DEF Init, HInv, EveryProcessIsHeld, RunningIsAlive, LiveIsNotRestarted

LEMMA AskedHeld ==
    ASSUME TInv, HInv, NEW r \in Requests,
           \/ ColdStart(r) \/ Dispose(r)
           \/ \E u \in Units : StartOne(r, u) \/ StopOne(r, u)
    PROVE  HInv'
  <1>1. CASE ColdStart(r)
    BY <1>1, ColdStepsAreStarts, DoStartHeld DEF ColdStart
  <1>2. CASE Dispose(r)
    BY <1>2, DoStopHeld DEF Dispose
  <1>3. ASSUME NEW u \in Units, StartOne(r, u) PROVE HInv'
    BY <1>3, DoStartHeld DEF StartOne
  <1>4. ASSUME NEW u \in Units, StopOne(r, u) PROVE HInv'
    BY <1>4, DoStopHeld, Bounds DEF StopOne
  <1> QED
    BY <1>1, <1>2, <1>3, <1>4

LEMMA StepHeld == ASSUME TInv, HInv, NEW r \in Requests, Step(r) PROVE HInv'
  <1> DEFINE step == Head(request[r].todo)
  <1>1. step \in Steps
    BY Parts, Rest DEF RequestsOK, Step
  <1>2. CASE step.do = "start"
    BY <1>1, <1>2, StepTypes, DoStartHeld DEF Step
  <1>3. CASE step.do # "start"
    BY <1>1, <1>3, StepTypes, DoStopHeld DEF Step
  <1> QED
    BY <1>2, <1>3

LEMMA ReturnsHeld ==
    ASSUME TInv, HInv, NEW r \in Requests,
           ColdStartFails(r) \/ StopDeadline(r) \/ StartReturns(r)
    PROVE  HInv'
  <1>1. CASE ColdStartFails(r) \/ StopDeadline(r)
    BY <1>1, UnchangedHeld DEF ColdStartFails, StopDeadline
  <1>2. CASE StartReturns(r)
    <2>1. PICK u \in request[r].port : PortReady(u) \/ PortTimeout(u)
      BY <1>2 DEF StartReturns
    <2>2. u \in Units
      BY Parts DEF RequestsOK
    <2> QED
      BY <1>2, <2>1, <2>2, PortHeld DEF StartReturns
  <1> QED
    BY <1>1, <1>2

LEMMA TimerHeld ==
    ASSUME TInv, HInv, NEW u \in Units, TimerFires(u) \/ TimerStartReturns(u)
    PROVE  HInv'
  <1>1. CASE TimerFires(u)
    BY <1>1, UnchangedHeld, SpawnHeld DEF TimerFires
  <1>2. CASE TimerStartReturns(u)
    BY <1>2, PortHeld DEF TimerStartReturns
  <1> QED
    BY <1>1, <1>2

LEMMA ProcessHeld ==
    ASSUME TInv, HInv, NEW p \in Pids,
           Listens(p) \/ FailsToSpawn(p) \/ \E code \in {0, 1} : Exits(p, code)
    PROVE  HInv'
  <1>1. CASE Listens(p)
    BY <1>1 DEF Listens, record, HInv, EveryProcessIsHeld, RunningIsAlive, LiveIsNotRestarted
  <1>2. CASE FailsToSpawn(p)
    BY <1>2, GoneHeld DEF FailsToSpawn
  <1>3. ASSUME NEW code \in {0, 1}, Exits(p, code) PROVE HInv'
    BY <1>3, GoneHeld DEF Exits
  <1> QED
    BY <1>1, <1>2, <1>3

LEMMA HInvStep == TInv /\ HInv /\ [Next]_vars => HInv'
  <1> SUFFICES ASSUME TInv, HInv, [Next]_vars PROVE HInv'
    OBVIOUS
  <1>1. ASSUME NEW r \in Requests, ColdStart(r) \/ ColdStartFails(r) \/ Dispose(r) \/ Proceed(r)
        PROVE  HInv'
    BY <1>1, ReturnsHeld, AskedHeld, StepHeld DEF Proceed
  <1>2. ASSUME NEW r \in Requests, \E u \in Units : StartOne(r, u) \/ StopOne(r, u)
        PROVE  HInv'
    BY <1>2, AskedHeld
  <1>3. ASSUME NEW u \in Units, TimerFires(u) \/ TimerStartReturns(u) PROVE HInv'
    BY <1>3, TimerHeld
  <1>4. ASSUME NEW p \in Pids, Listens(p) \/ FailsToSpawn(p) \/ \E code \in {0, 1} : Exits(p, code)
        PROVE  HInv'
    BY <1>4, ProcessHeld
  <1>5. CASE UNCHANGED vars
    BY <1>5, UnchangedHeld DEF vars
  <1> QED
    BY <1>1, <1>2, <1>3, <1>4, <1>5 DEF Next

\* The inductive invariant, for every number of units, processes, crashes and requests.
THEOREM Invariance == Spec => [](TInv /\ HInv)
  BY TInvInit, TInvStep, HInvInit, HInvStep, PTL DEF Spec

\* Every process that runs is the one its unit holds and can stop, whatever timers, starts
\* by hand, recoveries, port waits and exits do, unless a process of the unit outlived the
\* deadline of its start, or a start came while the unit was stopping (startUnit,
\* attachManagedChildEvents).
THEOREM OneProcessPerUnit == Spec => []EveryProcessIsHeld
  BY Invariance, PTL DEF HInv

\* A unit shown as running has a process that runs, whichever start's wait for the port
\* ended last, with the same exemption (startUnit after waitForPort).
THEOREM RunningHasAProcess == Spec => []RunningIsAlive
  BY Invariance, PTL DEF HInv

================================================================================
