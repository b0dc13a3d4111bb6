--------------------------- MODULE OpenClawProcess ---------------------------
(***************************************************************************)
(* The controller's supervision of the OpenClaw gateway it spawned: start, *)
(* stop and restart, restarts after a crash, and the watch over a          *)
(* "controlled restart", in which the gateway spawns its own successor and *)
(* exits.                                                                  *)
(*                                                                         *)
(* Processes are numbered as they are spawned.  The gateway is external: a *)
(* process comes to listen, crashes, hangs, or hands over, at any time.    *)
(* Whether start() finds the gateways that run already depends on the      *)
(* platform; `left' is a history of those it did not find, read by the     *)
(* properties only.                                                        *)
(***************************************************************************)
EXTENDS Naturals, FiniteSets

CONSTANTS
    Callers,        \* each calls restart() once
    Scans,          \* whether a scan of the processes succeeds: always where there is
                    \* /proc, not always with pgrep, never with neither (Windows)
    MaxConsecutive, \* MAX_CONSECUTIVE_RESTARTS
    MaxProcesses,   \* bound: how many gateways are ever spawned
    MaxFailures,    \* bound: how many of them crash or hang
    MaxHangs,       \* bound: how many hang
    MaxHandovers,   \* bound: how many controlled restarts
    MaxWatches      \* bound: watches over a controlled restart at a time

ASSUME ProcessConstants ==
    /\ Scans \subseteq BOOLEAN
    /\ {MaxConsecutive, MaxFailures, MaxHangs, MaxHandovers} \subseteq Nat
    /\ MaxProcesses \in Nat \ {0} /\ MaxWatches \in Nat \ {0}

None == 0
Pids == 1 .. MaxProcesses
Watches == 1 .. MaxWatches
Unseen == [port |-> FALSE, successor |-> FALSE]

VARIABLES
    child, killed,       \* this.child and its killed flag
    autoRestartEnabled,
    consecutiveRestarts,
    expected,            \* controlledRestartExpected
    successor,           \* controlledRestartSuccessorPid
    watchTimer,          \* controlledRestartTimer: the watch whose timer it is
    watch,               \* each watch: off, its timer armed, or its probe under way
    scheduled,           \* restart timers running, none of which has a handle
    caller,              \* each restart(): idle, stopping, done
    asked,               \* the last process spawned when restart() was called
    spawned,             \* how many processes there have been
    live, hung, listening, \* the processes that run, hang, hold the port
    leaving,             \* those that hand over and are to exit
    left,                \* those a start() did not find, and their successors
    crashes, strays,     \* how often the child crashed, and another gateway went away
    hangs, handovers

service == <<child, killed, expected, successor, watchTimer, spawned>>
os == <<live, hung, listening, leaving, left>>
bounds == <<crashes, strays, hangs, handovers>>
vars == <<service, autoRestartEnabled, consecutiveRestarts, watch, scheduled, caller,
          asked, os, bounds>>

WatchStates == [Watches -> [state : {"off", "armed", "probing"},
                            seen : [port : BOOLEAN, successor : BOOLEAN]]]

TypeOK ==
    /\ child \in {None} \cup Pids /\ killed \in BOOLEAN
    /\ autoRestartEnabled \in BOOLEAN /\ expected \in BOOLEAN
    /\ consecutiveRestarts \in Nat
    /\ successor \in {None} \cup Pids
    /\ watchTimer \in {None} \cup Watches
    /\ watch \in WatchStates
    /\ scheduled \in Nat
    /\ caller \in [Callers -> {"idle", "stopping", "done"}]
    /\ spawned \in 0 .. MaxProcesses
    /\ asked \in [Callers -> 0 .. MaxProcesses]
    /\ hung \subseteq live /\ listening \subseteq live \ hung /\ live \subseteq 1 .. spawned
    /\ leaving \subseteq live /\ left \subseteq live
    /\ Cardinality(listening) <= 1
    /\ child # None => child \in live
    /\ crashes \in 0 .. MaxFailures /\ strays \in 0 .. MaxFailures /\ hangs \in 0 .. MaxHangs
    /\ handovers \in 0 .. MaxHandovers

\* Bootstrap has enabled restarts and started the first gateway.
Init ==
    /\ child = 1 /\ spawned = 1 /\ live = {1}
    /\ hung = {} /\ listening = {} /\ leaving = {} /\ left = {}
    /\ killed = FALSE /\ autoRestartEnabled = TRUE /\ consecutiveRestarts = 0
    /\ expected = FALSE /\ successor = None /\ watchTimer = None
    /\ watch = [w \in Watches |-> [state |-> "off", seen |-> Unseen]]
    /\ scheduled = 0
    /\ caller = [c \in Callers |-> "idle"] /\ asked = [c \in Callers |-> 0]
    /\ crashes = 0 /\ strays = 0 /\ hangs = 0 /\ handovers = 0

Off == [state |-> "off", seen |-> Unseen]
IsAlive == child # None /\ ~killed /\ child \in live

\* Only these processes go on.
OnlyRun(alive) ==
    /\ live' = alive /\ hung' = hung \cap alive /\ listening' = listening \cap alive
    /\ leaving' = leaving \cap alive /\ left' = left \cap alive

(***************************************************************************)
(* start(), reached with the given child, watch timer, watches and running *)
(* processes: nothing if there is a child; else the watch's timer is       *)
(* cleared, every gateway found running is killed and a new one spawned.   *)
(* A scan that fails is passed over in silence and finds none.             *)
(***************************************************************************)

\* The fields start() sets when it spawns.
Spawns(timer, watching) ==
    /\ spawned < MaxProcesses
    /\ spawned' = spawned + 1 /\ child' = spawned'
    /\ killed' = FALSE /\ expected' = FALSE /\ successor' = None
    /\ watchTimer' = None
    /\ watch' = [w \in Watches |->
                   IF w = timer /\ watching[w].state = "armed" THEN Off ELSE watching[w]]

\* Mutant: gateways already running are left alone, though they could be found.
KillNone(alive) ==
    \E found \in Scans :
        /\ live' = alive \cup {spawned + 1}
        /\ hung' = hung \cap alive /\ listening' = listening \cap alive
        /\ leaving' = leaving \cap alive
        /\ left' = IF found THEN left \cap alive ELSE alive

\* killOrphanedOpenClawProcesses(): every other gateway is killed, or none.
KillOrphans(alive) ==
    \E found \in Scans :
        LET others == IF found THEN {} ELSE alive
        IN /\ live' = others \cup {spawned + 1}
           /\ hung' = hung \cap others /\ listening' = listening \cap others
           /\ leaving' = leaving \cap others /\ left' = others

Start(was, timer, watching, alive) ==
    \/ /\ was # None
       /\ child' = was /\ watchTimer' = timer /\ watch' = watching
       /\ OnlyRun(alive)
       /\ UNCHANGED <<killed, spawned, expected, successor>>
    \/ was = None /\ Spawns(timer, watching) /\ KillOrphans(alive)

\* scheduleRestart(): counted since the last run that was long enough, up to a limit.
ScheduleRestart ==
    IF ~autoRestartEnabled THEN UNCHANGED <<consecutiveRestarts, scheduled>>
    ELSE \E before \in {0, consecutiveRestarts} :
            /\ consecutiveRestarts' = before + 1
            /\ scheduled' = IF before + 1 > MaxConsecutive THEN scheduled ELSE scheduled + 1

(***************************************************************************)
(* The child's exit event, after a signal of ours ("term"), with code 0    *)
(* ("zero") or in another way ("crash"; also a spawn that failed).  The    *)
(* handler schedules a restart or starts a watch; a restart() that waited  *)
(* for this exit then goes on.                                             *)
(***************************************************************************)
WatchBegins(how) == how = "zero" /\ expected /\ autoRestartEnabled

ChildExits(how) ==
    /\ IF how = "term" \/ (how = "zero" /\ expected)
       THEN UNCHANGED <<consecutiveRestarts, scheduled>>
       ELSE ScheduleRestart
    /\ \E w \in Watches :
        /\ IF WatchBegins(how) THEN watch[w].state = "off" ELSE w = 1
        /\ LET timer == IF WatchBegins(how) THEN w ELSE watchTimer
               watching == IF WatchBegins(how)
                           THEN [watch EXCEPT ![w].state = "armed"] ELSE watch
           IN IF \E c \in Callers : caller[c] = "stopping"
              THEN /\ Start(None, timer, watching, live \ {child})
                   /\ autoRestartEnabled' = TRUE
                   /\ caller' = [c \in Callers |->
                                   IF caller[c] = "stopping" THEN "done" ELSE caller[c]]
              ELSE /\ child' = None /\ killed' = FALSE
                   /\ watchTimer' = timer /\ watch' = watching
                   /\ expected' = (expected /\ ~WatchBegins(how))
                   /\ OnlyRun(live \ {child})
                   /\ UNCHANGED <<successor, spawned, autoRestartEnabled, caller>>

(***************************************************************************)
(* restart(): stop(), enableAutoRestart(), start().                        *)
(***************************************************************************)

\* Mutant: with no child there is nothing to restart.
RestartChildOnly(c) ==
    /\ caller[c] = "idle"
    /\ asked' = [asked EXCEPT ![c] = spawned]
    /\ \/ /\ child = None
          /\ caller' = [caller EXCEPT ![c] = "done"]
          /\ UNCHANGED <<service, watch, os, autoRestartEnabled>>
       \/ /\ child # None /\ killed
          /\ autoRestartEnabled' = TRUE
          /\ caller' = [caller EXCEPT ![c] = "done"]
          /\ Start(child, watchTimer, watch, live)
       \/ /\ child # None /\ ~killed
          /\ autoRestartEnabled' = FALSE
          /\ caller' = [caller EXCEPT ![c] = "stopping"]
          /\ killed' = TRUE
          /\ UNCHANGED <<child, spawned, expected, successor, watchTimer, watch, os>>
    /\ UNCHANGED <<consecutiveRestarts, scheduled, bounds>>

\* Mutant: a stop() that has nothing to wait for leaves restarts disabled.
RestartUnenabled(c) ==
    /\ caller[c] = "idle"
    /\ asked' = [asked EXCEPT ![c] = spawned]
    /\ autoRestartEnabled' = FALSE
    /\ \/ /\ child = None \/ killed
          /\ caller' = [caller EXCEPT ![c] = "done"]
          /\ Start(child, watchTimer, watch, live)
       \/ /\ child # None /\ ~killed
          /\ caller' = [caller EXCEPT ![c] = "stopping"]
          /\ killed' = TRUE
          /\ UNCHANGED <<child, spawned, expected, successor, watchTimer, watch, os>>
    /\ UNCHANGED <<consecutiveRestarts, scheduled, bounds>>

\* stop() returns at once if there is no child or it was killed already; else it
\* sends SIGTERM and waits.
Restart(c) ==
    /\ caller[c] = "idle"
    /\ asked' = [asked EXCEPT ![c] = spawned]
    /\ \/ /\ child = None \/ killed
          /\ autoRestartEnabled' = TRUE
          /\ caller' = [caller EXCEPT ![c] = "done"]
          /\ Start(child, watchTimer, watch, live)
       \/ /\ child # None /\ ~killed
          /\ autoRestartEnabled' = FALSE
          /\ caller' = [caller EXCEPT ![c] = "stopping"]
          /\ killed' = TRUE
          /\ UNCHANGED <<child, spawned, expected, successor, watchTimer, watch, os>>
    /\ UNCHANGED <<consecutiveRestarts, scheduled, bounds>>

\* stop() gives up waiting for a child that hangs.  Its SIGKILL is guarded by
\* !current.killed, which the SIGTERM has set.
StopTimesOut(c) ==
    /\ caller[c] = "stopping" /\ child \in hung
    /\ autoRestartEnabled' = TRUE
    /\ caller' = [caller EXCEPT ![c] = "done"]
    /\ Start(child, watchTimer, watch, IF killed THEN live ELSE live \ {child})
    /\ UNCHANGED <<consecutiveRestarts, scheduled, asked, bounds>>

(***************************************************************************)
(* Timers: a scheduled restart, and the watch over a controlled restart.   *)
(***************************************************************************)

ScheduledStart ==
    /\ scheduled > 0
    /\ scheduled' = scheduled - 1
    /\ Start(child, watchTimer, watch, live)
    /\ UNCHANGED <<autoRestartEnabled, consecutiveRestarts, caller, asked, bounds>>

\* poll(): the port and the successor's pid are looked at.
Probe(w) ==
    /\ watch[w].state = "armed"
    /\ watch' = [watch EXCEPT ![w] =
                    [state |-> "probing",
                     seen |-> [port |-> listening # {}, successor |-> successor \in live]]]
    /\ UNCHANGED <<service, autoRestartEnabled, consecutiveRestarts, scheduled, caller,
                   asked, os, bounds>>

\* The gateway is back.
ProbeSeesPort(w) ==
    /\ watch[w].state = "probing" /\ watch[w].seen.port
    /\ consecutiveRestarts' = 0 /\ watchTimer' = None /\ successor' = None
    /\ watch' = [watch EXCEPT ![w] = Off]
    /\ UNCHANGED <<child, killed, expected, spawned, autoRestartEnabled, scheduled, caller,
                   asked, os, bounds>>

\* The successor lives, or the grace period is not over: look again.
ProbeAgain(w) ==
    /\ watch[w].state = "probing" /\ ~watch[w].seen.port
    /\ watchTimer' = w
    /\ watch' = [watch EXCEPT ![w] = [Off EXCEPT !.state = "armed"]]
    /\ UNCHANGED <<child, killed, expected, successor, spawned, autoRestartEnabled,
                   consecutiveRestarts, scheduled, caller, asked, os, bounds>>

\* Mutant: the watch ends without a start.
ProbeGivesUpIdle(w) ==
    /\ watch[w].state = "probing" /\ watch[w].seen = Unseen
    /\ watchTimer' = None /\ successor' = None
    /\ watch' = [watch EXCEPT ![w] = Off]
    /\ UNCHANGED <<child, killed, expected, spawned, autoRestartEnabled,
                   consecutiveRestarts, scheduled, caller, asked, os, bounds>>

\* No port, no successor and no grace left: the supervisor starts one itself.
ProbeGivesUp(w) ==
    /\ watch[w].state = "probing" /\ watch[w].seen = Unseen
    /\ IF child = None THEN Start(None, None, [watch EXCEPT ![w] = Off], live)
       ELSE /\ watchTimer' = None /\ successor' = None
            /\ watch' = [watch EXCEPT ![w] = Off]
            /\ UNCHANGED <<child, killed, expected, spawned, os>>
    /\ UNCHANGED <<autoRestartEnabled, consecutiveRestarts, scheduled, caller, asked, bounds>>

\* The health loop, with no WebSocket connection and no live child: restartForHealth()
\* sends SIGKILL to a child that was not killed before.
HealthTick ==
    /\ listening = {} /\ ~IsAlive
    /\ OnlyRun(IF child = None \/ killed THEN live ELSE live \ {child})
    /\ UNCHANGED <<service, autoRestartEnabled, consecutiveRestarts, watch, scheduled,
                   caller, asked, bounds>>

(***************************************************************************)
(* The gateway: external.                                                  *)
(***************************************************************************)

Failures == crashes + strays + hangs

Listens(p) ==
    /\ p \in live \ (hung \cup leaving) /\ listening = {}
    /\ listening' = {p}
    /\ UNCHANGED <<service, autoRestartEnabled, consecutiveRestarts, watch, scheduled,
                   caller, asked, live, hung, leaving, left, bounds>>

\* Another gateway than the child ends: nothing waits for its exit.
StrayGoes(p) ==
    /\ p \in live \ {child}
    /\ OnlyRun(live \ {p})
    /\ UNCHANGED <<service, autoRestartEnabled, consecutiveRestarts, watch, scheduled,
                   caller>>

\* With any code, 0 included.
Crashes(p) ==
    /\ p \in live /\ Failures < MaxFailures
    /\ \/ /\ p = child /\ \E how \in {"crash", "zero"} : ChildExits(how)
          /\ crashes' = crashes + 1 /\ UNCHANGED strays
       \/ /\ StrayGoes(p)
          /\ strays' = strays + 1 /\ UNCHANGED crashes
    /\ UNCHANGED <<asked, hangs, handovers>>

Hangs(p) ==
    /\ p \in live \ hung /\ hangs < MaxHangs /\ Failures < MaxFailures
    /\ hangs' = hangs + 1
    /\ hung' = hung \cup {p} /\ listening' = listening \ {p}
    /\ UNCHANGED <<service, autoRestartEnabled, consecutiveRestarts, watch, scheduled,
                   caller, asked, live, leaving, left, crashes, strays, handovers>>

\* The gateway that listens, the child or a successor, begins a full restart: its line
\* on the stdout that successors inherit, or its notice over the WebSocket, is read
\* before it exits.  Without a successor one that is not the child is as good as lost.
BeginsHandover(p) ==
    /\ p \in listening /\ handovers < MaxHandovers
    /\ p = child => ~killed
    /\ handovers' = handovers + 1
    /\ expected' = TRUE
    /\ listening' = {} /\ leaving' = leaving \cup {p}
    /\ \/ /\ spawned < MaxProcesses
          /\ spawned' = spawned + 1 /\ successor' = spawned'
          /\ live' = live \cup {spawned'}
          /\ left' = IF p \in left THEN left \cup {spawned'} ELSE left
          /\ UNCHANGED strays
       \/ /\ p = child
          /\ UNCHANGED <<spawned, successor, live, left, strays>>
       \/ /\ p # child /\ Failures < MaxFailures
          /\ strays' = strays + 1
          /\ UNCHANGED <<spawned, successor, live, left>>
    /\ UNCHANGED <<child, killed, watchTimer, autoRestartEnabled, consecutiveRestarts, watch,
                   scheduled, caller, asked, hung, crashes, hangs>>

\* A child that hands over ends with code 0; one that was sent SIGTERM by the signal,
\* or with code 0 from a handler of it.
ChildEnds ==
    /\ child # None /\ child \notin hung
    /\ \/ (child \in leaving \/ killed) /\ ChildExits("zero")
       \/ killed /\ ChildExits("term")
    /\ UNCHANGED <<asked, bounds>>

\* A successor that hands over ends too.
StrayEnds(p) ==
    /\ p \in leaving \ hung
    /\ StrayGoes(p)
    /\ UNCHANGED <<asked, bounds>>

Watching(w) == Probe(w) \/ ProbeSeesPort(w) \/ ProbeAgain(w) \/ ProbeGivesUp(w)

Next ==
    \/ \E c \in Callers : Restart(c) \/ StopTimesOut(c)
    \/ ScheduledStart \/ HealthTick \/ ChildEnds
    \/ \E w \in Watches : Watching(w)
    \/ \E p \in Pids : Listens(p) \/ Crashes(p) \/ Hangs(p) \/ BeginsHandover(p) \/ StrayEnds(p)

Spec == Init /\ [][Next]_vars

\* Timers fire, probes end, grace periods end, a gateway that does not hang comes to
\* listen, and one that is to exit exits.
Fairness ==
    /\ \A c \in Callers : WF_vars(StopTimesOut(c))
    /\ WF_vars(ScheduledStart) /\ WF_vars(ChildEnds) /\ WF_vars(HealthTick)
    /\ \A w \in Watches : WF_vars(Watching(w)) /\ SF_vars(ProbeGivesUp(w))
    /\ \A p \in Pids : WF_vars(Listens(p)) /\ WF_vars(StrayEnds(p))

FairSpec == Spec /\ Fairness

-------------------------------------------------------------------------------

\* One gateway at a time, whatever restarts, timers and watches overlap: any other that
\* runs either hands over and is on its way out, or was not found when the supervisor
\* started its own beside it (killOrphanedOpenClawProcesses() kills nothing where its
\* scans fail), and then it came of a controlled restart: without those, no two run
\* even where no scan ever works.
OneGateway ==
    /\ Cardinality(live \ (left \cup leaving)) <= 1
    /\ handovers = 0 => Cardinality(live) <= 1

\* Overlapping restarts leave crash restarts enabled: one call's stop() is always
\* followed by an enableAutoRestart().
RestartsStayEnabled ==
    (\A c \in Callers : caller[c] # "stopping") => autoRestartEnabled

\* No gateway hangs, only the child crashes, and not too often in a row.
Restartable == [](hangs = 0 /\ strays = 0 /\ consecutiveRestarts <= MaxConsecutive)

\* A restart that was asked for brings a gateway that was spawned after the call, and
\* so has read what the caller wrote before it: "did not exit in time, sending
\* SIGKILL" (openclaw-process.ts:265) says what becomes of one that hangs.
RestartReplaces ==
    \A c \in Callers : caller[c] = "done" ~> \E p \in listening : p > asked[c]

\* It does as long as the supervisor can see what goes wrong, whatever restarts, crash
\* restarts, handovers and watches overlap: no gateway hangs, and none is left running
\* beside a new child because the scan of the processes failed.
RestartBringsFresh == Restartable /\ [](left = {}) => RestartReplaces

\* A gateway that is down comes back without anybody's help: after a crash, after a
\* handover, and by the health loop, "restarting unhealthy openclaw process"
\* (openclaw-process.ts:201), and with gateways left running too.
GatewayComesBack == Restartable => (listening = {} ~> listening # {})

===============================================================================
