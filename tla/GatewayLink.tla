------------------------------ MODULE GatewayLink ------------------------------
(***************************************************************************)
(* The controller's WebSocket link to the gateway: connect, the challenge  *)
(* and its answer, requests, the watch over the gateway's ticks, clean-up  *)
(* and reconnects; and who drives it: bootstrap, which waits for a stable  *)
(* control plane, and the health loop.                                     *)
(*                                                                         *)
(* The gateway, and the runtime's WebSocket, which reports every socket's  *)
(* end once, are external.  The three calls of a probe count as one.       *)
(* Delays are left out: a timer that is armed may fire.                    *)
(***************************************************************************)
EXTENDS Naturals, FiniteSets

CONSTANTS
    Requests,   \* calls made through the link, each once
    HasToken,   \* is the gateway's own token configured (openclawGatewayToken)?
    Sockets,    \* bound: how many sockets are told apart
    MaxFaults,  \* bound: how often the gateway falls or hangs
    MaxStalls   \* bound: how often a timer beats an answer that is on its way

ASSUME LinkConstants ==
    /\ HasToken \in BOOLEAN /\ {MaxFaults, MaxStalls} \subseteq Nat
    /\ Sockets \in Nat \ {0, 1} /\ Requests \cap {"connect", "probe"} = {}

Calls == Requests \cup {"connect", "probe"}
None == 0

VARIABLES
    ws,            \* this.ws: none, opening, open, greeted (challenge answered), closing,
                   \* refused (closing, and the gateway's code says the device token is wrong)
    conn, far,     \* which socket that is, and is the process at its far end the same?
    connected, closed, \* _connected, closed
    pending,       \* of each pending call, the socket it was sent on
    reconnect,     \* is connectTimer armed?
    tickWatch,     \* the socket tickTimer was armed for
    token,         \* the device token stored on disk
    call,          \* each request: idle, waiting, ended
    boot, stable,  \* the controller's phase, and good probes in a row
    status,        \* gatewayStatus
    gateway, faults, stalls

socket == <<ws, conn, far>>
client == <<connected, closed, pending, reconnect, tickWatch>>
plane == <<boot, stable, status>>
outside == <<gateway, faults, stalls>>
vars == <<socket, client, token, call, plane, outside>>

TypeOK ==
    /\ ws \in {"none", "opening", "open", "greeted", "closing", "refused"}
    /\ conn \in 0 .. Sockets /\ far \in BOOLEAN
    /\ connected \in BOOLEAN /\ closed \in BOOLEAN /\ reconnect \in BOOLEAN
    /\ DOMAIN pending \subseteq Calls /\ \A c \in DOMAIN pending : pending[c] \in 1 .. Sockets
    /\ tickWatch \in 0 .. Sockets /\ token \in {"none", "good", "stale"}
    /\ call \in [Requests -> {"idle", "waiting", "ended"}]
    /\ boot \in {"preparing", "stabilizing", "ready", "failed", "gone"} /\ stable \in 0 .. 1
    /\ status \in {"starting", "active", "degraded", "unhealthy"}
    /\ gateway \in {"up", "hung", "down"} /\ faults \in 0 .. MaxFaults /\ stalls \in 0 .. MaxStalls

Init ==
    /\ ws = "none" /\ conn = None /\ far = FALSE
    /\ connected = FALSE /\ closed = FALSE /\ pending = <<>> /\ reconnect = FALSE
    /\ tickWatch = None /\ token \in {"none", "good", "stale"}
    /\ call = [r \in Requests |-> "idle"]
    /\ boot = "preparing" /\ stable = 0 /\ status = "starting"
    /\ gateway \in {"up", "down"} /\ faults = 0 /\ stalls = 0

Open == ws \in {"open", "greeted"}
Answering == far /\ gateway = "up"
Without(calls) == [c \in DOMAIN pending \ calls |-> pending[c]]
With(c) == [d \in DOMAIN pending \cup {c} |-> IF d = c THEN conn ELSE pending[d]]

\* A timer fires because no answer is coming, or in spite of it.
Late == IF Answering THEN stalls < MaxStalls /\ stalls' = stalls + 1 ELSE stalls' = stalls

(***************************************************************************)
(* connect(), retryNow(), stop().                                          *)
(***************************************************************************)
Connect ==
    IF closed \/ ws # "none" THEN UNCHANGED socket
    ELSE ws' = "opening" /\ conn' = 1 + (conn % Sockets) /\ far' = FALSE

\* Called by the WhatsApp login once it has restarted the gateway.
RetryNow ==
    /\ ~closed /\ ws = "none" /\ boot \in {"stabilizing", "ready"}
    /\ reconnect' = FALSE /\ Connect
    /\ UNCHANGED <<connected, closed, pending, tickWatch, token, call, plane, outside>>

ReconnectFires ==
    /\ reconnect /\ reconnect' = FALSE /\ Connect
    /\ UNCHANGED <<connected, closed, pending, tickWatch, token, call, plane, outside>>

\* The end of a probe that was not good, as bootstrap and the health loop take it.
ProbeFailed ==
    /\ stable' = 0
    /\ status' = IF boot = "ready" THEN "degraded" ELSE status

\* Mutant: the watch over the ticks outlives the socket it was armed for.
CleanupWatched ==
    /\ connected' = FALSE /\ pending' = <<>> /\ UNCHANGED tickWatch
    /\ call' = [r \in Requests |-> IF r \in DOMAIN pending THEN "ended" ELSE call[r]]
    /\ IF "probe" \in DOMAIN pending THEN ProbeFailed ELSE UNCHANGED <<stable, status>>

\* cleanup(): the timers end and what is pending is rejected.
Cleanup ==
    /\ connected' = FALSE /\ tickWatch' = None /\ pending' = <<>>
    /\ call' = [r \in Requests |-> IF r \in DOMAIN pending THEN "ended" ELSE call[r]]
    /\ IF "probe" \in DOMAIN pending THEN ProbeFailed ELSE UNCHANGED <<stable, status>>

\* The background loops are stopped, and the controller exits.
Stop ==
    /\ boot = "ready" /\ boot' = "gone"
    /\ closed' = TRUE /\ connected' = FALSE /\ tickWatch' = None /\ pending' = <<>>
    /\ call' = [r \in Requests |-> IF r \in DOMAIN pending THEN "ended" ELSE call[r]]
    /\ ws' = "none" /\ reconnect' = FALSE
    /\ UNCHANGED <<conn, far, token, stable, status, outside>>

(***************************************************************************)
(* The socket opens, and its end, onclose or onerror: a gateway that       *)
(* refused the device token closes with 1008, and the token is forgotten.  *)
(***************************************************************************)
Opens ==
    /\ ws = "opening" /\ gateway = "up"
    /\ ws' = "open" /\ far' = TRUE
    /\ UNCHANGED <<conn, client, token, call, plane, outside>>

\* Mutant: the device token is kept.
EndsKept ==
    /\ \/ ws = "opening" /\ gateway = "down"
       \/ Open /\ ~far
       \/ ws \in {"closing", "refused"}
    /\ Cleanup /\ ws' = "none" /\ reconnect' = ~closed
    /\ UNCHANGED <<conn, far, closed, token, boot, outside>>

Ends ==
    /\ \/ ws = "opening" /\ gateway = "down"
       \/ Open /\ ~far
       \/ ws \in {"closing", "refused"}
    /\ token' = IF ws = "refused" THEN "none" ELSE token
    /\ Cleanup /\ ws' = "none" /\ reconnect' = ~closed
    /\ UNCHANGED <<conn, far, closed, boot, outside>>

(***************************************************************************)
(* The handshake: the gateway sends its challenge, connect is sent with    *)
(* the tokens there are, and it is accepted or takes too long.             *)
(***************************************************************************)
Challenge ==
    /\ ws = "open" /\ Answering
    /\ ws' = "greeted" /\ pending' = With("connect")
    /\ UNCHANGED <<conn, far, connected, closed, reconnect, tickWatch, token, call, plane, outside>>

Hello ==
    /\ ws = "greeted" /\ "connect" \in DOMAIN pending /\ Answering
    /\ HasToken \/ token # "stale"
    /\ connected' = TRUE /\ pending' = Without({"connect"}) /\ tickWatch' = conn
    /\ token' \in {token, "good"}
    /\ UNCHANGED <<socket, closed, reconnect, call, plane, outside>>

\* The answer to connect is an error, and the gateway closes with 1008.
Refuses ==
    /\ ws = "greeted" /\ "connect" \in DOMAIN pending /\ Answering /\ ~HasToken /\ token = "stale"
    /\ pending' = Without({"connect"}) /\ ws' = "refused"
    /\ UNCHANGED <<conn, far, connected, closed, reconnect, tickWatch, token, call, plane, outside>>

CloseSocket == ws' = IF Open \/ ws = "opening" THEN "closing" ELSE ws

ConnectTimesOut ==
    /\ "connect" \in DOMAIN pending /\ Late
    /\ pending' = Without({"connect"}) /\ CloseSocket
    /\ UNCHANGED <<conn, far, connected, closed, reconnect, tickWatch, token, call, plane,
                   gateway, faults>>

\* Two intervals without a tick: the gateway hangs, or the computer slept.
TickTimesOut ==
    /\ tickWatch # None /\ ~closed /\ Late
    /\ ws \notin {"closing", "refused"} /\ CloseSocket
    /\ UNCHANGED <<conn, far, client, token, call, plane, gateway, faults>>

(***************************************************************************)
(* request(): rejected at once without a link, else answered, timed out or *)
(* rejected by the clean-up.                                               *)
(***************************************************************************)
Request(r) ==
    /\ call[r] = "idle" /\ boot # "gone"
    /\ IF connected /\ Open
       THEN call' = [call EXCEPT ![r] = "waiting"] /\ pending' = With(r)
       ELSE call' = [call EXCEPT ![r] = "ended"] /\ UNCHANGED pending
    /\ UNCHANGED <<socket, connected, closed, reconnect, tickWatch, token, plane, outside>>

Answered(r) ==
    /\ r \in DOMAIN pending /\ Answering /\ Open
    /\ call' = [call EXCEPT ![r] = "ended"] /\ pending' = Without({r})
    /\ UNCHANGED <<socket, connected, closed, reconnect, tickWatch, token, plane, outside>>

\* Mutant: a request that timed out is forgotten and its caller not told.
TimesOutSilently(r) ==
    /\ r \in DOMAIN pending /\ Late
    /\ pending' = Without({r})
    /\ UNCHANGED <<socket, connected, closed, reconnect, tickWatch, token, call, plane, gateway, faults>>

TimesOut(r) ==
    /\ r \in DOMAIN pending /\ Late
    /\ call' = [call EXCEPT ![r] = "ended"] /\ pending' = Without({r})
    /\ UNCHANGED <<socket, connected, closed, reconnect, tickWatch, token, plane, gateway, faults>>

(***************************************************************************)
(* Bootstrap waits until probes were good for a while, or fails, then or   *)
(* before it connects: it closes the HTTP server, stops the gateway, and   *)
(* rethrows.  Then the health loop probes, and has a gateway restarted     *)
(* that is not alive.                                                      *)
(***************************************************************************)
Boot ==
    /\ boot = "preparing" /\ boot' = "stabilizing" /\ Connect
    /\ UNCHANGED <<client, token, call, stable, status, outside>>

Probe ==
    /\ boot \in {"stabilizing", "ready"} /\ "probe" \notin DOMAIN pending
    /\ IF connected /\ Open
       THEN pending' = With("probe") /\ UNCHANGED <<stable, status>>
       ELSE /\ UNCHANGED pending /\ stable' = 0
            /\ status' = IF boot # "ready" THEN status
                         ELSE IF connected THEN "degraded"
                         ELSE IF gateway = "down" THEN "unhealthy" ELSE "starting"
    /\ UNCHANGED <<socket, connected, closed, reconnect, tickWatch, token, call, boot, outside>>

\* retryNow() of the health loop finds the socket that was just probed, and returns.
ProbeIsGood ==
    /\ "probe" \in DOMAIN pending /\ Answering /\ Open
    /\ pending' = Without({"probe"})
    /\ IF boot = "ready" THEN status' = "active" /\ UNCHANGED <<boot, stable>>
       ELSE /\ boot' = IF stable = 1 THEN "ready" ELSE boot
            /\ stable' = 1 /\ UNCHANGED status
    /\ UNCHANGED <<socket, connected, closed, reconnect, tickWatch, token, call, outside>>

ProbeTimesOut ==
    /\ "probe" \in DOMAIN pending /\ Late
    /\ pending' = Without({"probe"}) /\ ProbeFailed
    /\ UNCHANGED <<socket, connected, closed, reconnect, tickWatch, token, call, boot, gateway, faults>>

BootFails ==
    /\ boot \in {"preparing", "stabilizing"} /\ "probe" \notin DOMAIN pending
    /\ boot' = "failed" /\ gateway' = "down" /\ far' = FALSE /\ stable' = 0
    /\ UNCHANGED <<ws, conn, client, token, call, status, faults, stalls>>

\* A process with nothing left to wait for ends: the exit code is set, exit() not called.
Exits ==
    /\ boot = "failed" /\ ws = "none" /\ ~reconnect /\ DOMAIN pending = {}
    /\ boot' = "gone"
    /\ UNCHANGED <<socket, client, token, call, stable, status, outside>>

(***************************************************************************)
(* The gateway falls, hangs for a while, and is brought back; one that     *)
(* starts with its state gone does not know the token stored here.         *)
(***************************************************************************)
Falls ==
    /\ gateway # "down" /\ faults < MaxFaults
    /\ gateway' = "down" /\ far' = FALSE /\ faults' = faults + 1
    /\ UNCHANGED <<ws, conn, client, token, call, plane, stalls>>

Hangs ==
    /\ gateway = "up" /\ faults < MaxFaults
    /\ gateway' = "hung" /\ faults' = faults + 1
    /\ UNCHANGED <<socket, client, token, call, plane, stalls>>

Recovers ==
    /\ gateway = "hung" \/ (gateway = "down" /\ boot # "failed")
    /\ gateway' = "up"
    /\ token' \in {token} \cup IF gateway = "down" /\ token = "good" THEN {"stale"} ELSE {}
    /\ UNCHANGED <<socket, client, call, plane, faults, stalls>>

Handshake == Opens \/ Challenge \/ Hello \/ Refuses
TimeOut == ~Answering /\ (ConnectTimesOut \/ TickTimesOut)

Next ==
    \/ Handshake \/ Ends \/ ReconnectFires \/ RetryNow \/ ConnectTimesOut \/ TickTimesOut
    \/ \E r \in Requests : Request(r) \/ Answered(r) \/ TimesOut(r)
    \/ Boot \/ Probe \/ ProbeIsGood \/ ProbeTimesOut \/ BootFails \/ Exits \/ Stop
    \/ Falls \/ Hangs \/ Recovers

Spec == Init /\ [][Next]_vars

\* Timers fire, sockets end, loops go on, and a gateway that is up answers.
FairSpec ==
    /\ Spec
    /\ WF_vars(Handshake) /\ WF_vars(Ends) /\ WF_vars(ReconnectFires) /\ WF_vars(TimeOut)
    /\ WF_vars(Boot) /\ WF_vars(Probe) /\ WF_vars(ProbeIsGood \/ ProbeTimesOut) /\ WF_vars(Exits)
    /\ \A r \in Requests : WF_vars(Answered(r) \/ TimesOut(r))

-------------------------------------------------------------------------------

\* Whatever may still answer a call or close a socket belongs to the socket there is:
\* no time-out, tick watch or answer of an earlier link reaches the next one (cleanup).
NothingOfTheLastLink ==
    /\ \A c \in DOMAIN pending : pending[c] = conn /\ ws # "none"
    /\ tickWatch # None => tickWatch = conn /\ connected /\ ws # "none"
    /\ ws # "none" => ~reconnect

\* Every request ends, through clean-ups, hangs and reconnects (request, cleanup).
RequestsEnd == \A r \in Requests : call[r] = "waiting" ~> call[r] = "ended"

\* Once the gateway stays up the link comes back for good and the health loop says so,
\* whatever was refused, hung, timed out or retried before (scheduleReconnect, onclose).
LinkComesBack ==
    <>[](gateway = "up" /\ boot # "gone") =>
        <>[](connected /\ (boot = "ready" => status = "active"))

\* A controller whose bootstrap failed comes to its end.
FailedBootExits == boot = "failed" ~> boot = "gone"

===============================================================================
