--------------------------- MODULE GatewayLinkProofs ---------------------------
(***************************************************************************)
(* What the clean-up of the gateway link guarantees for any number of      *)
(* calls and sockets, and however often the gateway falls, hangs or        *)
(* answers late: types, that nothing of an earlier link reaches the next   *)
(* one, that no waiting call is forgotten, and that a stopped client never *)
(* opens a link again.                                                     *)
(***************************************************************************)
EXTENDS GatewayLink, TLAPS

(***************************************************************************)
(* The inductive invariant.                                                *)
(***************************************************************************)

\* The socket there is has a number.
SocketIsNumbered == ws # "none" => conn \in 1 .. Sockets

\* Bootstrap makes the first connection: before it there is no socket and no timer.
NothingBeforeBoot == boot = "preparing" => ws = "none" /\ ~reconnect

\* A caller waits exactly as long as its call is in the map that answers, time-outs and
\* the clean-up take it from (request, cleanup).
WaitingIsPending == \A r \in Requests : call[r] = "waiting" <=> r \in DOMAIN pending

\* Once stop() was called there is no socket, no link and no timer to open one (stop).
StoppedIsQuiet == closed => ws = "none" /\ ~connected /\ ~reconnect

Link == SocketIsNumbered /\ NothingBeforeBoot /\ WaitingIsPending /\ StoppedIsQuiet

IInv == TypeOK /\ NothingOfTheLastLink /\ Link

(***************************************************************************)
(* Its parts: the calls, the socket with its timers, and the rest.         *)
(***************************************************************************)

CallsOK ==
    /\ DOMAIN pending \subseteq Calls
    /\ \A c \in DOMAIN pending : pending[c] \in 1 .. Sockets /\ pending[c] = conn /\ ws # "none"
    /\ call \in [Requests -> {"idle", "waiting", "ended"}]
    /\ WaitingIsPending

SocketOK ==
    /\ ws \in {"none", "opening", "open", "greeted", "closing", "refused"}
    /\ conn \in 0 .. Sockets
    /\ SocketIsNumbered

TimersOK ==
    /\ tickWatch \in 0 .. Sockets
    /\ tickWatch # None => tickWatch = conn /\ connected /\ ws # "none"
    /\ ws # "none" => ~reconnect
    /\ NothingBeforeBoot /\ StoppedIsQuiet

FlagsOK == far \in BOOLEAN /\ connected \in BOOLEAN /\ closed \in BOOLEAN /\ reconnect \in BOOLEAN

WorldOK ==
    /\ token \in {"none", "good", "stale"}
    /\ boot \in {"preparing", "stabilizing", "ready", "failed", "gone"} /\ stable \in 0 .. 1
    /\ status \in {"starting", "active", "degraded", "unhealthy"}
    /\ gateway \in {"up", "hung", "down"} /\ faults \in 0 .. MaxFaults /\ stalls \in 0 .. MaxStalls

LEMMA Parts == IInv <=> CallsOK /\ SocketOK /\ TimersOK /\ FlagsOK /\ WorldOK
  BY Zenon DEF IInv, TypeOK, NothingOfTheLastLink, Link, CallsOK, SocketOK, TimersOK,
     FlagsOK, WorldOK

LEMMA PartsNext == CallsOK' /\ SocketOK' /\ TimersOK' /\ FlagsOK' /\ WorldOK' => IInv'
  BY Zenon DEF IInv, TypeOK, NothingOfTheLastLink, Link, CallsOK, SocketOK, TimersOK,
     FlagsOK, WorldOK

LEMMA CallNames ==
    /\ Requests \subseteq Calls
    /\ "connect" \in Calls \ Requests /\ "probe" \in Calls \ Requests
  BY LinkConstants DEF Calls

(***************************************************************************)
(* What can happen to the calls.                                           *)
(***************************************************************************)

\* A call is sent on the socket there is.
LEMMA CallSent ==
    ASSUME CallsOK, SocketOK, NEW c \in Calls, pending' = With(c),
           ws # "none", ws' # "none", conn' = conn,
           \/ c \in Requests /\ call' = [call EXCEPT ![c] = "waiting"]
           \/ c \notin Requests /\ call' = call
    PROVE  CallsOK'
  BY DEF CallsOK, SocketOK, SocketIsNumbered, WaitingIsPending, With

\* A call leaves the map: answered, or timed out.
LEMMA CallEnds ==
    ASSUME CallsOK, NEW c \in Calls, pending' = Without({c}),
           ws' # "none" \/ DOMAIN pending = {}, conn' = conn,
           \/ c \in Requests /\ call' = [call EXCEPT ![c] = "ended"]
           \/ c \notin Requests /\ call' = call
    PROVE  CallsOK'
  BY DEF CallsOK, WaitingIsPending, Without

\* A request is refused at once.
LEMMA CallRefused ==
    ASSUME CallsOK, NEW r \in Requests, call[r] = "idle", UNCHANGED <<pending, ws, conn>>,
           call' = [call EXCEPT ![r] = "ended"]
    PROVE  CallsOK'
  BY DEF CallsOK, WaitingIsPending

\* All of them are rejected.
LEMMA CallsCleared ==
    ASSUME CallsOK, pending' = <<>>,
           call' = [r \in Requests |-> IF r \in DOMAIN pending THEN "ended" ELSE call[r]]
    PROVE  CallsOK'
  BY DEF CallsOK, WaitingIsPending

\* They are left alone.
LEMMA CallsKept ==
    ASSUME CallsOK, UNCHANGED <<pending, call>>,
           ws = "none" \/ (ws' # "none" /\ conn' = conn)
    PROVE  CallsOK'
  BY DEF CallsOK, WaitingIsPending

(***************************************************************************)
(* The numbers of sockets.                                                 *)
(***************************************************************************)

LEMMA NextSocket == conn \in 0 .. Sockets => 1 + (conn % Sockets) \in 1 .. Sockets
  BY LinkConstants

\* connect() opens the next socket unless there is one or the client was stopped.
LEMMA ConnectIs ==
    ASSUME SocketOK, far \in BOOLEAN, Connect
    PROVE  /\ SocketOK' /\ far' \in BOOLEAN
           /\ \/ ws' = ws /\ conn' = conn
              \/ ~closed /\ ws = "none" /\ ws' = "opening"
  <1>1. CASE closed \/ ws # "none"
    <2>1. ws' = ws /\ conn' = conn /\ far' = far
      BY <1>1 DEF Connect, socket
    <2> QED
      BY <2>1 DEF SocketOK, SocketIsNumbered
  <1>2. CASE ~(closed \/ ws # "none")
    <2>1. ws' = "opening" /\ conn' = 1 + (conn % Sockets) /\ far' = FALSE
      BY <1>2 DEF Connect
    <2>2. conn' \in 1 .. Sockets /\ 1 .. Sockets \subseteq 0 .. Sockets
      BY <2>1, NextSocket, LinkConstants DEF SocketOK
    <2> QED
      BY <1>2, <2>1, <2>2 DEF SocketOK, SocketIsNumbered
  <1> QED
    BY <1>1, <1>2

(***************************************************************************)
(* Each action preserves the invariant.                                    *)
(***************************************************************************)

LEMMA RetryNowKeeps ==
    ASSUME IInv, RetryNow
    PROVE  IInv'
  <1>0. CallsOK /\ SocketOK /\ TimersOK /\ FlagsOK /\ WorldOK
    BY Parts
  <1>1. /\ SocketOK' /\ far' \in BOOLEAN
        /\ \/ ws' = ws /\ conn' = conn
           \/ ~closed /\ ws = "none" /\ ws' = "opening"
    BY <1>0, ConnectIs DEF FlagsOK, RetryNow
  <1>2. CallsOK'
    BY <1>0, <1>1, CallsKept DEF RetryNow, client, plane, outside
  <1>3. TimersOK'
    BY <1>0, <1>1 DEF TimersOK, NothingBeforeBoot, StoppedIsQuiet, None, RetryNow, client,
       plane, outside
  <1>4. FlagsOK' /\ WorldOK'
    BY <1>0, <1>1 DEF FlagsOK, WorldOK, RetryNow, client, plane, outside
  <1> QED
    BY <1>1, <1>2, <1>3, <1>4, PartsNext

LEMMA ReconnectFiresKeeps ==
    ASSUME IInv, ReconnectFires
    PROVE  IInv'
  <1>0. CallsOK /\ SocketOK /\ TimersOK /\ FlagsOK /\ WorldOK
    BY Parts
  <1>1. /\ SocketOK' /\ far' \in BOOLEAN
        /\ \/ ws' = ws /\ conn' = conn
           \/ ~closed /\ ws = "none" /\ ws' = "opening"
    BY <1>0, ConnectIs DEF FlagsOK, ReconnectFires
  <1>2. CallsOK'
    BY <1>0, <1>1, CallsKept DEF ReconnectFires, plane, outside
  <1>3. TimersOK'
    BY <1>0, <1>1 DEF TimersOK, NothingBeforeBoot, StoppedIsQuiet, None, ReconnectFires,
       plane, outside
  <1>4. FlagsOK' /\ WorldOK'
    BY <1>0, <1>1 DEF FlagsOK, WorldOK, ReconnectFires, plane, outside
  <1> QED
    BY <1>1, <1>2, <1>3, <1>4, PartsNext

LEMMA BootKeeps ==
    ASSUME IInv, Boot
    PROVE  IInv'
  <1>0. CallsOK /\ SocketOK /\ TimersOK /\ FlagsOK /\ WorldOK
    BY Parts
  <1>1. /\ SocketOK' /\ far' \in BOOLEAN
        /\ \/ ws' = ws /\ conn' = conn
           \/ ~closed /\ ws = "none" /\ ws' = "opening"
    BY <1>0, ConnectIs DEF FlagsOK, Boot
  <1>2. CallsOK'
    BY <1>0, <1>1, CallsKept DEF Boot, client, outside
  <1>3. TimersOK'
    BY <1>0, <1>1 DEF TimersOK, NothingBeforeBoot, StoppedIsQuiet, None, Boot, client, outside
  <1>4. FlagsOK' /\ WorldOK'
    BY <1>0, <1>1 DEF FlagsOK, WorldOK, Boot, client, outside
  <1> QED
    BY <1>1, <1>2, <1>3, <1>4, PartsNext

LEMMA EndsKeeps ==
    ASSUME IInv, Ends
    PROVE  IInv'
  <1>0. CallsOK /\ SocketOK /\ TimersOK /\ FlagsOK /\ WorldOK
    BY Parts
  <1>1. CallsOK'
    BY <1>0, CallsCleared DEF Ends, Cleanup, ProbeFailed, Open, outside, CallsOK, TimersOK,
       NothingBeforeBoot, None
  <1>2. SocketOK'
    BY <1>0 DEF SocketOK, SocketIsNumbered, Ends, Cleanup, Open, outside
  <1>3. TimersOK'
    BY <1>0, LinkConstants DEF TimersOK, NothingBeforeBoot, StoppedIsQuiet, None, Ends,
       Cleanup, Open, outside
  <1>4. FlagsOK'
    BY <1>0 DEF FlagsOK, Ends, Cleanup, ProbeFailed, Open, outside
  <1>5. WorldOK'
    BY <1>0, LinkConstants DEF WorldOK, Ends, Cleanup, ProbeFailed, Open, outside
  <1> QED
    BY <1>1, <1>2, <1>3, <1>4, <1>5, PartsNext

LEMMA StopKeeps ==
    ASSUME IInv, Stop
    PROVE  IInv'
  <1>0. CallsOK /\ SocketOK /\ TimersOK /\ FlagsOK /\ WorldOK
    BY Parts
  <1>1. CallsOK'
    BY <1>0, CallsCleared DEF Stop, outside, CallsOK, TimersOK, NothingBeforeBoot, None
  <1>2. SocketOK'
    BY <1>0 DEF SocketOK, SocketIsNumbered, Stop, outside
  <1>3. TimersOK'
    BY <1>0, LinkConstants DEF TimersOK, NothingBeforeBoot, StoppedIsQuiet, None, Stop, outside
  <1>4. FlagsOK' /\ WorldOK'
    BY <1>0, LinkConstants DEF FlagsOK, WorldOK, Stop, outside
  <1> QED
    BY <1>1, <1>2, <1>3, <1>4, PartsNext

LEMMA OpensKeeps ==
    ASSUME IInv, Opens
    PROVE  IInv'
  <1>0. CallsOK /\ SocketOK /\ TimersOK /\ FlagsOK /\ WorldOK
    BY Parts
  <1>1. CallsOK'
    BY <1>0, CallsKept DEF Opens, client, plane, outside, CallsOK, TimersOK,
       NothingBeforeBoot, None
  <1>2. SocketOK' /\ TimersOK'
    BY <1>0 DEF SocketOK, TimersOK, SocketIsNumbered, NothingBeforeBoot, StoppedIsQuiet,
       None, CallsOK, Opens, client, plane, outside
  <1>3. FlagsOK' /\ WorldOK'
    BY <1>0, LinkConstants DEF FlagsOK, WorldOK, Opens, client, plane, outside
  <1> QED
    BY <1>1, <1>2, <1>3, PartsNext

LEMMA ChallengeKeeps ==
    ASSUME IInv, Challenge
    PROVE  IInv'
  <1>0. CallsOK /\ SocketOK /\ TimersOK /\ FlagsOK /\ WorldOK
    BY Parts
  <1>1. CallsOK'
    BY <1>0, CallNames, CallSent DEF Challenge, plane, outside, CallsOK, TimersOK,
       NothingBeforeBoot, None
  <1>2. SocketOK' /\ TimersOK'
    BY <1>0 DEF SocketOK, TimersOK, SocketIsNumbered, NothingBeforeBoot, StoppedIsQuiet,
       None, CallsOK, Challenge, plane, outside
  <1>3. FlagsOK' /\ WorldOK'
    BY <1>0, LinkConstants DEF FlagsOK, WorldOK, Challenge, plane, outside
  <1> QED
    BY <1>1, <1>2, <1>3, PartsNext

LEMMA HelloKeeps ==
    ASSUME IInv, Hello
    PROVE  IInv'
  <1>0. CallsOK /\ SocketOK /\ TimersOK /\ FlagsOK /\ WorldOK
    BY Parts
  <1>1. CallsOK'
    BY <1>0, CallNames, CallEnds DEF Hello, socket, plane, outside, CallsOK, TimersOK,
       NothingBeforeBoot, None
  <1>2. SocketOK' /\ TimersOK'
    BY <1>0 DEF SocketOK, TimersOK, SocketIsNumbered, NothingBeforeBoot, StoppedIsQuiet,
       None, CallsOK, Hello, socket, plane, outside
  <1>3. FlagsOK' /\ WorldOK'
    BY <1>0, LinkConstants DEF FlagsOK, WorldOK, Hello, socket, plane, outside
  <1> QED
    BY <1>1, <1>2, <1>3, PartsNext

LEMMA RefusesKeeps ==
    ASSUME IInv, Refuses
    PROVE  IInv'
  <1>0. CallsOK /\ SocketOK /\ TimersOK /\ FlagsOK /\ WorldOK
    BY Parts
  <1>1. CallsOK'
    BY <1>0, CallNames, CallEnds DEF Refuses, plane, outside, CallsOK, TimersOK,
       NothingBeforeBoot, None
  <1>2. SocketOK' /\ TimersOK'
    BY <1>0 DEF SocketOK, TimersOK, SocketIsNumbered, NothingBeforeBoot, StoppedIsQuiet,
       None, CallsOK, Refuses, plane, outside
  <1>3. FlagsOK' /\ WorldOK'
    BY <1>0, LinkConstants DEF FlagsOK, WorldOK, Refuses, plane, outside
  <1> QED
    BY <1>1, <1>2, <1>3, PartsNext

LEMMA ConnectTimesOutKeeps ==
    ASSUME IInv, ConnectTimesOut
    PROVE  IInv'
  <1>0. CallsOK /\ SocketOK /\ TimersOK /\ FlagsOK /\ WorldOK
    BY Parts
  <1>1. CallsOK'
    BY <1>0, CallNames, CallEnds DEF ConnectTimesOut, Late, CloseSocket, Open, plane,
       CallsOK, TimersOK, NothingBeforeBoot, None
  <1>2. SocketOK' /\ TimersOK'
    BY <1>0 DEF SocketOK, TimersOK, SocketIsNumbered, NothingBeforeBoot, StoppedIsQuiet,
       None, CallsOK, ConnectTimesOut, Late, CloseSocket, Open, plane
  <1>3. FlagsOK' /\ WorldOK'
    BY <1>0, LinkConstants DEF FlagsOK, WorldOK, ConnectTimesOut, Late, CloseSocket, Open,
       plane
  <1> QED
    BY <1>1, <1>2, <1>3, PartsNext

LEMMA TickTimesOutKeeps ==
    ASSUME IInv, TickTimesOut
    PROVE  IInv'
  <1>0. CallsOK /\ SocketOK /\ TimersOK /\ FlagsOK /\ WorldOK
    BY Parts
  <1>1. CallsOK'
    BY <1>0, CallsKept DEF TickTimesOut, Late, CloseSocket, Open, client, plane, CallsOK,
       TimersOK, NothingBeforeBoot, None
  <1>2. SocketOK' /\ TimersOK'
    BY <1>0 DEF SocketOK, TimersOK, SocketIsNumbered, NothingBeforeBoot, StoppedIsQuiet,
       None, CallsOK, TickTimesOut, Late, CloseSocket, Open, client, plane
  <1>3. FlagsOK' /\ WorldOK'
    BY <1>0, LinkConstants DEF FlagsOK, WorldOK, TickTimesOut, Late, CloseSocket, Open,
       client, plane
  <1> QED
    BY <1>1, <1>2, <1>3, PartsNext

LEMMA RequestKeeps ==
    ASSUME IInv, NEW r \in Requests, Request(r)
    PROVE  IInv'
  <1>0. CallsOK /\ SocketOK /\ TimersOK /\ FlagsOK /\ WorldOK
    BY Parts
  <1>1. CallsOK'
    BY <1>0, CallNames, CallSent, CallsKept, CallRefused DEF Request, Open, socket, plane,
       outside
  <1>2. SocketOK' /\ TimersOK'
    BY <1>0 DEF SocketOK, TimersOK, SocketIsNumbered, NothingBeforeBoot, StoppedIsQuiet,
       None, CallsOK, Request, Open, socket, plane, outside
  <1>3. FlagsOK' /\ WorldOK'
    BY <1>0, LinkConstants DEF FlagsOK, WorldOK, Request, Open, socket, plane, outside
  <1> QED
    BY <1>1, <1>2, <1>3, PartsNext

LEMMA AnsweredKeeps ==
    ASSUME IInv, NEW r \in Requests, Answered(r)
    PROVE  IInv'
  <1>0. CallsOK /\ SocketOK /\ TimersOK /\ FlagsOK /\ WorldOK
    BY Parts
  <1>1. CallsOK'
    BY <1>0, CallNames, CallEnds DEF Answered, Open, socket, plane, outside, CallsOK,
       TimersOK, NothingBeforeBoot, None
  <1>2. SocketOK' /\ TimersOK'
    BY <1>0 DEF SocketOK, TimersOK, SocketIsNumbered, NothingBeforeBoot, StoppedIsQuiet,
       None, CallsOK, Answered, Open, socket, plane, outside
  <1>3. FlagsOK' /\ WorldOK'
    BY <1>0, LinkConstants DEF FlagsOK, WorldOK, Answered, Open, socket, plane, outside
  <1> QED
    BY <1>1, <1>2, <1>3, PartsNext

LEMMA TimesOutKeeps ==
    ASSUME IInv, NEW r \in Requests, TimesOut(r)
    PROVE  IInv'
  <1>0. CallsOK /\ SocketOK /\ TimersOK /\ FlagsOK /\ WorldOK
    BY Parts
  <1>1. CallsOK'
    BY <1>0, CallNames, CallEnds DEF TimesOut, Late, socket, plane, CallsOK, TimersOK,
       NothingBeforeBoot, None
  <1>2. SocketOK' /\ TimersOK'
    BY <1>0 DEF SocketOK, TimersOK, SocketIsNumbered, NothingBeforeBoot, StoppedIsQuiet,
       None, CallsOK, TimesOut, Late, socket, plane
  <1>3. FlagsOK' /\ WorldOK'
    BY <1>0, LinkConstants DEF FlagsOK, WorldOK, TimesOut, Late, socket, plane
  <1> QED
    BY <1>1, <1>2, <1>3, PartsNext

LEMMA ProbeKeeps ==
    ASSUME IInv, Probe
    PROVE  IInv'
  <1>0. CallsOK /\ SocketOK /\ TimersOK /\ FlagsOK /\ WorldOK
    BY Parts
  <1>1. CallsOK'
    BY <1>0, CallNames, CallSent, CallsKept DEF Probe, Open, socket, outside
  <1>2. SocketOK' /\ TimersOK'
    BY <1>0 DEF SocketOK, TimersOK, SocketIsNumbered, NothingBeforeBoot, StoppedIsQuiet,
       None, CallsOK, Probe, Open, socket, outside
  <1>3. FlagsOK' /\ WorldOK'
    BY <1>0, LinkConstants DEF FlagsOK, WorldOK, Probe, Open, socket, outside
  <1> QED
    BY <1>1, <1>2, <1>3, PartsNext

LEMMA ProbeIsGoodKeeps ==
    ASSUME IInv, ProbeIsGood
    PROVE  IInv'
  <1>0. CallsOK /\ SocketOK /\ TimersOK /\ FlagsOK /\ WorldOK
    BY Parts
  <1>1. CallsOK'
    BY <1>0, CallNames, CallEnds DEF ProbeIsGood, Open, socket, outside, CallsOK, TimersOK,
       NothingBeforeBoot, None
  <1>2. SocketOK' /\ TimersOK'
    BY <1>0 DEF SocketOK, TimersOK, SocketIsNumbered, NothingBeforeBoot, StoppedIsQuiet,
       None, CallsOK, ProbeIsGood, Open, socket, outside
  <1>3. FlagsOK' /\ WorldOK'
    BY <1>0, LinkConstants DEF FlagsOK, WorldOK, ProbeIsGood, Open, socket, outside
  <1> QED
    BY <1>1, <1>2, <1>3, PartsNext

LEMMA ProbeTimesOutKeeps ==
    ASSUME IInv, ProbeTimesOut
    PROVE  IInv'
  <1>0. CallsOK /\ SocketOK /\ TimersOK /\ FlagsOK /\ WorldOK
    BY Parts
  <1>1. CallsOK'
    BY <1>0, CallNames, CallEnds DEF ProbeTimesOut, Late, ProbeFailed, socket, CallsOK,
       TimersOK, NothingBeforeBoot, None
  <1>2. SocketOK' /\ TimersOK'
    BY <1>0 DEF SocketOK, TimersOK, SocketIsNumbered, NothingBeforeBoot, StoppedIsQuiet,
       None, CallsOK, ProbeTimesOut, Late, ProbeFailed, socket
  <1>3. FlagsOK' /\ WorldOK'
    BY <1>0, LinkConstants DEF FlagsOK, WorldOK, ProbeTimesOut, Late, ProbeFailed, socket
  <1> QED
    BY <1>1, <1>2, <1>3, PartsNext

LEMMA BootFailsKeeps ==
    ASSUME IInv, BootFails
    PROVE  IInv'
  <1>0. CallsOK /\ SocketOK /\ TimersOK /\ FlagsOK /\ WorldOK
    BY Parts
  <1>1. CallsOK'
    BY <1>0, CallsKept DEF BootFails, client, CallsOK, TimersOK, NothingBeforeBoot, None
  <1>2. SocketOK' /\ TimersOK'
    BY <1>0 DEF SocketOK, TimersOK, SocketIsNumbered, NothingBeforeBoot, StoppedIsQuiet,
       None, CallsOK, BootFails, client
  <1>3. FlagsOK'
    BY <1>0 DEF FlagsOK, BootFails, client
  <1>4. WorldOK'
    BY <1>0, LinkConstants DEF WorldOK, BootFails, client
  <1> QED
    BY <1>1, <1>2, <1>3, <1>4, PartsNext

LEMMA ExitsKeeps ==
    ASSUME IInv, Exits
    PROVE  IInv'
  <1>0. CallsOK /\ SocketOK /\ TimersOK /\ FlagsOK /\ WorldOK
    BY Parts
  <1>1. CallsOK'
    BY <1>0, CallsKept DEF Exits, socket, client, outside, CallsOK, TimersOK,
       NothingBeforeBoot, None
  <1>2. SocketOK' /\ TimersOK'
    BY <1>0 DEF SocketOK, TimersOK, SocketIsNumbered, NothingBeforeBoot, StoppedIsQuiet,
       None, CallsOK, Exits, socket, client, outside
  <1>3. FlagsOK' /\ WorldOK'
    BY <1>0, LinkConstants DEF FlagsOK, WorldOK, Exits, socket, client, outside
  <1> QED
    BY <1>1, <1>2, <1>3, PartsNext

LEMMA FallsKeeps ==
    ASSUME IInv, Falls
    PROVE  IInv'
  <1>0. CallsOK /\ SocketOK /\ TimersOK /\ FlagsOK /\ WorldOK
    BY Parts
  <1>1. CallsOK'
    BY <1>0, CallsKept DEF Falls, client, plane, CallsOK, TimersOK, NothingBeforeBoot, None
  <1>2. SocketOK' /\ TimersOK'
    BY <1>0 DEF SocketOK, TimersOK, SocketIsNumbered, NothingBeforeBoot, StoppedIsQuiet,
       None, CallsOK, Falls, client, plane
  <1>3. FlagsOK'
    BY <1>0 DEF FlagsOK, Falls, client, plane
  <1>4. WorldOK'
    BY <1>0, LinkConstants DEF WorldOK, Falls, client, plane
  <1> QED
    BY <1>1, <1>2, <1>3, <1>4, PartsNext

LEMMA HangsKeeps ==
    ASSUME IInv, Hangs
    PROVE  IInv'
  <1>0. CallsOK /\ SocketOK /\ TimersOK /\ FlagsOK /\ WorldOK
    BY Parts
  <1>1. CallsOK'
    BY <1>0, CallsKept DEF Hangs, socket, client, plane, CallsOK, TimersOK,
       NothingBeforeBoot, None
  <1>2. SocketOK' /\ TimersOK'
    BY <1>0 DEF SocketOK, TimersOK, SocketIsNumbered, NothingBeforeBoot, StoppedIsQuiet,
       None, CallsOK, Hangs, socket, client, plane
  <1>3. FlagsOK' /\ WorldOK'
    BY <1>0, LinkConstants DEF FlagsOK, WorldOK, Hangs, socket, client, plane
  <1> QED
    BY <1>1, <1>2, <1>3, PartsNext

LEMMA RecoversKeeps ==
    ASSUME IInv, Recovers
    PROVE  IInv'
  <1>0. CallsOK /\ SocketOK /\ TimersOK /\ FlagsOK /\ WorldOK
    BY Parts
  <1>1. CallsOK'
    BY <1>0, CallsKept DEF Recovers, socket, client, plane, CallsOK, TimersOK,
       NothingBeforeBoot, None
  <1>2. SocketOK' /\ TimersOK'
    BY <1>0 DEF SocketOK, TimersOK, SocketIsNumbered, NothingBeforeBoot, StoppedIsQuiet,
       None, CallsOK, Recovers, socket, client, plane
  <1>3. FlagsOK' /\ WorldOK'
    BY <1>0, LinkConstants DEF FlagsOK, WorldOK, Recovers, socket, client, plane
  <1> QED
    BY <1>1, <1>2, <1>3, PartsNext

(***************************************************************************)
(* The theorems.                                                           *)
(***************************************************************************)

LEMMA IInvInit == Init => IInv
  <1> SUFFICES ASSUME Init PROVE IInv
    OBVIOUS
  <1>1. CallsOK
    BY DEF Init, CallsOK, WaitingIsPending
  <1>2. SocketOK /\ TimersOK
    BY LinkConstants DEF Init, SocketOK, TimersOK, SocketIsNumbered, NothingBeforeBoot,
       StoppedIsQuiet, None
  <1>3. FlagsOK
    BY DEF Init, FlagsOK
  <1>4. WorldOK
    BY LinkConstants DEF Init, WorldOK
  <1> QED
    BY <1>1, <1>2, <1>3, <1>4, Parts

LEMMA IInvStep == IInv /\ [Next]_vars => IInv'
  <1> SUFFICES ASSUME IInv, [Next]_vars PROVE IInv'
    OBVIOUS
  <1>1. CASE Handshake \/ Ends \/ ReconnectFires \/ RetryNow \/ ConnectTimesOut \/ TickTimesOut
    BY <1>1, OpensKeeps, ChallengeKeeps, HelloKeeps, RefusesKeeps, EndsKeeps,
       ReconnectFiresKeeps, RetryNowKeeps, ConnectTimesOutKeeps,
       TickTimesOutKeeps DEF Handshake
  <1>2. ASSUME NEW r \in Requests, Request(r) \/ Answered(r) \/ TimesOut(r) PROVE IInv'
    BY <1>2, RequestKeeps, AnsweredKeeps, TimesOutKeeps
  <1>3. CASE Boot \/ Probe \/ ProbeIsGood \/ ProbeTimesOut \/ BootFails \/ Exits \/ Stop
    BY <1>3, BootKeeps, ProbeKeeps, ProbeIsGoodKeeps, ProbeTimesOutKeeps, BootFailsKeeps,
       ExitsKeeps, StopKeeps
  <1>4. CASE Falls \/ Hangs \/ Recovers
    BY <1>4, FallsKeeps, HangsKeeps, RecoversKeeps
  <1>5. CASE UNCHANGED vars
    <2>1. CallsOK /\ SocketOK /\ TimersOK /\ FlagsOK /\ WorldOK
      BY Parts
    <2>2. CallsOK' /\ SocketOK' /\ TimersOK'
      BY <1>5, <2>1 DEF vars, socket, client, plane, outside, CallsOK, SocketOK, TimersOK,
         SocketIsNumbered, NothingBeforeBoot, WaitingIsPending, StoppedIsQuiet
    <2>3. FlagsOK' /\ WorldOK'
      BY <1>5, <2>1 DEF vars, socket, client, plane, outside, FlagsOK, WorldOK
    <2> QED
      BY <2>2, <2>3, PartsNext
  <1> QED
    BY <1>1, <1>2, <1>3, <1>4, <1>5 DEF Next

\* The inductive invariant, for any number of sockets, calls, timers and restarts of the
\* gateway.
THEOREM Invariance == Spec => []IInv
  BY IInvInit, IInvStep, PTL DEF Spec

\* Sockets, timers, calls and tokens keep their types, for any number of them.
THEOREM TypeCorrect == Spec => []TypeOK
  BY Invariance, PTL DEF IInv

\* Whatever the order of closes, time-outs, retries and restarts of the gateway, no call
\* and no tick watch outlives its socket, and no reconnect timer runs beside a socket
\* (cleanup, scheduleReconnect).
THEOREM LastLinkIsGone == Spec => []NothingOfTheLastLink
  BY Invariance, PTL DEF IInv

\* No waiting caller is forgotten: its call stays where an answer, a time-out or the
\* clean-up finds it (request, cleanup).
THEOREM NoCallForgotten == Spec => []WaitingIsPending
  BY Invariance, PTL DEF IInv, Link

\* A client that was stopped has no socket and no timer to open one (stop, connect).
THEOREM StoppedForGood == Spec => []StoppedIsQuiet
  BY Invariance, PTL DEF IInv, Link

================================================================================
