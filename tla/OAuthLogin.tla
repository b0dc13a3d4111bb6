------------------------------ MODULE OAuthLogin ------------------------------
(***************************************************************************)
(* Login to OpenAI with OAuth: the flow of OpenClawAuthService and its     *)
(* callback server, the profile it writes into every auth-profiles file,   *)
(* the status route that turns a completed flow into a provider, the       *)
(* disconnect route, the sync's writer of the same files, and the page     *)
(* that polls.                                                             *)
(*                                                                         *)
(* A flow is its number, and so is the profile it brings.  Each file holds *)
(* a profile or none; files are written whole.  The browser, the token     *)
(* endpoint and the clock are external.  OpenClaw's own refresh of an      *)
(* agent's token, tokens that expire, a callback address opened twice and a *)
(* page that is left while it waits are left out.                          *)
(***************************************************************************)
EXTENDS Naturals, Sequences, FiniteSets, SequencesExt

CONSTANTS
    Order,     \* the agents, in the order of their directories
    First,     \* those that exist at the start
    MaxFlows   \* bound: how often the login button is pressed

Agents == Range(Order)

ASSUME LoginConstants ==
    /\ Order \in Seq(Agents) /\ First \subseteq Agents /\ "shared" \notin Agents
    /\ MaxFlows \in Nat \ {0}

NoFlow == 0
Flows == 1 .. MaxFlows
OAuthProfiles == {NoFlow} \cup Flows
Files == {"shared"} \cup Agents

VARIABLES
    status, completedProfile,      \* flowState
    callbackServer, timeoutHandle, \* the flows they are of
    port, timers,  \* external: whose server listens, whose timers are armed
    flow,          \* where the start and the callback of each flow are
    flows,         \* how many there have been
    file, dirs,    \* the profile in each auth-profiles file, the agents listed on disk
    jobs,          \* updateQueues
    agents,        \* the agents in the config
    provider,      \* is the provider in the config, with auth "oauth"?
    adding,        \* is a status request adding it?
    disconnect,    \* the disconnect request: idle, found (with was), removing
    was,           \* wasConnected
    sync, entry, shared, owed, \* the sync's writer, what it has read, is one due?
    page,          \* the page: waiting for the login (and polling), one more request under way,
                   \* the status it last heard, does it show the provider as connected?
    clashed        \* history: did writers of the files overlap, or a disconnect a login?

service == <<status, completedProfile, callbackServer, timeoutHandle, port, timers>>
files == <<file, dirs, jobs>>
config == <<agents, provider, adding, owed>>
off == <<disconnect, was>>
writer == <<sync, entry, shared>>
oauthVars == <<service, flow, flows, files, config, off, writer, page, clashed>>

Statuses == {"idle", "pending", "completed", "failed"}
Updates == [by : {"login", "disconnect", "sync"}, put : OAuthProfiles, shared : OAuthProfiles]

OAuthTypeOK ==
    /\ status \in Statuses /\ completedProfile \in OAuthProfiles
    /\ completedProfile # NoFlow <=> status = "completed"
    /\ {callbackServer, timeoutHandle, port} \subseteq OAuthProfiles /\ timers \subseteq Flows
    /\ flow \in [Flows -> {"none", "starting", "open", "exchanging", "listing", "merging", "over"}]
    /\ flows \in OAuthProfiles
    /\ file \in [Files -> OAuthProfiles] /\ First \subseteq dirs /\ dirs \subseteq Agents
    /\ jobs \in [Files -> Seq(Updates)]
    /\ dirs \subseteq agents /\ agents \subseteq Agents
    /\ {provider, adding, owed, was, clashed} \subseteq BOOLEAN
    /\ disconnect \in {"idle", "found", "removing"}
    /\ sync \in {"idle", "entries", "shared", "writing"} /\ {entry, shared} \subseteq OAuthProfiles
    /\ page \in [waiting : BOOLEAN, asking : BOOLEAN, heard : Statuses, connected : BOOLEAN]

OAuthInit ==
    /\ status = "idle" /\ completedProfile = NoFlow
    /\ callbackServer = NoFlow /\ timeoutHandle = NoFlow /\ port = NoFlow /\ timers = {}
    /\ flow = [f \in Flows |-> "none"] /\ flows = 0
    /\ file = [f \in Files |-> NoFlow] /\ dirs = First /\ jobs = [f \in Files |-> <<>>]
    /\ agents = First /\ provider = FALSE /\ adding = FALSE /\ owed = FALSE
    /\ disconnect = "idle" /\ was = FALSE
    /\ sync = "idle" /\ entry = NoFlow /\ shared = NoFlow
    /\ page = [waiting |-> FALSE, asking |-> FALSE, heard |-> "idle", connected |-> FALSE]
    /\ clashed = FALSE

FlowOver(st) == st \in {"completed", "failed"}

(***************************************************************************)
(* The flow.  abortFlow() closes the server and clears the timer there is, *)
(* shutdownServer() the timer there is and the server it was called with.  *)
(***************************************************************************)

AbortFlow ==
    /\ timers' = timers \ {timeoutHandle} /\ timeoutHandle' = NoFlow
    /\ port' = IF port = callbackServer THEN NoFlow ELSE port
    /\ callbackServer' = NoFlow

\* The login button, shown while the page is neither connected nor waiting.
StartOAuthFlow ==
    /\ ~page.connected /\ ~page.waiting /\ flows < MaxFlows
    /\ \A f \in Flows : flow[f] # "starting"
    /\ AbortFlow
    /\ flows' = flows + 1 /\ flow' = [flow EXCEPT ![flows'] = "starting"]
    /\ UNCHANGED <<status, completedProfile, files, config, off, writer, page>>

\* The server listens and the page opens the browser and waits; its effect runs at once on
\* what it heard last, be it of an earlier flow.
Started(f) ==
    /\ flow[f] = "starting" /\ port = NoFlow
    /\ flow' = [flow EXCEPT ![f] = "open"]
    /\ port' = f /\ callbackServer' = f /\ timeoutHandle' = f /\ timers' = timers \cup {f}
    /\ status' = "pending" /\ completedProfile' = NoFlow
    /\ \E asks \in BOOLEAN :
         page' = [page EXCEPT !.waiting = ~FlowOver(page.heard), !.asking = asks]
    /\ UNCHANGED <<flows, files, config, off, writer>>

\* Another program holds the port: the request answers with the error.
NotStarted(f) ==
    /\ flow[f] = "starting"
    /\ flow' = [flow EXCEPT ![f] = "over"] /\ status' = "failed" /\ completedProfile' = NoFlow
    /\ UNCHANGED <<callbackServer, timeoutHandle, port, timers, flows, files, config, off,
                   writer, page>>

\* Mutant: the server is closed, and the flow stays pending.
TimesOutSilently(f) ==
    /\ f \in timers
    /\ timers' = timers \ {f, timeoutHandle} /\ timeoutHandle' = NoFlow
    /\ port' = IF port = callbackServer THEN NoFlow ELSE port
    /\ callbackServer' = NoFlow
    /\ UNCHANGED <<status, completedProfile, flow, flows, files, config, off, writer, page>>

\* Five minutes later.
TimesOut(f) ==
    /\ f \in timers
    /\ timers' = timers \ {f, timeoutHandle} /\ timeoutHandle' = NoFlow
    /\ port' = IF port = callbackServer THEN NoFlow ELSE port
    /\ callbackServer' = NoFlow
    /\ status' = "failed" /\ completedProfile' = NoFlow
    /\ UNCHANGED <<flow, flows, files, config, off, writer, page>>

\* Mutant: the server of a later flow is forgotten as well.
ShutdownAny(f) ==
    /\ timers' = timers \ {timeoutHandle} /\ timeoutHandle' = NoFlow
    /\ port' = IF port = f THEN NoFlow ELSE port
    /\ callbackServer' = NoFlow

ShutdownServer(f) ==
    /\ timers' = timers \ {timeoutHandle} /\ timeoutHandle' = NoFlow
    /\ port' = IF port = f THEN NoFlow ELSE port
    /\ callbackServer' = IF callbackServer = f THEN NoFlow ELSE callbackServer

\* The callback brings a code, which is exchanged.
Callback(f) ==
    /\ flow[f] = "open" /\ port = f
    /\ flow' = [flow EXCEPT ![f] = "exchanging"]
    /\ UNCHANGED <<service, flows, files, config, off, writer, page>>

\* It brings an error, another flow's state or no code, or the exchange fails.
CallbackFails(f) ==
    /\ (flow[f] = "open" /\ port = f) \/ flow[f] = "exchanging"
    /\ flow' = [flow EXCEPT ![f] = "over"] /\ status' = "failed" /\ completedProfile' = NoFlow
    /\ ShutdownServer(f)
    /\ UNCHANGED <<flows, files, config, off, writer, page>>

Exchanged(f) ==
    /\ flow[f] = "exchanging" /\ flow' = [flow EXCEPT ![f] = "listing"]
    /\ UNCHANGED <<service, flows, files, config, off, writer, page>>

Enqueue(update, paths) ==
    jobs' = [f \in Files |-> IF f \in paths THEN Append(jobs[f], update) ELSE jobs[f]]

Awaits(by, put) == \E f \in Files : \E i \in DOMAIN jobs[f] : jobs[f][i].by = by /\ jobs[f][i].put = put

\* Mutant: the profile is put into the shared file only.
MergeShared(f) ==
    /\ flow[f] = "listing" /\ flow' = [flow EXCEPT ![f] = "merging"]
    /\ Enqueue([by |-> "login", put |-> f, shared |-> NoFlow], {"shared"})
    /\ UNCHANGED <<service, flows, file, dirs, config, off, writer, page>>

MergeOAuthProfile(f) ==
    /\ flow[f] = "listing" /\ flow' = [flow EXCEPT ![f] = "merging"]
    /\ Enqueue([by |-> "login", put |-> f, shared |-> NoFlow], {"shared"} \cup dirs)
    /\ UNCHANGED <<service, flows, file, dirs, config, off, writer, page>>

Completes(f) ==
    /\ flow[f] = "merging" /\ ~Awaits("login", f)
    /\ flow' = [flow EXCEPT ![f] = "over"] /\ status' = "completed" /\ completedProfile' = f
    /\ ShutdownServer(f)
    /\ UNCHANGED <<flows, files, config, off, writer, page>>

(***************************************************************************)
(* updateAuthProfiles: one update after the other on each file.            *)
(***************************************************************************)
Update(f) ==
    /\ jobs[f] # <<>> /\ jobs' = [jobs EXCEPT ![f] = Tail(@)]
    /\ LET job == Head(jobs[f])
       IN  file' = [file EXCEPT ![f] = IF job.by # "sync" \/ job.put # NoFlow THEN job.put
                                       ELSE IF @ # NoFlow THEN @ ELSE job.shared]
    /\ dirs' = dirs \cup ({f} \cap Agents)
    /\ UNCHANGED <<service, flow, flows, config, off, writer, page>>

(***************************************************************************)
(* The routes.                                                             *)
(***************************************************************************)
ProviderStatus == \E f \in {"shared"} \cup dirs : file[f] # NoFlow

\* The page asks how the login goes.  The request that sees it completed consumes it,
\* and answers when the provider is in the config.
OauthStatus ==
    /\ page.waiting \/ page.asking
    /\ ~adding
    /\ IF status = "completed"
       THEN /\ status' = "idle" /\ completedProfile' = NoFlow /\ adding' = TRUE
            /\ UNCHANGED page
       ELSE /\ page' = [page EXCEPT !.heard = status, !.asking = FALSE,
                                    !.waiting = page.waiting /\ ~FlowOver(status)]
            /\ UNCHANGED <<status, completedProfile, adding>>
    /\ UNCHANGED <<callbackServer, timeoutHandle, port, timers, flow, flows, files, agents,
                   provider, owed, off, writer>>

AddProvider ==
    /\ adding /\ adding' = FALSE /\ provider' = TRUE /\ owed' = TRUE
    /\ page' = [page EXCEPT !.heard = "completed", !.asking = FALSE, !.waiting = FALSE]
    /\ UNCHANGED <<service, flow, flows, files, agents, off, writer>>

\* The page is looked at again, or a login or a disconnect made it ask.
Refetch ==
    /\ page' = [page EXCEPT !.connected = ProviderStatus]
    /\ UNCHANGED <<service, flow, flows, files, config, off, writer>>

RequestDisconnect ==
    /\ page.connected /\ disconnect = "idle"
    /\ disconnect' = "found" /\ was' = ProviderStatus
    /\ UNCHANGED <<service, flow, flows, files, config, writer, page>>

DisconnectOAuth ==
    /\ disconnect = "found" /\ disconnect' = "removing"
    /\ Enqueue([by |-> "disconnect", put |-> NoFlow, shared |-> NoFlow], {"shared"} \cup dirs)
    /\ UNCHANGED <<service, flow, flows, file, dirs, config, was, writer, page>>

Disconnected ==
    /\ disconnect = "removing" /\ ~Awaits("disconnect", NoFlow) /\ disconnect' = "idle"
    /\ provider' = (provider /\ ~was) /\ owed' = (owed \/ (provider /\ was))
    /\ page' = [page EXCEPT !.connected = ProviderStatus]
    /\ UNCHANGED <<service, flow, flows, files, agents, adding, was, writer>>

(***************************************************************************)
(* writeForAgents, in the sync that follows an edit.                       *)
(***************************************************************************)
AddAgent(a) ==
    /\ a \notin agents /\ agents' = agents \cup {a} /\ owed' = TRUE
    /\ UNCHANGED <<service, flow, flows, files, provider, adding, off, writer, page>>

StartSync ==
    /\ sync = "idle" /\ owed
    /\ sync' = "entries" /\ owed' = FALSE
    /\ entry' = LET holding == {i \in DOMAIN Order : Order[i] \in dirs /\ file[Order[i]] # NoFlow}
                IN  IF provider /\ holding # {} THEN file[Order[Min(holding)]] ELSE NoFlow
    /\ UNCHANGED <<service, flow, flows, files, agents, provider, adding, off, shared, page>>

ReadShared ==
    /\ sync = "entries" /\ sync' = "shared" /\ shared' = file["shared"]
    /\ UNCHANGED <<service, flow, flows, files, config, off, entry, page>>

WriteForAgents ==
    /\ sync = "shared" /\ sync' = "writing"
    /\ Enqueue([by |-> "sync", put |-> entry, shared |-> shared], agents)
    /\ UNCHANGED <<service, flow, flows, file, dirs, config, off, entry, shared, page>>

Written ==
    /\ sync = "writing" /\ ~Awaits("sync", entry)
    /\ sync' = "idle" /\ entry' = NoFlow /\ shared' = NoFlow
    /\ UNCHANGED <<service, flow, flows, files, config, off, page>>

Login(f) ==
    \/ Started(f) \/ NotStarted(f) \/ TimesOut(f) \/ Callback(f) \/ CallbackFails(f)
    \/ Exchanged(f) \/ MergeOAuthProfile(f) \/ Completes(f)
Routes ==
    \/ OauthStatus \/ AddProvider \/ Refetch
    \/ RequestDisconnect \/ DisconnectOAuth \/ Disconnected
Sync == StartSync \/ ReadShared \/ WriteForAgents \/ Written

\* Two of them may write the files from what they read before, or a disconnect comes
\* upon a login that is under way or not yet consumed.
Clash ==
    LET writing == {f \in Flows : flow[f] \in {"exchanging", "listing", "merging"}}
    IN  \/ Cardinality(writing) > 1
        \/ disconnect # "idle" /\ (writing # {} \/ status = "completed" \/ adding)
        \/ sync # "idle" /\ (disconnect # "idle" \/ writing # {})

Noted(A) == A /\ clashed' = (clashed \/ Clash')

OAuthNext ==
    \/ Noted(StartOAuthFlow) \/ Noted(Routes) \/ Noted(Sync)
    \/ \E f \in Flows : Noted(Login(f))
    \/ \E f \in Files : Noted(Update(f))
    \/ \E a \in Agents : Noted(AddAgent(a))

OAuthSpec == OAuthInit /\ [][OAuthNext]_oauthVars

\* A server listens or cannot, timers fire, the page polls, requests and file writes end.
OAuthFairSpec ==
    /\ OAuthSpec
    /\ WF_oauthVars(Noted(OauthStatus)) /\ WF_oauthVars(Noted(AddProvider))
    /\ \A f \in Flows :
         /\ WF_oauthVars(Noted(Started(f) \/ NotStarted(f))) /\ WF_oauthVars(Noted(TimesOut(f)))
         /\ WF_oauthVars(Noted(Exchanged(f) \/ MergeOAuthProfile(f) \/ Completes(f)))
    /\ \A f \in Files : WF_oauthVars(Noted(Update(f)))

-------------------------------------------------------------------------------

Quiet ==
    /\ sync = "idle" /\ disconnect = "idle" /\ ~owed /\ ~adding
    /\ \A f \in Flows : flow[f] \in {"none", "open", "over"}

\* The callback port is held by nobody but the server that the next start closes, and no
\* timer runs that it does not clear, though callbacks of flows that were given up still
\* end and shut their server down (abortFlow, shutdownServer).
PortIsOurs == port \in {NoFlow, callbackServer} /\ timers \subseteq {timeoutHandle}

\* At rest all agents use the account the shared file holds, and a provider in the config
\* has one: after logins, relogins, disconnects and syncs in any order, with agents created
\* in between, as long as those that write the files do not overlap (mergeOAuthProfile,
\* writeForAgents).
QuietProfilesAgree ==
    Quiet /\ ~clashed =>
        /\ \A a \in agents : file[a] = file["shared"]
        /\ provider => file["shared"] # NoFlow

\* The page does not wait for ever: a flow ends by its callback or its time-out, whatever
\* earlier flows still do, and the page is told (startOAuthFlow, the page's effect).
PageStopsWaiting == page.waiting ~> ~page.waiting

\* A login that ended well comes to be recorded: "Fix OpenAI OAuth to persist models
\* after login" (docs/plans/2026-03-24-oauth-model-persistence.md:5).
LoginIsRecorded == status = "completed" ~> status # "completed"

===============================================================================
