----------------------------- MODULE CloudSession -----------------------------
(***************************************************************************)
(* The desktop's cloud accounts: named profiles, the stored session of     *)
(* each, the active one mirrored in `cloud`, browser logins polled in the  *)
(* background, and the default model that follows what the cloud offers.   *)
(*                                                                         *)
(* Every update of the configuration is atomic (LowDbStore shows when).    *)
(* The steps of a request are what runs between two awaited fetches or     *)
(* updates.  A credential is the number of the login that obtained it.     *)
(***************************************************************************)
EXTENDS Naturals, FiniteSets

CONSTANTS
    Profiles, Default,  \* profile names; Default is always there
    CloudModels, Links, \* cloud models; those whose id starts with link/
    Own,                \* models of the user's own providers
    Requests,           \* requests the UI may have under way
    Tick,               \* the refresh loop and the start of the controller
    Serial,             \* does a request wait for the others and for the refresh?
    Named,              \* has a profile been selected before?
    DropsActive,        \* may an import leave out the active profile?
    MaxProfiles,        \* bound: how many profiles at a time
    MaxLogins,          \* bound: how many browser logins
    MaxAttempts,        \* bound: polls of one login (100 in the code)
    MaxRestarts         \* bound: how often the controller starts again

None == 0

ASSUME CloudConstants ==
    /\ Default \in Profiles /\ None \notin Profiles
    /\ Links \subseteq CloudModels /\ Own \cap CloudModels = {}
    /\ {Serial, Named, DropsActive} \subseteq BOOLEAN /\ Tick \notin Requests
    /\ {MaxProfiles, MaxLogins, MaxAttempts, MaxRestarts} \subseteq Nat

Logins == 1 .. MaxLogins
Actors == Requests \cup {Tick}
Session == [poll : BOOLEAN, key : {None} \cup Logins, models : SUBSET CloudModels]
Blank == [poll |-> FALSE, key |-> None, models |-> {}]
Absent == [key |-> "absent"]
Models == CloudModels \cup Own
Idle == [op |-> "idle"]
Over == [phase |-> "ended", left |-> 0, aborted |-> FALSE, got |-> {}]

\* What an actor is doing; a step that another request may follow says which.
Follows == {"idle", "connect"}
Calls ==
    [op : {"idle", "connect", "register", "launch"}]
    \cup [op : {"check"}, next : Follows]
    \cup [op : {"abort"}, poll : BOOLEAN]
    \cup [op : {"strip"}, models : SUBSET CloudModels, managed : BOOLEAN]
    \cup [op : {"switch"}, snap : Session, next : Follows]
    \cup [op : {"prune"}, kept : SUBSET Profiles]
    \cup [op : {"rename"}, from : Profiles, to : Profiles]
    \cup [op : {"delete"}, name : Profiles]
    \cup [op : {"refresh"}, snap : Session, check : BOOLEAN]

VARIABLES
    profiles,     \* cloud-profiles.json
    active,       \* activeCloudProfileName
    cloud,        \* desktop.cloud
    sessions,     \* desktop.cloudSessions
    default,      \* the default model; what applies to it applies to the bots that use it
    pollingState, \* the login this.pollingState belongs to
    login,        \* each login loop
    call,         \* what each actor is doing
    restarts,
    torn,         \* history: the controller stopped while the active profile was not listed
    home,         \* history: the profile each login was made for
    loggedOut,    \* history: credentials whose profile was disconnected
    curated       \* history: the default was deselected since it was last checked

store == <<profiles, active, cloud, sessions>>
history == <<home, loggedOut, curated>>
stops == <<restarts, torn>>
vars == <<store, default, pollingState, login, call, stops, history>>

LoginPhases == {"unused", "sleeping", "asking", "fetching", "checking", "ended"}

TypeOK ==
    /\ profiles \in SUBSET Profiles /\ Default \in profiles
    /\ active \in Profiles \cup {None} /\ cloud \in Session
    /\ sessions \in [Profiles -> {Absent} \cup Session]
    /\ default \in Models \cup {None}
    /\ pollingState \in {None} \cup Logins
    /\ login \in [Logins -> [phase : LoginPhases, left : 0 .. MaxAttempts,
                             aborted : BOOLEAN, got : SUBSET CloudModels]]
    /\ call \in [Actors -> Calls] /\ restarts \in 0 .. MaxRestarts /\ torn \in BOOLEAN
    /\ home \in [Logins -> Profiles] /\ loggedOut \subseteq Logins /\ curated \in BOOLEAN

\* A fresh installation, whose user may have selected a profile before.
Init ==
    /\ profiles = {Default} /\ active = (IF Named THEN Default ELSE None)
    /\ cloud = Blank /\ sessions = [p \in Profiles |-> Absent]
    /\ default \in Own \cup {None}
    /\ pollingState = None
    /\ login = [l \in Logins |-> [phase |-> "unused", left |-> MaxAttempts,
                                  aborted |-> FALSE, got |-> {}]]
    /\ call = [a \in Actors |-> IF a = Tick THEN [op |-> "check", next |-> "idle"] ELSE Idle]
    /\ restarts = 0 /\ torn = FALSE
    /\ home = [l \in Logins |-> Default] /\ loggedOut = {} /\ curated = FALSE

ActiveName == IF active = None THEN Default ELSE active
Connected(s) == s # Absent /\ s.key # None
Offered == cloud.models \cup Own
IsManaged(m, models) == m \in models \cup Links

\* The next request can start: in a serial run only when nothing is under way.
Free(a) ==
    /\ call[a] = Idle
    /\ Serial => \A b \in Actors : call[b] = Idle

Become(a, c) == call' = [call EXCEPT ![a] = c]

(***************************************************************************)
(* writeActiveDesktopCloudState: the state becomes `cloud` and the session *)
(* of whatever profile is active when the update runs.                     *)
(***************************************************************************)

WriteCloud(s) ==
    /\ cloud' = s /\ sessions' = [sessions EXCEPT ![ActiveName] = s]
    /\ UNCHANGED <<active, profiles>>

\* abortDesktopCloudPolling: the loop sees its signal at its next check.
AbortPolling ==
    /\ pollingState' = None
    /\ login' = [l \in Logins |-> IF l = pollingState THEN [login[l] EXCEPT !.aborted = TRUE]
                                                      ELSE login[l]]

(***************************************************************************)
(* ensureValidDefaultModel: a default that is not offered is replaced  *)
(* by one that is.  Nothing is done when nothing is offered.               *)
(***************************************************************************)

\* Mutant: only an empty default is replaced.
EnsureDefault ==
    /\ curated' = FALSE
    /\ IF default = None /\ Offered # {}
       THEN \E m \in Offered : default' = m
       ELSE UNCHANGED default

EnsureValidDefaultModel ==
    /\ curated' = FALSE
    /\ IF default \notin Offered /\ Offered # {}
       THEN \E m \in Offered : default' = m
       ELSE UNCHANGED default

\* A request's last step but for the sync; connectProfile goes on to connect.
Check(a) ==
    /\ call[a].op = "check"
    /\ EnsureValidDefaultModel
    /\ Become(a, IF call[a].next = "connect" THEN [op |-> "connect"] ELSE Idle)
    /\ UNCHANGED <<store, pollingState, login, stops, home, loggedOut>>

Checked(a) == Become(a, [op |-> "check", next |-> "idle"])

(***************************************************************************)
(* connectDesktopCloud: the session is read and, a read of the profiles    *)
(* later, refused when it was connected, else an earlier login is aborted  *)
(* and what is stored by then blanked; the device is registered, polling   *)
(* written, and only then the loop launched.                               *)
(***************************************************************************)
StartConnect(a) ==
    /\ Become(a, IF cloud.key # None THEN Idle ELSE [op |-> "abort", poll |-> cloud.poll])
    /\ UNCHANGED <<store, default, pollingState, login, stops, history>>

AbortEarlier(a) ==
    /\ call[a].op = "abort" /\ Become(a, [op |-> "register"])
    /\ IF pollingState # None \/ call[a].poll
       THEN AbortPolling /\ WriteCloud(Blank)
       ELSE UNCHANGED <<store, pollingState, login>>
    /\ UNCHANGED <<default, stops, history>>

Connect(a) == (Free(a) \/ call[a].op = "connect") /\ a \in Requests /\ StartConnect(a)

Registered(a) ==
    /\ call[a].op = "register"
    /\ \/ Become(a, Idle) /\ UNCHANGED store
       \/ /\ \E l \in Logins : login[l].phase = "unused"
          /\ WriteCloud([Blank EXCEPT !.poll = TRUE]) /\ Become(a, [op |-> "launch"])
    /\ UNCHANGED <<default, pollingState, login, stops, history>>

Launch(a) ==
    /\ call[a].op = "launch" /\ Become(a, Idle)
    /\ \E l \in Logins :
         /\ login[l].phase = "unused" /\ \A k \in 1 .. l - 1 : login[k].phase # "unused"
         /\ pollingState' = l
         /\ login' = [login EXCEPT ![l].phase = "sleeping"]
         /\ home' = [home EXCEPT ![l] = ActiveName]
    /\ UNCHANGED <<store, default, stops, loggedOut, curated>>

(***************************************************************************)
(* pollDesktopCloudAuthorization.  The sleep and the poll end at an abort; *)
(* the fetch of the models does not, and the signal is compared after it.  *)
(***************************************************************************)
\* Mutant: a loop only asks whether any login is being polled.
IsSomePollingSignal(l) == pollingState # None

\* Mutant: the signal is not compared after the last await.
IsAnySignal(l) == TRUE

IsCurrentPollingSignal(l) == ~login[l].aborted /\ pollingState = l

LoopUnchanged == UNCHANGED <<default, call, stops, history>>

\* Mutant: the login stays the one being polled.
FinishLoginUncleared(l, s, next) ==
    /\ login' = [login EXCEPT ![l] = next] /\ UNCHANGED pollingState
    /\ IF IsCurrentPollingSignal(l) THEN WriteCloud(s) ELSE UNCHANGED store

\* The loop ends; if it is the current one it writes its outcome.
FinishLogin(l, s, next) ==
    IF IsCurrentPollingSignal(l)
    THEN /\ pollingState' = None /\ WriteCloud(s)
         /\ login' = [login EXCEPT ![l] = next]
    ELSE /\ login' = [login EXCEPT ![l] = Over]
         /\ UNCHANGED <<store, pollingState>>

Wake(l) ==
    /\ login[l].phase = "sleeping" /\ LoopUnchanged
    /\ IF login[l].aborted
       THEN login' = [login EXCEPT ![l] = Over] /\ UNCHANGED <<store, pollingState>>
       ELSE IF login[l].left > 0
       THEN /\ login' = [login EXCEPT ![l].phase = "asking", ![l].left = @ - 1]
            /\ UNCHANGED <<store, pollingState>>
       ELSE FinishLogin(l, Blank, Over)

\* The answer: the poll failed or is pending, the code expired, or the user approved.
Answer(l) ==
    /\ login[l].phase = "asking" /\ LoopUnchanged
    /\ \/ /\ login' = [login EXCEPT ![l].phase = "sleeping"]
          /\ UNCHANGED <<store, pollingState>>
       \/ FinishLogin(l, Blank, Over)
       \/ /\ ~login[l].aborted
          /\ \E S \in SUBSET CloudModels :
               login' = [login EXCEPT ![l].phase = "fetching", ![l].got = S]
          /\ UNCHANGED <<store, pollingState>>

StoreCredentials(l) ==
    /\ login[l].phase = "fetching" /\ LoopUnchanged
    /\ FinishLogin(l, [poll |-> FALSE, key |-> l, models |-> login[l].got],
                   [Over EXCEPT !.phase = "checking"])

\* onCloudStateChanged.
LoginChecked(l) ==
    /\ login[l].phase = "checking" /\ EnsureValidDefaultModel
    /\ login' = [login EXCEPT ![l] = Over]
    /\ UNCHANGED <<store, pollingState, call, stops, home, loggedOut>>

(***************************************************************************)
(* disconnectDesktopCloud: blank the active session, then take the managed *)
(* models, as they were before, away from the default.                     *)
(***************************************************************************)
StartDisconnect(a) ==
    /\ AbortPolling /\ WriteCloud(Blank)
    /\ Become(a, [op |-> "strip", models |-> cloud.models,
                  managed |-> IsManaged(default, cloud.models)])
    /\ loggedOut' = loggedOut \cup ({cloud.key} \ {None})
    /\ UNCHANGED <<default, stops, home, curated>>

Disconnect(a) == Free(a) /\ a \in Requests /\ StartDisconnect(a)

Strip(a) ==
    /\ call[a].op = "strip" /\ Checked(a)
    /\ LET kept(m) == IF call[a].managed /\ IsManaged(m, call[a].models) THEN None ELSE m
       IN default' = kept(default)
    /\ UNCHANGED <<store, pollingState, login, stops, history>>

\* Mutant: only the list of the active profile's models is cleared.
DisconnectProfileModels(a, p) ==
    /\ Free(a) /\ a \in Requests
    /\ \/ active = p /\ StartDisconnect(a)
       \/ /\ active # p /\ Checked(a)
          /\ IF sessions[p] = Absent
             THEN UNCHANGED <<sessions, loggedOut>>
             ELSE /\ sessions' = [sessions EXCEPT ![p].models = {}]
                  /\ loggedOut' = loggedOut \cup ({sessions[p].key} \ {None})
          /\ UNCHANGED <<profiles, active, cloud, default, pollingState, login,
                         stops, home, curated>>

\* disconnectDesktopCloudProfile: another profile only loses its session.
DisconnectProfile(a, p) ==
    /\ Free(a) /\ a \in Requests
    /\ \/ active = p /\ StartDisconnect(a)
       \/ /\ active # p /\ Checked(a)
          /\ IF sessions[p] = Absent
             THEN UNCHANGED <<sessions, loggedOut>>
             ELSE /\ sessions' = [sessions EXCEPT ![p] = Blank]
                  /\ loggedOut' = loggedOut \cup ({sessions[p].key} \ {None})
          /\ UNCHANGED <<profiles, active, cloud, default, pollingState, login,
                         stops, home, curated>>

(***************************************************************************)
(* switchDesktopCloudProfile: the stored session becomes the active one,   *)
(* its models are fetched, and it is written back.                         *)
(***************************************************************************)
StartSwitch(a, p, next) ==
    LET s == IF sessions[p] = Absent THEN Blank ELSE sessions[p]
    IN  /\ p \in profiles /\ AbortPolling
        /\ active' = p /\ cloud' = s
        /\ Become(a, [op |-> "switch", snap |-> s, next |-> next])
        /\ UNCHANGED <<profiles, sessions, default, stops, history>>

Switch(a, p) == Free(a) /\ a \in Requests /\ StartSwitch(a, p, "idle")

\* connectDesktopCloudProfile: switch if need be, and connect unless the profile is.
ConnectProfile(a, p) ==
    /\ Free(a) /\ a \in Requests
    /\ \/ active # p /\ StartSwitch(a, p, "connect")
       \/ /\ active = p
          /\ IF Connected(IF sessions[p] = Absent THEN cloud ELSE sessions[p])
             THEN Become(a, Idle) /\ UNCHANGED <<store, default, pollingState, login,
                                                 stops, history>>
             ELSE StartConnect(a)

Switched(a) ==
    /\ call[a].op = "switch"
    /\ \E S \in {call[a].snap.models} \cup SUBSET CloudModels :
         WriteCloud([poll |-> FALSE, key |-> call[a].snap.key,
                     models |-> IF call[a].snap.key = None THEN {} ELSE S])
    /\ Become(a, [op |-> "check", next |-> call[a].next])
    /\ UNCHANGED <<default, pollingState, login, stops, history>>

(***************************************************************************)
(* The profile list.  Its file is written first, the configuration next.   *)
(***************************************************************************)

\* setDesktopCloudProfiles
Import(a, S) ==
    /\ Free(a) /\ a \in Requests
    /\ DropsActive \/ active \in S \cup {Default, None}
    /\ Cardinality(S \cup {Default}) <= MaxProfiles
    /\ profiles' = S \cup {Default} /\ Become(a, [op |-> "prune", kept |-> profiles'])
    /\ UNCHANGED <<active, cloud, sessions, default, pollingState, login, stops, history>>

Prune(a) ==
    /\ call[a].op = "prune" /\ Checked(a)
    /\ active' = (IF active \in call[a].kept THEN active ELSE Default)
    /\ sessions' = [p \in Profiles |-> IF p \in call[a].kept THEN sessions[p] ELSE Absent]
    /\ UNCHANGED <<profiles, cloud, default, pollingState, login, stops, history>>

CreateProfile(a, p) ==
    /\ Free(a) /\ a \in Requests /\ p \notin profiles /\ Cardinality(profiles) < MaxProfiles
    /\ profiles' = profiles \cup {p} /\ Checked(a)
    /\ UNCHANGED <<active, cloud, sessions, default, pollingState, login, stops, history>>

\* updateDesktopCloudProfile
StartRename(a, p, q) ==
    /\ Free(a) /\ a \in Requests /\ p \in profiles \ {Default} /\ q \notin profiles
    /\ profiles' = (profiles \ {p}) \cup {q} /\ Become(a, [op |-> "rename", from |-> p, to |-> q])
    /\ UNCHANGED <<active, cloud, sessions, default, pollingState, login, stops, history>>

Rename(a) ==
    /\ call[a].op = "rename" /\ Checked(a)
    /\ LET p == call[a].from
           q == call[a].to
       IN  /\ active' = (IF active = p THEN q ELSE active)
           /\ sessions' = IF sessions[p] = Absent THEN sessions
                          ELSE [sessions EXCEPT ![q] = sessions[p], ![p] = Absent]
           /\ home' = [l \in Logins |-> IF home[l] = p THEN q ELSE home[l]]
    /\ UNCHANGED <<profiles, cloud, default, pollingState, login, stops,
                   loggedOut, curated>>

\* deleteDesktopCloudProfile: whichever profile it is, a login under way is aborted.
StartDelete(a, p) ==
    /\ Free(a) /\ a \in Requests /\ p \in profiles \ {Default}
    /\ profiles' = profiles \ {p} /\ Become(a, [op |-> "delete", name |-> p])
    /\ UNCHANGED <<active, cloud, sessions, default, pollingState, login, stops, history>>

Delete(a) ==
    /\ call[a].op = "delete" /\ Checked(a) /\ AbortPolling
    /\ sessions' = [sessions EXCEPT ![call[a].name] = Absent]
    /\ IF active = call[a].name
       THEN active' = Default /\ cloud' = Blank
       ELSE UNCHANGED <<active, cloud>>
    /\ UNCHANGED <<profiles, default, stops, history>>

(***************************************************************************)
(* hydrateDesktopCloudModels, on request, every minute and at the start:   *)
(* the session is read, the user and the models are fetched, and what was  *)
(* read is written back with the answers.                                  *)
(***************************************************************************)
Refresh(a) ==
    /\ Free(a) /\ cloud.key # None
    /\ Become(a, [op |-> "refresh", snap |-> cloud, check |-> a # Tick])
    /\ UNCHANGED <<store, default, pollingState, login, stops, history>>

RefreshUser(a) ==
    /\ call[a].op = "refresh" /\ WriteCloud(call[a].snap)
    /\ UNCHANGED <<default, pollingState, login, call, stops, history>>

Refreshed(a) ==
    /\ call[a].op = "refresh"
    /\ \/ UNCHANGED store
       \/ \E S \in SUBSET CloudModels : WriteCloud([call[a].snap EXCEPT !.models = S])
    /\ IF call[a].check \/ cloud'.models # call[a].snap.models THEN Checked(a) ELSE Become(a, Idle)
    /\ UNCHANGED <<default, pollingState, login, stops, history>>

\* setDesktopCloudModels touches the active copy only.
SetModels(a, S) ==
    /\ Free(a) /\ a \in Requests
    /\ cloud' = [cloud EXCEPT !.models = @ \cap S]
    /\ curated' = (curated \/ default \in cloud.models \ S)
    /\ UNCHANGED <<profiles, active, sessions, default, pollingState, login, call,
                   stops, home, loggedOut>>

SetDefaultModel(a, m) ==
    /\ Free(a) /\ a \in Requests /\ default' = m
    /\ UNCHANGED <<store, pollingState, login, call, stops, history>>

\* The controller stops; the next one hydrates and checks before it serves.
Restart ==
    /\ restarts < MaxRestarts /\ restarts' = restarts + 1
    /\ torn' = (torn \/ ActiveName \notin profiles)
    /\ call' = [a \in Actors |->
                  IF a # Tick THEN Idle
                  ELSE IF cloud.key # None /\ cloud.models = {}
                       THEN [op |-> "refresh", snap |-> cloud, check |-> TRUE]
                       ELSE [op |-> "check", next |-> "idle"]]
    /\ pollingState' = None
    /\ login' = [l \in Logins |-> IF login[l].phase = "unused" THEN login[l]
                                  ELSE Over]
    /\ UNCHANGED <<store, default, history>>

(***************************************************************************)
(* The specification, and what is expected of it.                          *)
(***************************************************************************)
Continue(a) ==
    \/ Check(a) \/ AbortEarlier(a) \/ Registered(a) \/ Launch(a) \/ Strip(a) \/ Switched(a)
    \/ Prune(a) \/ Rename(a) \/ Delete(a) \/ Refreshed(a)
    \/ call[a].op = "connect" /\ Connect(a)

Loop(l) == Wake(l) \/ Answer(l) \/ StoreCredentials(l) \/ LoginChecked(l)

Request(a) ==
    \/ Connect(a) \/ Disconnect(a) \/ Refresh(a)
    \/ \E p \in Profiles : \/ DisconnectProfile(a, p) \/ Switch(a, p) \/ ConnectProfile(a, p)
                           \/ CreateProfile(a, p) \/ StartDelete(a, p)
    \/ \E p, q \in Profiles : StartRename(a, p, q)
    \/ \E S \in SUBSET Profiles : Import(a, S)
    \/ \E S \in SUBSET CloudModels : SetModels(a, S)
    \/ \E m \in Offered : SetDefaultModel(a, m)

Next ==
    \/ \E a \in Actors : Request(a) \/ Continue(a) \/ RefreshUser(a)
    \/ \E l \in Logins : Loop(l)
    \/ Restart

Spec == Init /\ [][Next]_vars

\* Fetches come back or time out, and a timer of the event loop fires.
FairSpec ==
    /\ Spec
    /\ \A a \in Actors : WF_vars(Continue(a))
    /\ \A l \in Logins : WF_vars(Loop(l))

\* Credentials stay with the profile they were obtained for, stored or active: however a
\* login in the background and a switch, rename, deletion or disconnection of its profile
\* follow each other, no loop stores what it obtained under another profile
\* (isCurrentPollingSignal, abortDesktopCloudPolling).  The active ones are also the stored
\* session of the active profile, unless the controller stopped between the two writes of
\* a rename or deletion of that profile, after which another may take its name.
KeyAtHome ==
    \A l \in Logins :
      /\ \A p \in Profiles : sessions[p] # Absent /\ sessions[p].key = l => home[l] = p
      /\ cloud.key = l =>
           /\ home[l] = ActiveName
           /\ ~torn => sessions[ActiveName] # Absent /\ sessions[ActiveName].key = l

\* Credentials of a profile the user disconnected are stored nowhere any more, whatever
\* switch, login or refresh follows (disconnectDesktopCloud, disconnectDesktopCloudProfile).
LoggedOutStaysOut ==
    \A l \in loggedOut : /\ cloud.key # l
                         /\ \A p \in Profiles : sessions[p] # Absent => sessions[p].key # l

\* At rest the default model is one that is offered, if any is, unless it was itself
\* deselected since it was last checked (ensureValidDefaultModel at the end of each route,
\* taken as one step); also after a connect that blanks a login which succeeded between its
\* two steps, and then fails to register.
QuietModelIsOffered ==
    /\ \A a \in Actors : call[a] = Idle
    /\ \A l \in Logins : login[l].phase # "checking"
    /\ ~curated /\ Offered # {}
    => default \in Offered

\* A login's loop never takes away credentials: one that expires late, after a newer login
\* has succeeded, writes nothing (isCurrentPollingSignal).
LoopNeverLogsOut ==
    [][call' = call /\ cloud.key # None => cloud'.key = cloud.key]_vars

\* A login ends, approved, expired or after its last poll: no later login is kept out and
\* none is polled for ever (pollDesktopCloudAuthorization).
LoginEnds == \A l \in Logins : pollingState = l ~> pollingState # l

===============================================================================
