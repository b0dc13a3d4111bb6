------------------------------ MODULE LoginProofs ------------------------------
(***************************************************************************)
(* What the two logins guarantee: the cloud accounts of CloudSession, and  *)
(* the OpenAI login of OAuthLogin.  The two specifications share nothing;  *)
(* each theorem is about one of them.                                      *)
(***************************************************************************)
EXTENDS CloudSession, OAuthLogin, FiniteSetTheorems, SequenceTheorems,
        NaturalsInduction, WellFoundedInduction, TLAPS

(***************************************************************************)
(* CloudSession: types, for every choice of the constants.                 *)
(***************************************************************************)
LoginState == [phase : LoginPhases, left : 0 .. MaxAttempts,
               aborted : BOOLEAN, got : SUBSET CloudModels]

StoreTyped ==
    /\ profiles \in SUBSET Profiles /\ Default \in profiles
    /\ active \in Profiles \cup {None} /\ cloud \in Session
    /\ sessions \in [Profiles -> {Absent} \cup Session]

LoopsTyped ==
    /\ pollingState \in {None} \cup Logins /\ login \in [Logins -> LoginState]

RestTyped ==
    /\ default \in Models \cup {None} /\ restarts \in 0 .. MaxRestarts
    /\ torn \in BOOLEAN /\ home \in [Logins -> Profiles]
    /\ loggedOut \subseteq Logins /\ curated \in BOOLEAN

LEMMA TypeParts == TypeOK <=> StoreTyped /\ LoopsTyped /\ RestTyped /\ call \in [Actors -> Calls]
BY DEF TypeOK, StoreTyped, LoopsTyped, RestTyped, LoginState

LEMMA TypeFolds ==
    ASSUME StoreTyped', LoopsTyped', RestTyped', (call \in [Actors -> Calls])'
    PROVE  TypeOK'
BY DEF TypeOK, StoreTyped, LoopsTyped, RestTyped, LoginState

LEMMA SessionIsStored == ASSUME NEW s \in Session PROVE s # Absent
BY DEF Session, Absent

\* What each call carries.
LEMMA CallCarries ==
    ASSUME NEW c \in Calls
    PROVE  /\ c.op = "check" => c.next \in Follows
           /\ c.op = "abort" => c.poll \in BOOLEAN
           /\ c.op = "strip" => c.models \in SUBSET CloudModels /\ c.managed \in BOOLEAN
           /\ c.op = "switch" => c.snap \in Session /\ c.next \in Follows
           /\ c.op = "prune" => c.kept \in SUBSET Profiles
           /\ c.op = "rename" => c.from \in Profiles /\ c.to \in Profiles
           /\ c.op = "delete" => c.name \in Profiles
           /\ c.op = "refresh" => c.snap \in Session /\ c.check \in BOOLEAN
BY DEF Calls

LEMMA SimpleCalls ==
    /\ Idle \in Calls
    /\ \A o \in {"connect", "register", "launch"} : [op |-> o] \in Calls
    /\ \A f \in Follows : [op |-> "check", next |-> f] \in Calls
    /\ \A b \in BOOLEAN : [op |-> "abort", poll |-> b] \in Calls
BY DEF Calls, Idle, Follows

LEMMA BecomeTyped ==
    ASSUME call \in [Actors -> Calls], NEW a \in Actors, NEW c \in Calls, Become(a, c)
    PROVE  /\ call' \in [Actors -> Calls] /\ call'[a] = c
           /\ \A b \in Actors : b # a => call'[b] = call[b]
BY DEF Become

LEMMA ActiveTyped == ASSUME CloudConstants, StoreTyped PROVE ActiveName \in Profiles
BY DEF StoreTyped, ActiveName, CloudConstants

LEMMA WriteTyped ==
    ASSUME CloudConstants, StoreTyped, NEW s \in Session, WriteCloud(s)
    PROVE  /\ StoreTyped' /\ cloud' = s /\ active' = active /\ profiles' = profiles
           /\ \A p \in Profiles : sessions'[p] = (IF p = ActiveName THEN s ELSE sessions[p])
BY ActiveTyped DEF StoreTyped, WriteCloud

LEMMA AbortTyped ==
    ASSUME LoopsTyped, AbortPolling
    PROVE  /\ LoopsTyped' /\ pollingState' = None
           /\ \A l \in Logins : /\ login'[l].phase = login[l].phase
                                /\ ~login[l].aborted \/ login'[l].aborted
BY DEF LoopsTyped, AbortPolling, LoginState

LEMMA BlankTyped == Blank \in Session /\ [Blank EXCEPT !.poll = TRUE] \in Session
BY DEF Blank, Session

LEMMA OverTyped ==
    ASSUME CloudConstants
    PROVE  Over \in LoginState /\ [Over EXCEPT !.phase = "checking"] \in LoginState
<1>1. 0 \in 0 .. MaxAttempts
  BY DEF CloudConstants
<1> QED BY <1>1 DEF Over, LoginState, LoginPhases

LEMMA CheckTyped ==
    ASSUME TypeOK, EnsureValidDefaultModel
    PROVE  default' \in Models \cup {None} /\ curated' \in BOOLEAN
BY DEF TypeOK, EnsureValidDefaultModel, Offered, Models, Session

LEMMA StartConnectTyped ==
    ASSUME CloudConstants, TypeOK, NEW a \in Actors, StartConnect(a)
    PROVE  TypeOK'
<1>0. StoreTyped /\ LoopsTyped /\ RestTyped /\ call \in [Actors -> Calls]
  BY TypeParts
<1>1. StoreTyped' /\ LoopsTyped' /\ RestTyped'
  BY <1>0 DEF StartConnect, StoreTyped, LoopsTyped, RestTyped, store, history, stops
<1>2. cloud.poll \in BOOLEAN
  BY <1>0 DEF StoreTyped, Session
<1>3. call' \in [Actors -> Calls]
  BY <1>0, <1>2, SimpleCalls DEF StartConnect, Become
<1> QED BY <1>1, <1>3, TypeFolds

LEMMA AbortEarlierTyped ==
    ASSUME CloudConstants, TypeOK, NEW a \in Actors, AbortEarlier(a)
    PROVE  TypeOK'
<1>0. StoreTyped /\ LoopsTyped /\ RestTyped /\ call \in [Actors -> Calls]
  BY TypeParts
<1>1. RestTyped'
  BY <1>0 DEF RestTyped, AbortEarlier, history, stops
<1>2. call' \in [Actors -> Calls]
  BY <1>0, SimpleCalls DEF AbortEarlier, Become
<1>3. StoreTyped'
  BY <1>0, WriteTyped, BlankTyped DEF AbortEarlier, StoreTyped, store
<1>4. LoopsTyped'
  BY <1>0, AbortTyped DEF AbortEarlier, LoopsTyped
<1> QED BY <1>1, <1>2, <1>3, <1>4, TypeFolds

LEMMA StartDisconnectTyped ==
    ASSUME CloudConstants, TypeOK, NEW a \in Actors, StartDisconnect(a)
    PROVE  TypeOK'
<1>0. StoreTyped /\ LoopsTyped /\ RestTyped /\ call \in [Actors -> Calls]
  BY TypeParts
<1>1. loggedOut' \subseteq Logins
  BY <1>0 DEF RestTyped, StoreTyped, Session, StartDisconnect
<1>2. RestTyped'
  BY <1>0, <1>1 DEF RestTyped, StartDisconnect, stops
<1>3. [op |-> "strip", models |-> cloud.models, managed |-> IsManaged(default, cloud.models)] \in Calls
  BY <1>0 DEF Calls, StoreTyped, Session, IsManaged
<1>4. call' \in [Actors -> Calls]
  BY <1>0, <1>3 DEF StartDisconnect, Become
<1>5. StoreTyped'
  BY <1>0, WriteTyped, BlankTyped DEF StartDisconnect
<1>6. LoopsTyped'
  BY <1>0, AbortTyped DEF StartDisconnect
<1> QED BY <1>2, <1>4, <1>5, <1>6, TypeFolds

LEMMA StartSwitchTyped ==
    ASSUME CloudConstants, TypeOK, NEW a \in Actors, NEW p \in Profiles,
           NEW f \in Follows, StartSwitch(a, p, f)
    PROVE  TypeOK'
<1> DEFINE s == IF sessions[p] = Absent THEN Blank ELSE sessions[p]
<1>0. StoreTyped /\ LoopsTyped /\ RestTyped /\ call \in [Actors -> Calls]
  BY TypeParts
<1>1. s \in Session
  BY <1>0, BlankTyped DEF StoreTyped
<1>2. [op |-> "switch", snap |-> s, next |-> f] \in Calls
  <2> HIDE DEF s
  <2> QED BY <1>1 DEF Calls
<1>3. call' \in [Actors -> Calls]
  BY <1>0, <1>2 DEF StartSwitch, Become
<1>4. StoreTyped'
  BY <1>0, <1>1 DEF StartSwitch, StoreTyped
<1>5. LoopsTyped'
  BY <1>0, AbortTyped DEF StartSwitch
<1>6. RestTyped'
  BY <1>0 DEF RestTyped, StartSwitch, history, stops
<1> QED BY <1>3, <1>4, <1>5, <1>6, TypeFolds

LEMMA SwitchedTyped ==
    ASSUME CloudConstants, TypeOK, NEW a \in Actors, Switched(a)
    PROVE  TypeOK'
<1>0. StoreTyped /\ LoopsTyped /\ RestTyped /\ call \in [Actors -> Calls] /\ call[a] \in Calls
  BY TypeParts
<1>1. call[a].snap \in Session /\ call[a].next \in Follows
  BY <1>0, CallCarries DEF Switched
<1>2. PICK S \in {call[a].snap.models} \cup SUBSET CloudModels :
         WriteCloud([poll |-> FALSE, key |-> call[a].snap.key,
                     models |-> IF call[a].snap.key = None THEN {} ELSE S])
  BY DEF Switched
<1>3. [poll |-> FALSE, key |-> call[a].snap.key,
       models |-> IF call[a].snap.key = None THEN {} ELSE S] \in Session
  BY <1>1 DEF Session
<1>4. StoreTyped'
  BY <1>0, <1>2, <1>3, WriteTyped
<1>5. call' \in [Actors -> Calls]
  BY <1>0, <1>1, SimpleCalls DEF Switched, Become
<1>6. LoopsTyped' /\ RestTyped'
  BY <1>0 DEF RestTyped, LoopsTyped, Switched, history, stops
<1> QED BY <1>4, <1>5, <1>6, TypeFolds

LEMMA RefreshedTyped ==
    ASSUME CloudConstants, TypeOK, NEW a \in Actors, Refreshed(a) \/ RefreshUser(a)
    PROVE  TypeOK'
<1>0. StoreTyped /\ LoopsTyped /\ RestTyped /\ call \in [Actors -> Calls] /\ call[a] \in Calls
  BY TypeParts
<1>1. call[a].snap \in Session
  BY <1>0, CallCarries DEF Refreshed, RefreshUser
<1>2. \A S \in SUBSET CloudModels : [call[a].snap EXCEPT !.models = S] \in Session
  BY <1>1 DEF Session
<1>3. StoreTyped'
  BY <1>0, <1>1, <1>2, WriteTyped DEF Refreshed, RefreshUser, StoreTyped, store
<1>4. call' \in [Actors -> Calls]
  BY <1>0, SimpleCalls DEF Refreshed, RefreshUser, Become, Checked, Follows
<1>6. LoopsTyped' /\ RestTyped'
  BY <1>0 DEF RestTyped, LoopsTyped, Refreshed, RefreshUser, history, stops
<1> QED BY <1>3, <1>4, <1>6, TypeFolds

LEMMA RefreshTyped ==
    ASSUME CloudConstants, TypeOK, NEW a \in Actors, Refresh(a)
    PROVE  TypeOK'
<1>0. StoreTyped /\ LoopsTyped /\ RestTyped /\ call \in [Actors -> Calls]
  BY TypeParts
<1>1. [op |-> "refresh", snap |-> cloud, check |-> a # Tick] \in Calls
  BY <1>0 DEF StoreTyped, Calls
<1>2. call' \in [Actors -> Calls]
  BY <1>0, <1>1 DEF Refresh, Become
<1> QED BY <1>0, <1>2, TypeFolds DEF Refresh, StoreTyped, LoopsTyped, RestTyped, store, history, stops

LEMMA ListTyped ==
    ASSUME CloudConstants, TypeOK, NEW a \in Actors,
           \/ \E S \in SUBSET Profiles : Import(a, S)
           \/ \E p \in Profiles : CreateProfile(a, p) \/ StartDelete(a, p)
           \/ \E p, q \in Profiles : StartRename(a, p, q)
    PROVE  TypeOK'
<1>0. StoreTyped /\ LoopsTyped /\ RestTyped /\ call \in [Actors -> Calls]
  BY TypeParts
<1>1. profiles' \in SUBSET Profiles /\ Default \in profiles'
  BY <1>0 DEF StoreTyped, CloudConstants, Import, CreateProfile, StartDelete, StartRename
<1>2. /\ [op |-> "prune", kept |-> profiles'] \in Calls
      /\ \A p, q \in Profiles : /\ [op |-> "rename", from |-> p, to |-> q] \in Calls
                                /\ [op |-> "delete", name |-> p] \in Calls
      /\ [op |-> "check", next |-> "idle"] \in Calls
  BY <1>1 DEF Calls, Follows
<1>3. \E c \in Calls : Become(a, c)
  BY <1>2 DEF Import, CreateProfile, StartDelete, StartRename, Checked
<1>4. call' \in [Actors -> Calls]
  BY <1>0, <1>3 DEF Become
<1>5. StoreTyped' /\ LoopsTyped' /\ RestTyped'
  BY <1>0, <1>1 DEF StoreTyped, LoopsTyped, RestTyped, Import, CreateProfile, StartDelete,
                    StartRename, store, history, stops
<1> QED BY <1>4, <1>5, TypeFolds

LEMMA ListedTyped ==
    ASSUME CloudConstants, TypeOK, NEW a \in Actors, Prune(a) \/ Rename(a) \/ Delete(a)
    PROVE  TypeOK'
<1>0. StoreTyped /\ LoopsTyped /\ RestTyped /\ call \in [Actors -> Calls] /\ call[a] \in Calls
  BY TypeParts
<1>1. call' \in [Actors -> Calls]
  BY <1>0, SimpleCalls DEF Prune, Rename, Delete, Checked, Become, Follows
<1>2. CASE Prune(a)
  BY <1>0, <1>1, <1>2, TypeFolds DEF Prune, StoreTyped, LoopsTyped, RestTyped, history, stops,
                                     CloudConstants
<1>3. CASE Rename(a)
  <2>1. call[a].from \in Profiles /\ call[a].to \in Profiles
    BY <1>0, <1>3, CallCarries DEF Rename
  <2> QED BY <1>0, <1>1, <1>3, <2>1, TypeFolds DEF Rename, StoreTyped, LoopsTyped, RestTyped, stops
<1>4. CASE Delete(a)
  BY <1>0, <1>1, <1>4, AbortTyped, BlankTyped, TypeFolds
     DEF Delete, StoreTyped, RestTyped, history, stops, CloudConstants
<1> QED BY <1>2, <1>3, <1>4

LEMMA OtherRequestsTyped ==
    ASSUME CloudConstants, TypeOK, NEW a \in Actors,
           \/ Check(a) \/ Registered(a) \/ Launch(a) \/ Strip(a)
           \/ \E p \in Profiles : DisconnectProfile(a, p) /\ active # p
           \/ \E S \in SUBSET CloudModels : SetModels(a, S)
           \/ \E m \in Offered : SetDefaultModel(a, m)
    PROVE  TypeOK'
<1>0. StoreTyped /\ LoopsTyped /\ RestTyped /\ call \in [Actors -> Calls] /\ call[a] \in Calls
  BY TypeParts
<1>1. CASE Check(a)
  <2>1. call' \in [Actors -> Calls]
    BY <1>0, <1>1, SimpleCalls DEF Check, Become
  <2> QED BY <1>0, <1>1, <2>1, CheckTyped, TypeFolds
          DEF Check, StoreTyped, LoopsTyped, RestTyped, store, stops
<1>2. CASE Registered(a)
  <2>1. call' \in [Actors -> Calls]
    BY <1>0, <1>2, SimpleCalls DEF Registered, Become
  <2>2. StoreTyped'
    BY <1>0, <1>2, BlankTyped, WriteTyped DEF Registered, StoreTyped, store
  <2> QED BY <1>0, <1>2, <2>1, <2>2, TypeFolds DEF Registered, LoopsTyped, RestTyped, history, stops
<1>3. CASE Launch(a)
  <2>1. call' \in [Actors -> Calls]
    BY <1>0, <1>3, SimpleCalls DEF Launch, Become
  <2>2. LoopsTyped'
    BY <1>0, <1>3 DEF Launch, LoopsTyped, LoginState, LoginPhases
  <2>3. home' \in [Logins -> Profiles]
    BY <1>0, <1>3, ActiveTyped DEF Launch, RestTyped
  <2> QED BY <1>0, <1>3, <2>1, <2>2, <2>3, TypeFolds DEF Launch, StoreTyped, RestTyped, store, stops
<1>4. CASE Strip(a)
  <2>1. call' \in [Actors -> Calls]
    BY <1>0, <1>4, SimpleCalls DEF Strip, Become, Checked, Follows
  <2>2. default' \in Models \cup {None}
    BY <1>0, <1>4 DEF Strip, RestTyped
  <2> QED BY <1>0, <1>4, <2>1, <2>2, TypeFolds
          DEF Strip, StoreTyped, LoopsTyped, RestTyped, store, history, stops
<1>5. ASSUME NEW p \in Profiles, DisconnectProfile(a, p), active # p PROVE TypeOK'
  <2>1. call' \in [Actors -> Calls]
    BY <1>0, <1>5, SimpleCalls DEF DisconnectProfile, Become, Checked, Follows
  <2>2. loggedOut' \subseteq Logins
    BY <1>0, <1>5 DEF DisconnectProfile, StoreTyped, RestTyped, Session
  <2>3. sessions' \in [Profiles -> {Absent} \cup Session]
    BY <1>0, <1>5, BlankTyped DEF DisconnectProfile, StoreTyped
  <2> QED BY <1>0, <1>5, <2>1, <2>2, <2>3, TypeFolds
          DEF DisconnectProfile, StoreTyped, LoopsTyped, RestTyped, stops
<1>6. ASSUME NEW S \in SUBSET CloudModels, SetModels(a, S) PROVE TypeOK'
  <2>1. cloud' \in Session
    BY <1>0, <1>6 DEF SetModels, StoreTyped, Session
  <2>2. curated' \in BOOLEAN
    BY <1>0, <1>6 DEF SetModels, RestTyped
  <2> QED BY <1>0, <1>6, <2>1, <2>2, TypeFolds
          DEF SetModels, StoreTyped, LoopsTyped, RestTyped, stops
<1>7. ASSUME NEW m \in Offered, SetDefaultModel(a, m) PROVE TypeOK'
  <2>1. default' \in Models
    BY <1>0, <1>7 DEF SetDefaultModel, Offered, Models, StoreTyped, Session
  <2> QED BY <1>0, <1>7, <2>1, TypeFolds
          DEF SetDefaultModel, StoreTyped, LoopsTyped, RestTyped, store, history, stops
<1> QED BY <1>1, <1>2, <1>3, <1>4, <1>5, <1>6, <1>7

LEMMA FinishTyped ==
    ASSUME CloudConstants, StoreTyped, LoopsTyped, NEW l \in Logins, NEW s \in Session,
           NEW next \in LoginState, FinishLogin(l, s, next)
    PROVE  StoreTyped' /\ LoopsTyped'
<1>1. StoreTyped'
  BY WriteTyped DEF FinishLogin, StoreTyped, store
<1>2. LoopsTyped'
  BY OverTyped DEF FinishLogin, LoopsTyped
<1> QED BY <1>1, <1>2

LEMMA LoopTyped ==
    ASSUME CloudConstants, TypeOK, NEW l \in Logins, Loop(l)
    PROVE  TypeOK'
<1>0. StoreTyped /\ LoopsTyped /\ RestTyped /\ call \in [Actors -> Calls] /\ login[l] \in LoginState
  BY TypeParts DEF LoopsTyped
<1>1. CASE Wake(l)
  <2>1. CASE ~login[l].aborted /\ login[l].left > 0
    <3>1. [login[l] EXCEPT !.phase = "asking", !.left = @ - 1] \in LoginState
      <4>1. login[l].left - 1 \in 0 .. MaxAttempts
        BY <1>0, <2>1 DEF LoginState, CloudConstants
      <4> QED BY <1>0, <4>1 DEF LoginState, LoginPhases
    <3>2. LoopsTyped'
      BY <1>0, <1>1, <2>1, <3>1 DEF Wake, LoopsTyped
    <3> QED BY <1>0, <1>1, <2>1, <3>2, TypeFolds
            DEF Wake, LoopUnchanged, StoreTyped, RestTyped, store, history, stops
  <2>2. CASE ~(~login[l].aborted /\ login[l].left > 0)
    <3>1. StoreTyped' /\ LoopsTyped'
      BY <1>0, <1>1, <2>2, OverTyped, BlankTyped, FinishTyped
         DEF Wake, StoreTyped, LoopsTyped, store
    <3> QED BY <1>0, <1>1, <3>1, TypeFolds DEF Wake, LoopUnchanged, RestTyped, history, stops
  <2> QED BY <2>1, <2>2
<1>2. CASE Answer(l)
  <2>1. /\ [login[l] EXCEPT !.phase = "sleeping"] \in LoginState
        /\ \A S \in SUBSET CloudModels :
              [login[l] EXCEPT !.phase = "fetching", !.got = S] \in LoginState
    BY <1>0 DEF LoginState, LoginPhases
  <2>2. StoreTyped' /\ LoopsTyped'
    <3>1. CASE FinishLogin(l, Blank, Over)
      BY <1>0, <3>1, OverTyped, BlankTyped, FinishTyped
    <3>2. CASE ~FinishLogin(l, Blank, Over)
      <4>1. UNCHANGED <<store, pollingState>>
        BY <1>2, <3>2 DEF Answer
      <4>2. PICK state \in LoginState : login' = [login EXCEPT ![l] = state]
        BY <1>0, <1>2, <2>1, <3>2 DEF Answer, LoopsTyped
      <4>3. LoopsTyped'
        BY <1>0, <4>1, <4>2 DEF LoopsTyped
      <4> QED BY <1>0, <4>1, <4>3 DEF StoreTyped, store
    <3> QED BY <3>1, <3>2
  <2> QED BY <1>0, <1>2, <2>2, TypeFolds DEF Answer, LoopUnchanged, RestTyped, history, stops
<1>3. CASE StoreCredentials(l)
  <2>1. [poll |-> FALSE, key |-> l, models |-> login[l].got] \in Session
    BY <1>0 DEF Session, LoginState
  <2>2. StoreTyped' /\ LoopsTyped'
    BY <1>0, <1>3, <2>1, OverTyped, FinishTyped DEF StoreCredentials
  <2> QED BY <1>0, <1>3, <2>2, TypeFolds DEF StoreCredentials, LoopUnchanged, RestTyped, history, stops
<1>4. CASE LoginChecked(l)
  BY <1>0, <1>4, CheckTyped, OverTyped, TypeFolds
     DEF LoginChecked, StoreTyped, LoopsTyped, RestTyped, store, stops
<1> QED BY <1>1, <1>2, <1>3, <1>4 DEF Loop

LEMMA RestartTyped ==
    ASSUME CloudConstants, TypeOK, Restart
    PROVE  TypeOK'
<1>0. StoreTyped /\ LoopsTyped /\ RestTyped /\ call \in [Actors -> Calls]
  BY TypeParts
<1>1. [op |-> "refresh", snap |-> cloud, check |-> TRUE] \in Calls
  BY <1>0 DEF StoreTyped, Calls
<1>2. call' \in [Actors -> Calls]
  BY <1>1, SimpleCalls DEF Restart, Follows
<1>3. LoopsTyped'
  BY <1>0, OverTyped DEF Restart, LoopsTyped
<1>4. restarts' \in 0 .. MaxRestarts /\ torn' \in BOOLEAN
  BY <1>0 DEF Restart, RestTyped, CloudConstants
<1> QED BY <1>0, <1>2, <1>3, <1>4, TypeFolds DEF Restart, StoreTyped, RestTyped, store, history

LEMMA TypeStep ==
    ASSUME CloudConstants, TypeOK, [Next]_vars
    PROVE  TypeOK'
<1>1. ASSUME NEW a \in Actors, Request(a) PROVE TypeOK'
  <2>1. CASE Connect(a)
    BY <2>1, StartConnectTyped DEF Connect
  <2>2. CASE Disconnect(a)
    BY <2>2, StartDisconnectTyped DEF Disconnect
  <2>3. CASE Refresh(a)
    BY <2>3, RefreshTyped
  <2>4. ASSUME NEW p \in Profiles, DisconnectProfile(a, p) PROVE TypeOK'
    BY <2>4, StartDisconnectTyped, OtherRequestsTyped DEF DisconnectProfile
  <2>5. ASSUME NEW p \in Profiles, Switch(a, p) \/ ConnectProfile(a, p) PROVE TypeOK'
    <3>1. CASE \E f \in Follows : StartSwitch(a, p, f)
      BY <3>1, StartSwitchTyped
    <3>2. CASE StartConnect(a)
      BY <3>2, StartConnectTyped
    <3>3. CASE Become(a, Idle) /\ UNCHANGED <<store, default, pollingState, login, stops, history>>
      BY <3>3, SimpleCalls DEF Become, TypeOK, store, stops, history
    <3> QED BY <2>5, <3>1, <3>2, <3>3 DEF Switch, ConnectProfile, Follows
  <2>6. CASE \/ \E S \in SUBSET Profiles : Import(a, S)
             \/ \E p \in Profiles : CreateProfile(a, p) \/ StartDelete(a, p)
             \/ \E p, q \in Profiles : StartRename(a, p, q)
    BY <2>6, ListTyped
  <2>7. CASE \/ \E S \in SUBSET CloudModels : SetModels(a, S)
             \/ \E m \in Offered : SetDefaultModel(a, m)
    BY <2>7, OtherRequestsTyped
  <2> QED BY <1>1, <2>1, <2>2, <2>3, <2>4, <2>5, <2>6, <2>7 DEF Request
<1>2. ASSUME NEW a \in Actors, Continue(a) \/ RefreshUser(a) PROVE TypeOK'
  BY <1>2, OtherRequestsTyped, SwitchedTyped, ListedTyped, RefreshedTyped, StartConnectTyped,
     AbortEarlierTyped
     DEF Continue, Connect
<1>3. ASSUME NEW l \in Logins, Loop(l) PROVE TypeOK'
  BY <1>3, LoopTyped
<1>4. CASE Restart
  BY <1>4, RestartTyped
<1>5. CASE UNCHANGED vars
  BY <1>5 DEF vars, TypeOK, store, stops, history
<1> QED BY <1>1, <1>2, <1>3, <1>4, <1>5 DEF Next

LEMMA TypeInit == Init => TypeOK
<1>1. Init /\ CloudConstants => StoreTyped
  BY BlankTyped DEF Init, StoreTyped, CloudConstants
<1>2. Init /\ CloudConstants => LoopsTyped
  <2>1. CloudConstants => MaxAttempts \in 0 .. MaxAttempts
    BY DEF CloudConstants
  <2> QED BY <2>1 DEF Init, LoopsTyped, LoginState, LoginPhases
<1>3. Init /\ CloudConstants => RestTyped
  <2>1. CloudConstants => 0 \in 0 .. MaxRestarts
    BY DEF CloudConstants
  <2> QED BY <2>1 DEF Init, RestTyped, CloudConstants, Models
<1>4. Init => call \in [Actors -> Calls]
  BY SimpleCalls DEF Init, Follows
<1> QED BY <1>1, <1>2, <1>3, <1>4, TypeParts, CloudConstants

\* Every variable keeps its type.
THEOREM TypeCorrect == Spec => []TypeOK
<1>1. Init => TypeOK
  BY TypeInit
<1>2. TypeOK /\ [Next]_vars => TypeOK'
  BY TypeStep, CloudConstants
<1> QED BY <1>1, <1>2, PTL DEF Spec

(***************************************************************************)
(* One request at a time (Serial).  What else a theorem needs is in the    *)
(* invariant: that a profile was selected before (Named), or also that no  *)
(* import leaves out the active one (Kept), the setting of the run.        *)
(***************************************************************************)
Kept == Named /\ ~DropsActive

Single == \A a, b \in Actors : call[a].op # "idle" /\ call[b].op # "idle" => a = b

Holds(p, l) == sessions[p] # Absent /\ sessions[p].key = l

\* A session without credentials offers nothing.
Bare(s) == s # Absent /\ s.key = None => s.models = {}
Keyless == Bare(cloud) /\ \A p \in Profiles : Bare(sessions[p])

\* Credentials are stored by a login that is past its last poll.
Done(l) == login[l].phase \in {"checking", "ended"}
Obtained ==
    \A l \in Logins :
      (cloud.key = l \/ (\E p \in Profiles : Holds(p, l)) \/ l \in loggedOut) => Done(l)

StoredAtHome == \A l \in Logins, p \in Profiles : Holds(p, l) => home[l] = p
ActiveAtHome == \A l \in Logins : cloud.key = l => home[l] = active
Mirrored == ~torn /\ cloud.key # None => Holds(active, cloud.key)
SignedOut == \A l \in loggedOut : cloud.key # l /\ \A p \in Profiles : ~Holds(p, l)

\* No two profiles store the same credentials, and only the active one the active ones.
OneHolder ==
    \A l \in Logins :
      /\ \A p, q \in Profiles : Holds(p, l) /\ Holds(q, l) => p = q
      /\ cloud.key = l => \A p \in Profiles : Holds(p, l) => p = active

\* The login that is polled is one for the active profile, which has no credentials yet.
Polled ==
    pollingState # None =>
      cloud.key = None /\ cloud.poll /\ (Kept => home[pollingState] = active)

\* What a call under way knows of the state it works on.
Knows(c, act, cl, polled, known, broken) ==
    /\ c.op \in {"register", "launch"} => cl.key = None /\ polled = None
    /\ c.op = "launch" => cl.poll
    /\ c.op = "abort" /\ ~c.poll => cl.key = None /\ polled = None
    /\ c.op = "switch" => c.snap = cl /\ polled = None
    /\ c.op = "refresh" => c.snap = cl /\ cl.key # None
    /\ c.op = "rename" => c.from # c.to /\ c.to \in known
    /\ Kept =>
         /\ c.op = "prune" => act \in c.kept /\ c.kept = known
         /\ c.op = "rename" /\ ~broken => act = c.from \/ (act # c.to /\ act \in known)
         /\ c.op = "delete" /\ ~broken => act = c.name \/ act \in known

InHand == \A a \in Actors : Knows(call[a], active, cloud, pollingState, profiles, torn)

Listed ==
    /\ Kept /\ ~torn /\ (\A a \in Actors : call[a].op \notin {"rename", "delete"})
    => active \in profiles

\* The default model will be checked again.
Checks(c) == \/ c.op \in {"strip", "switch", "check", "prune", "rename", "delete"}
             \/ c.op = "refresh" /\ c.check
Unchecked == ~curated /\ Offered # {} /\ default \notin Offered
Pending == (\E a \in Actors : Checks(call[a])) \/ \E l \in Logins : login[l].phase = "checking"
WillCheck == Unchecked => Pending

\* Only an active login lets the default be a model of the cloud: no connect that found the
\* profile without credentials can take such a default's login away.
Grounded ==
    \/ Own = {} \/ default \in Own
    \/ \E a \in Actors : Checks(call[a])
    \/ cloud.key # None /\ \A a \in Actors : call[a].op # "abort"

Owned == active \in Profiles /\ Obtained /\ OneHolder /\ SignedOut
AtHome == StoredAtHome /\ ActiveAtHome /\ Mirrored
Accounts == Keyless /\ (Named => Owned) /\ (Kept => AtHome)
Requested == Single /\ InHand /\ Listed
Sound == Accounts /\ Polled /\ Requested /\ WillCheck
IInv == TypeOK /\ Sound /\ Grounded

(***************************************************************************)
(* What keeps the parts of the invariant.                                  *)
(***************************************************************************)
LEMMA NoLogin == CloudConstants => None \notin Logins
BY DEF CloudConstants, None, Logins

LEMMA ActiveIsNamed ==
    ASSUME CloudConstants, active \in Profiles
    PROVE  ActiveName = active
BY DEF ActiveName, CloudConstants

LEMMA KeptAccounts == ASSUME Accounts, Kept PROVE Named /\ Owned /\ AtHome
BY DEF Accounts, Kept

Remembers ==
    /\ torn' = torn /\ loggedOut' = loggedOut
    /\ \A l \in Logins : Done(l) => Done(l)' /\ home'[l] = home[l]

\* What is written may be the credentials of cloud, none, or ones that nobody has.
LEMMA WriteKeeps ==
    ASSUME CloudConstants, TypeOK, Accounts, Remembers, NEW s \in Session, WriteCloud(s), Bare(s),
           \A l \in Logins : s.key = l =>
             /\ Named => /\ l \notin loggedOut /\ Done(l)'
                         /\ \A p \in Profiles : Holds(p, l) => p = active
             /\ Kept => home'[l] = active
    PROVE  Accounts'
<1>0. StoreTyped /\ ActiveName \in Profiles /\ loggedOut \subseteq Logins
  BY TypeParts, ActiveTyped DEF RestTyped
<1>1. /\ cloud' = s /\ active' = active
      /\ \A p \in Profiles : sessions'[p] = (IF p = ActiveName THEN s ELSE sessions[p])
  BY <1>0, WriteTyped
<1>2. s # Absent
  BY SessionIsStored
<1>3. Keyless'
  BY <1>1 DEF Keyless, Accounts, Bare
<1>4. ASSUME Named PROVE Owned' /\ (AtHome /\ Kept => AtHome')
  <2>1. Owned /\ ActiveName = active /\ active \in Profiles
    BY <1>4, ActiveIsNamed DEF Accounts, Owned
  <2>2. \A p \in Profiles, l \in Logins :
          Holds(p, l)' <=> (IF p = active THEN s.key = l ELSE Holds(p, l))
    BY <1>1, <1>2, <2>1 DEF Holds
  <2>3. Obtained'
    BY <1>1, <1>4, <2>1, <2>2 DEF Obtained, Owned, Remembers
  <2>4. OneHolder'
    BY <1>1, <1>4, <2>1, <2>2 DEF OneHolder, Owned
  <2>5. SignedOut'
    BY <1>0, <1>1, <1>4, <2>1, <2>2 DEF SignedOut, Owned, Remembers
  <2>6. ASSUME AtHome, Kept PROVE AtHome'
    <3>1. StoredAtHome'
      BY <1>1, <2>1, <2>2, <2>6 DEF StoredAtHome, AtHome, Owned, Remembers, Obtained
    <3>2. ActiveAtHome' /\ Mirrored'
      BY <1>1, <1>2, <2>1, <2>6 DEF ActiveAtHome, Mirrored, Holds
    <3> QED BY <3>1, <3>2 DEF AtHome
  <2> QED BY <1>1, <2>1, <2>3, <2>4, <2>5, <2>6 DEF Owned
<1> QED BY <1>3, <1>4, KeptAccounts DEF Accounts, Kept

\* The credentials of cloud may be written.
LEMMA ActiveMayBeWritten ==
    ASSUME Accounts, UNCHANGED <<login, home>>, NEW l \in Logins, cloud.key = l
    PROVE  /\ Named => /\ l \notin loggedOut /\ Done(l)'
                       /\ \A p \in Profiles : Holds(p, l) => p = active
           /\ Kept => home'[l] = active
<1>1. ASSUME Named PROVE l \notin loggedOut /\ Done(l)' /\ \A p \in Profiles : Holds(p, l) => p = active
  BY <1>1 DEF Accounts, Owned, Obtained, OneHolder, SignedOut, Done
<1>2. ASSUME Kept PROVE home'[l] = active
  BY <1>2, KeptAccounts DEF AtHome, ActiveAtHome
<1> QED BY <1>1, <1>2

LEMMA StoreKeeps ==
    ASSUME TypeOK, Accounts, Remembers, UNCHANGED <<active, cloud, sessions>>
    PROVE  Accounts'
<1>1. \A p \in Profiles : \A l : Holds(p, l)' <=> Holds(p, l)
  BY DEF Holds
<1>2. Keyless'
  BY DEF Accounts, Keyless, Bare
<1>3. Owned => Owned'
  BY <1>1 DEF Owned, Obtained, OneHolder, SignedOut, Remembers
<1>4. Owned /\ AtHome => AtHome'
  BY <1>1 DEF Owned, Obtained, AtHome, StoredAtHome, ActiveAtHome, Mirrored, Remembers
<1> QED BY <1>2, <1>3, <1>4 DEF Accounts, Kept

LEMMA AbortKeeps ==
    ASSUME TypeOK, AbortPolling
    PROVE  pollingState' = None /\ \A l \in Logins : login'[l].phase = login[l].phase
BY TypeParts, AbortTyped

\* Nobody but a has a request under way.
Turn(a) == \A b \in Actors : b # a => call[b].op = "idle"

LEMMA TurnOf ==
    ASSUME Serial, Requested, NEW a \in Actors, Free(a) \/ call[a].op # "idle"
    PROVE  Turn(a) /\ (Free(a) => call[a].op = "idle")
BY DEF Requested, Single, Free, Turn, Idle

LEMMA TurnListed ==
    ASSUME Requested, NEW a \in Actors, Turn(a), call[a].op \notin {"rename", "delete"}, Kept, ~torn
    PROVE  active \in profiles
BY DEF Requested, Listed, Turn

LEMMA TurnKeeps ==
    ASSUME TypeOK, NEW a \in Actors, Turn(a), NEW c \in Calls, Become(a, c),
           Knows(c, active', cloud', pollingState', profiles', torn'),
           c.op \notin {"rename", "delete"} /\ Kept /\ ~torn' => active' \in profiles'
    PROVE  Requested'
<1>1. /\ call'[a] = c
      /\ \A b \in Actors : b # a => call'[b].op = "idle"
  BY BecomeTyped, TypeParts DEF Turn
<1>2. Single'
  BY <1>1 DEF Single
<1>3. InHand'
  BY <1>1 DEF InHand, Knows
<1>4. Listed'
  BY <1>1 DEF Listed
<1> QED BY <1>2, <1>3, <1>4 DEF Requested

LEMMA CallKeeps ==
    ASSUME Requested, UNCHANGED <<call, active, cloud, pollingState, profiles, torn>>
    PROVE  Requested'
BY DEF Requested, Single, InHand, Listed

LEMMA TurnChecks ==
    ASSUME TypeOK, NEW a \in Actors, NEW c \in Calls, Become(a, c), Checks(c)
    PROVE  WillCheck'
<1>1. call'[a] = c
  BY BecomeTyped, TypeParts
<1> QED BY <1>1 DEF WillCheck, Pending, Checks

LEMMA TurnWaits ==
    ASSUME TypeOK, WillCheck, NEW a \in Actors, ~Checks(call[a]),
           \A b \in Actors : b # a => call'[b] = call[b],
           \A l \in Logins : login[l].phase = "checking" => login'[l].phase = "checking",
           Unchecked' => Unchecked
    PROVE  WillCheck'
BY DEF WillCheck, Pending

LEMMA Ensured ==
    ASSUME EnsureValidDefaultModel, UNCHANGED cloud
    PROVE  WillCheck'
BY DEF EnsureValidDefaultModel, WillCheck, Unchecked, Offered

LEMMA Unchanged ==
    ASSUME IInv, UNCHANGED vars
    PROVE  Sound'
<1>1. Accounts' /\ Polled'
  BY StoreKeeps DEF IInv, Sound, Remembers, Done, Polled, vars, store, stops, history
<1>2. Requested' /\ WillCheck'
  BY CallKeeps DEF IInv, Sound, WillCheck, Pending, Unchecked, Offered, vars, store, stops, history
<1> QED BY <1>1, <1>2 DEF Sound

(***************************************************************************)
(* CloudSession: one lemma per operation.                                  *)
(***************************************************************************)
LEMMA StartConnectStep ==
    ASSUME CloudConstants, Serial, IInv, NEW a \in Actors, Turn(a),
           call[a].op \in {"idle", "connect"}, StartConnect(a)
    PROVE  Sound'
<1>0. TypeOK /\ Accounts /\ Polled /\ Requested /\ WillCheck /\ cloud.poll \in BOOLEAN
  BY DEF IInv, Sound, TypeOK, Session
<1>1. UNCHANGED <<active, cloud, sessions, profiles, torn, loggedOut, login, home,
                  pollingState, default, curated>>
  BY DEF StartConnect, store, stops, history
<1>2. Accounts' /\ Polled'
  BY <1>0, <1>1, StoreKeeps DEF Remembers, Done, Polled
<1> DEFINE c == IF cloud.key # None THEN Idle ELSE [op |-> "abort", poll |-> cloud.poll]
<1>3. /\ c \in Calls /\ Become(a, c) /\ c.op \in {"idle", "abort"}
      /\ c.op = "abort" /\ ~c.poll => cloud.key = None /\ ~cloud.poll
  BY <1>0, SimpleCalls DEF StartConnect, Idle
<1> HIDE DEF c
<1>4. Requested'
  BY <1>0, <1>1, <1>3, TurnListed, TurnKeeps DEF Knows, Polled
<1>5. WillCheck'
  <2>1. \A b \in Actors : b # a => call'[b] = call[b]
    BY <1>0, <1>3 DEF Become, TypeOK
  <2> QED BY <1>0, <1>1, <2>1, TurnWaits DEF Checks, Unchecked, Offered
<1> QED BY <1>2, <1>4, <1>5 DEF Sound

\* The credentials of a login that succeeded meanwhile are blanked with it.
LEMMA AbortEarlierStep ==
    ASSUME CloudConstants, Serial, IInv, NEW a \in Actors, AbortEarlier(a)
    PROVE  Sound'
<1>0. /\ TypeOK /\ Accounts /\ Polled /\ Requested /\ WillCheck /\ Grounded
      /\ call[a].op = "abort" /\ Become(a, [op |-> "register"])
  BY DEF IInv, Sound, AbortEarlier
<1>1. Turn(a)
  BY <1>0, TurnOf
<1>2. /\ Remembers /\ UNCHANGED <<active, profiles, torn, default, curated>>
      /\ \A l \in Logins : login'[l].phase = login[l].phase
  BY <1>0, AbortKeeps DEF AbortEarlier, Remembers, Done, WriteCloud, store, history, stops
<1>3. Kept /\ ~torn => active \in profiles
  BY <1>0, <1>1, TurnListed
<1>4. Blank \in Session /\ Blank.key = None /\ Blank.models = {}
  BY BlankTyped DEF Blank
<1>5. Accounts'
  BY <1>0, <1>2, <1>4, NoLogin, WriteKeeps, StoreKeeps DEF AbortEarlier, store, Bare
<1>6. pollingState' = None /\ cloud'.key = None
  <2>1. CASE pollingState # None \/ call[a].poll
    BY <1>0, <1>4, <2>1, AbortKeeps DEF AbortEarlier, WriteCloud
  <2>2. CASE ~(pollingState # None \/ call[a].poll)
    <3>1. cloud.key = None /\ pollingState = None
      BY <1>0, <2>2 DEF Requested, InHand, Knows
    <3> QED BY <2>2, <3>1 DEF AbortEarlier, store
  <2> QED BY <2>1, <2>2
<1>7. Polled'
  BY <1>6 DEF Polled
<1>8. Requested'
  BY <1>0, <1>1, <1>2, <1>3, <1>6, SimpleCalls, TurnKeeps DEF Knows
<1>9. ~Unchecked'
  <2>1. ~\E b \in Actors : Checks(call[b])
    BY <1>0, <1>1 DEF Turn, Checks
  <2>2. Own = {} \/ default \in Own
    BY <1>0, <2>1 DEF Grounded
  <2>3. cloud'.models = {}
    <3>1. cloud' \in Session /\ Bare(cloud)'
      BY <1>0, <1>5, AbortEarlierTyped DEF Accounts, Keyless, TypeOK
    <3> QED BY <1>6, <3>1, SessionIsStored DEF Bare
  <2> QED BY <1>2, <2>2, <2>3 DEF Unchecked, Offered
<1> QED BY <1>5, <1>7, <1>8, <1>9 DEF Sound, WillCheck

LEMMA RegisteredStep ==
    ASSUME CloudConstants, Serial, IInv, NEW a \in Actors, Registered(a)
    PROVE  Sound'
<1>0. TypeOK /\ Accounts /\ Polled /\ Requested /\ WillCheck /\ call[a].op = "register"
  BY DEF IInv, Sound, Registered
<1>1. Turn(a) /\ cloud.key = None /\ pollingState = None
  BY <1>0, TurnOf DEF Requested, InHand, Knows
<1>2. Remembers /\ UNCHANGED <<active, profiles, torn, default, curated, login, home, pollingState>>
  BY DEF Registered, Remembers, Done, WriteCloud, store, history, stops
<1>3. Kept /\ ~torn => active \in profiles
  BY <1>0, <1>1, TurnListed
<1> DEFINE asked == [Blank EXCEPT !.poll = TRUE]
<1>4. asked \in Session /\ asked.key = None /\ asked.models = {}
  BY BlankTyped DEF Blank
<1>5. Registered(a) => store' = store \/ WriteCloud(asked)
  BY DEF Registered
<1> HIDE DEF asked
<1>6. Accounts'
  BY <1>0, <1>2, <1>4, <1>5, NoLogin, WriteKeeps, StoreKeeps DEF store, Bare
<1>7. cloud'.models = cloud.models /\ cloud'.key = cloud.key
  BY <1>0, <1>1, <1>4, <1>5, SessionIsStored DEF WriteCloud, store, Accounts, Keyless, Bare, TypeOK
<1>8. Polled'
  BY <1>1, <1>2 DEF Polled
<1>9. Requested'
  <2>1. PICK c \in Calls : /\ Become(a, c) /\ c.op \in {"idle", "launch"}
                           /\ c.op = "launch" => cloud'.poll
    BY SimpleCalls DEF Registered, Idle, WriteCloud, Blank
  <2> QED BY <1>0, <1>1, <1>2, <1>3, <1>7, <2>1, TurnKeeps DEF Knows
<1>10. WillCheck'
  <2>1. \A b \in Actors : b # a => call'[b] = call[b]
    BY <1>0 DEF Registered, Become, TypeOK
  <2> QED BY <1>0, <1>2, <1>7, <2>1, TurnWaits DEF Checks, Unchecked, Offered
<1> QED BY <1>6, <1>8, <1>9, <1>10 DEF Sound

LEMMA LaunchStep ==
    ASSUME CloudConstants, Serial, IInv, NEW a \in Actors, Launch(a)
    PROVE  Sound'
<1>0. TypeOK /\ Accounts /\ Polled /\ Requested /\ WillCheck /\ call[a].op = "launch"
  BY DEF IInv, Sound, Launch
<1>1. Turn(a) /\ cloud.key = None /\ cloud.poll /\ pollingState = None
  BY <1>0, TurnOf DEF Requested, InHand, Knows
<1>2. UNCHANGED <<active, cloud, sessions, profiles, torn, default, curated, loggedOut>>
  BY DEF Launch, store, stops
<1>3. Kept /\ ~torn => active \in profiles
  BY <1>0, <1>1, TurnListed
<1>4. PICK l \in Logins : /\ login[l].phase = "unused" /\ pollingState' = l
                          /\ login' = [login EXCEPT ![l].phase = "sleeping"]
                          /\ home' = [home EXCEPT ![l] = ActiveName]
  BY DEF Launch
<1>5. \A k \in Logins : k # l => login'[k] = login[k] /\ home'[k] = home[k]
  BY <1>0, <1>4 DEF TypeOK
<1>6. home'[l] = ActiveName /\ (Kept => ActiveName = active)
  BY <1>0, <1>4, KeptAccounts, ActiveIsNamed DEF TypeOK, Owned
<1>7. Remembers
  BY <1>2, <1>4, <1>5 DEF Remembers, Done
<1>8. Accounts'
  BY <1>0, <1>2, <1>7, StoreKeeps
<1>9. Polled'
  BY <1>1, <1>2, <1>4, <1>6 DEF Polled
<1>10. Requested'
  BY <1>0, <1>1, <1>2, <1>3, SimpleCalls, TurnKeeps DEF Knows, Idle, Launch
<1>11. WillCheck'
  <2>1. \A b \in Actors : b # a => call'[b] = call[b]
    BY <1>0 DEF Launch, Become, TypeOK
  <2>2. \A k \in Logins : login[k].phase = "checking" => login'[k].phase = "checking"
    BY <1>4, <1>5
  <2> QED BY <1>0, <1>2, <2>1, <2>2, TurnWaits DEF Checks, Unchecked, Offered
<1> QED BY <1>8, <1>9, <1>10, <1>11 DEF Sound

LEMMA CheckStep ==
    ASSUME CloudConstants, Serial, IInv, NEW a \in Actors, Check(a)
    PROVE  Sound'
<1>0. TypeOK /\ Accounts /\ Polled /\ Requested /\ WillCheck /\ call[a].op = "check"
  BY DEF IInv, Sound, Check
<1>1. Turn(a)
  BY <1>0, TurnOf
<1>2. UNCHANGED <<active, cloud, sessions, profiles, torn, loggedOut, login, home, pollingState>>
  BY DEF Check, store, stops
<1>3. Kept /\ ~torn => active \in profiles
  BY <1>0, <1>1, TurnListed
<1>4. Accounts' /\ Polled'
  BY <1>0, <1>2, StoreKeeps DEF Remembers, Done, Polled
<1>5. Requested'
  <2>1. PICK c \in Calls : Become(a, c) /\ c.op \in {"idle", "connect"}
    BY SimpleCalls DEF Check, Idle
  <2> QED BY <1>0, <1>1, <1>2, <1>3, <2>1, TurnKeeps DEF Knows
<1>6. WillCheck'
  BY <1>2, Ensured DEF Check
<1> QED BY <1>4, <1>5, <1>6 DEF Sound

LEMMA StartDisconnectStep ==
    ASSUME CloudConstants, Serial, IInv, NEW a \in Actors, Turn(a),
           call[a].op = "idle", StartDisconnect(a)
    PROVE  Sound'
<1>0. TypeOK /\ Accounts /\ Polled /\ Requested /\ WillCheck
  BY DEF IInv, Sound
<1>1. Named => active \in Profiles /\ ActiveName = active
  BY <1>0, ActiveIsNamed DEF Accounts, Owned
<1>2. /\ UNCHANGED <<active, profiles, torn, home>> /\ pollingState' = None
      /\ \A l \in Logins : login'[l].phase = login[l].phase
  BY <1>0, AbortKeeps DEF StartDisconnect, WriteCloud, stops
<1>3. Kept /\ ~torn => active \in profiles
  BY <1>0, TurnListed
<1>4. Blank \in Session /\ Blank # Absent /\ Blank.key = None /\ Blank.models = {}
  BY BlankTyped, SessionIsStored DEF Blank
<1>5. /\ cloud' = Blank
      /\ \A p \in Profiles : sessions'[p] = (IF p = ActiveName THEN Blank ELSE sessions[p])
      /\ loggedOut' = loggedOut \cup ({cloud.key} \ {None})
  BY <1>0, <1>4, TypeParts, WriteTyped DEF StartDisconnect
<1>6. Keyless'
  BY <1>0, <1>4, <1>5 DEF Accounts, Keyless, Bare
<1>7. ASSUME Named PROVE Owned' /\ (AtHome => AtHome')
  <2>1. Owned
    BY <1>0, <1>7 DEF Accounts
  <2>2. \A p \in Profiles, l \in Logins : Holds(p, l)' <=> p # active /\ Holds(p, l)
    BY <1>1, <1>4, <1>5, <1>7, NoLogin DEF Holds
  <2>3. Obtained'
    BY <1>2, <1>4, <1>5, <2>1, <2>2, NoLogin DEF Owned, Obtained, Done
  <2>4. OneHolder'
    BY <1>4, <1>5, <2>1, <2>2, NoLogin DEF Owned, OneHolder
  <2>5. SignedOut'
    <3>1. loggedOut' \subseteq Logins
      BY <1>0, <1>5 DEF TypeOK, Session
    <3>2. ASSUME NEW l \in loggedOut' PROVE Blank.key # l /\ \A p \in Profiles : ~Holds(p, l)'
      <4>1. Blank.key # l
        BY <1>4, <3>1, <3>2, NoLogin
      <4>2. CASE l \in loggedOut
        BY <2>1, <2>2, <3>1, <3>2, <4>1, <4>2 DEF Owned, SignedOut
      <4>3. CASE l = cloud.key
        BY <2>1, <2>2, <3>1, <3>2, <4>1, <4>3 DEF Owned, OneHolder
      <4> QED BY <1>5, <3>2, <4>1, <4>2, <4>3
    <3> QED BY <1>5, <3>2 DEF SignedOut
  <2>6. AtHome => AtHome'
    BY <1>2, <1>4, <1>5, <2>2, NoLogin DEF AtHome, StoredAtHome, ActiveAtHome, Mirrored
  <2> QED BY <1>1, <1>2, <1>7, <2>3, <2>4, <2>5, <2>6 DEF Owned
<1>8. Accounts'
  BY <1>0, <1>6, <1>7 DEF Accounts, Kept
<1>9. Polled'
  BY <1>2 DEF Polled
<1> DEFINE c == [op |-> "strip", models |-> cloud.models, managed |-> IsManaged(default, cloud.models)]
<1>10. c \in Calls /\ c.op = "strip" /\ Become(a, c)
  BY <1>0 DEF Calls, TypeOK, Session, IsManaged, StartDisconnect
<1> HIDE DEF c
<1>11. Requested' /\ WillCheck'
  BY <1>0, <1>2, <1>3, <1>10, TurnKeeps, TurnChecks DEF Knows, Checks
<1> QED BY <1>8, <1>9, <1>11 DEF Sound

\* The request goes on to check the default model.
LEMMA ThenChecked ==
    ASSUME IInv, NEW a \in Actors, Turn(a), Checked(a), Kept /\ ~torn' => active' \in profiles'
    PROVE  Requested' /\ WillCheck'
<1>1. TypeOK
  BY DEF IInv
<1> DEFINE c == [op |-> "check", next |-> "idle"]
<1>2. c \in Calls /\ c.op = "check" /\ Become(a, c)
  BY SimpleCalls DEF Checked, Follows
<1> HIDE DEF c
<1> QED BY <1>1, <1>2, TurnKeeps, TurnChecks DEF Knows, Checks

LEMMA StripStep ==
    ASSUME CloudConstants, Serial, IInv, NEW a \in Actors, Strip(a)
    PROVE  Sound'
<1>0. TypeOK /\ Accounts /\ Polled /\ Requested /\ call[a].op = "strip"
  BY DEF IInv, Sound, Strip
<1>1. Turn(a)
  BY <1>0, TurnOf
<1>2. UNCHANGED <<active, cloud, sessions, profiles, torn, loggedOut, login, home, pollingState>>
  BY DEF Strip, store, stops, history
<1>3. Accounts' /\ Polled'
  BY <1>0, <1>2, StoreKeeps DEF Remembers, Done, Polled
<1>4. Requested' /\ WillCheck'
  BY <1>0, <1>1, <1>2, TurnListed, ThenChecked DEF Strip
<1> QED BY <1>3, <1>4 DEF Sound

LEMMA DisconnectOtherStep ==
    ASSUME CloudConstants, Serial, IInv, NEW a \in Actors, NEW q \in Profiles,
           Turn(a), call[a].op = "idle", active # q, DisconnectProfile(a, q)
    PROVE  Sound'
<1>0. TypeOK /\ Accounts /\ Polled /\ Requested
  BY DEF IInv, Sound
<1>1. /\ UNCHANGED <<active, cloud, profiles, torn, login, home, pollingState>>
      /\ IF sessions[q] = Absent
         THEN UNCHANGED <<sessions, loggedOut>>
         ELSE /\ sessions' = [sessions EXCEPT ![q] = Blank]
              /\ loggedOut' = loggedOut \cup ({sessions[q].key} \ {None})
  BY DEF DisconnectProfile, stops
<1>2. Accounts'
  <2>1. CASE sessions[q] = Absent
    BY <1>0, <1>1, <2>1, StoreKeeps DEF Remembers, Done
  <2>2. CASE sessions[q] # Absent
    <3>1. \A p \in Profiles : sessions'[p] = (IF p = q THEN Blank ELSE sessions[p])
      BY <1>0, <1>1, <2>2 DEF TypeOK
    <3>2. Blank # Absent /\ Blank.key = None /\ Blank.models = {}
      BY BlankTyped, SessionIsStored DEF Blank
    <3>3. \A p \in Profiles, l \in Logins : Holds(p, l)' <=> p # q /\ Holds(p, l)
      BY <3>1, <3>2, NoLogin DEF Holds
    <3>4. sessions[q] \in Session
      BY <1>0, <2>2 DEF TypeOK
    <3>5. Keyless'
      BY <1>0, <1>1, <3>1, <3>2 DEF Accounts, Keyless, Bare
    <3>6. ASSUME Named PROVE Owned' /\ (AtHome => AtHome')
      <4>0. Owned
        BY <1>0, <3>6 DEF Accounts
      <4>1. Obtained'
        BY <1>1, <2>2, <3>3, <4>0 DEF Owned, Obtained, Done, Holds
      <4>2. OneHolder'
        BY <1>1, <3>3, <4>0 DEF Owned, OneHolder
      <4>3. SignedOut'
        <5>1. loggedOut' \subseteq Logins
          BY <1>0, <1>1, <2>2, <3>4 DEF TypeOK, Session
        <5>2. ASSUME NEW l \in loggedOut' PROVE cloud.key # l /\ \A p \in Profiles : ~Holds(p, l)'
          <6>1. CASE l \in loggedOut
            BY <3>3, <4>0, <5>1, <5>2, <6>1 DEF Owned, SignedOut
          <6>2. CASE l = sessions[q].key
            BY <2>2, <3>3, <4>0, <5>1, <5>2, <6>2 DEF Owned, OneHolder, Holds
          <6> QED BY <1>1, <2>2, <5>2, <6>1, <6>2
        <5> QED BY <1>1, <5>2 DEF SignedOut
      <4>4. ASSUME AtHome PROVE AtHome'
        <5>1. StoredAtHome' /\ ActiveAtHome'
          BY <1>1, <3>3, <4>4 DEF AtHome, StoredAtHome, ActiveAtHome
        <5>2. Mirrored'
          BY <1>1, <3>1, <4>0, <4>4 DEF AtHome, Mirrored, Holds, Owned
        <5> QED BY <5>1, <5>2 DEF AtHome
      <4> QED BY <1>1, <4>0, <4>1, <4>2, <4>3, <4>4 DEF Owned
    <3> QED BY <1>0, <3>5, <3>6 DEF Accounts, Kept
  <2> QED BY <2>1, <2>2
<1>3. Polled'
  BY <1>0, <1>1 DEF Polled
<1>4. Requested' /\ WillCheck'
  BY <1>0, <1>1, TurnListed, ThenChecked DEF DisconnectProfile
<1> QED BY <1>2, <1>3, <1>4 DEF Sound

LEMMA StartSwitchStep ==
    ASSUME CloudConstants, Serial, IInv, NEW a \in Actors, NEW p \in Profiles,
           NEW f \in Follows, Turn(a), StartSwitch(a, p, f)
    PROVE  Sound'
<1> DEFINE s == IF sessions[p] = Absent THEN Blank ELSE sessions[p]
           c == [op |-> "switch", snap |-> s, next |-> f]
<1>0. TypeOK /\ Accounts
  BY DEF IInv, Sound
<1>1. /\ s \in Session /\ Bare(s)
      /\ \A l \in Logins : s.key = l => Holds(p, l)
      /\ s.key # None => Holds(p, s.key)
  BY <1>0, BlankTyped, NoLogin DEF TypeOK, Blank, Bare, Accounts, Keyless, Holds
<1>2. /\ cloud' = s /\ active' = p /\ p \in profiles /\ Become(a, c)
      /\ UNCHANGED <<profiles, sessions, torn, home, loggedOut>> /\ pollingState' = None
      /\ \A l \in Logins : login'[l].phase = login[l].phase
  BY <1>0, AbortKeeps DEF StartSwitch, stops, history
<1> HIDE DEF s
<1>3. c \in Calls /\ c.op = "switch" /\ c.snap = s
  BY <1>1 DEF Calls
<1> HIDE DEF c
<1>4. \A q \in Profiles, l \in Logins : Holds(q, l)' <=> Holds(q, l)
  BY <1>2 DEF Holds
<1>5. Accounts'
  <2>1. Keyless'
    BY <1>0, <1>1, <1>2 DEF Accounts, Keyless, Bare
  <2>2. Owned => Owned'
    <3>1. loggedOut \subseteq Logins
      BY <1>0 DEF TypeOK
    <3>2. Obtained => Obtained'
      BY <1>1, <1>2, <1>4 DEF Obtained, Done
    <3>3. OneHolder => OneHolder'
      BY <1>1, <1>2, <1>4 DEF OneHolder
    <3>4. SignedOut => SignedOut'
      BY <1>1, <1>2, <1>4, <3>1 DEF SignedOut
    <3> QED BY <1>2, <3>2, <3>3, <3>4 DEF Owned
  <2>3. AtHome => AtHome'
    <3>1. StoredAtHome => StoredAtHome' /\ ActiveAtHome'
      BY <1>1, <1>2, <1>4 DEF StoredAtHome, ActiveAtHome
    <3>2. Mirrored'
      BY <1>1, <1>2 DEF Mirrored, Holds
    <3> QED BY <3>1, <3>2 DEF AtHome
  <2> QED BY <1>0, <2>1, <2>2, <2>3 DEF Accounts, Kept
<1>6. Polled'
  BY <1>2 DEF Polled
<1>7. Requested' /\ WillCheck'
  BY <1>0, <1>2, <1>3, TurnKeeps, TurnChecks DEF Knows, Checks
<1> QED BY <1>5, <1>6, <1>7 DEF Sound

LEMMA SwitchedStep ==
    ASSUME CloudConstants, Serial, IInv, NEW a \in Actors, Switched(a)
    PROVE  Sound'
<1>0. TypeOK /\ Accounts /\ Polled /\ Requested /\ call[a].op = "switch" /\ call[a] \in Calls
  BY DEF IInv, Sound, Switched, TypeOK
<1>1. Turn(a) /\ call[a].snap = cloud /\ pollingState = None /\ call[a].next \in Follows
  BY <1>0, TurnOf, CallCarries DEF Requested, InHand, Knows
<1>2. PICK S \in {cloud.models} \cup SUBSET CloudModels :
         WriteCloud([poll |-> FALSE, key |-> cloud.key,
                     models |-> IF cloud.key = None THEN {} ELSE S])
  BY <1>1 DEF Switched
<1> DEFINE s == [poll |-> FALSE, key |-> cloud.key, models |-> IF cloud.key = None THEN {} ELSE S]
<1>3. s \in Session /\ Bare(s) /\ s.key = cloud.key
  BY <1>0 DEF TypeOK, Session, Bare
<1>4. WriteCloud(s)
  BY <1>2
<1> HIDE DEF s
<1>5. Remembers /\ UNCHANGED <<active, profiles, torn, home, loggedOut, login, pollingState>>
  BY <1>4 DEF Remembers, Done, WriteCloud, Switched, history, stops
<1>6. Accounts'
  <2>1. Remembers /\ login' = login /\ home' = home
    BY <1>5
  <2> QED BY <1>0, <1>3, <1>4, <2>1, ActiveMayBeWritten, WriteKeeps
<1>7. Polled'
  BY <1>1, <1>5 DEF Polled
<1>8. Requested' /\ WillCheck'
  <2>1. PICK c \in Calls : c.op = "check" /\ Become(a, c)
    BY <1>1, SimpleCalls DEF Switched
  <2> QED BY <1>0, <1>1, <1>5, <2>1, TurnListed, TurnKeeps, TurnChecks DEF Knows, Checks
<1> QED BY <1>6, <1>7, <1>8 DEF Sound

LEMMA ListStep ==
    ASSUME CloudConstants, Serial, IInv, NEW a \in Actors, Turn(a), call[a].op = "idle",
           \/ \E S \in SUBSET Profiles : Import(a, S)
           \/ \E p \in Profiles : CreateProfile(a, p) \/ StartDelete(a, p)
           \/ \E p, q \in Profiles : StartRename(a, p, q)
    PROVE  Sound'
<1>0. TypeOK /\ Accounts /\ Polled /\ Requested
  BY DEF IInv, Sound
<1>1. /\ UNCHANGED <<active, cloud, sessions, torn, loggedOut, login, home, pollingState>>
  BY DEF Import, CreateProfile, StartDelete, StartRename, stops, history
<1>2. Accounts' /\ Polled'
  BY <1>0, <1>1, StoreKeeps DEF Remembers, Done, Polled
<1>3. Kept => active \in Profiles /\ (~torn => active \in profiles)
  BY <1>0, TurnListed, KeptAccounts DEF Owned
<1>4. ASSUME NEW S \in SUBSET Profiles, Import(a, S) PROVE Requested' /\ WillCheck'
  <2> DEFINE c == [op |-> "prune", kept |-> profiles']
  <2>1. Kept => active' \in profiles'
    BY <1>1, <1>3, <1>4 DEF Import, Kept, CloudConstants
  <2>2. c \in Calls /\ Become(a, c) /\ c.op = "prune" /\ c.kept = profiles'
    BY <1>4 DEF Import, Calls, CloudConstants
  <2> HIDE DEF c
  <2> QED BY <1>0, <1>1, <2>1, <2>2, TurnKeeps, TurnChecks DEF Knows, Checks
<1>5. ASSUME NEW p \in Profiles, CreateProfile(a, p) PROVE Requested' /\ WillCheck'
  BY <1>1, <1>3, <1>5, ThenChecked DEF CreateProfile
<1>6. ASSUME NEW p \in Profiles, StartDelete(a, p) PROVE Requested' /\ WillCheck'
  <2> DEFINE c == [op |-> "delete", name |-> p]
  <2>1. c \in Calls /\ Become(a, c) /\ c.op = "delete" /\ c.name = p
    BY <1>6 DEF StartDelete, Calls
  <2>2. Kept /\ ~torn' => active' = p \/ active' \in profiles'
    BY <1>1, <1>3, <1>6 DEF StartDelete
  <2> HIDE DEF c
  <2> QED BY <1>0, <2>1, <2>2, TurnKeeps, TurnChecks DEF Knows, Checks
<1>7. ASSUME NEW p \in Profiles, NEW q \in Profiles, StartRename(a, p, q)
      PROVE  Requested' /\ WillCheck'
  <2> DEFINE c == [op |-> "rename", from |-> p, to |-> q]
  <2>1. c \in Calls /\ Become(a, c) /\ c.op = "rename" /\ c.from = p /\ c.to = q
    BY <1>7 DEF StartRename, Calls
  <2>2. /\ p # q /\ q \in profiles'
        /\ Kept /\ ~torn' => active' = p \/ (active' # q /\ active' \in profiles')
    BY <1>1, <1>3, <1>7 DEF StartRename
  <2> HIDE DEF c
  <2> QED BY <1>0, <2>1, <2>2, TurnKeeps, TurnChecks DEF Knows, Checks
<1> QED BY <1>2, <1>4, <1>5, <1>6, <1>7 DEF Sound

LEMMA PruneStep ==
    ASSUME CloudConstants, Serial, IInv, NEW a \in Actors, Prune(a)
    PROVE  Sound'
<1>0. TypeOK /\ Accounts /\ Polled /\ Requested /\ call[a].op = "prune"
  BY DEF IInv, Sound, Prune
<1> DEFINE kept == call[a].kept
<1>1. Turn(a) /\ (Kept => active \in kept /\ kept = profiles)
  BY <1>0, TurnOf DEF Requested, InHand, Knows
<1>2. /\ UNCHANGED <<profiles, cloud, torn, loggedOut, login, home, pollingState>>
      /\ active' = (IF active \in kept THEN active ELSE Default)
      /\ sessions' = [p \in Profiles |-> IF p \in kept THEN sessions[p] ELSE Absent]
  BY DEF Prune, stops, history
<1> HIDE DEF kept
<1>3. \A p \in Profiles : sessions'[p] = (IF p \in kept THEN sessions[p] ELSE Absent)
  BY <1>2
<1>4. \A p \in Profiles : \A l : Holds(p, l)' <=> p \in kept /\ Holds(p, l)
  BY <1>3 DEF Holds
<1>5. Accounts'
  <2>1. Keyless'
    BY <1>0, <1>2, <1>3 DEF Accounts, Keyless, Bare
  <2>2. ASSUME Owned PROVE Owned'
    <3>1. active' \in Profiles
      BY <1>2, <2>2 DEF Owned, CloudConstants
    <3>2. Obtained' /\ SignedOut'
      BY <1>2, <1>4, <2>2 DEF Owned, Obtained, Done, SignedOut
    <3>3. OneHolder'
      BY <1>2, <1>4, <2>2 DEF Owned, OneHolder
    <3> QED BY <3>1, <3>2, <3>3 DEF Owned
  <2>3. ASSUME Kept, Owned, AtHome PROVE AtHome'
    BY <1>1, <1>2, <1>4, <2>3 DEF AtHome, Owned, StoredAtHome, ActiveAtHome, Mirrored
  <2> QED BY <1>0, <2>1, <2>2, <2>3 DEF Accounts, Kept
<1>6. Polled'
  BY <1>0, <1>1, <1>2 DEF Polled
<1>7. Requested' /\ WillCheck'
  BY <1>1, <1>2, ThenChecked DEF Prune
<1> QED BY <1>5, <1>6, <1>7 DEF Sound

LEMMA RenameStep ==
    ASSUME CloudConstants, Serial, IInv, NEW a \in Actors, Rename(a)
    PROVE  Sound'
<1> DEFINE p == call[a].from
           q == call[a].to
<1>0. TypeOK /\ Accounts /\ Polled /\ Requested /\ call[a].op = "rename" /\ call[a] \in Calls
  BY DEF IInv, Sound, Rename, TypeOK
<1>1. /\ Turn(a) /\ p \in Profiles /\ q \in Profiles /\ p # q /\ q \in profiles
      /\ Kept /\ ~torn => active = p \/ (active # q /\ active \in profiles)
  BY <1>0, TurnOf, CallCarries DEF Requested, InHand, Knows
<1>2. /\ UNCHANGED <<profiles, cloud, torn, loggedOut, login, pollingState>>
      /\ active' = (IF active = p THEN q ELSE active)
      /\ \A l \in Logins : home'[l] = (IF home[l] = p THEN q ELSE home[l])
      /\ sessions' = IF sessions[p] = Absent THEN sessions
                     ELSE [sessions EXCEPT ![q] = sessions[p], ![p] = Absent]
  BY DEF Rename, stops
<1> HIDE DEF p, q
<1>3. /\ sessions[p] # Absent =>
           \A r \in Profiles : sessions'[r] = (IF r = p THEN Absent
                                               ELSE IF r = q THEN sessions[p] ELSE sessions[r])
      /\ sessions[p] = Absent => sessions' = sessions
  BY <1>0, <1>1, <1>2 DEF TypeOK
<1>4. \A r \in Profiles : \A l :
        Holds(r, l)' <=> /\ r # p
                         /\ IF r = q /\ sessions[p] # Absent THEN Holds(p, l) ELSE Holds(r, l)
  BY <1>1, <1>3 DEF Holds
<1>5. Accounts'
  <2>1. Keyless'
    <3>1. Bare(cloud') /\ \A r \in Profiles : Bare(sessions[r])
      BY <1>0, <1>2 DEF Accounts, Keyless
    <3>2. Bare(Absent)
      BY DEF Bare
    <3>3. \A r \in Profiles : Bare(sessions'[r])
      BY <1>1, <1>3, <3>1, <3>2
    <3> QED BY <3>1, <3>3 DEF Keyless, Bare
  <2>2. ASSUME Owned PROVE Owned'
    <3>1. active' \in Profiles
      BY <1>1, <1>2, <2>2 DEF Owned
    <3>2. Obtained'
      BY <1>1, <1>2, <1>4, <2>2 DEF Owned, Obtained, Done
    <3>3. OneHolder'
      BY <1>1, <1>2, <1>4, <2>2 DEF Owned, OneHolder
    <3>4. SignedOut'
      BY <1>1, <1>2, <1>4, <2>2 DEF Owned, SignedOut
    <3> QED BY <3>1, <3>2, <3>3, <3>4 DEF Owned
  <2>3. ASSUME Kept, Owned, AtHome PROVE AtHome'
    <3>1. StoredAtHome' /\ ActiveAtHome'
      BY <1>1, <1>2, <1>4, <2>3 DEF AtHome, StoredAtHome, ActiveAtHome
    <3>2. Holds(p, cloud.key) => sessions[p] # Absent
      BY DEF Holds
    <3>3. Mirrored'
      BY <1>1, <1>2, <1>4, <2>3, <3>2 DEF AtHome, Owned, Mirrored
    <3> QED BY <3>1, <3>3 DEF AtHome
  <2> QED BY <1>0, <2>1, <2>2, <2>3 DEF Accounts, Kept
<1>6. Polled'
  BY <1>0, <1>2 DEF Polled, TypeOK
<1>7. Requested' /\ WillCheck'
  BY <1>1, <1>2, ThenChecked DEF Rename
<1> QED BY <1>5, <1>6, <1>7 DEF Sound

LEMMA DeleteStep ==
    ASSUME CloudConstants, Serial, IInv, NEW a \in Actors, Delete(a)
    PROVE  Sound'
<1> DEFINE q == call[a].name
<1>0. TypeOK /\ Accounts /\ Polled /\ Requested /\ call[a].op = "delete" /\ call[a] \in Calls
  BY DEF IInv, Sound, Delete, TypeOK
<1>1. Turn(a) /\ q \in Profiles /\ (Kept /\ ~torn => active = q \/ active \in profiles)
  BY <1>0, TurnOf, CallCarries DEF Requested, InHand, Knows
<1>2. /\ UNCHANGED <<profiles, torn, loggedOut, home>> /\ pollingState' = None
      /\ \A l \in Logins : login'[l].phase = login[l].phase
      /\ active' = (IF active = q THEN Default ELSE active)
      /\ cloud' = (IF active = q THEN Blank ELSE cloud)
      /\ \A r \in Profiles : sessions'[r] = (IF r = q THEN Absent ELSE sessions[r])
  BY <1>0, AbortKeeps DEF Delete, stops, history, TypeOK
<1> HIDE DEF q
<1>3. Blank.key = None /\ Blank.models = {}
  BY DEF Blank
<1>4. \A r \in Profiles : \A l : Holds(r, l)' <=> r # q /\ Holds(r, l)
  BY <1>2 DEF Holds
<1>5. Accounts'
  <2>1. Keyless'
    BY <1>0, <1>2, <1>3 DEF Accounts, Keyless, Bare
  <2>2. ASSUME Owned PROVE Owned'
    <3>1. active' \in Profiles /\ loggedOut \subseteq Logins
      BY <1>0, <1>2, <2>2 DEF Owned, CloudConstants, TypeOK
    <3>2. Obtained'
      BY <1>2, <1>3, <1>4, <2>2, NoLogin DEF Owned, Obtained, Done
    <3>3. OneHolder'
      BY <1>2, <1>3, <1>4, <2>2, NoLogin DEF Owned, OneHolder
    <3>4. SignedOut'
      BY <1>2, <1>3, <1>4, <2>2, <3>1, NoLogin DEF Owned, SignedOut
    <3> QED BY <3>1, <3>2, <3>3, <3>4 DEF Owned
  <2>3. ASSUME Owned, AtHome PROVE AtHome'
    <3>1. StoredAtHome' /\ ActiveAtHome'
      BY <1>2, <1>3, <1>4, <2>3, NoLogin DEF AtHome, StoredAtHome, ActiveAtHome
    <3>2. Mirrored'
      <4>1. CASE active = q
        BY <1>2, <1>3, <4>1 DEF Mirrored
      <4>2. CASE active # q
        BY <1>2, <1>4, <2>3, <4>2 DEF Owned, AtHome, Mirrored
      <4> QED BY <4>1, <4>2
    <3> QED BY <3>1, <3>2 DEF AtHome
  <2> QED BY <1>0, <2>1, <2>2, <2>3 DEF Accounts, Kept
<1>6. Polled'
  BY <1>2 DEF Polled
<1>7. Requested' /\ WillCheck'
  <2>1. Default \in profiles
    BY <1>0 DEF TypeOK
  <2> QED BY <1>1, <1>2, <2>1, ThenChecked DEF Delete
<1> QED BY <1>5, <1>6, <1>7 DEF Sound

LEMMA RefreshStep ==
    ASSUME CloudConstants, Serial, IInv, NEW a \in Actors, Turn(a), call[a].op = "idle",
           Refresh(a)
    PROVE  Sound'
<1>0. TypeOK /\ Accounts /\ Polled /\ Requested /\ WillCheck
  BY DEF IInv, Sound
<1>1. /\ UNCHANGED <<active, cloud, sessions, profiles, torn, loggedOut, login, home,
                     pollingState, default, curated>>
      /\ cloud.key # None
  BY DEF Refresh, store, stops, history
<1>2. Accounts' /\ Polled'
  BY <1>0, <1>1, StoreKeeps DEF Remembers, Done, Polled
<1> DEFINE c == [op |-> "refresh", snap |-> cloud, check |-> a # Tick]
<1>3. c \in Calls /\ Become(a, c) /\ c.op = "refresh" /\ c.snap = cloud
  BY <1>0 DEF Refresh, Calls, TypeOK
<1> HIDE DEF c
<1>4. Requested'
  BY <1>0, <1>1, <1>3, TurnListed, TurnKeeps DEF Knows
<1>5. WillCheck'
  <2>1. \A b \in Actors : b # a => call'[b] = call[b]
    BY <1>0, <1>3 DEF Become, TypeOK
  <2> QED BY <1>0, <1>1, <2>1, TurnWaits DEF Checks, Unchecked, Offered
<1> QED BY <1>2, <1>4, <1>5 DEF Sound

LEMMA RefreshUserStep ==
    ASSUME CloudConstants, Serial, IInv, NEW a \in Actors, RefreshUser(a)
    PROVE  Sound'
<1>0. TypeOK /\ Accounts /\ Polled /\ Requested /\ WillCheck /\ call[a].op = "refresh"
  BY DEF IInv, Sound, RefreshUser
<1>1. WriteCloud(cloud) /\ cloud' = cloud /\ active' = active /\ profiles' = profiles
  BY <1>0 DEF RefreshUser, Requested, InHand, Knows, WriteCloud
<1>2. Remembers /\ UNCHANGED <<torn, home, login, pollingState, default, curated, call>>
  BY DEF RefreshUser, Remembers, Done, stops, history
<1>3. Accounts'
  <2>1. cloud \in Session /\ Bare(cloud)
    BY <1>0 DEF TypeOK, Accounts, Keyless
  <2> QED BY <1>0, <1>1, <1>2, <2>1, ActiveMayBeWritten, WriteKeeps
<1>4. Polled' /\ Requested'
  BY <1>0, <1>1, <1>2, CallKeeps DEF Polled
<1>5. WillCheck'
  BY <1>0, <1>1, <1>2 DEF WillCheck, Pending, Unchecked, Offered
<1> QED BY <1>3, <1>4, <1>5 DEF Sound

LEMMA RefreshedStep ==
    ASSUME CloudConstants, Serial, IInv, NEW a \in Actors, Refreshed(a)
    PROVE  Sound'
<1>0. TypeOK /\ Accounts /\ Polled /\ Requested /\ WillCheck /\ call[a].op = "refresh"
  BY DEF IInv, Sound, Refreshed
<1>1. Turn(a) /\ call[a].snap = cloud /\ cloud.key # None
  BY <1>0, TurnOf DEF Requested, InHand, Knows
<1>2. /\ Remembers /\ UNCHANGED <<active, profiles, torn, home, login, pollingState, default, curated>>
  BY DEF Refreshed, Remembers, Done, stops, history, store, WriteCloud
<1>3. ASSUME NEW S \in SUBSET CloudModels, WriteCloud([cloud EXCEPT !.models = S])
      PROVE  Accounts' /\ cloud'.key = cloud.key
  <2> DEFINE s == [cloud EXCEPT !.models = S]
  <2>1. s \in Session /\ s.key = cloud.key
    BY <1>0 DEF TypeOK, Session
  <2>2. WriteCloud(s)
    BY <1>3
  <2> HIDE DEF s
  <2>3. Accounts'
    BY <1>0, <1>1, <1>2, <2>1, <2>2, ActiveMayBeWritten, WriteKeeps DEF Bare
  <2> QED BY <2>1, <2>2, <2>3 DEF WriteCloud
<1>4. Accounts' /\ cloud'.key = cloud.key
  BY <1>0, <1>1, <1>2, <1>3, StoreKeeps DEF Refreshed, store
<1>5. Polled'
  BY <1>0, <1>1, <1>2 DEF Polled
<1>6. Requested' /\ WillCheck'
  <2>1. Kept /\ ~torn' => active' \in profiles'
    BY <1>0, <1>1, <1>2, TurnListed
  <2>2. CASE Checked(a)
    BY <1>1, <2>1, <2>2, ThenChecked
  <2>3. CASE ~Checked(a)
    <3>1. /\ Become(a, Idle) /\ Idle.op = "idle" /\ cloud'.models = cloud.models /\ ~call[a].check
      BY <1>1, <2>3 DEF Refreshed, Idle
    <3>2. Requested'
      BY <1>0, <1>1, <2>1, <3>1, SimpleCalls, TurnKeeps DEF Knows
    <3>3. \A b \in Actors : b # a => call'[b] = call[b]
      BY <1>0, <3>1 DEF Become, TypeOK
    <3>4. WillCheck'
      BY <1>0, <1>2, <3>1, <3>3, TurnWaits DEF Checks, Unchecked, Offered
    <3> QED BY <3>2, <3>4
  <2> QED BY <2>2, <2>3
<1> QED BY <1>4, <1>5, <1>6 DEF Sound

LEMMA SetModelsStep ==
    ASSUME CloudConstants, Serial, IInv, NEW a \in Actors, NEW S \in SUBSET CloudModels,
           \A b \in Actors : call[b].op = "idle", SetModels(a, S)
    PROVE  Sound'
<1>0. TypeOK /\ Accounts /\ Polled /\ Requested /\ WillCheck
  BY DEF IInv, Sound
<1>1. /\ UNCHANGED <<active, sessions, profiles, torn, loggedOut, login, home, pollingState,
                     default, call>>
      /\ cloud'.key = cloud.key /\ cloud'.poll = cloud.poll
      /\ cloud'.models = cloud.models \cap S
      /\ curated' = (curated \/ default \in cloud.models \ S)
  BY <1>0 DEF SetModels, stops, TypeOK, Session
<1>2. \A p \in Profiles : \A l : Holds(p, l)' <=> Holds(p, l)
  BY <1>1 DEF Holds
<1>3. Accounts'
  <2>1. Keyless'
    BY <1>0, <1>1, SessionIsStored DEF Accounts, Keyless, Bare, TypeOK
  <2>2. Owned => Owned'
    BY <1>1, <1>2 DEF Owned, Obtained, Done, OneHolder, SignedOut
  <2>3. Owned /\ AtHome => AtHome'
    BY <1>1, <1>2 DEF Owned, AtHome, StoredAtHome, ActiveAtHome, Mirrored
  <2> QED BY <1>0, <2>1, <2>2, <2>3 DEF Accounts, Kept
<1>4. Polled'
  BY <1>0, <1>1 DEF Polled
<1>5. Requested'
  BY <1>0, <1>1 DEF Requested, Single, InHand, Knows, Listed
<1>6. WillCheck'
  BY <1>0, <1>1 DEF WillCheck, Pending, Unchecked, Offered
<1> QED BY <1>3, <1>4, <1>5, <1>6 DEF Sound

LEMMA SetDefaultStep ==
    ASSUME CloudConstants, Serial, IInv, NEW a \in Actors, NEW m \in Offered,
           SetDefaultModel(a, m)
    PROVE  Sound'
<1>0. TypeOK /\ Accounts /\ Polled /\ Requested
  BY DEF IInv, Sound
<1>1. /\ UNCHANGED <<active, cloud, sessions, profiles, torn, loggedOut, login, home,
                     pollingState, call, curated>>
      /\ default' = m
  BY DEF SetDefaultModel, store, stops, history
<1>2. Accounts' /\ Polled'
  BY <1>0, <1>1, StoreKeeps DEF Remembers, Done, Polled
<1>3. Requested'
  BY <1>0, <1>1, CallKeeps
<1>4. WillCheck'
  BY <1>1 DEF WillCheck, Unchecked, Offered
<1> QED BY <1>2, <1>3, <1>4 DEF Sound

(***************************************************************************)
(* The login loops, which run beside any request.                          *)
(***************************************************************************)

\* While a login is polled no call holds on to the state it writes.
LEMMA PolledMeansFree ==
    ASSUME IInv, pollingState # None, NEW a \in Actors
    PROVE  call[a].op \notin {"register", "launch", "switch", "refresh"}
BY DEF IInv, Sound, Requested, InHand, Knows, Polled

LEMMA FinishStep ==
    ASSUME CloudConstants, Serial, IInv, NEW l \in Logins, NEW s \in Session,
           NEW next \in LoginState, FinishLogin(l, s, next), LoopUnchanged,
           login[l].phase # "checking", Done(l) => next.phase = "ended",
           \/ s = Blank
           \/ /\ s.key = l /\ next.phase = "checking" /\ login[l].phase = "fetching"
    PROVE  Sound'
<1>0. TypeOK /\ Accounts /\ Polled /\ Requested /\ WillCheck /\ LoopsTyped
  BY TypeParts DEF IInv, Sound
<1>1. UNCHANGED <<torn, home, loggedOut, default, curated, call>>
  BY DEF LoopUnchanged, stops, history
<1>2. Over.phase = "ended"
  BY DEF Over
<1>3. CASE ~IsCurrentPollingSignal(l)
  <2>1. UNCHANGED <<active, cloud, sessions, profiles, pollingState>>
        /\ login' = [login EXCEPT ![l] = Over]
    BY <1>3 DEF FinishLogin, store
  <2>2. \A k \in Logins : /\ k # l => login'[k] = login[k]
                          /\ login'[l].phase = "ended"
    BY <1>0, <1>2, <2>1 DEF LoopsTyped
  <2>3. Accounts'
    BY <1>0, <1>1, <2>1, <2>2, StoreKeeps DEF Remembers, Done
  <2>4. Polled' /\ Requested'
    BY <1>0, <1>1, <2>1, CallKeeps DEF Polled
  <2>5. WillCheck'
    BY <1>0, <1>1, <2>1, <2>2 DEF WillCheck, Pending, Unchecked, Offered
  <2> QED BY <2>3, <2>4, <2>5 DEF Sound
<1>4. CASE IsCurrentPollingSignal(l)
  <2>1. /\ pollingState = l /\ pollingState' = None /\ WriteCloud(s)
        /\ login' = [login EXCEPT ![l] = next]
    BY <1>4 DEF FinishLogin, IsCurrentPollingSignal
  <2>2. \A k \in Logins : /\ k # l => login'[k] = login[k]
                          /\ login'[l] = next
    BY <1>0, <2>1 DEF LoopsTyped
  <2>3. pollingState # None /\ cloud.key = None /\ (Kept => home[l] = active)
    BY <1>0, <2>1, NoLogin DEF Polled
  <2>4. /\ cloud.models = {} /\ active' = active /\ profiles' = profiles /\ cloud' = s
    BY <1>0, <2>1, <2>3, SessionIsStored DEF Accounts, Keyless, Bare, WriteCloud, TypeOK
  <2>5. Remembers
    BY <1>1, <2>2 DEF Remembers, Done
  <2>6. Blank.key = None /\ Blank.models = {}
    BY DEF Blank
  <2>7. Accounts'
    <3>1. Bare(s)
      BY <2>6, NoLogin DEF Bare
    <3>2. ASSUME NEW k \in Logins, s.key = k
          PROVE  /\ Named => /\ k \notin loggedOut /\ Done(k)'
                             /\ \A p \in Profiles : Holds(p, k) => p = active
                 /\ Kept => home'[k] = active
      <4>1. k = l /\ next.phase = "checking" /\ login[l].phase = "fetching"
        BY <2>6, <3>2, NoLogin
      <4>2. Named => l \notin loggedOut /\ \A p \in Profiles : ~Holds(p, l)
        BY <1>0, <4>1 DEF Accounts, Owned, Obtained, Done
      <4> QED BY <1>1, <2>2, <2>3, <4>1, <4>2 DEF Done
    <3> QED BY <1>0, <2>1, <2>5, <3>1, <3>2, WriteKeeps
  <2>8. Polled'
    BY <2>1 DEF Polled
  <2>9. Requested'
    BY <1>0, <1>1, <2>3, <2>4, PolledMeansFree DEF Requested, Single, InHand, Knows, Listed
  <2>10. WillCheck'
    <3>1. CASE s = Blank
      BY <1>0, <1>1, <2>2, <2>4, <2>6, <3>1 DEF WillCheck, Pending, Unchecked, Offered
    <3>2. CASE next.phase = "checking"
      BY <2>2, <3>2 DEF WillCheck, Pending
    <3> QED BY <3>1, <3>2
  <2> QED BY <2>7, <2>8, <2>9, <2>10 DEF Sound
<1> QED BY <1>3, <1>4

\* A step of the loop that writes nothing.
LEMMA QuietLoopStep ==
    ASSUME CloudConstants, IInv, UNCHANGED <<store, pollingState>>, LoopUnchanged,
           \A k \in Logins : login[k].phase \in {"checking", "ended"} =>
                               login'[k].phase = login[k].phase
    PROVE  Sound'
<1>1. TypeOK /\ Accounts /\ Polled /\ Requested /\ WillCheck
  BY DEF IInv, Sound
<1>2. Accounts' /\ Polled' /\ Requested'
  BY <1>1, StoreKeeps, CallKeeps DEF Remembers, Done, Polled, LoopUnchanged, store, stops, history
<1>3. WillCheck'
  BY <1>1 DEF WillCheck, Pending, Unchecked, Offered, LoopUnchanged, store, history
<1> QED BY <1>2, <1>3 DEF Sound

LEMMA LoopStep ==
    ASSUME CloudConstants, Serial, IInv, NEW l \in Logins, Loop(l)
    PROVE  Sound'
<1>0. TypeOK /\ LoopsTyped /\ Accounts /\ Polled /\ Requested /\ login[l] \in LoginState
  BY TypeParts DEF IInv, Sound, LoopsTyped
<1>1. Over \in LoginState /\ Over.phase = "ended" /\ Blank \in Session
  BY OverTyped, BlankTyped DEF Over
<1>2. \A k \in Logins : k # l => \A r : [login EXCEPT ![l] = r][k] = login[k]
  BY <1>0 DEF LoopsTyped
<1>3. CASE Wake(l)
  <2>1. login[l].phase = "sleeping" /\ LoopUnchanged
    BY <1>3 DEF Wake
  <2>2. CASE FinishLogin(l, Blank, Over)
    BY <1>1, <2>1, <2>2, FinishStep DEF Done
  <2>3. CASE ~FinishLogin(l, Blank, Over)
    BY <1>0, <1>3, <2>1, <2>3, QuietLoopStep DEF Wake, LoopsTyped
  <2> QED BY <2>2, <2>3
<1>4. CASE Answer(l)
  <2>1. login[l].phase = "asking" /\ LoopUnchanged
    BY <1>4 DEF Answer
  <2>2. CASE FinishLogin(l, Blank, Over)
    BY <1>1, <2>1, <2>2, FinishStep DEF Done
  <2>3. CASE ~FinishLogin(l, Blank, Over)
    BY <1>0, <1>4, <2>1, <2>3, QuietLoopStep DEF Answer, LoopsTyped
  <2> QED BY <2>2, <2>3
<1>5. CASE StoreCredentials(l)
  <2> DEFINE s == [poll |-> FALSE, key |-> l, models |-> login[l].got]
             n == [Over EXCEPT !.phase = "checking"]
  <2>1. /\ login[l].phase = "fetching" /\ LoopUnchanged /\ FinishLogin(l, s, n)
        /\ s \in Session /\ s.key = l /\ n \in LoginState /\ n.phase = "checking"
    BY <1>0, <1>5, OverTyped DEF StoreCredentials, Session, LoginState, Over
  <2> HIDE DEF s, n
  <2> QED BY <2>1, FinishStep DEF Done
<1>6. CASE LoginChecked(l)
  <2>1. /\ UNCHANGED <<active, cloud, sessions, profiles, torn, loggedOut, home, pollingState, call>>
        /\ login' = [login EXCEPT ![l] = Over] /\ EnsureValidDefaultModel
    BY <1>6 DEF LoginChecked, store, stops
  <2>2. Remembers
    BY <1>0, <1>1, <2>1 DEF Remembers, Done, LoopsTyped
  <2> QED BY <1>0, <2>1, <2>2, StoreKeeps, CallKeeps, Ensured DEF Polled, Sound
<1> QED BY <1>3, <1>4, <1>5, <1>6 DEF Loop

LEMMA RestartStep ==
    ASSUME CloudConstants, Serial, IInv, Restart
    PROVE  Sound'
<1>0. TypeOK /\ Accounts /\ LoopsTyped
  BY TypeParts DEF IInv, Sound
<1>1. /\ UNCHANGED <<profiles, active, cloud, sessions, default, home, loggedOut, curated>>
      /\ pollingState' = None /\ (Kept /\ ~torn' => ~torn /\ active \in profiles)
  BY <1>0, KeptAccounts, ActiveIsNamed DEF Restart, store, history, Owned
<1>2. \A l \in Logins : Done(l) => Done(l)'
  BY <1>0 DEF Restart, Done, Over, LoopsTyped
<1>3. Accounts'
  <2>1. \A p \in Profiles : \A l : Holds(p, l)' <=> Holds(p, l)
    BY <1>1 DEF Holds
  <2>2. Keyless'
    BY <1>0, <1>1 DEF Accounts, Keyless, Bare
  <2>3. Owned => Owned'
    BY <1>1, <1>2, <2>1 DEF Owned, Obtained, OneHolder, SignedOut
  <2>4. Kept /\ Owned /\ AtHome => AtHome'
    BY <1>1, <2>1 DEF Owned, AtHome, StoredAtHome, ActiveAtHome, Mirrored
  <2> QED BY <1>0, <2>2, <2>3, <2>4 DEF Accounts, Kept
<1>4. Polled'
  BY <1>1 DEF Polled
<1> DEFINE r == [op |-> "refresh", snap |-> cloud, check |-> TRUE]
           k == [op |-> "check", next |-> "idle"]
<1>5. /\ \A a \in Actors : a # Tick => call'[a] = Idle
      /\ \/ call'[Tick] = r /\ cloud.key # None
         \/ call'[Tick] = k
      /\ Tick \in Actors
  BY DEF Restart, Actors
<1>6. /\ Idle.op = "idle" /\ r.op = "refresh" /\ r.snap = cloud /\ r.check /\ k.op = "check"
  BY DEF Idle
<1> HIDE DEF r, k
<1>7. Single'
  BY <1>5, <1>6 DEF Single
<1>8. InHand'
  BY <1>1, <1>5, <1>6 DEF InHand, Knows
<1>9. Listed'
  BY <1>1 DEF Listed
<1>10. WillCheck'
  BY <1>5, <1>6 DEF WillCheck, Pending, Checks
<1> QED BY <1>3, <1>4, <1>7, <1>8, <1>9, <1>10 DEF Sound, Requested

(***************************************************************************)
(* CloudSession: the theorems.                                             *)
(***************************************************************************)
LEMMA Initially ==
    ASSUME CloudConstants, Serial, Init
    PROVE  Sound
<1>1. /\ Named => active = Default
      /\ Default \in Profiles /\ Default \in profiles
      /\ cloud.key = None /\ cloud.models = {} /\ cloud # Absent
      /\ \A p \in Profiles : sessions[p] = Absent
      /\ pollingState = None /\ loggedOut = {} /\ torn = FALSE
  BY BlankTyped, SessionIsStored DEF Init, CloudConstants, Blank
<1>2. \A p \in Profiles : \A l : ~Holds(p, l)
  BY <1>1 DEF Holds
<1>3. Accounts
  <2>1. Keyless
    BY <1>1 DEF Keyless, Bare
  <2>2. Named => Owned
    BY <1>1, <1>2, NoLogin DEF Owned, Obtained, OneHolder, SignedOut
  <2>3. AtHome
    BY <1>1, <1>2, NoLogin DEF AtHome, StoredAtHome, ActiveAtHome, Mirrored
  <2> QED BY <2>1, <2>2, <2>3 DEF Accounts
<1> DEFINE k == [op |-> "check", next |-> "idle"]
<1>4. /\ \A a \in Actors : call[a] = (IF a = Tick THEN k ELSE Idle)
      /\ k.op = "check" /\ Idle.op = "idle" /\ Tick \in Actors
  BY DEF Init, Idle, Actors
<1> HIDE DEF k
<1>5. Requested
  BY <1>1, <1>4 DEF Requested, Single, InHand, Knows, Listed, Kept
<1>6. Polled /\ WillCheck
  BY <1>1, <1>4 DEF Polled, WillCheck, Pending, Checks
<1> QED BY <1>3, <1>5, <1>6 DEF Sound

LEMMA RequestStep ==
    ASSUME CloudConstants, Serial, IInv, NEW a \in Actors, Request(a)
    PROVE  Sound'
<1>0. TypeOK /\ Requested
  BY DEF IInv, Sound
<1>1. CASE Connect(a)
  <2>1. Turn(a) /\ call[a].op \in {"idle", "connect"}
    BY <1>0, <1>1, TurnOf DEF Connect
  <2> QED BY <1>1, <2>1, StartConnectStep DEF Connect
<1>2. CASE ~Connect(a)
  <2>1. Free(a)
    BY <1>1, <1>2 DEF Request, Disconnect, Refresh, DisconnectProfile, Switch, ConnectProfile,
                      CreateProfile, StartDelete, StartRename, Import, SetModels, SetDefaultModel
  <2>2. Turn(a) /\ call[a].op = "idle" /\ \A b \in Actors : call[b].op = "idle"
    BY <1>0, <2>1, TurnOf DEF Turn
  <2>3. CASE Disconnect(a)
    BY <2>2, <2>3, StartDisconnectStep DEF Disconnect
  <2>4. CASE Refresh(a)
    BY <2>2, <2>4, RefreshStep
  <2>5. ASSUME NEW p \in Profiles, DisconnectProfile(a, p) PROVE Sound'
    BY <2>2, <2>5, StartDisconnectStep, DisconnectOtherStep DEF DisconnectProfile
  <2>6. ASSUME NEW p \in Profiles, Switch(a, p) \/ ConnectProfile(a, p) PROVE Sound'
    <3>1. CASE \E f \in Follows : StartSwitch(a, p, f)
      BY <2>2, <3>1, StartSwitchStep
    <3>2. CASE StartConnect(a)
      BY <2>2, <3>2, StartConnectStep
    <3>3. CASE /\ Become(a, Idle)
               /\ UNCHANGED <<store, default, pollingState, login, stops, history>>
      <4>1. UNCHANGED call
        BY <1>0, <2>1, <3>3 DEF Become, Free, TypeOK
      <4>2. UNCHANGED vars
        BY <3>3, <4>1 DEF vars
      <4> QED BY <4>2, Unchanged
    <3> QED BY <2>6, <3>1, <3>2, <3>3 DEF Switch, ConnectProfile, Follows
  <2>7. CASE \/ \E S \in SUBSET Profiles : Import(a, S)
             \/ \E p \in Profiles : CreateProfile(a, p) \/ StartDelete(a, p)
             \/ \E p, q \in Profiles : StartRename(a, p, q)
    BY <2>2, <2>7, ListStep
  <2>8. ASSUME NEW S \in SUBSET CloudModels, SetModels(a, S) PROVE Sound'
    BY <2>2, <2>8, SetModelsStep
  <2>9. ASSUME NEW m \in Offered, SetDefaultModel(a, m) PROVE Sound'
    BY <2>9, SetDefaultStep
  <2> QED BY <1>2, <2>3, <2>4, <2>5, <2>6, <2>7, <2>8, <2>9 DEF Request
<1> QED BY <1>1, <1>2

LEMMA ContinueStep ==
    ASSUME CloudConstants, Serial, IInv, NEW a \in Actors, Continue(a) \/ RefreshUser(a)
    PROVE  Sound'
<1>1. CASE call[a].op = "connect" /\ Connect(a)
  <2>1. Turn(a)
    BY <1>1, TurnOf DEF IInv, Sound
  <2> QED BY <1>1, <2>1, StartConnectStep DEF Connect
<1>2. CASE ~(call[a].op = "connect" /\ Connect(a))
  BY <1>2, CheckStep, AbortEarlierStep, RegisteredStep, LaunchStep, StripStep, SwitchedStep, PruneStep, RenameStep,
     DeleteStep, RefreshedStep, RefreshUserStep DEF Continue
<1> QED BY <1>1, <1>2

\* Who has a default of the cloud: steps that keep it, or will have it checked.
LEMMA GroundChecks ==
    ASSUME TypeOK, NEW a \in Actors, NEW c \in Calls, Become(a, c), Checks(c)
    PROVE  Grounded'
<1>1. call'[a] = c
  BY BecomeTyped, TypeParts
<1> QED BY <1>1 DEF Grounded, Checks

LEMMA GroundChecked == ASSUME TypeOK, NEW a \in Actors, Checked(a) PROVE Grounded'
<1>1. [op |-> "check", next |-> "idle"] \in Calls
  BY SimpleCalls DEF Follows
<1> QED BY <1>1, GroundChecks DEF Checked, Checks

\* Beside a call that is none of those that check, nobody checks.
LEMMA GroundTurn ==
    ASSUME TypeOK, Grounded, NEW a \in Actors, Turn(a), ~Checks(call[a]), NEW c \in Calls,
           Become(a, c), c.op = "abort" => cloud'.key = None,
           default' = default, cloud.key # None => cloud'.key # None \/ Own = {} \/ default \in Own
    PROVE  Grounded'
<1>1. call'[a] = c /\ \A b \in Actors : b # a => call'[b] = call[b] /\ call[b].op = "idle"
  BY BecomeTyped, TypeParts DEF Turn
<1>2. ~\E b \in Actors : Checks(call[b])
  BY <1>1 DEF Checks
<1> QED BY <1>1, <1>2 DEF Grounded

LEMMA GroundConnect ==
    ASSUME TypeOK, Grounded, NEW a \in Actors, Turn(a), call[a].op \in {"idle", "connect"},
           StartConnect(a)
    PROVE  Grounded'
<1> DEFINE c == IF cloud.key # None THEN Idle ELSE [op |-> "abort", poll |-> cloud.poll]
<1>1. c \in Calls /\ Become(a, c) /\ (c.op = "abort" => cloud.key = None)
  BY SimpleCalls DEF StartConnect, Idle, TypeOK, Session
<1>2. default' = default /\ cloud' = cloud
  BY DEF StartConnect, store
<1> HIDE DEF c
<1> QED BY <1>1, <1>2, GroundTurn DEF Checks

LEMMA GroundRequest ==
    ASSUME CloudConstants, Serial, IInv, NEW a \in Actors, Request(a)
    PROVE  Grounded'
<1>0. TypeOK /\ Accounts /\ Requested /\ Grounded
  BY DEF IInv, Sound
<1>1. CASE Connect(a)
  <2>1. Turn(a) /\ call[a].op \in {"idle", "connect"}
    BY <1>0, <1>1, TurnOf DEF Connect
  <2> QED BY <1>0, <1>1, <2>1, GroundConnect DEF Connect
<1>2. CASE ~Connect(a)
  <2>1. Free(a)
    BY <1>1, <1>2 DEF Request, Disconnect, Refresh, DisconnectProfile, Switch, ConnectProfile,
                      CreateProfile, StartDelete, StartRename, Import, SetModels, SetDefaultModel
  <2>2. Turn(a) /\ call[a].op = "idle" /\ \A b \in Actors : call[b].op = "idle"
    BY <1>0, <2>1, TurnOf DEF Turn
  <2>3. ASSUME StartDisconnect(a) PROVE Grounded'
    <3> DEFINE c == [op |-> "strip", models |-> cloud.models,
                     managed |-> IsManaged(default, cloud.models)]
    <3>1. c \in Calls /\ Become(a, c) /\ Checks(c)
      BY <1>0, <2>3 DEF StartDisconnect, Calls, TypeOK, Session, IsManaged, Checks
    <3> HIDE DEF c
    <3> QED BY <1>0, <3>1, GroundChecks
  <2>4. ASSUME NEW p \in Profiles, NEW f \in Follows, StartSwitch(a, p, f) PROVE Grounded'
    <3> DEFINE c == [op |-> "switch", next |-> f,
                     snap |-> IF sessions[p] = Absent THEN Blank ELSE sessions[p]]
    <3>1. c \in Calls /\ Become(a, c) /\ Checks(c)
      BY <1>0, <2>4, BlankTyped DEF StartSwitch, Calls, TypeOK, Checks
    <3> HIDE DEF c
    <3> QED BY <1>0, <3>1, GroundChecks
  <2>5. CASE Refresh(a)
    <3> DEFINE c == [op |-> "refresh", snap |-> cloud, check |-> a # Tick]
    <3>1. /\ c \in Calls /\ Become(a, c) /\ c.op # "abort"
          /\ cloud' = cloud /\ default' = default
      BY <1>0, <2>5 DEF Refresh, Calls, TypeOK, store
    <3> HIDE DEF c
    <3> QED BY <1>0, <2>2, <3>1, GroundTurn DEF Checks
  <2>6. ASSUME NEW p \in Profiles, DisconnectProfile(a, p) PROVE Grounded'
    BY <1>0, <2>3, <2>6, GroundChecked DEF DisconnectProfile
  <2>7. ASSUME NEW p \in Profiles, Switch(a, p) \/ ConnectProfile(a, p) PROVE Grounded'
    <3>1. CASE StartConnect(a)
      BY <1>0, <2>2, <3>1, GroundConnect
    <3>2. CASE Become(a, Idle) /\ UNCHANGED <<store, default, pollingState, login, stops, history>>
      <4>1. Idle \in Calls /\ Idle.op # "abort" /\ cloud' = cloud /\ default' = default
        BY <3>2, SimpleCalls DEF Idle, store
      <4> QED BY <1>0, <2>2, <3>2, <4>1, GroundTurn DEF Checks
    <3> QED BY <2>4, <2>7, <3>1, <3>2 DEF Switch, ConnectProfile, Follows
  <2>8. CASE \/ \E S \in SUBSET Profiles : Import(a, S)
             \/ \E p \in Profiles : CreateProfile(a, p) \/ StartDelete(a, p)
             \/ \E p, q \in Profiles : StartRename(a, p, q)
    <3>1. /\ \A K \in SUBSET Profiles : [op |-> "prune", kept |-> K] \in Calls
          /\ \A p, q \in Profiles : /\ [op |-> "rename", from |-> p, to |-> q] \in Calls
                                    /\ [op |-> "delete", name |-> p] \in Calls
      BY DEF Calls
    <3>2. profiles' \in SUBSET Profiles
      BY <1>0, <2>8, ListTyped DEF TypeOK
    <3> QED BY <1>0, <2>8, <3>1, <3>2, GroundChecks, GroundChecked
            DEF Import, CreateProfile, StartDelete, StartRename, Checks
  <2>9. ASSUME NEW S \in SUBSET CloudModels, SetModels(a, S) PROVE Grounded'
    BY <1>0, <2>9 DEF SetModels, Grounded, TypeOK, Session
  <2>10. ASSUME NEW m \in Offered, SetDefaultModel(a, m) PROVE Grounded'
    <3>1. m \in cloud.models => cloud.key # None
      BY <1>0, SessionIsStored DEF Accounts, Keyless, Bare, TypeOK
    <3> QED BY <2>2, <2>10, <3>1 DEF SetDefaultModel, Offered, Grounded, store
  <2> QED BY <1>2, <2>3, <2>5, <2>6, <2>7, <2>8, <2>9, <2>10 DEF Request, Disconnect
<1> QED BY <1>1, <1>2

LEMMA GroundContinue ==
    ASSUME CloudConstants, Serial, IInv, NEW a \in Actors, Continue(a) \/ RefreshUser(a)
    PROVE  Grounded'
<1>0. /\ TypeOK /\ Accounts /\ Requested /\ Grounded
      /\ cloud.models # {} => cloud.key # None
  BY SessionIsStored DEF IInv, Sound, Accounts, Keyless, Bare, TypeOK
<1>1. CASE call[a].op = "connect" /\ Connect(a)
  BY <1>0, <1>1, TurnOf, GroundConnect DEF Connect
<1>2. CASE Check(a)
  <2>1. Turn(a)
    BY <1>0, <1>2, TurnOf DEF Check
  <2> DEFINE c == IF call[a].next = "connect" THEN [op |-> "connect"] ELSE Idle
  <2>2. c \in Calls /\ Become(a, c) /\ c.op \in {"connect", "idle"} /\ cloud' = cloud
    BY <1>2, SimpleCalls DEF Check, Idle, store
  <2> HIDE DEF c
  <2>3. \A b \in Actors : call'[b].op # "abort"
    BY <1>0, <2>1, <2>2, BecomeTyped, TypeParts DEF Turn
  <2>4. CASE cloud.key # None
    BY <2>2, <2>3, <2>4 DEF Grounded
  <2>5. CASE cloud.key = None
    BY <1>0, <1>2, <2>5 DEF Check, EnsureValidDefaultModel, Offered, Grounded
  <2> QED BY <2>4, <2>5
<1>3. CASE AbortEarlier(a)
  <2>1. Turn(a) /\ call[a].op = "abort"
    BY <1>0, <1>3, TurnOf DEF AbortEarlier
  <2>2. Own = {} \/ default \in Own
    BY <1>0, <2>1 DEF Grounded, Turn, Checks
  <2> QED BY <1>3, <2>2 DEF AbortEarlier, Grounded
<1>4. CASE Registered(a) \/ Launch(a)
  <2>1. Turn(a) /\ call[a].op \in {"register", "launch"}
    BY <1>0, <1>4, TurnOf DEF Registered, Launch
  <2>2. cloud.key = None
    BY <1>0, <2>1 DEF Requested, InHand, Knows
  <2>3. Own = {} \/ default \in Own
    BY <1>0, <2>1, <2>2 DEF Grounded, Turn, Checks
  <2> QED BY <1>4, <2>3 DEF Registered, Launch, Grounded
<1>5. CASE Strip(a) \/ Prune(a) \/ Rename(a) \/ Delete(a)
  BY <1>0, <1>5, GroundChecked DEF Strip, Prune, Rename, Delete
<1>6. CASE Switched(a)
  <2>1. call[a].next \in Follows
    BY <1>0, <1>6, CallCarries DEF Switched, TypeOK
  <2>2. [op |-> "check", next |-> call[a].next] \in Calls
    BY <2>1, SimpleCalls
  <2> QED BY <1>0, <1>6, <2>2, GroundChecks DEF Switched, Checks
<1>7. CASE Refreshed(a) \/ RefreshUser(a)
  <2>1. call[a].op = "refresh" /\ default' = default
    BY <1>7 DEF Refreshed, RefreshUser
  <2>2. Turn(a) /\ call[a].snap = cloud /\ cloud.key # None
    BY <1>0, <2>1, TurnOf DEF Requested, InHand, Knows
  <2>3. cloud'.key = cloud.key
    BY <1>0, <1>7, <2>2 DEF Refreshed, RefreshUser, WriteCloud, store, TypeOK, Session
  <2>4. CASE Checked(a)
    BY <1>0, <2>4, GroundChecked
  <2>5. CASE ~Checked(a)
    <3>1. \A b \in Actors : call'[b].op # "abort"
      <4>1. call' = call \/ Become(a, Idle)
        BY <1>7, <2>5 DEF Refreshed, RefreshUser
      <4> QED BY <1>0, <2>1, <2>2, <4>1 DEF Turn, Become, Idle, TypeOK
    <3> QED BY <2>2, <2>3, <3>1 DEF Grounded
  <2> QED BY <2>4, <2>5
<1> QED BY <1>1, <1>2, <1>3, <1>4, <1>5, <1>6, <1>7 DEF Continue

LEMMA GroundLoop ==
    ASSUME CloudConstants, IInv, NEW l \in Logins, Loop(l)
    PROVE  Grounded'
<1>0. Polled /\ Grounded
  BY DEF IInv, Sound
<1>1. CASE LoginChecked(l)
  BY <1>0, <1>1 DEF LoginChecked, EnsureValidDefaultModel, Offered, Grounded, store
<1>2. CASE ~LoginChecked(l)
  <2>1. UNCHANGED <<default, call>> /\ (cloud.key # None => cloud' = cloud)
    <3>1. \A s, n : FinishLogin(l, s, n) => (cloud.key # None => cloud' = cloud)
      BY <1>0, NoLogin, CloudConstants DEF FinishLogin, IsCurrentPollingSignal, Polled, store
    <3> QED BY <1>2, <3>1 DEF Loop, Wake, Answer, StoreCredentials, LoopUnchanged, store
  <2> QED BY <1>0, <2>1 DEF Grounded
<1> QED BY <1>1, <1>2

LEMMA GroundStep ==
    ASSUME CloudConstants, Serial, IInv, [Next]_vars
    PROVE  Grounded'
<1>1. CASE Restart
  <2>1. Tick \in Actors /\ Checks(call'[Tick])
    BY <1>1 DEF Restart, Actors, Checks
  <2> QED BY <2>1 DEF Grounded, Checks
<1>2. CASE UNCHANGED vars
  BY <1>2 DEF IInv, Grounded, vars, store
<1> QED BY <1>1, <1>2, GroundRequest, GroundContinue, GroundLoop DEF Next

LEMMA Step ==
    ASSUME CloudConstants, Serial, IInv, [Next]_vars
    PROVE  IInv'
<1>1. Sound'
  BY RequestStep, ContinueStep, LoopStep, RestartStep, Unchanged DEF Next
<1>2. TypeOK'
  BY TypeStep DEF IInv
<1> QED BY <1>1, <1>2, GroundStep DEF IInv

\* The inductive invariant of one request at a time.
THEOREM Invariance == ASSUME Serial PROVE Spec => []IInv
<1>1. Init => IInv
  <2>1. ASSUME Init PROVE Grounded
    <3>1. Tick \in Actors /\ call[Tick] = [op |-> "check", next |-> "idle"]
      BY <2>1 DEF Init, Actors
    <3> QED BY <3>1 DEF Grounded, Checks
  <2> QED BY <2>1, Initially, TypeInit, CloudConstants, Serial DEF IInv
<1>2. IInv /\ [Next]_vars => IInv'
  BY Step, CloudConstants, Serial
<1> QED BY <1>1, <1>2, PTL DEF Spec

\* Credentials stay with the profile they were obtained for (KeyAtHome), whatever requests,
\* login loops and restarts follow each other, for any number of profiles and logins: once a
\* profile was selected, and while no import leaves out the active one.
THEOREM CredentialsAreAtHome == ASSUME Serial, Kept PROVE Spec => []KeyAtHome
<1>1. ASSUME IInv PROVE KeyAtHome
  <2>1. Accounts
    BY <1>1 DEF IInv, Sound
  <2> QED BY <2>1, Kept, KeptAccounts, CloudConstants, ActiveIsNamed, NoLogin
          DEF Owned, AtHome, StoredAtHome, ActiveAtHome, Mirrored, Holds, KeyAtHome
<1> QED BY <1>1, Invariance, PTL

\* No credentials of a profile that was disconnected are stored again (LoggedOutStaysOut),
\* whichever profiles an import leaves out.
THEOREM DisconnectedIsOut == ASSUME Serial, Named PROVE Spec => []LoggedOutStaysOut
<1>1. IInv => LoggedOutStaysOut
  BY Named DEF IInv, Sound, Accounts, Owned, SignedOut, Holds, LoggedOutStaysOut
<1> QED BY <1>1, Invariance, PTL

\* At rest the default model is offered (QuietModelIsOffered).
THEOREM DefaultIsOffered == ASSUME Serial PROVE Spec => []QuietModelIsOffered
<1>1. ASSUME IInv PROVE QuietModelIsOffered
  <2>1. WillCheck /\ \A a \in Actors : call[a] = Idle => ~Checks(call[a])
    BY <1>1 DEF IInv, Sound, Checks, Idle
  <2> QED BY <2>1 DEF WillCheck, Pending, Unchecked, QuietModelIsOffered
<1> QED BY <1>1, Invariance, PTL

\* A step of a login loop, and any other that ends no call, leaves credentials that are
\* active where they are (LoopNeverLogsOut).
THEOREM LoopsKeepTheLogin == ASSUME Serial PROVE Spec => LoopNeverLogsOut
<1>1. ASSUME IInv, Next, call' = call, cloud.key # None PROVE cloud'.key = cloud.key
  <2>0. TypeOK /\ Polled /\ Requested
    BY <1>1 DEF IInv, Sound
  <2>1. ASSUME NEW l \in Logins, Loop(l) PROVE cloud'.key = cloud.key
    <3>1. \A s, n : FinishLogin(l, s, n) => cloud' = cloud
      BY <1>1, <2>0, <2>1, NoLogin, CloudConstants
         DEF FinishLogin, IsCurrentPollingSignal, Polled, store
    <3> QED BY <2>1, <3>1 DEF Loop, Wake, Answer, StoreCredentials, LoginChecked, store
  <2>2. CASE Restart
    BY <2>2 DEF Restart, store
  <2>3. ASSUME NEW a \in Actors, RefreshUser(a) PROVE cloud'.key = cloud.key
    BY <2>0, <2>3 DEF RefreshUser, WriteCloud, Requested, InHand, Knows
  <2>4. ASSUME NEW a \in Actors, NEW S \in SUBSET CloudModels, SetModels(a, S)
        PROVE  cloud'.key = cloud.key
    BY <2>0, <2>4 DEF SetModels, TypeOK, Session
  <2>5. ASSUME NEW a \in Actors, Continue(a) \/ Request(a),
               ~\E S \in SUBSET CloudModels : SetModels(a, S)
        PROVE  cloud' = cloud
    <3>1. \A c : Become(a, c) => c = call[a]
      BY <1>1, <2>0 DEF Become, TypeOK
    <3>2. /\ ~AbortEarlier(a) /\ ~Registered(a) /\ ~Switched(a) /\ ~Delete(a) /\ ~Refreshed(a)
      BY <3>1 DEF AbortEarlier, Registered, Switched, Delete, Refreshed, Checked, Idle
    <3>3. /\ call[a] = Idle => ~StartDisconnect(a)
          /\ call[a] = Idle => \A p \in Profiles, f \in Follows : ~StartSwitch(a, p, f)
      BY <3>1 DEF StartDisconnect, StartSwitch, Idle
    <3>4. StartConnect(a) => cloud' = cloud
      BY <1>1 DEF StartConnect, store
    <3>5. CASE Continue(a)
      BY <3>2, <3>4, <3>5
         DEF Continue, Check, Launch, Strip, Prune, Rename, Connect, store
    <3>6. CASE Request(a)
      BY <2>5, <3>3, <3>4, <3>6
         DEF Request, Connect, Disconnect, Refresh, DisconnectProfile, Switch, ConnectProfile,
             CreateProfile, StartDelete, StartRename, Import, SetDefaultModel, Free, Follows, store
    <3> QED BY <2>5, <3>5, <3>6
  <2> QED BY <1>1, <2>1, <2>2, <2>3, <2>4, <2>5 DEF Next
<1>2. [IInv /\ Next]_vars => [call' = call /\ cloud.key # None => cloud'.key = cloud.key]_vars
  BY <1>1
<1> QED BY <1>2, Invariance, PTL DEF Spec, LoopNeverLogsOut

(***************************************************************************)
(* The loops that run, and the one that is polled for.                     *)
(***************************************************************************)
Polls(l) == login[l].phase \in {"sleeping", "asking", "fetching"} /\ ~login[l].aborted

\* Polling loops that nobody aborted: the one disconnect and the rest would abort, and no other.
Attended ==
    \A l \in Logins : /\ Polls(l) <=> pollingState = l
                      /\ login[l].phase = "unused" => ~login[l].aborted

LEMMA AbortAttends == ASSUME LoopsTyped, Attended, AbortPolling PROVE Attended'
<1> SUFFICES ASSUME NEW l \in Logins
             PROVE  ~Polls(l)' /\ pollingState' # l /\ (login'[l].phase = "unused" => ~login'[l].aborted)
  BY DEF Attended
<1>1. /\ pollingState' = None /\ None # l
      /\ login'[l] = (IF l = pollingState THEN [login[l] EXCEPT !.aborted = TRUE] ELSE login[l])
  BY NoLogin, CloudConstants DEF AbortPolling
<1>2. login[l] \in LoginState /\ (Polls(l) <=> pollingState = l)
      /\ (login[l].phase = "unused" => ~login[l].aborted)
  BY DEF LoopsTyped, Attended
<1>3. CASE l = pollingState
  <2>1. login'[l].aborted /\ login'[l].phase = login[l].phase /\ login[l].phase # "unused"
    BY <1>1, <1>2, <1>3 DEF LoginState, Polls
  <2> QED BY <1>1, <2>1 DEF Polls
<1>4. CASE l # pollingState
  BY <1>1, <1>2, <1>4 DEF Polls
<1> QED BY <1>3, <1>4

\* One loop moves.
LEMMA MoveAttends ==
    ASSUME LoopsTyped, Attended, NEW l \in Logins, NEW r \in LoginState,
           login' = [login EXCEPT ![l] = r], r.phase # "unused",
           \A k \in Logins : k # l => (pollingState' = k <=> pollingState = k),
           pollingState' = l <=> r.phase \in {"sleeping", "asking", "fetching"} /\ ~r.aborted
    PROVE  Attended'
<1>1. login'[l] = r /\ \A k \in Logins : k # l => login'[k] = login[k]
  BY DEF LoopsTyped
<1> QED BY <1>1 DEF Attended, Polls

LEMMA LoopAttends ==
    ASSUME CloudConstants, TypeOK, Attended, NEW l \in Logins, Loop(l)
    PROVE  Attended'
<1>0. LoopsTyped /\ login[l] \in LoginState /\ None # l
  BY TypeParts, NoLogin DEF LoopsTyped
<1>1. /\ Over \in LoginState /\ [Over EXCEPT !.phase = "checking"] \in LoginState
      /\ Over.phase = "ended" /\ [Over EXCEPT !.phase = "checking"].phase = "checking"
  BY OverTyped DEF Over
<1>2. ASSUME NEW s, NEW next \in LoginState, next.phase \in {"checking", "ended"},
             FinishLogin(l, s, next)
      PROVE  Attended'
  <2>1. CASE IsCurrentPollingSignal(l)
    BY <1>0, <1>2, <2>1, NoLogin, MoveAttends DEF FinishLogin, IsCurrentPollingSignal
  <2>2. CASE ~IsCurrentPollingSignal(l)
    <3>1. pollingState # l
      BY <2>2 DEF IsCurrentPollingSignal, Attended, Polls
    <3> QED BY <1>0, <1>1, <1>2, <2>2, <3>1, MoveAttends DEF FinishLogin
  <2> QED BY <2>1, <2>2
<1>3. ASSUME NEW r \in LoginState, login' = [login EXCEPT ![l] = r], UNCHANGED pollingState,
             login[l].phase \in {"sleeping", "asking", "fetching"}, r.aborted = login[l].aborted,
             r.phase \in {"sleeping", "asking", "fetching"}
      PROVE  Attended'
  BY <1>0, <1>3, MoveAttends DEF Attended, Polls
<1>4. ASSUME login' = [login EXCEPT ![l] = Over], UNCHANGED pollingState, ~Polls(l)
      PROVE  Attended'
  BY <1>0, <1>1, <1>4, MoveAttends DEF Attended
<1>5. CASE Wake(l)
  <2>1. CASE login[l].aborted
    BY <1>4, <1>5, <2>1 DEF Wake, Polls
  <2>2. CASE ~login[l].aborted /\ login[l].left > 0
    <3> DEFINE r == [login[l] EXCEPT !.phase = "asking", !.left = @ - 1]
    <3>1. login[l].left - 1 \in 0 .. MaxAttempts
      BY <1>0, <2>2 DEF LoginState, CloudConstants
    <3>2. r \in LoginState /\ r.phase = "asking" /\ r.aborted = login[l].aborted
      BY <1>0, <3>1 DEF LoginState, LoginPhases
    <3>3. login' = [login EXCEPT ![l] = r] /\ UNCHANGED pollingState /\ login[l].phase = "sleeping"
      BY <1>0, <1>5, <2>2 DEF Wake, LoopsTyped
    <3> HIDE DEF r
    <3> QED BY <1>3, <3>2, <3>3
  <2>3. CASE ~login[l].aborted /\ ~(login[l].left > 0)
    BY <1>1, <1>2, <1>5, <2>3 DEF Wake
  <2> QED BY <2>1, <2>2, <2>3
<1>6. CASE Answer(l)
  <2>1. CASE FinishLogin(l, Blank, Over)
    BY <1>1, <1>2, <2>1
  <2>2. CASE ~FinishLogin(l, Blank, Over)
    <3>1. PICK r \in LoginState :
            /\ login' = [login EXCEPT ![l] = r] /\ r.aborted = login[l].aborted
            /\ r.phase \in {"sleeping", "fetching"}
      <4>1. ASSUME NEW S \in SUBSET CloudModels
            PROVE  /\ [login[l] EXCEPT !.phase = "fetching", !.got = S] \in LoginState
                   /\ [login[l] EXCEPT !.phase = "fetching", !.got = S].phase = "fetching"
                   /\ [login[l] EXCEPT !.phase = "fetching", !.got = S].aborted = login[l].aborted
        BY <1>0 DEF LoginState, LoginPhases
      <4>2. /\ [login[l] EXCEPT !.phase = "sleeping"] \in LoginState
            /\ [login[l] EXCEPT !.phase = "sleeping"].phase = "sleeping"
            /\ [login[l] EXCEPT !.phase = "sleeping"].aborted = login[l].aborted
        BY <1>0 DEF LoginState, LoginPhases
      <4>3. CASE login' = [login EXCEPT ![l].phase = "sleeping"]
        <5>1. login' = [login EXCEPT ![l] = [login[l] EXCEPT !.phase = "sleeping"]]
          BY <4>3
        <5> QED BY <4>2, <5>1
      <4>4. ASSUME NEW S \in SUBSET CloudModels,
                   login' = [login EXCEPT ![l].phase = "fetching", ![l].got = S]
            PROVE  login' = [login EXCEPT ![l] = [login[l] EXCEPT !.phase = "fetching", !.got = S]]
        BY <1>0, <4>4 DEF LoopsTyped
      <4> QED BY <1>6, <2>2, <4>1, <4>3, <4>4 DEF Answer
    <3>2. UNCHANGED pollingState /\ login[l].phase = "asking"
      BY <1>6, <2>2 DEF Answer
    <3> QED BY <1>3, <3>1, <3>2
  <2> QED BY <2>1, <2>2
<1>7. CASE StoreCredentials(l)
  BY <1>1, <1>2, <1>7 DEF StoreCredentials
<1>8. CASE LoginChecked(l)
  BY <1>4, <1>8 DEF LoginChecked, Polls
<1> QED BY <1>5, <1>6, <1>7, <1>8 DEF Loop

\* A request aborts the loop that is polled, launches one, or leaves the loops alone.
LEMMA CallsMoveLoops ==
    ASSUME NEW a \in Actors, Request(a) \/ Continue(a) \/ RefreshUser(a)
    PROVE  AbortPolling \/ Launch(a) \/ UNCHANGED <<login, pollingState>>
<1>1. /\ StartConnect(a) => UNCHANGED <<login, pollingState>>
      /\ AbortEarlier(a) => AbortPolling \/ UNCHANGED <<login, pollingState>>
      /\ StartDisconnect(a) => AbortPolling
      /\ \A p \in Profiles, f \in Follows : StartSwitch(a, p, f) => AbortPolling
  BY DEF StartConnect, AbortEarlier, StartDisconnect, StartSwitch
<1>2. CASE RefreshUser(a)
  BY <1>2 DEF RefreshUser
<1>3. CASE Continue(a)
  BY <1>1, <1>3 DEF Continue, Check, Registered, Strip, Switched, Prune, Rename, Delete, Refreshed, Connect
<1>4. CASE Request(a)
  BY <1>1, <1>4
     DEF Request, Connect, Disconnect, Refresh, DisconnectProfile, Switch, ConnectProfile,
         CreateProfile, StartDelete, StartRename, Import, SetModels, SetDefaultModel, Follows
<1> QED BY <1>2, <1>3, <1>4

LEMMA LaunchAttends ==
    ASSUME CloudConstants, Serial, IInv, Attended, NEW a \in Actors, Launch(a)
    PROVE  Attended'
<1>0. LoopsTyped /\ pollingState = None
  BY TypeParts DEF IInv, Sound, Requested, InHand, Knows, Launch
<1>1. PICK l \in Logins : /\ login[l].phase = "unused" /\ pollingState' = l
                          /\ login' = [login EXCEPT ![l].phase = "sleeping"]
  BY DEF Launch
<1> DEFINE r == [login[l] EXCEPT !.phase = "sleeping"]
<1>2. r \in LoginState /\ r.phase = "sleeping" /\ ~r.aborted
  BY <1>0, <1>1 DEF LoopsTyped, LoginState, LoginPhases, Attended
<1>3. login' = [login EXCEPT ![l] = r]
  BY <1>1
<1> HIDE DEF r
<1> QED BY <1>0, <1>1, <1>2, <1>3, NoLogin, MoveAttends

\* No loop polls on unattended: one that is not aborted is the one the next disconnection,
\* switch, deletion or login aborts, and that one is still polling
\* (abortDesktopCloudPolling, pollDesktopCloudAuthorization).
THEOREM NoLoopPollsUnattended == ASSUME Serial PROVE Spec => []Attended
<1>1. Init => Attended
  BY NoLogin, CloudConstants DEF Init, Attended, Polls
<1>2. ASSUME IInv, Attended, [Next]_vars PROVE Attended'
  <2>0. TypeOK /\ LoopsTyped
    BY <1>2, TypeParts DEF IInv
  <2>1. CASE UNCHANGED <<login, pollingState>>
    BY <1>2, <2>1 DEF Attended, Polls
  <2>2. ASSUME NEW a \in Actors, Request(a) \/ Continue(a) \/ RefreshUser(a) PROVE Attended'
    BY <1>2, <2>0, <2>1, <2>2, CallsMoveLoops, AbortAttends, LaunchAttends, CloudConstants, Serial
  <2>3. ASSUME NEW l \in Logins, Loop(l) PROVE Attended'
    BY <1>2, <2>0, <2>3, LoopAttends, CloudConstants
  <2>4. CASE Restart
    <3>1. /\ pollingState' = None /\ Over.phase = "ended"
          /\ \A l \in Logins : login'[l] = (IF login[l].phase = "unused" THEN login[l] ELSE Over)
      BY <2>4 DEF Restart, Over
    <3> QED BY <1>2, <3>1, NoLogin, CloudConstants DEF Attended, Polls
  <2>5. CASE UNCHANGED vars
    BY <2>1, <2>5 DEF vars
  <2> QED BY <1>2, <2>2, <2>3, <2>4, <2>5 DEF Next
<1>3. Spec => []Attended
  BY <1>1, <1>2, Invariance, PTL DEF Spec
<1> QED BY <1>3

(***************************************************************************)
(* Whatever overlaps: no models without credentials.                       *)
(***************************************************************************)
CarriesBare(c) == /\ c.op = "switch" => Bare(c.snap)
                  /\ c.op = "refresh" => c.snap.key # None
BareSnaps == \A a \in Actors : CarriesBare(call[a])
BInv == TypeOK /\ Keyless /\ BareSnaps

LEMMA BareWritten ==
    ASSUME CloudConstants, TypeOK, Keyless, NEW s \in Session, WriteCloud(s), Bare(s)
    PROVE  Keyless'
<1>1. /\ cloud' = s
      /\ \A p \in Profiles : sessions'[p] = (IF p = ActiveName THEN s ELSE sessions[p])
  BY TypeParts, WriteTyped
<1> QED BY <1>1 DEF Keyless, Bare

LEMMA BareCall ==
    ASSUME TypeOK, BareSnaps, NEW a \in Actors, NEW c \in Calls, Become(a, c), CarriesBare(c)
    PROVE  BareSnaps'
<1>1. call'[a] = c /\ \A b \in Actors : b # a => call'[b] = call[b]
  BY TypeParts, BecomeTyped
<1> QED BY <1>1 DEF BareSnaps, CarriesBare, Bare

LEMMA BareBlank == Bare(Blank) /\ Bare([Blank EXCEPT !.poll = TRUE]) /\ Bare(Absent)
BY DEF Bare, Blank, Absent

\* Such a call carries no session.
LEMMA BareRequest ==
    ASSUME TypeOK, BareSnaps, NEW a \in Actors,
           \/ Become(a, Idle) \/ Checked(a)
           \/ \E o \in {"connect", "register", "launch"} : Become(a, [op |-> o])
           \/ \E b \in BOOLEAN : Become(a, [op |-> "abort", poll |-> b])
           \/ \E f \in Follows : Become(a, [op |-> "check", next |-> f])
           \/ \E K \in SUBSET Profiles : Become(a, [op |-> "prune", kept |-> K])
           \/ \E p, q \in Profiles : Become(a, [op |-> "rename", from |-> p, to |-> q])
           \/ \E p \in Profiles : Become(a, [op |-> "delete", name |-> p])
           \/ \E M \in SUBSET CloudModels, m \in BOOLEAN :
                Become(a, [op |-> "strip", models |-> M, managed |-> m])
    PROVE  BareSnaps'
<1>1. PICK c \in Calls : Become(a, c) /\ c.op \notin {"switch", "refresh"}
  <2>1. /\ Idle.op = "idle" /\ [op |-> "check", next |-> "idle"] \in Calls
        /\ \A K \in SUBSET Profiles : [op |-> "prune", kept |-> K] \in Calls
        /\ \A p, q \in Profiles : /\ [op |-> "rename", from |-> p, to |-> q] \in Calls
                                  /\ [op |-> "delete", name |-> p] \in Calls
        /\ \A M \in SUBSET CloudModels, m \in BOOLEAN :
             [op |-> "strip", models |-> M, managed |-> m] \in Calls
    BY DEF Idle, Calls, Follows
  <2> QED BY <2>1, SimpleCalls DEF Checked
<1> QED BY <1>1, BareCall DEF CarriesBare

LEMMA ConnectIsBare ==
    ASSUME CloudConstants, BInv, NEW a \in Actors,
           StartConnect(a) \/ AbortEarlier(a) \/ Registered(a)
    PROVE  Keyless' /\ BareSnaps'
<1>0. TypeOK /\ Keyless /\ BareSnaps /\ cloud.poll \in BOOLEAN
  BY DEF BInv, TypeOK, Session
<1>1. Keyless'
  BY <1>0, BlankTyped, BareBlank, BareWritten
     DEF StartConnect, AbortEarlier, Registered, store, Keyless, Bare
<1>2. BareSnaps'
  BY <1>0, BareRequest DEF StartConnect, AbortEarlier, Registered
<1> QED BY <1>1, <1>2

LEMMA DisconnectIsBare ==
    ASSUME CloudConstants, BInv, NEW a \in Actors,
           StartDisconnect(a) \/ \E p \in Profiles : DisconnectProfile(a, p)
    PROVE  Keyless' /\ BareSnaps'
<1>0. TypeOK /\ Keyless /\ BareSnaps
  BY DEF BInv
<1>1. CASE StartDisconnect(a)
  <2>1. Keyless'
    BY <1>0, <1>1, BlankTyped, BareBlank, BareWritten DEF StartDisconnect
  <2>2. cloud.models \in SUBSET CloudModels /\ IsManaged(default, cloud.models) \in BOOLEAN
    BY <1>0 DEF TypeOK, Session, IsManaged
  <2> QED BY <1>0, <1>1, <2>1, <2>2, BareRequest DEF StartDisconnect
<1>2. ASSUME NEW p \in Profiles, DisconnectProfile(a, p), ~StartDisconnect(a)
      PROVE  Keyless' /\ BareSnaps'
  <2>1. /\ cloud' = cloud /\ Checked(a)
        /\ sessions' = sessions \/ sessions' = [sessions EXCEPT ![p] = Blank]
    BY <1>2 DEF DisconnectProfile
  <2>2. \A q \in Profiles : sessions'[q] \in {sessions[q], Blank}
    BY <1>0, <2>1 DEF TypeOK
  <2>3. Keyless'
    BY <1>0, <2>1, <2>2, BareBlank DEF Keyless, Bare
  <2> QED BY <1>0, <2>1, <2>3, BareRequest
<1> QED BY <1>1, <1>2

LEMMA SwitchIsBare ==
    ASSUME CloudConstants, BInv, NEW a \in Actors,
           Switched(a) \/ \E p \in Profiles, f \in Follows : StartSwitch(a, p, f)
    PROVE  Keyless' /\ BareSnaps'
<1>0. TypeOK /\ Keyless /\ BareSnaps /\ call[a] \in Calls
  BY DEF BInv, TypeOK
<1>1. CASE Switched(a)
  <2>1. call[a].snap \in Session /\ call[a].next \in Follows
    BY <1>0, <1>1, CallCarries DEF Switched
  <2>2. PICK S \in SUBSET CloudModels :
          WriteCloud([poll |-> FALSE, key |-> call[a].snap.key,
                      models |-> IF call[a].snap.key = None THEN {} ELSE S])
    BY <1>1, <2>1 DEF Switched, Session
  <2> DEFINE s == [poll |-> FALSE, key |-> call[a].snap.key,
                   models |-> IF call[a].snap.key = None THEN {} ELSE S]
  <2>3. s \in Session /\ Bare(s)
    BY <2>1 DEF Session, Bare
  <2>4. WriteCloud(s)
    BY <2>2
  <2> HIDE DEF s
  <2>5. Keyless'
    BY <1>0, <2>3, <2>4, BareWritten
  <2> QED BY <1>0, <1>1, <2>1, <2>5, BareRequest DEF Switched
<1>2. ASSUME NEW p \in Profiles, NEW f \in Follows, StartSwitch(a, p, f)
      PROVE  Keyless' /\ BareSnaps'
  <2> DEFINE s == IF sessions[p] = Absent THEN Blank ELSE sessions[p]
             c == [op |-> "switch", snap |-> s, next |-> f]
  <2>1. s \in Session /\ Bare(s)
    BY <1>0, BlankTyped, BareBlank DEF TypeOK, Keyless
  <2>2. cloud' = s /\ sessions' = sessions /\ Become(a, c)
    BY <1>2 DEF StartSwitch
  <2> HIDE DEF s
  <2>3. c \in Calls /\ CarriesBare(c)
    BY <2>1 DEF Calls, CarriesBare
  <2> HIDE DEF c
  <2> QED BY <1>0, <2>1, <2>2, <2>3, BareCall DEF Keyless, Bare
<1> QED BY <1>1, <1>2

LEMMA RefreshIsBare ==
    ASSUME CloudConstants, BInv, NEW a \in Actors, Refresh(a) \/ RefreshUser(a) \/ Refreshed(a)
    PROVE  Keyless' /\ BareSnaps'
<1>0. TypeOK /\ Keyless /\ BareSnaps /\ call[a] \in Calls
  BY DEF BInv, TypeOK
<1>1. CASE Refresh(a)
  <2> DEFINE c == [op |-> "refresh", snap |-> cloud, check |-> a # Tick]
  <2>1. c \in Calls /\ CarriesBare(c) /\ Become(a, c) /\ UNCHANGED <<cloud, sessions>>
    BY <1>0, <1>1 DEF Refresh, Calls, TypeOK, store, CarriesBare
  <2> HIDE DEF c
  <2> QED BY <1>0, <2>1, BareCall DEF Keyless, Bare
<1>2. CASE RefreshUser(a)
  <2>1. call[a].snap \in Session /\ Bare(call[a].snap) /\ call' = call
    BY <1>0, <1>2, CallCarries DEF RefreshUser, BareSnaps, CarriesBare, Bare
  <2> QED BY <1>0, <1>2, <2>1, BareWritten DEF RefreshUser, BareSnaps, CarriesBare, Bare
<1>3. CASE Refreshed(a)
  <2>1. CASE UNCHANGED store
    BY <1>0, <1>3, <2>1, BareRequest DEF Refreshed, store, Keyless, Bare
  <2>2. ASSUME NEW S \in SUBSET CloudModels, WriteCloud([call[a].snap EXCEPT !.models = S])
        PROVE  Keyless' /\ BareSnaps'
    <3> DEFINE s == [call[a].snap EXCEPT !.models = S]
    <3>1. call[a].snap \in Session /\ call[a].snap.key # None
      BY <1>0, <1>3, CallCarries DEF Refreshed, BareSnaps, CarriesBare
    <3>2. s \in Session /\ Bare(s)
      BY <3>1 DEF Session, Bare
    <3>3. WriteCloud(s)
      BY <2>2
    <3> HIDE DEF s
    <3> QED BY <1>0, <1>3, <3>2, <3>3, BareWritten, BareRequest DEF Refreshed
  <2> QED BY <1>3, <2>1, <2>2 DEF Refreshed
<1> QED BY <1>1, <1>2, <1>3

\* A step that moves profiles and models about, or only sessions.
LEMMA ListIsBare ==
    ASSUME CloudConstants, BInv, NEW a \in Actors,
           \/ Check(a) \/ Launch(a) \/ Strip(a) \/ Prune(a) \/ Rename(a) \/ Delete(a)
           \/ \E S \in SUBSET Profiles : Import(a, S)
           \/ \E p \in Profiles : CreateProfile(a, p) \/ StartDelete(a, p)
           \/ \E p, q \in Profiles : StartRename(a, p, q)
    PROVE  Keyless' /\ BareSnaps'
<1>0. TypeOK /\ Keyless /\ BareSnaps /\ call[a] \in Calls
  BY DEF BInv, TypeOK
<1>1. Keyless'
  <2>1. cloud' \in {cloud, Blank}
    BY DEF Check, Launch, Strip, Prune, Rename, Delete, Import, CreateProfile, StartDelete,
           StartRename, store
  <2>2. \A r \in Profiles : \/ sessions'[r] = Absent
                             \/ \E p \in Profiles : sessions'[r] = sessions[p]
    <3>1. CASE Rename(a)
      <4>1. call[a].from \in Profiles /\ call[a].to \in Profiles
        BY <1>0, <3>1, CallCarries DEF Rename
      <4> QED BY <1>0, <3>1, <4>1 DEF Rename, TypeOK
    <3>2. CASE Prune(a) \/ Delete(a)
      BY <1>0, <3>2 DEF Prune, Delete, TypeOK
    <3>3. CASE sessions' = sessions
      BY <3>3
    <3> QED BY <3>1, <3>2, <3>3 DEF Check, Launch, Strip, Import, CreateProfile, StartDelete,
                                    StartRename, store
  <2> QED BY <1>0, <2>1, <2>2, BareBlank DEF Keyless, Bare
<1>2. BareSnaps'
  <2>1. \A S \in SUBSET Profiles : Import(a, S) => profiles' \in SUBSET Profiles
    BY CloudConstants DEF Import
  <2>2. Check(a) => call[a].next \in Follows
    BY <1>0, CallCarries DEF Check
  <2> QED BY <1>0, <2>1, <2>2, BareRequest
          DEF Check, Launch, Strip, Prune, Rename, Delete, Import, CreateProfile, StartDelete, StartRename
<1> QED BY <1>1, <1>2

LEMMA ModelsAreBare ==
    ASSUME CloudConstants, BInv, NEW a \in Actors,
           \/ \E S \in SUBSET CloudModels : SetModels(a, S)
           \/ \E m \in Offered : SetDefaultModel(a, m)
    PROVE  Keyless' /\ BareSnaps'
<1>0. TypeOK /\ Keyless /\ BareSnaps
  BY DEF BInv
<1>1. /\ call' = call /\ sessions' = sessions
      /\ cloud'.key = cloud.key /\ (cloud.models = {} => cloud'.models = {})
  BY <1>0 DEF SetModels, SetDefaultModel, store, TypeOK, Session
<1>2. cloud # Absent
  BY <1>0, SessionIsStored DEF TypeOK
<1> QED BY <1>0, <1>1, <1>2 DEF Keyless, Bare, BareSnaps, CarriesBare

LEMMA LoopIsBare ==
    ASSUME CloudConstants, BInv, NEW l \in Logins, Loop(l)
    PROVE  Keyless' /\ BareSnaps'
<1>0. TypeOK /\ Keyless /\ BareSnaps /\ login[l] \in LoginState
  BY TypeParts DEF BInv, LoopsTyped
<1>1. ASSUME NEW s \in Session, Bare(s), NEW n, FinishLogin(l, s, n) PROVE Keyless'
  BY <1>0, <1>1, BareWritten DEF FinishLogin, store, Keyless, Bare
<1>2. CASE StoreCredentials(l)
  <2> DEFINE s == [poll |-> FALSE, key |-> l, models |-> login[l].got]
  <2>1. s \in Session /\ Bare(s)
    BY <1>0, NoLogin DEF Session, LoginState, Bare
  <2>2. FinishLogin(l, s, [Over EXCEPT !.phase = "checking"]) /\ call' = call
    BY <1>2 DEF StoreCredentials, LoopUnchanged
  <2> HIDE DEF s
  <2> QED BY <1>0, <1>1, <2>1, <2>2 DEF BareSnaps, CarriesBare, Bare
<1>3. CASE FinishLogin(l, Blank, Over) /\ call' = call
  BY <1>0, <1>1, <1>3, BlankTyped, BareBlank DEF BareSnaps, CarriesBare, Bare
<1>4. CASE UNCHANGED <<store, call>>
  BY <1>0, <1>4 DEF Keyless, BareSnaps, CarriesBare, Bare, store
<1> QED BY <1>2, <1>3, <1>4 DEF Loop, Wake, Answer, LoginChecked, LoopUnchanged

LEMMA RestartIsBare ==
    ASSUME CloudConstants, BInv, Restart
    PROVE  Keyless' /\ BareSnaps'
<1>0. Keyless /\ UNCHANGED <<cloud, sessions>>
  BY DEF BInv, Restart, store
<1> DEFINE r == [op |-> "refresh", snap |-> cloud, check |-> TRUE]
           k == [op |-> "check", next |-> "idle"]
<1>1. \A a \in Actors : call'[a] \in {Idle, k} \/ (call'[a] = r /\ cloud.key # None)
  BY DEF Restart
<1>2. /\ Idle.op = "idle" /\ k.op = "check" /\ r.op = "refresh" /\ r.snap = cloud
  BY DEF Idle
<1> HIDE DEF r, k
<1> QED BY <1>0, <1>1, <1>2 DEF Keyless, Bare, BareSnaps, CarriesBare

\* However requests, refreshes and logins overlap, a session without credentials, active or
\* stored, offers no models: nothing that was read before a disconnection brings them back
\* without the credentials they came with (hydrateDesktopCloudModels, switchDesktopCloudProfile).
THEOREM NoModelsWithoutLogin == Spec => []Keyless
<1>1. Init => BInv
  <2>1. ASSUME Init PROVE Keyless /\ BareSnaps
    <3>1. /\ cloud = Blank /\ \A p \in Profiles : sessions[p] = Absent
          /\ \A a \in Actors : call[a].op \in {"check", "idle"}
      BY <2>1 DEF Init, Idle
    <3> QED BY <3>1, BareBlank DEF Keyless, BareSnaps, CarriesBare
  <2> QED BY <2>1, TypeInit DEF BInv
<1>2. ASSUME BInv, [Next]_vars PROVE BInv'
  <2>0. TypeOK'
    BY <1>2, TypeStep, CloudConstants DEF BInv
  <2>1. ASSUME NEW a \in Actors, Request(a) PROVE Keyless' /\ BareSnaps'
    <3>1. CASE /\ Become(a, Idle)
               /\ UNCHANGED <<store, default, pollingState, login, stops, history>>
      BY <1>2, <3>1, BareRequest DEF BInv, Keyless, Bare, store
    <3>2. CASE ~(/\ Become(a, Idle)
                 /\ UNCHANGED <<store, default, pollingState, login, stops, history>>)
      BY <1>2, <2>1, <3>2, CloudConstants, ConnectIsBare, DisconnectIsBare, SwitchIsBare,
         RefreshIsBare, ListIsBare, ModelsAreBare
         DEF Request, Connect, Disconnect, Switch, ConnectProfile, Follows
    <3> QED BY <3>1, <3>2
  <2>2. ASSUME NEW a \in Actors, Continue(a) \/ RefreshUser(a) PROVE Keyless' /\ BareSnaps'
    BY <1>2, <2>2, CloudConstants, ConnectIsBare, SwitchIsBare, RefreshIsBare, ListIsBare
       DEF Continue, Connect
  <2>3. ASSUME NEW l \in Logins, Loop(l) PROVE Keyless' /\ BareSnaps'
    BY <1>2, <2>3, CloudConstants, LoopIsBare
  <2>4. ASSUME Restart PROVE Keyless' /\ BareSnaps'
    BY <1>2, <2>4, CloudConstants, RestartIsBare
  <2>5. ASSUME UNCHANGED vars PROVE Keyless' /\ BareSnaps'
    BY <1>2, <2>5 DEF BInv, Keyless, BareSnaps, CarriesBare, Bare, vars, store
  <2>6. Keyless' /\ BareSnaps'
    BY <1>2, <2>1, <2>2, <2>3, <2>4, <2>5 DEF Next
  <2> QED BY <2>0, <2>6 DEF BInv
<1>3. BInv => Keyless
  BY DEF BInv
<1> QED BY <1>1, <1>2, <1>3, PTL DEF Spec

(***************************************************************************)
(* The OAuth login: the callback port.                                     *)
(***************************************************************************)

\* While a flow waits for its server no timer runs, so that its own is the only one.
StartingIsClear == \A f \in Flows : flow[f] = "starting" => timers = {}

\* startOAuthFlow() is not called again before it has returned.
OneStarting == \A f, g \in Flows : flow[f] = "starting" /\ flow[g] = "starting" => f = g

\* Flows are numbered as they start.
NumberedInOrder == \A f \in Flows : f > flows => flow[f] = "none"

\* Updates are queued for the shared file and those of agents there are.
QueuedIsKnown == \A x \in Agents \ agents : jobs[x] = <<>>

PInv == OAuthTypeOK /\ QueuedIsKnown /\ PortIsOurs /\ StartingIsClear
        /\ OneStarting /\ NumberedInOrder

(***************************************************************************)
(* The OAuth login: the profile files.                                     *)
(***************************************************************************)

\* The updates that the login of a flow, a disconnect and the sync's writer enqueue.
LoginUpdate(f) == [by |-> "login", put |-> f, shared |-> NoFlow]
DisconnectUpdate == [by |-> "disconnect", put |-> NoFlow, shared |-> NoFlow]
SyncUpdate == [by |-> "sync", put |-> entry, shared |-> shared]

Merging == \E f \in Flows : flow[f] = "merging"

\* What is queued for a file is the one update of whoever writes now.
OneUpdate ==
    \A x \in Files : jobs[x] # <<>> =>
        \/ \E f \in Flows : flow[f] = "merging" /\ jobs[x] = <<LoginUpdate(f)>>
        \/ disconnect = "removing" /\ jobs[x] = <<DisconnectUpdate>>
        \/ sync = "writing" /\ x \in Agents /\ jobs[x] = <<SyncUpdate>>

\* A listed file whose update is done holds what was put; with no login or disconnect under
\* way all hold the same profile.  A file that is not listed holds none.
FilesAgree ==
    /\ \A f \in Flows : flow[f] = "merging" =>
          \A x \in {"shared"} \cup dirs : jobs[x] = <<>> => file[x] = f
    /\ disconnect = "removing" =>
          \A x \in {"shared"} \cup dirs : jobs[x] = <<>> => file[x] = NoFlow
    /\ ~Merging /\ disconnect # "removing" => \A a \in dirs : file[a] = file["shared"]
    /\ \A a \in Agents \ dirs : file[a] = NoFlow

\* What the writer has read is still so.
ReadIsCurrent ==
    /\ sync # "idle" => entry \in {NoFlow, file["shared"]}
    /\ sync \in {"shared", "writing"} => shared = file["shared"]

\* An agent without a file has a sync coming to it.
AgentsServed ==
    \A a \in agents \ dirs :
        owed \/ sync \in {"entries", "shared"} \/ (sync = "writing" /\ jobs[a] # <<>>)

\* A provider has an account, but for a disconnect that is about to take it out.
AccountIsThere ==
    /\ provider => IF disconnect = "removing" THEN was ELSE file["shared"] # NoFlow
    /\ disconnect = "found" /\ provider => was
    /\ status = "completed" \/ adding => file["shared"] # NoFlow

Agreement == OneUpdate /\ FilesAgree /\ ReadIsCurrent /\ AgentsServed /\ AccountIsThere

QInv == PInv /\ (~clashed => ~Clash /\ Agreement)

(***************************************************************************)
(* The OAuth login: types.                                                 *)
(***************************************************************************)

FlowsTyped ==
    /\ status \in Statuses /\ completedProfile \in OAuthProfiles
    /\ completedProfile # NoFlow <=> status = "completed"
    /\ callbackServer \in OAuthProfiles /\ timeoutHandle \in OAuthProfiles
    /\ port \in OAuthProfiles /\ timers \subseteq Flows
    /\ flow \in [Flows -> {"none", "starting", "open", "exchanging", "listing", "merging", "over"}]
    /\ flows \in OAuthProfiles

FilesTyped ==
    /\ file \in [Files -> OAuthProfiles] /\ First \subseteq dirs /\ dirs \subseteq Agents
    /\ jobs \in [Files -> Seq(Updates)]
    /\ dirs \subseteq agents /\ agents \subseteq Agents

RequestsTyped ==
    /\ provider \in BOOLEAN /\ adding \in BOOLEAN /\ owed \in BOOLEAN /\ was \in BOOLEAN
    /\ disconnect \in {"idle", "found", "removing"}
    /\ sync \in {"idle", "entries", "shared", "writing"}
    /\ entry \in OAuthProfiles /\ shared \in OAuthProfiles

PageTyped ==
    page \in [waiting : BOOLEAN, asking : BOOLEAN, heard : Statuses, connected : BOOLEAN]

Typed == FlowsTyped /\ FilesTyped /\ RequestsTyped /\ PageTyped

LEMMA OAuthParts == OAuthTypeOK <=> Typed /\ clashed \in BOOLEAN
BY Zenon DEF OAuthTypeOK, Typed, FlowsTyped, FilesTyped, RequestsTyped, PageTyped

LEMMA FlowNumbers ==
    /\ MaxFlows \in Nat \ {0} /\ "shared" \in Files /\ "shared" \notin Agents
    /\ Agents \subseteq Files /\ NoFlow \in OAuthProfiles /\ NoFlow \notin Flows
    /\ Flows \subseteq OAuthProfiles
BY LoginConstants DEF Files, OAuthProfiles, Flows, NoFlow

\* What an update that is enqueued adds to the queues.
LEMMA EnqueueTyped ==
    ASSUME FilesTyped, NEW u \in Updates, NEW P \in SUBSET Files, Enqueue(u, P)
    PROVE  /\ jobs' \in [Files -> Seq(Updates)]
           /\ \A x \in Files : jobs'[x] = IF x \in P THEN Append(jobs[x], u) ELSE jobs[x]
<1>1. \A x \in Files : jobs[x] \in Seq(Updates)
  BY DEF FilesTyped
<1>2. \A x \in Files : (IF x \in P THEN Append(jobs[x], u) ELSE jobs[x]) \in Seq(Updates)
  BY <1>1
<1> QED BY <1>2 DEF Enqueue

\* The steps of a login keep the types of the service's fields.
LEMMA AbortFlowTyped ==
    ASSUME FlowsTyped, AbortFlow
    PROVE  /\ timers' \subseteq Flows /\ timeoutHandle' \in OAuthProfiles
           /\ port' \in OAuthProfiles /\ callbackServer' \in OAuthProfiles
BY FlowNumbers DEF FlowsTyped, AbortFlow

LEMMA ShutdownServerTyped ==
    ASSUME FlowsTyped, NEW f \in Flows, ShutdownServer(f)
    PROVE  /\ timers' \subseteq Flows /\ timeoutHandle' \in OAuthProfiles
           /\ port' \in OAuthProfiles /\ callbackServer' \in OAuthProfiles
BY FlowNumbers DEF FlowsTyped, ShutdownServer

LEMMA LoginTyped ==
    ASSUME Typed, NEW f \in Flows, Login(f)
    PROVE  FlowsTyped'
<1>0. FlowsTyped
  BY DEF Typed
<1>1. CASE Started(f)
  BY <1>0, <1>1, FlowNumbers DEF FlowsTyped, Started, Statuses
<1>2. CASE NotStarted(f)
  BY <1>0, <1>2, FlowNumbers DEF FlowsTyped, NotStarted, Statuses
<1>3. CASE TimesOut(f)
  BY <1>0, <1>3, FlowNumbers DEF FlowsTyped, TimesOut, Statuses
<1>4. CASE Callback(f)
  BY <1>0, <1>4 DEF FlowsTyped, Callback, service
<1>5. CASE CallbackFails(f)
  BY <1>0, <1>5, ShutdownServerTyped, FlowNumbers DEF FlowsTyped, CallbackFails, Statuses
<1>6. CASE Exchanged(f)
  BY <1>0, <1>6 DEF FlowsTyped, Exchanged, service
<1>7. CASE MergeOAuthProfile(f)
  BY <1>0, <1>7 DEF FlowsTyped, MergeOAuthProfile, service
<1>8. CASE Completes(f)
  BY <1>0, <1>8, ShutdownServerTyped, FlowNumbers DEF FlowsTyped, Completes, Statuses
<1> QED BY <1>1, <1>2, <1>3, <1>4, <1>5, <1>6, <1>7, <1>8 DEF Login

LEMMA StartTyped == ASSUME Typed, StartOAuthFlow PROVE FlowsTyped'
<1>0. FlowsTyped /\ flows + 1 \in Flows
  BY LoginConstants DEF Typed, StartOAuthFlow, FlowsTyped, OAuthProfiles, Flows, NoFlow
<1> QED BY <1>0, AbortFlowTyped, FlowNumbers DEF FlowsTyped, StartOAuthFlow

LEMMA LoginUpdates ==
    /\ \A f \in Flows : LoginUpdate(f) \in Updates
    /\ DisconnectUpdate \in Updates
    /\ RequestsTyped => SyncUpdate \in Updates
BY FlowNumbers DEF LoginUpdate, DisconnectUpdate, SyncUpdate, Updates, RequestsTyped

\* The update at the head of a file's queue is carried out.
LEMMA UpdateTyped ==
    ASSUME Typed, QueuedIsKnown, NEW x \in Files, Update(x)
    PROVE  FilesTyped' /\ QueuedIsKnown'
<1>0. FilesTyped
  BY DEF Typed
<1>1. jobs[x] \in Seq(Updates) /\ jobs[x] # <<>>
  BY <1>0 DEF FilesTyped, Update
<1>2. Head(jobs[x]) \in Updates /\ Tail(jobs[x]) \in Seq(Updates)
  BY <1>1, HeadTailProperties
<1>3. file' \in [Files -> OAuthProfiles] /\ jobs' \in [Files -> Seq(Updates)]
  BY <1>0, <1>2 DEF FilesTyped, Update, Updates
<1>4. x \in Agents => x \in agents
  BY <1>1 DEF QueuedIsKnown
<1>5. FilesTyped'
  BY <1>0, <1>3, <1>4 DEF FilesTyped, Update, config
<1>6. QueuedIsKnown'
  BY <1>0, <1>4 DEF QueuedIsKnown, FilesTyped, Files, Update, config
<1> QED BY <1>5, <1>6

LEMMA QueueTyped ==
    ASSUME FilesTyped, QueuedIsKnown, NEW u \in Updates, NEW P \in SUBSET ({"shared"} \cup agents),
           Enqueue(u, P), UNCHANGED <<file, dirs, agents>>
    PROVE  FilesTyped' /\ QueuedIsKnown'
<1>1. P \in SUBSET Files
  BY FlowNumbers DEF FilesTyped, Files
<1>2. /\ jobs' \in [Files -> Seq(Updates)]
      /\ \A x \in Files : jobs'[x] = IF x \in P THEN Append(jobs[x], u) ELSE jobs[x]
  BY <1>1, EnqueueTyped
<1>3. FilesTyped'
  BY <1>2 DEF FilesTyped
<1>4. QueuedIsKnown'
  BY <1>2, FlowNumbers DEF QueuedIsKnown
<1> QED BY <1>3, <1>4

LEMMA LoginQueues ==
    ASSUME Typed, QueuedIsKnown, NEW f \in Flows, Login(f)
    PROVE  FilesTyped' /\ QueuedIsKnown' /\ UNCHANGED <<config, off, writer>>
<1>0. FilesTyped
  BY DEF Typed
<1>1. CASE MergeOAuthProfile(f)
  <2>1. {"shared"} \cup dirs \in SUBSET ({"shared"} \cup agents)
    BY <1>0 DEF FilesTyped
  <2>2. LoginUpdate(f) \in Updates
    BY LoginUpdates
  <2>3. /\ UNCHANGED <<file, dirs, agents, config, off, writer>>
        /\ Enqueue(LoginUpdate(f), {"shared"} \cup dirs)
    BY <1>1 DEF MergeOAuthProfile, LoginUpdate, config
  <2> QED BY <1>0, <2>1, <2>2, <2>3, QueueTyped DEF config, off, writer
<1>2. CASE ~MergeOAuthProfile(f)
  <2>1. UNCHANGED <<files, config, off, writer>>
    BY <1>2 DEF Login, Started, NotStarted, TimesOut, Callback, CallbackFails, Exchanged, Completes
  <2>2. UNCHANGED <<file, dirs, jobs, agents>>
    BY <2>1 DEF files, config
  <2> QED BY <1>0, <2>1, <2>2 DEF FilesTyped, QueuedIsKnown
<1> QED BY <1>1, <1>2

LEMMA LoginPage ==
    ASSUME Typed, NEW f \in Flows, Login(f)
    PROVE  PageTyped'
<1>1. CASE Started(f)
  BY <1>1 DEF Typed, PageTyped, Started, FlowOver
<1>2. CASE ~Started(f)
  <2>1. UNCHANGED page
    BY <1>2 DEF Login, NotStarted, TimesOut, Callback, CallbackFails, Exchanged,
                MergeOAuthProfile, Completes
  <2> QED BY <2>1 DEF Typed, PageTyped
<1> QED BY <1>1, <1>2

LEMMA RequestsStay ==
    ASSUME RequestsTyped, UNCHANGED <<provider, adding, owed, off, writer>>
    PROVE  RequestsTyped'
BY DEF RequestsTyped, off, writer

LEMMA FlowsStay ==
    ASSUME FlowsTyped, UNCHANGED <<service, flow, flows>>
    PROVE  FlowsTyped'
BY DEF FlowsTyped, service

LEMMA FilesStay ==
    ASSUME FilesTyped, QueuedIsKnown, UNCHANGED <<files, agents>>
    PROVE  FilesTyped' /\ QueuedIsKnown'
BY DEF FilesTyped, QueuedIsKnown, files

LEMMA PageStays == ASSUME PageTyped, UNCHANGED page PROVE PageTyped'
BY DEF PageTyped

LEMMA RoutesTyped ==
    ASSUME Typed, QueuedIsKnown, Routes
    PROVE  Typed' /\ QueuedIsKnown'
<1>0. FlowsTyped /\ FilesTyped /\ RequestsTyped /\ PageTyped
  BY DEF Typed
<1>1. CASE OauthStatus
  <2>1. FlowsTyped'
    BY <1>0, <1>1 DEF FlowsTyped, OauthStatus, Statuses, OAuthProfiles
  <2>2. RequestsTyped'
    BY <1>0, <1>1 DEF RequestsTyped, OauthStatus, off, writer
  <2>3. PageTyped'
    BY <1>0, <1>1 DEF PageTyped, OauthStatus, FlowOver, FlowsTyped
  <2>4. FilesTyped' /\ QueuedIsKnown'
    BY <1>0, <1>1, FilesStay DEF OauthStatus
  <2> QED BY <2>1, <2>2, <2>3, <2>4 DEF Typed
<1>2. CASE AddProvider
  <2>1. FlowsTyped' /\ FilesTyped' /\ QueuedIsKnown'
    BY <1>0, <1>2, FlowsStay, FilesStay DEF AddProvider
  <2>2. RequestsTyped'
    BY <1>0, <1>2 DEF RequestsTyped, AddProvider, off, writer
  <2>3. PageTyped'
    BY <1>0, <1>2 DEF PageTyped, AddProvider, Statuses
  <2> QED BY <2>1, <2>2, <2>3 DEF Typed
<1>3. CASE Refetch
  <2>1. FlowsTyped' /\ FilesTyped' /\ QueuedIsKnown' /\ RequestsTyped'
    BY <1>0, <1>3, FlowsStay, FilesStay, RequestsStay DEF Refetch, config
  <2>2. PageTyped'
    BY <1>0, <1>3 DEF PageTyped, Refetch, ProviderStatus
  <2> QED BY <2>1, <2>2 DEF Typed
<1>4. CASE RequestDisconnect
  <2>1. FlowsTyped' /\ FilesTyped' /\ QueuedIsKnown' /\ PageTyped'
    BY <1>0, <1>4, FlowsStay, FilesStay, PageStays DEF RequestDisconnect, config
  <2>2. RequestsTyped'
    BY <1>0, <1>4 DEF RequestsTyped, RequestDisconnect, config, writer, ProviderStatus
  <2> QED BY <2>1, <2>2 DEF Typed
<1>5. CASE DisconnectOAuth
  <2>1. FlowsTyped' /\ PageTyped'
    BY <1>0, <1>5, FlowsStay, PageStays DEF DisconnectOAuth
  <2>2. RequestsTyped'
    BY <1>0, <1>5 DEF RequestsTyped, DisconnectOAuth, config, writer
  <2>3. {"shared"} \cup dirs \in SUBSET ({"shared"} \cup agents)
    BY <1>0 DEF FilesTyped
  <2>4. DisconnectUpdate \in Updates
    BY LoginUpdates
  <2>5. UNCHANGED <<file, dirs, agents>> /\ Enqueue(DisconnectUpdate, {"shared"} \cup dirs)
    BY <1>5 DEF DisconnectOAuth, DisconnectUpdate, config
  <2>6. FilesTyped' /\ QueuedIsKnown'
    BY <1>0, <2>3, <2>4, <2>5, QueueTyped
  <2> QED BY <2>1, <2>2, <2>6 DEF Typed
<1>6. CASE Disconnected
  <2>1. FlowsTyped' /\ FilesTyped' /\ QueuedIsKnown'
    BY <1>0, <1>6, FlowsStay, FilesStay DEF Disconnected
  <2>2. RequestsTyped'
    BY <1>0, <1>6 DEF RequestsTyped, Disconnected, writer
  <2>3. PageTyped'
    BY <1>0, <1>6 DEF PageTyped, Disconnected, ProviderStatus
  <2> QED BY <2>1, <2>2, <2>3 DEF Typed
<1> QED BY <1>1, <1>2, <1>3, <1>4, <1>5, <1>6 DEF Routes

LEMMA FirstOne == ASSUME NEW T \in SUBSET Nat, T # {} PROVE Min(T) \in T
<1> DEFINE R == OpToRel(<, Nat)
<1>1. IsWellFoundedOn(R, Nat)
  BY NatLessThanWellFounded
<1> HIDE DEF R
<1>2. PICK x \in T : \A y \in T : ~(<<y, x>> \in R)
  BY <1>1, WFMin
<1>3. ASSUME NEW y \in T PROVE x <= y
  <2>1. x \in Nat /\ y \in Nat /\ <<y, x>> \notin R
    BY <1>2
  <2> QED BY <2>1 DEF R, OpToRel
<1>4. \E z \in T : \A y \in T : z <= y
  BY <1>2, <1>3
<1> QED BY <1>4 DEF Min

\* What the writer reads of the agents' files is the profile of one that is listed.
LEMMA ReadEntry ==
    ASSUME FilesTyped, StartSync
    PROVE  entry' = NoFlow \/ \E a \in dirs : entry' = file[a]
<1> DEFINE holding == {i \in DOMAIN Order : Order[i] \in dirs /\ file[Order[i]] # NoFlow}
<1>1. entry' = IF provider /\ holding # {} THEN file[Order[Min(holding)]] ELSE NoFlow
  BY DEF StartSync
<1>2. holding \subseteq Nat
  BY LoginConstants
<1>3. holding # {} => Min(holding) \in holding
  BY <1>2, FirstOne
<1>4. holding # {} => Order[Min(holding)] \in dirs
  BY <1>3
<1> QED BY <1>1, <1>4

LEMMA SyncTyped ==
    ASSUME Typed, QueuedIsKnown, Sync
    PROVE  Typed' /\ QueuedIsKnown'
<1>0. FlowsTyped /\ FilesTyped /\ RequestsTyped /\ PageTyped
  BY DEF Typed
<1>1. CASE StartSync
  <2>1. FlowsTyped' /\ FilesTyped' /\ QueuedIsKnown' /\ PageTyped'
    BY <1>0, <1>1, FlowsStay, FilesStay, PageStays DEF StartSync
  <2>2. entry' \in OAuthProfiles
    BY <1>0, <1>1, ReadEntry, FlowNumbers DEF FilesTyped
  <2>3. RequestsTyped'
    BY <1>0, <1>1, <2>2 DEF RequestsTyped, StartSync, off
  <2> QED BY <2>1, <2>3 DEF Typed
<1>2. CASE ReadShared
  <2>1. FlowsTyped' /\ FilesTyped' /\ QueuedIsKnown' /\ PageTyped'
    BY <1>0, <1>2, FlowsStay, FilesStay, PageStays DEF ReadShared, config
  <2>2. RequestsTyped'
    BY <1>0, <1>2, FlowNumbers DEF RequestsTyped, FilesTyped, ReadShared, config, off
  <2> QED BY <2>1, <2>2 DEF Typed
<1>3. CASE WriteForAgents
  <2>1. FlowsTyped' /\ PageTyped'
    BY <1>0, <1>3, FlowsStay, PageStays DEF WriteForAgents
  <2>2. RequestsTyped'
    BY <1>0, <1>3 DEF RequestsTyped, WriteForAgents, config, off
  <2>3. SyncUpdate \in Updates
    BY <1>0, LoginUpdates
  <2>4. UNCHANGED <<file, dirs, agents>> /\ Enqueue(SyncUpdate, agents)
    BY <1>3 DEF WriteForAgents, SyncUpdate, config
  <2>5. FilesTyped' /\ QueuedIsKnown'
    BY <1>0, <2>3, <2>4, QueueTyped
  <2> QED BY <2>1, <2>2, <2>5 DEF Typed
<1>4. CASE Written
  <2>1. FlowsTyped' /\ FilesTyped' /\ QueuedIsKnown' /\ PageTyped'
    BY <1>0, <1>4, FlowsStay, FilesStay, PageStays DEF Written, config
  <2>2. RequestsTyped'
    BY <1>0, <1>4, FlowNumbers DEF RequestsTyped, Written, config, off
  <2> QED BY <2>1, <2>2 DEF Typed
<1> QED BY <1>1, <1>2, <1>3, <1>4 DEF Sync

(***************************************************************************)
(* The OAuth login: what every step keeps, and that the port is freed.     *)
(***************************************************************************)

LEMMA OAuthStarts == OAuthInit => PInv /\ ~clashed
<1> SUFFICES ASSUME OAuthInit PROVE PInv /\ ~clashed
  OBVIOUS
<1>1. FlowsTyped
  BY FlowNumbers DEF OAuthInit, FlowsTyped, Statuses, NoFlow
<1>2. FilesTyped
  BY FlowNumbers, LoginConstants DEF OAuthInit, FilesTyped
<1>3. RequestsTyped /\ PageTyped
  BY FlowNumbers DEF OAuthInit, RequestsTyped, PageTyped, Statuses
<1>4. OAuthTypeOK
  BY <1>1, <1>2, <1>3, OAuthParts DEF Typed, OAuthInit
<1>5. QueuedIsKnown /\ PortIsOurs /\ StartingIsClear /\ OneStarting /\ NumberedInOrder
      /\ ~clashed
  BY FlowNumbers DEF OAuthInit, QueuedIsKnown, PortIsOurs, StartingIsClear, OneStarting,
                      NumberedInOrder
<1> QED BY <1>4, <1>5 DEF PInv

LEMMA LoginFreesPort ==
    ASSUME PInv, NEW f \in Flows, Login(f)
    PROVE  PortIsOurs' /\ StartingIsClear'
<1>0. FlowsTyped /\ PortIsOurs /\ StartingIsClear
  BY OAuthParts DEF PInv, Typed
<1>1. CASE Started(f)
  <2>1. timers = {} /\ flow' = [flow EXCEPT ![f] = "open"]
        /\ port' = f /\ callbackServer' = f /\ timeoutHandle' = f /\ timers' = timers \cup {f}
    BY <1>0, <1>1 DEF Started, StartingIsClear
  <2>2. \A g \in Flows : flow[g] = "starting" => g = f
    BY <1>1 DEF PInv, OneStarting, Started
  <2> QED BY <1>0, <2>1, <2>2 DEF PortIsOurs, StartingIsClear, FlowsTyped
<1>2. CASE NotStarted(f)
  BY <1>0, <1>2 DEF NotStarted, PortIsOurs, StartingIsClear, FlowsTyped
<1>3. CASE TimesOut(f)
  BY <1>0, <1>3 DEF TimesOut, PortIsOurs, StartingIsClear
<1>4. CASE CallbackFails(f) \/ Completes(f)
  BY <1>0, <1>4 DEF CallbackFails, Completes, ShutdownServer, PortIsOurs, StartingIsClear, FlowsTyped
<1>5. CASE Callback(f) \/ Exchanged(f) \/ MergeOAuthProfile(f)
  BY <1>0, <1>5 DEF Callback, Exchanged, MergeOAuthProfile, service, PortIsOurs, StartingIsClear,
                    FlowsTyped
<1> QED BY <1>1, <1>2, <1>3, <1>4, <1>5 DEF Login

LEMMA LoginStartsAlone ==
    ASSUME PInv, NEW f \in Flows, Login(f)
    PROVE  OneStarting' /\ NumberedInOrder'
<1>1. FlowsTyped /\ OneStarting /\ NumberedInOrder
  BY OAuthParts DEF PInv, Typed
<1>2. \A g \in Flows : flow'[g] = "starting" => flow[g] = "starting"
  BY <1>1 DEF Login, Started, NotStarted, TimesOut, Callback, CallbackFails, Exchanged,
              MergeOAuthProfile, Completes, FlowsTyped
<1>3. flows' = flows /\ \A g \in Flows : flow[g] = "none" => flow'[g] = "none"
  BY <1>1 DEF Login, Started, NotStarted, TimesOut, Callback, CallbackFails, Exchanged,
              MergeOAuthProfile, Completes, FlowsTyped
<1> QED BY <1>1, <1>2, <1>3 DEF OneStarting, NumberedInOrder

LEMMA PortStays ==
    ASSUME PortIsOurs, StartingIsClear, OneStarting, NumberedInOrder,
           UNCHANGED <<port, callbackServer, timeoutHandle, timers, flow, flows>>
    PROVE  PortIsOurs' /\ StartingIsClear' /\ OneStarting' /\ NumberedInOrder'
BY DEF PortIsOurs, StartingIsClear, OneStarting, NumberedInOrder

LEMMA PInvStep == PInv /\ [OAuthNext]_oauthVars => PInv'
<1> SUFFICES ASSUME PInv, [OAuthNext]_oauthVars PROVE PInv'
  OBVIOUS
<1>0. /\ Typed /\ QueuedIsKnown /\ PortIsOurs /\ StartingIsClear /\ OneStarting
      /\ NumberedInOrder /\ FlowsTyped /\ FilesTyped /\ RequestsTyped /\ PageTyped /\ clashed \in BOOLEAN
  BY OAuthParts DEF PInv, Typed
<1>1. ASSUME Typed', QueuedIsKnown', PortIsOurs', StartingIsClear', OneStarting',
             NumberedInOrder', clashed' \in BOOLEAN
      PROVE  PInv'
  BY <1>1 DEF PInv, Typed, OAuthTypeOK, FlowsTyped, FilesTyped, RequestsTyped, PageTyped
<1>2. ASSUME NEW x, clashed' = (clashed \/ x) PROVE clashed' \in BOOLEAN
  BY <1>0, <1>2
<1>3. CASE Noted(StartOAuthFlow)
  <2>1. StartOAuthFlow /\ clashed' \in BOOLEAN
    BY <1>3 DEF Noted
  <2>2. FlowsTyped'
    BY <1>0, <2>1, StartTyped
  <2>3. FilesTyped' /\ QueuedIsKnown' /\ RequestsTyped' /\ PageTyped'
    BY <1>0, <2>1, FilesStay, RequestsStay, PageStays DEF StartOAuthFlow, config
  <2>4. timers' = {} /\ port' = NoFlow
    BY <1>0, <2>1 DEF StartOAuthFlow, AbortFlow, PortIsOurs
  <2>5. PortIsOurs' /\ StartingIsClear'
    BY <2>4 DEF PortIsOurs, StartingIsClear
  <2>6. OneStarting' /\ NumberedInOrder'
    <3>1. /\ flows' = flows + 1 /\ flow' = [flow EXCEPT ![flows + 1] = "starting"]
          /\ \A f \in Flows : flow[f] # "starting"
      BY <2>1 DEF StartOAuthFlow
    <3>2. flows \in Nat /\ Flows \subseteq Nat
      BY <1>0 DEF FlowsTyped, OAuthProfiles, Flows, NoFlow
    <3> QED BY <1>0, <3>1, <3>2 DEF OneStarting, NumberedInOrder, FlowsTyped
  <2> QED BY <1>1, <2>1, <2>2, <2>3, <2>5, <2>6 DEF Typed
<1>4. CASE Noted(Routes)
  <2>1. Routes /\ clashed' \in BOOLEAN
    BY <1>4 DEF Noted
  <2>2. UNCHANGED <<port, callbackServer, timeoutHandle, timers, flow, flows>>
    BY <2>1 DEF Routes, OauthStatus, AddProvider, Refetch, RequestDisconnect, DisconnectOAuth,
                Disconnected, service
  <2> QED BY <1>0, <1>1, <2>1, <2>2, RoutesTyped, PortStays
<1>5. CASE Noted(Sync)
  <2>1. Sync /\ clashed' \in BOOLEAN
    BY <1>5 DEF Noted
  <2>2. UNCHANGED <<port, callbackServer, timeoutHandle, timers, flow, flows>>
    BY <2>1 DEF Sync, StartSync, ReadShared, WriteForAgents, Written, service
  <2> QED BY <1>0, <1>1, <2>1, <2>2, SyncTyped, PortStays
<1>6. ASSUME NEW f \in Flows, Noted(Login(f)) PROVE PInv'
  <2>1. Login(f) /\ clashed' \in BOOLEAN
    BY <1>6 DEF Noted
  <2>2. FlowsTyped' /\ PageTyped' /\ FilesTyped' /\ QueuedIsKnown'
    BY <1>0, <2>1, LoginTyped, LoginPage, LoginQueues
  <2>3. RequestsTyped'
    BY <1>0, <2>1, LoginQueues, RequestsStay DEF config
  <2> QED BY <1>1, <2>1, <2>2, <2>3, LoginFreesPort, LoginStartsAlone DEF Typed
<1>7. ASSUME NEW x \in Files, Noted(Update(x)) PROVE PInv'
  <2>1. Update(x) /\ clashed' \in BOOLEAN
    BY <1>7 DEF Noted
  <2>2. FilesTyped' /\ QueuedIsKnown'
    BY <1>0, <2>1, UpdateTyped
  <2>3. FlowsTyped' /\ RequestsTyped' /\ PageTyped'
    BY <1>0, <2>1, FlowsStay, RequestsStay, PageStays DEF Update, config
  <2>4. UNCHANGED <<port, callbackServer, timeoutHandle, timers, flow, flows>>
    BY <2>1 DEF Update, service
  <2> QED BY <1>0, <1>1, <2>1, <2>2, <2>3, <2>4, PortStays DEF Typed
<1>8. ASSUME NEW a \in Agents, Noted(AddAgent(a)) PROVE PInv'
  <2>1. AddAgent(a) /\ clashed' \in BOOLEAN
    BY <1>8 DEF Noted
  <2>2. FilesTyped' /\ QueuedIsKnown'
    BY <1>0, <2>1 DEF AddAgent, FilesTyped, QueuedIsKnown, files
  <2>3. FlowsTyped' /\ PageTyped'
    BY <1>0, <2>1, FlowsStay, PageStays DEF AddAgent
  <2>4. RequestsTyped'
    BY <1>0, <2>1 DEF AddAgent, RequestsTyped, off, writer
  <2>5. UNCHANGED <<port, callbackServer, timeoutHandle, timers, flow, flows>>
    BY <2>1 DEF AddAgent, service
  <2> QED BY <1>0, <1>1, <2>1, <2>2, <2>3, <2>4, <2>5, PortStays DEF Typed
<1>9. CASE UNCHANGED oauthVars
  <2>1. /\ UNCHANGED <<service, flow, flows, files, config, off, writer, page, clashed>>
        /\ UNCHANGED <<port, callbackServer, timeoutHandle, timers, agents, provider, adding, owed>>
    BY <1>9 DEF oauthVars, service, config
  <2>2. Typed' /\ QueuedIsKnown'
    BY <1>0, <2>1, FlowsStay, FilesStay, RequestsStay, PageStays DEF Typed
  <2> QED BY <1>0, <1>1, <2>1, <2>2, PortStays
<1> QED BY <1>3, <1>4, <1>5, <1>6, <1>7, <1>8, <1>9 DEF OAuthNext

\* Whatever logins, callbacks, disconnects and syncs overlap, the variables keep their types.
THEOREM OAuthTypeCorrect == OAuthSpec => []OAuthTypeOK
<1>1. PInv => OAuthTypeOK
  BY DEF PInv
<1>2. OAuthInit => PInv
  BY OAuthStarts
<1> QED BY <1>1, <1>2, PInvStep, PTL DEF OAuthSpec

\* The port of the callback server is always freed by the next start, and no timer runs that
\* it does not clear (PortIsOurs), for any number of logins.
THEOREM CallbackPortIsFreed == OAuthSpec => []PortIsOurs
<1>1. PInv => PortIsOurs
  BY DEF PInv
<1>2. OAuthInit => PInv
  BY OAuthStarts
<1> QED BY <1>1, <1>2, PInvStep, PTL DEF OAuthSpec

(***************************************************************************)
(* The profile files: what it means that writers do not overlap.           *)
(***************************************************************************)

WritesFiles(f) == flow[f] \in {"exchanging", "listing", "merging"}

\* One login at a time writes, no disconnect while it does or is yet to be consumed, and no
\* sync beside either.
Apart ==
    /\ \A f, g \in Flows : WritesFiles(f) /\ WritesFiles(g) => f = g
    /\ disconnect # "idle" => (\A f \in Flows : ~WritesFiles(f)) /\ status # "completed" /\ ~adding
    /\ sync # "idle" => (\A f \in Flows : ~WritesFiles(f)) /\ disconnect = "idle"

LEMMA ClashFree == ~Clash => Apart
<1> SUFFICES ASSUME ~Clash PROVE Apart
  OBVIOUS
<1> DEFINE writing == {f \in Flows : flow[f] \in {"exchanging", "listing", "merging"}}
<1>1. /\ ~(Cardinality(writing) > 1)
      /\ disconnect # "idle" => writing = {} /\ status # "completed" /\ ~adding
      /\ sync # "idle" => disconnect = "idle" /\ writing = {}
  BY DEF Clash
<1>2. ASSUME NEW f \in Flows, NEW g \in Flows, WritesFiles(f), WritesFiles(g), f # g PROVE FALSE
  <2>1. IsFiniteSet(writing)
    <3>1. IsFiniteSet(Flows)
      BY FlowNumbers, FS_Interval DEF Flows
    <3> QED BY <3>1, FS_Subset
  <2>2. {f, g} \subseteq writing
    BY <1>2 DEF WritesFiles
  <2>3. Cardinality({f, g}) = 2
    <3>1. IsFiniteSet({f}) /\ Cardinality({f}) = 1 /\ {f, g} = {f} \cup {g} /\ g \notin {f}
      BY <1>2, FS_Singleton
    <3> QED BY <3>1, FS_AddElement
  <2>4. Cardinality({f, g}) <= Cardinality(writing) /\ Cardinality(writing) \in Nat
    BY <2>1, <2>2, FS_Subset, FS_CardinalityType
  <2> QED BY <1>1, <2>3, <2>4
<1>3. \A f \in Flows : WritesFiles(f) => f \in writing
  BY DEF WritesFiles
<1> QED BY <1>1, <1>2, <1>3 DEF Apart

LEMMA ClashFreeNext == ~Clash' => Apart'
BY ClashFree, PTL

\* Between two writes all queues are empty.
LEMMA NothingQueued ==
    ASSUME OneUpdate, ~Merging, disconnect # "removing", sync # "writing"
    PROVE  \A x \in Files : jobs[x] = <<>>
BY DEF OneUpdate, Merging

LEMMA Awaited ==
    ASSUME NEW x \in Files, NEW u \in Updates, jobs[x] = <<u>>
    PROVE  Awaits(u.by, u.put)
<1>1. 1 \in DOMAIN jobs[x] /\ jobs[x][1] = u
  OBVIOUS
<1> QED BY <1>1 DEF Awaits

LEMMA AppendsOne == \A u : Append(<<>>, u) = <<u>> /\ <<u>> # <<>>
OBVIOUS

LEMMA EnqueuedOnly ==
    ASSUME FilesTyped, NEW u \in Updates, NEW P \in SUBSET Files, Enqueue(u, P),
           \A x \in Files : jobs[x] = <<>>
    PROVE  \A x \in Files : jobs'[x] = IF x \in P THEN <<u>> ELSE <<>>
<1>1. \A x \in Files : jobs'[x] = IF x \in P THEN Append(jobs[x], u) ELSE jobs[x]
  BY EnqueueTyped
<1> QED BY <1>1, AppendsOne

\* Steps that touch none of what the invariant speaks of.
LEMMA Unmoved ==
    ASSUME Agreement, UNCHANGED <<jobs, file, dirs, agents, owed, provider, adding, was, disconnect>>,
           UNCHANGED <<sync, entry, shared>>, status' = "completed" => status = "completed",
           \A f \in Flows : flow'[f] = "merging" <=> flow[f] = "merging"
    PROVE  Agreement'
<1>1. OneUpdate'
  BY DEF Agreement, OneUpdate, SyncUpdate, LoginUpdate, DisconnectUpdate
<1>2. FilesAgree'
  BY DEF Agreement, FilesAgree, Merging
<1>3. ReadIsCurrent' /\ AgentsServed'
  BY DEF Agreement, ReadIsCurrent, AgentsServed
<1>4. AccountIsThere'
  BY DEF Agreement, AccountIsThere
<1> QED BY <1>1, <1>2, <1>3, <1>4 DEF Agreement

LEMMA StartAgrees == ASSUME PInv, Agreement, StartOAuthFlow PROVE Agreement'
<1>1. FlowsTyped
  BY OAuthParts DEF PInv, Typed
<1>2. flows \in Nat /\ flows + 1 \in Flows
  BY <1>1, LoginConstants DEF StartOAuthFlow, FlowsTyped, OAuthProfiles, Flows, NoFlow
<1>3. flow' = [flow EXCEPT ![flows + 1] = "starting"] /\ flow[flows + 1] = "none"
  BY <1>2 DEF StartOAuthFlow, PInv, NumberedInOrder
<1> QED BY <1>1, <1>2, <1>3, Unmoved DEF StartOAuthFlow, files, config, off, writer, FlowsTyped

LEMMA MergeAgrees ==
    ASSUME PInv, Apart, Apart', Agreement, NEW f \in Flows, MergeOAuthProfile(f)
    PROVE  Agreement'
<1>0. FlowsTyped /\ FilesTyped /\ RequestsTyped
  BY OAuthParts DEF PInv, Typed
<1>1. /\ flow[f] = "listing" /\ flow' = [flow EXCEPT ![f] = "merging"]
      /\ Enqueue(LoginUpdate(f), {"shared"} \cup dirs)
      /\ UNCHANGED <<file, dirs, agents, provider, adding, owed, disconnect, was, sync, entry, shared>>
      /\ UNCHANGED status
  BY DEF MergeOAuthProfile, LoginUpdate, config, off, writer, service
<1>2. /\ WritesFiles(f) /\ disconnect = "idle" /\ sync = "idle"
      /\ \A g \in Flows : flow[g] = "merging" => g = f
  BY <1>1 DEF Apart, WritesFiles
<1>3. ~Merging
  BY <1>1, <1>2 DEF Merging
<1>4. \A x \in Files : jobs[x] = <<>>
  BY <1>2, <1>3, NothingQueued DEF Agreement
<1>5. \A x \in Files : jobs'[x] = IF x \in {"shared"} \cup dirs THEN <<LoginUpdate(f)>> ELSE <<>>
  <2>1. {"shared"} \cup dirs \in SUBSET Files
    BY <1>0, FlowNumbers DEF FilesTyped
  <2> QED BY <1>0, <1>1, <1>4, <2>1, EnqueuedOnly, LoginUpdates
<1>6. flow'[f] = "merging" /\ \A g \in Flows : flow'[g] = "merging" => g = f
  BY <1>0, <1>1, <1>2 DEF FlowsTyped
<1>7. OneUpdate'
  BY <1>1, <1>5, <1>6 DEF OneUpdate, LoginUpdate
<1>8. FilesAgree'
  <2>1. \A x \in {"shared"} \cup dirs : jobs'[x] # <<>>
    BY <1>0, <1>5, FlowNumbers, AppendsOne DEF FilesTyped
  <2> QED BY <1>1, <1>2, <1>6, <2>1 DEF FilesAgree, Merging, Agreement
<1>9. ReadIsCurrent' /\ AgentsServed' /\ AccountIsThere'
  BY <1>1, <1>2 DEF Agreement, ReadIsCurrent, AgentsServed, AccountIsThere
<1> QED BY <1>7, <1>8, <1>9 DEF Agreement

LEMMA CompletesAgrees ==
    ASSUME PInv, Apart, Agreement, NEW f \in Flows, Completes(f)
    PROVE  Agreement'
<1>0. FlowsTyped /\ FilesTyped /\ RequestsTyped
  BY OAuthParts DEF PInv, Typed
<1>1. /\ flow[f] = "merging" /\ ~Awaits("login", f) /\ flow' = [flow EXCEPT ![f] = "over"]
      /\ UNCHANGED <<jobs, file, dirs, agents, provider, adding, owed, disconnect, was, sync, entry,
                     shared>>
  BY DEF Completes, files, config, off, writer
<1>2. /\ WritesFiles(f) /\ disconnect = "idle" /\ sync = "idle"
      /\ \A g \in Flows : flow[g] = "merging" => g = f
  BY <1>1 DEF Apart, WritesFiles
<1>3. ASSUME NEW x \in Files PROVE jobs[x] = <<>>
  <2>1. jobs[x] # <<>> => jobs[x] = <<LoginUpdate(f)>>
    BY <1>2 DEF Agreement, OneUpdate
  <2>2. jobs[x] = <<LoginUpdate(f)>> => Awaits(LoginUpdate(f).by, LoginUpdate(f).put)
    BY LoginUpdates, Awaited
  <2>3. LoginUpdate(f).by = "login" /\ LoginUpdate(f).put = f
    BY DEF LoginUpdate
  <2> QED BY <1>1, <2>1, <2>2, <2>3
<1>4. \A x \in {"shared"} \cup dirs : file[x] = f
  BY <1>0, <1>1, <1>3, FlowNumbers DEF Agreement, FilesAgree, FilesTyped
<1>5. \A g \in Flows : flow'[g] # "merging"
  BY <1>0, <1>1, <1>2 DEF FlowsTyped
<1>6. OneUpdate'
  BY <1>1, <1>3 DEF OneUpdate
<1>7. FilesAgree'
  BY <1>1, <1>2, <1>4, <1>5 DEF Agreement, FilesAgree, Merging
<1>8. ReadIsCurrent' /\ AgentsServed'
  BY <1>1, <1>2 DEF Agreement, ReadIsCurrent, AgentsServed
<1>9. AccountIsThere'
  BY <1>1, <1>2, <1>4, FlowNumbers DEF AccountIsThere
<1> QED BY <1>6, <1>7, <1>8, <1>9 DEF Agreement

LEMMA LoginAgrees ==
    ASSUME PInv, Apart, Apart', Agreement, NEW f \in Flows, Login(f)
    PROVE  Agreement'
<1>1. CASE MergeOAuthProfile(f)
  BY <1>1, MergeAgrees
<1>2. CASE Completes(f)
  BY <1>2, CompletesAgrees
<1>3. ASSUME \/ Started(f) \/ NotStarted(f) \/ TimesOut(f) \/ Callback(f)
             \/ CallbackFails(f) \/ Exchanged(f)
      PROVE  Agreement'
  <2>1. FlowsTyped
    BY OAuthParts DEF PInv, Typed
  <2>2. UNCHANGED <<jobs, file, dirs, agents, owed, provider, adding, was, disconnect,
                    sync, entry, shared>>
    BY <1>3 DEF Started, NotStarted, TimesOut, Callback, CallbackFails, Exchanged, files, config,
                off, writer
  <2>3. status' = "completed" => status = "completed"
    BY <1>3 DEF Started, NotStarted, TimesOut, Callback, CallbackFails, Exchanged, service
  <2>4. \A g \in Flows : flow'[g] = "merging" <=> flow[g] = "merging"
    BY <1>3, <2>1 DEF Started, NotStarted, TimesOut, Callback, CallbackFails, Exchanged, FlowsTyped
  <2> QED BY <2>2, <2>3, <2>4, Unmoved
<1> QED BY <1>1, <1>2, <1>3 DEF Login

\* The update at the head of a file's queue, whoever enqueued it.
LEMMA UpdateAgrees ==
    ASSUME PInv, Apart, Agreement, NEW x \in Files, Update(x)
    PROVE  Agreement'
<1>0. FlowsTyped /\ FilesTyped /\ RequestsTyped
  BY OAuthParts DEF PInv, Typed
<1> DEFINE job == Head(jobs[x])
           put == IF job.by # "sync" \/ job.put # NoFlow THEN job.put
                  ELSE IF file[x] # NoFlow THEN file[x] ELSE job.shared
<1>1. /\ jobs[x] # <<>> /\ jobs' = [jobs EXCEPT ![x] = Tail(jobs[x])]
      /\ file' = [file EXCEPT ![x] = put] /\ dirs' = dirs \cup ({x} \cap Agents)
      /\ UNCHANGED <<status, flow, agents, provider, adding, owed, disconnect, was, sync, entry,
                     shared>>
  BY DEF Update, service, config, off, writer
<1>2. PICK u : /\ jobs[x] = <<u>>
               /\ \/ \E f \in Flows : flow[f] = "merging" /\ u = LoginUpdate(f)
                  \/ disconnect = "removing" /\ u = DisconnectUpdate
                  \/ sync = "writing" /\ x \in Agents /\ u = SyncUpdate
  BY <1>1 DEF Agreement, OneUpdate
<1>3. job = u /\ Tail(jobs[x]) = <<>>
  BY <1>2
<1>4. /\ jobs'[x] = <<>> /\ file'[x] = put
      /\ \A y \in Files : y # x => jobs'[y] = jobs[y] /\ file'[y] = file[y]
  BY <1>0, <1>1, <1>3 DEF FilesTyped
<1> HIDE DEF job, put
<1>5. OneUpdate'
  BY <1>1, <1>4 DEF Agreement, OneUpdate, SyncUpdate
<1>6. \A a \in Agents \ dirs' : file'[a] = NoFlow
  BY <1>0, <1>1, <1>4, FlowNumbers DEF Agreement, FilesAgree
<1>7. AgentsServed'
  <2>1. ASSUME NEW a \in agents' \ dirs'
        PROVE  owed \/ sync \in {"entries", "shared"} \/ (sync = "writing" /\ jobs'[a] # <<>>)
    <3>1. a \in agents \ dirs /\ a \in Agents /\ a # x
      BY <1>0, <1>1, <2>1 DEF FilesTyped
    <3>2. jobs'[a] = jobs[a]
      BY <1>4, <3>1, FlowNumbers
    <3> QED BY <3>1, <3>2 DEF Agreement, AgentsServed
  <2> QED BY <1>1, <2>1 DEF AgentsServed
<1>8. CASE \E f \in Flows : flow[f] = "merging" /\ u = LoginUpdate(f)
  <2>1. PICK f \in Flows : flow[f] = "merging" /\ u = LoginUpdate(f)
    BY <1>8
  <2>2. /\ disconnect = "idle" /\ sync = "idle"
        /\ \A g \in Flows : flow[g] = "merging" => g = f
    BY <2>1 DEF Apart, WritesFiles
  <2>3. put = f /\ f # NoFlow
    BY <1>3, <2>1, FlowNumbers DEF put, LoginUpdate
  <2>4. ASSUME NEW y \in {"shared"} \cup dirs', jobs'[y] = <<>> PROVE file'[y] = f
    <3>1. CASE y = x
      BY <1>4, <2>3, <3>1
    <3>2. CASE y # x
      <4>1. y \in {"shared"} \cup dirs /\ y \in Files
        BY <1>0, <1>1, <2>4, <3>2, FlowNumbers DEF FilesTyped
      <4> QED BY <1>4, <2>1, <2>4, <3>2, <4>1 DEF Agreement, FilesAgree
    <3> QED BY <3>1, <3>2
  <2>5. FilesAgree'
    BY <1>1, <1>6, <2>1, <2>2, <2>4 DEF FilesAgree, Merging
  <2>6. ReadIsCurrent'
    BY <1>1, <2>2 DEF ReadIsCurrent
  <2>7. file["shared"] # NoFlow => file'["shared"] # NoFlow
    BY <1>4, <2>3, FlowNumbers
  <2>8. AccountIsThere'
    BY <1>1, <2>2, <2>7 DEF Agreement, AccountIsThere
  <2> QED BY <1>5, <1>7, <2>5, <2>6, <2>8 DEF Agreement
<1>9. CASE disconnect = "removing" /\ u = DisconnectUpdate
  <2>1. sync = "idle" /\ status # "completed" /\ ~adding /\ \A f \in Flows : flow[f] # "merging"
    BY <1>9 DEF Apart, WritesFiles
  <2>2. put = NoFlow
    BY <1>3, <1>9 DEF put, DisconnectUpdate
  <2>3. ASSUME NEW y \in {"shared"} \cup dirs', jobs'[y] = <<>> PROVE file'[y] = NoFlow
    <3>1. CASE y = x
      BY <1>4, <2>2, <3>1
    <3>2. CASE y # x
      <4>1. y \in {"shared"} \cup dirs /\ y \in Files
        BY <1>0, <1>1, <2>3, <3>2, FlowNumbers DEF FilesTyped
      <4> QED BY <1>4, <1>9, <2>3, <3>2, <4>1 DEF Agreement, FilesAgree
    <3> QED BY <3>1, <3>2
  <2>4. FilesAgree'
    BY <1>1, <1>6, <1>9, <2>1, <2>3 DEF FilesAgree
  <2>5. ReadIsCurrent'
    BY <1>1, <2>1 DEF ReadIsCurrent
  <2>6. AccountIsThere'
    BY <1>1, <1>9, <2>1 DEF Agreement, AccountIsThere
  <2> QED BY <1>5, <1>7, <2>4, <2>5, <2>6 DEF Agreement
<1>10. CASE sync = "writing" /\ x \in Agents /\ u = SyncUpdate
  <2>1. disconnect = "idle" /\ ~Merging /\ \A f \in Flows : flow[f] # "merging"
    BY <1>10 DEF Apart, WritesFiles, Merging
  <2>2. /\ entry \in {NoFlow, file["shared"]} /\ shared = file["shared"]
        /\ \A a \in dirs : file[a] = file["shared"]
        /\ \A a \in Agents \ dirs : file[a] = NoFlow
    BY <1>10, <2>1 DEF Agreement, ReadIsCurrent, FilesAgree
  <2>3. put = file["shared"]
    <3>1. job.by = "sync" /\ job.put = entry /\ job.shared = shared
      BY <1>3, <1>10 DEF SyncUpdate
    <3> QED BY <1>10, <2>2, <3>1 DEF put
  <2>4. file'["shared"] = file["shared"]
    BY <1>4, <1>10, FlowNumbers
  <2>5. \A a \in dirs' : file'[a] = file'["shared"]
    BY <1>0, <1>1, <1>4, <2>2, <2>3, <2>4, FlowNumbers DEF FilesTyped
  <2>6. FilesAgree'
    BY <1>1, <1>6, <2>1, <2>5 DEF FilesAgree
  <2>7. ReadIsCurrent'
    BY <1>1, <2>4 DEF Agreement, ReadIsCurrent
  <2>8. AccountIsThere'
    BY <1>1, <2>4 DEF Agreement, AccountIsThere
  <2> QED BY <1>5, <1>7, <2>6, <2>7, <2>8 DEF Agreement
<1> QED BY <1>2, <1>8, <1>9, <1>10

LEMMA RoutesAgree ==
    ASSUME PInv, Apart, Apart', Agreement, Routes
    PROVE  Agreement'
<1>0. FlowsTyped /\ FilesTyped /\ RequestsTyped
  BY OAuthParts DEF PInv, Typed
<1>1. CASE OauthStatus
  <2>1. /\ UNCHANGED <<jobs, file, dirs, agents, provider, owed, flow, disconnect, was, sync, entry,
                       shared>>
        /\ (status = "completed" /\ status' = "idle") \/ (status' = status /\ adding' = adding)
    BY <1>1 DEF OauthStatus, files, off, writer
  <2>2. OneUpdate' /\ FilesAgree'
    BY <2>1 DEF Agreement, OneUpdate, FilesAgree, Merging, SyncUpdate
  <2>3. ReadIsCurrent' /\ AgentsServed'
    BY <2>1 DEF Agreement, ReadIsCurrent, AgentsServed
  <2>4. AccountIsThere'
    BY <2>1 DEF Agreement, AccountIsThere
  <2> QED BY <2>2, <2>3, <2>4 DEF Agreement
<1>2. CASE AddProvider
  <2>1. /\ UNCHANGED <<jobs, file, dirs, agents, status, flow, disconnect, was, sync, entry, shared>>
        /\ adding /\ owed' = TRUE /\ adding' = FALSE
    BY <1>2 DEF AddProvider, files, off, writer, service
  <2>2. OneUpdate' /\ FilesAgree'
    BY <2>1 DEF Agreement, OneUpdate, FilesAgree, Merging, SyncUpdate
  <2>3. ReadIsCurrent' /\ AgentsServed'
    BY <2>1 DEF Agreement, ReadIsCurrent, AgentsServed
  <2>4. AccountIsThere'
    BY <2>1 DEF Agreement, AccountIsThere, Apart
  <2> QED BY <2>2, <2>3, <2>4 DEF Agreement
<1>3. CASE Refetch
  BY <1>3, Unmoved DEF Refetch, service, files, config, off, writer
<1>4. CASE RequestDisconnect
  <2>1. /\ UNCHANGED <<jobs, file, dirs, agents, provider, owed, adding, status, flow, sync, entry,
                       shared>>
        /\ disconnect = "idle" /\ disconnect' = "found" /\ was' = ProviderStatus
    BY <1>4 DEF RequestDisconnect, files, config, writer, service
  <2>2. OneUpdate' /\ FilesAgree'
    BY <2>1 DEF Agreement, OneUpdate, FilesAgree, Merging, SyncUpdate
  <2>3. ReadIsCurrent' /\ AgentsServed'
    BY <2>1 DEF Agreement, ReadIsCurrent, AgentsServed
  <2>4. provider => file["shared"] # NoFlow /\ was'
    BY <2>1 DEF Agreement, AccountIsThere, ProviderStatus
  <2>5. AccountIsThere'
    BY <2>1, <2>4 DEF Agreement, AccountIsThere
  <2> QED BY <2>2, <2>3, <2>5 DEF Agreement
<1>5. CASE DisconnectOAuth
  <2>1. /\ UNCHANGED <<file, dirs, agents, provider, owed, adding, status, flow, was, sync, entry,
                       shared>>
        /\ disconnect = "found" /\ disconnect' = "removing"
        /\ Enqueue(DisconnectUpdate, {"shared"} \cup dirs)
    BY <1>5 DEF DisconnectOAuth, DisconnectUpdate, config, writer, service
  <2>2. /\ sync = "idle" /\ status # "completed" /\ ~adding /\ ~Merging
        /\ \A f \in Flows : flow[f] # "merging"
    BY <2>1 DEF Apart, WritesFiles, Merging
  <2>3. \A x \in Files : jobs[x] = <<>>
    BY <2>1, <2>2, NothingQueued DEF Agreement
  <2>4. \A x \in Files : jobs'[x] = IF x \in {"shared"} \cup dirs THEN <<DisconnectUpdate>> ELSE <<>>
    <3>1. {"shared"} \cup dirs \in SUBSET Files
      BY <1>0, FlowNumbers DEF FilesTyped
    <3> QED BY <1>0, <2>1, <2>3, <3>1, EnqueuedOnly, LoginUpdates
  <2>5. OneUpdate'
    BY <2>1, <2>4 DEF OneUpdate, DisconnectUpdate
  <2>6. FilesAgree'
    <3>1. \A x \in {"shared"} \cup dirs : jobs'[x] # <<>>
      BY <1>0, <2>4, FlowNumbers, AppendsOne DEF FilesTyped
    <3> QED BY <2>1, <2>2, <3>1 DEF Agreement, FilesAgree
  <2>7. ReadIsCurrent' /\ AgentsServed'
    BY <2>1, <2>2 DEF Agreement, ReadIsCurrent, AgentsServed
  <2>8. AccountIsThere'
    BY <2>1, <2>2 DEF Agreement, AccountIsThere
  <2> QED BY <2>5, <2>6, <2>7, <2>8 DEF Agreement
<1>6. CASE Disconnected
  <2>1. /\ UNCHANGED <<jobs, file, dirs, agents, adding, status, flow, was, sync, entry, shared>>
        /\ disconnect = "removing" /\ ~Awaits("disconnect", NoFlow) /\ disconnect' = "idle"
        /\ provider' = (provider /\ ~was) /\ (owed => owed')
    BY <1>6 DEF Disconnected, files, writer, service
  <2>2. /\ sync = "idle" /\ status # "completed" /\ ~adding
        /\ \A f \in Flows : flow[f] # "merging"
    BY <2>1 DEF Apart, WritesFiles
  <2>3. ASSUME NEW x \in Files PROVE jobs[x] = <<>>
    <3>1. jobs[x] # <<>> => jobs[x] = <<DisconnectUpdate>>
      BY <2>2 DEF Agreement, OneUpdate
    <3>2. jobs[x] = <<DisconnectUpdate>> => Awaits(DisconnectUpdate.by, DisconnectUpdate.put)
      BY LoginUpdates, Awaited
    <3>3. DisconnectUpdate.by = "disconnect" /\ DisconnectUpdate.put = NoFlow
      BY DEF DisconnectUpdate
    <3> QED BY <2>1, <3>1, <3>2, <3>3
  <2>4. \A x \in {"shared"} \cup dirs : file[x] = NoFlow
    BY <1>0, <2>1, <2>3, FlowNumbers DEF Agreement, FilesAgree, FilesTyped
  <2>5. OneUpdate'
    BY <2>1, <2>3 DEF OneUpdate
  <2>6. FilesAgree'
    BY <2>1, <2>2, <2>4 DEF Agreement, FilesAgree
  <2>7. ReadIsCurrent' /\ AgentsServed'
    BY <2>1, <2>2 DEF Agreement, ReadIsCurrent, AgentsServed
  <2>8. ~provider'
    BY <2>1 DEF Agreement, AccountIsThere
  <2>9. AccountIsThere'
    BY <2>1, <2>2, <2>8 DEF AccountIsThere
  <2> QED BY <2>5, <2>6, <2>7, <2>9 DEF Agreement
<1> QED BY <1>1, <1>2, <1>3, <1>4, <1>5, <1>6 DEF Routes

LEMMA SyncAgrees ==
    ASSUME PInv, Apart, Apart', Agreement, Sync
    PROVE  Agreement'
<1>0. FlowsTyped /\ FilesTyped /\ RequestsTyped
  BY OAuthParts DEF PInv, Typed
<1>1. CASE StartSync
  <2>1. /\ UNCHANGED <<jobs, file, dirs, agents, provider, adding, status, flow, disconnect, was,
                       shared>>
        /\ sync = "idle" /\ sync' = "entries"
    BY <1>1 DEF StartSync, files, off, service
  <2>2. disconnect = "idle" /\ ~Merging
    BY <2>1 DEF Apart, WritesFiles, Merging
  <2>3. entry' \in {NoFlow, file["shared"]}
    BY <1>0, <1>1, <2>2, ReadEntry DEF Agreement, FilesAgree
  <2>4. OneUpdate' /\ FilesAgree'
    BY <2>1 DEF Agreement, OneUpdate, FilesAgree, Merging
  <2>5. ReadIsCurrent' /\ AgentsServed'
    BY <2>1, <2>3 DEF ReadIsCurrent, AgentsServed
  <2>6. AccountIsThere'
    BY <2>1 DEF Agreement, AccountIsThere
  <2> QED BY <2>4, <2>5, <2>6 DEF Agreement
<1>2. CASE ReadShared
  <2>1. /\ UNCHANGED <<jobs, file, dirs, agents, provider, owed, adding, status, flow, disconnect,
                       was, entry>>
        /\ sync = "entries" /\ sync' = "shared" /\ shared' = file["shared"]
    BY <1>2 DEF ReadShared, files, config, off, service
  <2>2. OneUpdate' /\ FilesAgree'
    BY <2>1 DEF Agreement, OneUpdate, FilesAgree, Merging
  <2>3. ReadIsCurrent' /\ AgentsServed'
    BY <2>1 DEF Agreement, ReadIsCurrent, AgentsServed
  <2>4. AccountIsThere'
    BY <2>1 DEF Agreement, AccountIsThere
  <2> QED BY <2>2, <2>3, <2>4 DEF Agreement
<1>3. CASE WriteForAgents
  <2>1. /\ UNCHANGED <<file, dirs, agents, provider, owed, adding, status, flow, disconnect, was,
                       entry, shared>>
        /\ sync = "shared" /\ sync' = "writing" /\ Enqueue(SyncUpdate, agents)
    BY <1>3 DEF WriteForAgents, SyncUpdate, config, off, service
  <2>2. disconnect = "idle" /\ ~Merging /\ \A f \in Flows : flow[f] # "merging"
    BY <2>1 DEF Apart, WritesFiles, Merging
  <2>3. \A x \in Files : jobs[x] = <<>>
    BY <2>1, <2>2, NothingQueued DEF Agreement
  <2>4. \A x \in Files : jobs'[x] = IF x \in agents THEN <<SyncUpdate>> ELSE <<>>
    <3>1. agents \in SUBSET Files
      BY <1>0, FlowNumbers DEF FilesTyped
    <3> QED BY <1>0, <2>1, <2>3, <3>1, EnqueuedOnly, LoginUpdates
  <2>5. OneUpdate'
    BY <1>0, <2>1, <2>4 DEF OneUpdate, SyncUpdate, FilesTyped
  <2>6. FilesAgree'
    BY <2>1, <2>2 DEF Agreement, FilesAgree, Merging
  <2>7. \A a \in agents : jobs'[a] # <<>>
    BY <1>0, <2>4, FlowNumbers, AppendsOne DEF FilesTyped
  <2>8. ReadIsCurrent' /\ AgentsServed'
    BY <2>1, <2>7 DEF Agreement, ReadIsCurrent, AgentsServed
  <2>9. AccountIsThere'
    BY <2>1 DEF Agreement, AccountIsThere
  <2> QED BY <2>5, <2>6, <2>8, <2>9 DEF Agreement
<1>4. CASE Written
  <2>1. /\ UNCHANGED <<jobs, file, dirs, agents, provider, owed, adding, status, flow, disconnect, was>>
        /\ sync = "writing" /\ ~Awaits("sync", entry) /\ sync' = "idle"
    BY <1>4 DEF Written, files, config, off, service
  <2>2. disconnect = "idle" /\ \A f \in Flows : flow[f] # "merging"
    BY <2>1 DEF Apart, WritesFiles
  <2>3. ASSUME NEW x \in Files PROVE jobs[x] = <<>>
    <3>1. jobs[x] # <<>> => jobs[x] = <<SyncUpdate>>
      BY <2>2 DEF Agreement, OneUpdate
    <3>2. jobs[x] = <<SyncUpdate>> => Awaits(SyncUpdate.by, SyncUpdate.put)
      BY <1>0, LoginUpdates, Awaited
    <3>3. SyncUpdate.by = "sync" /\ SyncUpdate.put = entry
      BY DEF SyncUpdate
    <3> QED BY <2>1, <3>1, <3>2, <3>3
  <2>4. OneUpdate'
    BY <2>1, <2>3 DEF OneUpdate
  <2>5. FilesAgree'
    BY <2>1 DEF Agreement, FilesAgree, Merging
  <2>6. AgentsServed'
    BY <1>0, <2>1, <2>3, FlowNumbers DEF Agreement, AgentsServed, FilesTyped
  <2>7. ReadIsCurrent' /\ AccountIsThere'
    BY <2>1 DEF Agreement, ReadIsCurrent, AccountIsThere
  <2> QED BY <2>4, <2>5, <2>6, <2>7 DEF Agreement
<1> QED BY <1>1, <1>2, <1>3, <1>4 DEF Sync

LEMMA AddAgentAgrees ==
    ASSUME PInv, Agreement, NEW a \in Agents, AddAgent(a)
    PROVE  Agreement'
<1>1. /\ UNCHANGED <<jobs, file, dirs, provider, adding, status, flow, disconnect, was, sync, entry,
                     shared>>
      /\ owed' = TRUE
  BY DEF AddAgent, files, off, writer, service
<1>2. OneUpdate' /\ FilesAgree'
  BY <1>1 DEF Agreement, OneUpdate, FilesAgree, Merging, SyncUpdate
<1>3. ReadIsCurrent' /\ AgentsServed'
  BY <1>1 DEF Agreement, ReadIsCurrent, AgentsServed
<1>4. AccountIsThere'
  BY <1>1 DEF Agreement, AccountIsThere
<1> QED BY <1>2, <1>3, <1>4 DEF Agreement

LEMMA QInvInit == OAuthInit => QInv
<1> SUFFICES ASSUME OAuthInit PROVE QInv
  OBVIOUS
<1>1. PInv
  BY OAuthStarts
<1>2. ~Clash
  <2>1. {f \in Flows : flow[f] \in {"exchanging", "listing", "merging"}} = {}
    BY DEF OAuthInit
  <2>2. ~(Cardinality({}) > 1)
    BY FS_EmptySet
  <2> QED BY <2>1, <2>2 DEF OAuthInit, Clash
<1>3. OneUpdate /\ FilesAgree
  BY LoginConstants, FlowNumbers DEF OAuthInit, OneUpdate, FilesAgree, Merging, Files
<1>4. ReadIsCurrent /\ AgentsServed /\ AccountIsThere
  BY DEF OAuthInit, ReadIsCurrent, AgentsServed, AccountIsThere
<1> QED BY <1>1, <1>2, <1>3, <1>4 DEF QInv, Agreement

LEMMA QInvStep == QInv /\ [OAuthNext]_oauthVars => QInv'
<1> SUFFICES ASSUME QInv, [OAuthNext]_oauthVars PROVE QInv'
  OBVIOUS
<1>0. PInv /\ PInv' /\ (~clashed => ~Clash /\ Agreement)
  BY PInvStep DEF QInv
<1>1. SUFFICES ASSUME ~clashed' PROVE ~Clash' /\ Agreement'
  BY <1>0 DEF QInv
<1>2. CASE UNCHANGED oauthVars
  <2>1. UNCHANGED <<jobs, file, dirs, agents, owed, provider, adding, was, disconnect, status,
                    sync, entry, shared, flow, clashed>>
    BY <1>2 DEF oauthVars, service, files, config, off, writer
  <2>2. ~Clash'
    BY <1>0, <1>1, <2>1 DEF Clash
  <2> QED BY <1>0, <1>1, <2>1, <2>2, Unmoved
<1>3. CASE OAuthNext
  <2>1. clashed' = (clashed \/ Clash')
    BY <1>3 DEF OAuthNext, Noted
  <2>2. Agreement /\ ~Clash /\ ~Clash'
    BY <1>0, <1>1, <2>1
  <2>3. Apart /\ Apart'
    BY <2>2, ClashFree, ClashFreeNext
  <2>4. CASE Noted(StartOAuthFlow) \/ Noted(Routes) \/ Noted(Sync)
    BY <1>0, <2>2, <2>3, <2>4, StartAgrees, RoutesAgree, SyncAgrees DEF Noted
  <2>5. ASSUME NEW f \in Flows, Noted(Login(f)) PROVE Agreement'
    BY <1>0, <2>2, <2>3, <2>5, LoginAgrees DEF Noted
  <2>6. ASSUME NEW f \in Files, Noted(Update(f)) PROVE Agreement'
    BY <1>0, <2>2, <2>3, <2>6, UpdateAgrees DEF Noted
  <2>7. ASSUME NEW a \in Agents, Noted(AddAgent(a)) PROVE Agreement'
    BY <1>0, <2>2, <2>7, AddAgentAgrees DEF Noted
  <2> QED BY <1>3, <2>2, <2>4, <2>5, <2>6, <2>7 DEF OAuthNext
<1> QED BY <1>2, <1>3

\* The inductive invariant, for any agents and any number of logins.
THEOREM OAuthInvariance == OAuthSpec => []QInv
BY QInvInit, QInvStep, PTL DEF OAuthSpec

\* At rest all agents use the account of the shared file, and a provider in the config has one
\* (QuietProfilesAgree), for any agents, logins, disconnects and syncs that did not overlap.
THEOREM AgentsAgree == OAuthSpec => []QuietProfilesAgree
<1>1. QInv => QuietProfilesAgree
  <2> SUFFICES ASSUME QInv, Quiet, ~clashed
               PROVE  /\ \A a \in agents : file[a] = file["shared"]
                      /\ provider => file["shared"] # NoFlow
    BY DEF QuietProfilesAgree
  <2>1. Agreement /\ ~Merging /\ disconnect = "idle" /\ sync = "idle" /\ ~owed
    BY DEF QInv, Quiet, Merging
  <2>2. agents \subseteq dirs
    BY <2>1 DEF Agreement, AgentsServed
  <2> QED BY <2>1, <2>2 DEF Agreement, FilesAgree, AccountIsThere
<1> QED BY <1>1, OAuthInvariance, PTL

================================================================================
