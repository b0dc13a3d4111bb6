--------------------------- MODULE ConfigSyncProofs ---------------------------
(***************************************************************************)
(* What the debounce guarantees for any number of callers and however slow *)
(* or faulty the syncs are: types, and that two debounced syncs are never  *)
(* in flight together.  Then what holds while no two syncs overlap: the    *)
(* file follows the sources, and the gateway's skills follow the file.     *)
(***************************************************************************)
EXTENDS ConfigSync, FiniteSetTheorems, TLAPS

(***************************************************************************)
(* The inductive invariant.                                                *)
(***************************************************************************)

\* pendingSync names the one debounced sync that is in flight.
PendingIsInFlight == \A c \in Callers : c \in InFlight => pendingSync = c

\* A timer runs only when no debounced sync does.
TimerAlone == timer # None => pendingSync = None

Debounced == PendingIsInFlight /\ TimerAlone

IInv == TypeOK /\ Debounced

(***************************************************************************)
(* The parts of the state, by who writes them.                             *)
(***************************************************************************)

\* What the callers, the debounce and the settling write.
CallsOK ==
    /\ caller \in [Callers -> CallerPhases]
    /\ timer \in Callers \cup {None} /\ pendingSync \in Callers \cup {None}
    /\ settling \in BOOLEAN /\ settlingDirty \in BOOLEAN
    /\ boot \in {"preparing", "syncing", "synced"}

\* What the syncs write.
DataOK ==
    /\ source \in Docs
    /\ disk \in Contents /\ lastWritten \in Contents /\ lastPushed \in Docs \cup {NoDoc}
    /\ lastSkills \in Values
    /\ gateway \in [up : BOOLEAN, link : BOOLEAN, skills : Values]
    /\ gateway.link => gateway.up
    /\ faults \in 0 .. MaxFaults /\ drops \in 0 .. MaxDrops
    /\ fresh \in [Callers -> (SUBSET Values) \X (SUBSET Values)]
    /\ blind \in SUBSET Syncs /\ lapsed \in {"no", "early", "late"} /\ missed \in BOOLEAN

SyncsOK == sync \in [Syncs -> SyncStates]

LEMMA TypeParts == TypeOK <=> CallsOK /\ DataOK /\ SyncsOK
  BY DEF TypeOK, CallsOK, DataOK, SyncsOK

LEMMA TypePartsNext == CallsOK' /\ DataOK' /\ SyncsOK' => TypeOK'
  BY DEF TypeOK, CallsOK, DataOK, SyncsOK

LEMMA Names == None \notin Syncs /\ "boot" \in Syncs /\ "flush" \in Syncs /\ Callers \subseteq Syncs
  BY SyncConstants DEF Syncs, None

(***************************************************************************)
(* The debounce.                                                           *)
(***************************************************************************)

\* Those who reach the last part of syncAll() leave one timer or none.
LEMMA ArmKeeps ==
    ASSUME NEW phases \in [Callers -> CallerPhases], NEW ready \in SUBSET Callers,
           timer \in Callers \cup {None}, Arm(phases, ready)
    PROVE  /\ caller' \in [Callers -> CallerPhases]
           /\ timer' \in Callers \cup {None}
           /\ ready = {} => timer' = timer
  BY DEF Arm, CallerPhases

\* A step within a sync.
LEMMA GoKeeps ==
    ASSUME SyncsOK, NEW i \in Syncs, NEW step \in Steps, Go(i, step)
    PROVE  /\ SyncsOK'
           /\ \A j \in Syncs \ {i} : sync'[j] = sync[j]
           /\ sync'[i].step = step
  BY DEF SyncsOK, SyncStates, Go

\* A debounced sync that is not the pending one cannot end: the others are not
\* in flight.
LEMMA EndsKeeps ==
    ASSUME IInv, NEW i \in Syncs, NEW outcome \in {"ok", "failed"}, Ends(i, outcome)
    PROVE  CallsOK' /\ SyncsOK' /\ Debounced'
  <1>0. CallsOK /\ SyncsOK
    BY TypeParts DEF IInv
  <1> DEFINE mine(c) == c = i \/ (i = "flush" /\ caller[c] = "flushing")
             told == [c \in Callers |->
                       IF ~mine(c) THEN caller[c]
                       ELSE IF outcome = "ok" THEN "resolved" ELSE "rejected"]
             woken == IF i = pendingSync THEN {c \in Callers : caller[c] = "waiting"} ELSE {}
  <1>1. /\ Go(i, outcome) /\ Arm(told, woken)
        /\ pendingSync' = IF i = pendingSync THEN None ELSE pendingSync
        /\ boot' = IF i = "boot" THEN "synced" ELSE boot
        /\ settling' = (settling \/ i = "boot")
        /\ settlingDirty' = (settlingDirty /\ i # "boot")
    BY DEF Ends
  <1>2. told \in [Callers -> CallerPhases] /\ woken \in SUBSET Callers
    BY <1>0 DEF CallsOK, CallerPhases
  <1> HIDE DEF told, woken
  <1>3. /\ caller' \in [Callers -> CallerPhases] /\ timer' \in Callers \cup {None}
        /\ woken = {} => timer' = timer
    BY <1>0, <1>1, <1>2, ArmKeeps DEF CallsOK
  <1>4. CallsOK'
    BY <1>0, <1>1, <1>3 DEF CallsOK
  <1>5. /\ SyncsOK' /\ sync'[i].step = outcome
        /\ \A j \in Syncs \ {i} : sync'[j] = sync[j]
    BY <1>0, <1>1, GoKeeps DEF Steps
  <1>6. PendingIsInFlight'
    <2> SUFFICES ASSUME NEW c \in Callers, c \in InFlight' PROVE pendingSync' = c
      BY DEF PendingIsInFlight
    <2>1. c # i /\ c \in InFlight
      BY <1>5, Names DEF InFlight
    <2>2. pendingSync = c
      BY <2>1 DEF IInv, Debounced, PendingIsInFlight
    <2> QED
      BY <1>1, <2>1, <2>2
  <1>7. TimerAlone'
    BY <1>1, <1>3 DEF IInv, Debounced, TimerAlone, woken
  <1> QED
    BY <1>4, <1>5, <1>6, <1>7 DEF Debounced

\* Steps that neither start nor end a debounced sync.
LEMMA DebounceLeftAlone ==
    ASSUME Debounced, InFlight' \cap Callers \subseteq InFlight,
           UNCHANGED pendingSync, timer' = timer \/ pendingSync = None
    PROVE  Debounced'
  <1>1. TimerAlone'
    BY DEF Debounced, TimerAlone
  <1>2. PendingIsInFlight'
    <2> SUFFICES ASSUME NEW c \in Callers, c \in InFlight' PROVE pendingSync' = c
      BY DEF PendingIsInFlight
    <2> QED
      BY DEF Debounced, PendingIsInFlight
  <1> QED
    BY <1>1, <1>2 DEF Debounced

\* A step within a sync in flight leaves the debounce alone.
LEMMA StepLeavesAlone ==
    ASSUME IInv, NEW i \in Syncs, i \in InFlight,
           \A j \in Syncs \ {i} : sync'[j] = sync[j],
           UNCHANGED <<caller, service, boot>>
    PROVE  CallsOK' /\ Debounced'
  <1>1. InFlight' \cap Callers \subseteq InFlight
    BY DEF InFlight
  <1> QED
    BY <1>1, TypeParts, DebounceLeftAlone DEF IInv, CallsOK, service

(***************************************************************************)
(* Each action preserves the invariant.                                    *)
(***************************************************************************)

LEMMA EditKeeps ==
    ASSUME IInv, NEW c \in Callers, Edit(c) PROVE IInv'
  <1>0. CallsOK /\ DataOK /\ SyncsOK
    BY TypeParts DEF IInv
  <1>1. CallsOK' /\ SyncsOK' /\ Debounced'
    <2>1. InFlight' = InFlight /\ UNCHANGED service
      BY DEF Edit, InFlight
    <2> QED
      BY <1>0, <2>1, DebounceLeftAlone
         DEF IInv, Edit, CallsOK, SyncsOK, CallerPhases, service
  <1>2. source' \in Docs
    BY <1>0 DEF Edit, DataOK, Docs
  <1>3. fresh' \in [Callers -> (SUBSET Values) \X (SUBSET Values)]
    <2> SUFFICES ASSUME NEW d \in Callers
                 PROVE  <<fresh[d][1] \cup {source'[1]}, fresh[d][2] \cup {source'[2]}>>
                            \in (SUBSET Values) \X (SUBSET Values)
      BY <1>0 DEF Edit, DataOK
    <2>1. fresh[d] \in (SUBSET Values) \X (SUBSET Values)
      BY <1>0 DEF DataOK
    <2> QED
      BY <1>2, <2>1 DEF Docs
  <1>4. DataOK'
    BY <1>0, <1>2, <1>3 DEF Edit, DataOK, caches, bounds, misses
  <1> QED
    BY <1>1, <1>4, TypePartsNext DEF IInv

LEMMA SyncAllKeeps ==
    ASSUME IInv, NEW c \in Callers, SyncAll(c) PROVE IInv'
  <1>0. CallsOK /\ DataOK /\ SyncsOK
    BY TypeParts DEF IInv
  <1>1. DataOK'
    <2>1. source[1] \in Values /\ source[2] \in Values
      BY <1>0 DEF DataOK, Docs
    <2>2. fresh' \in [Callers -> (SUBSET Values) \X (SUBSET Values)]
      BY <1>0, <2>1 DEF SyncAll, DataOK
    <2> QED
      BY <1>0, <2>2 DEF SyncAll, DataOK, caches, bounds, misses
  <1>2. UNCHANGED <<pendingSync, settling, boot, sync>>
    BY DEF SyncAll
  <1>3. SyncsOK' /\ InFlight' = InFlight
    BY <1>0, <1>2 DEF SyncsOK, InFlight
  <1>4. /\ caller' \in [Callers -> CallerPhases] /\ timer' \in Callers \cup {None}
        /\ settlingDirty' \in BOOLEAN
        /\ timer' = timer \/ pendingSync = None
    <2>1. CASE settlingDirty' = TRUE /\ caller' = [caller EXCEPT ![c] = "deferred"]
               /\ UNCHANGED timer
      BY <1>0, <2>1 DEF CallsOK, CallerPhases
    <2>2. CASE caller' = [caller EXCEPT ![c] = "waiting"]
               /\ UNCHANGED <<timer, settlingDirty>>
      BY <1>0, <2>2 DEF CallsOK, CallerPhases
    <2>3. CASE pendingSync = None /\ Arm(caller, {c}) /\ UNCHANGED settlingDirty
      BY <1>0, <2>3, ArmKeeps DEF CallsOK
    <2> QED
      BY <2>1, <2>2, <2>3 DEF SyncAll
  <1>5. CallsOK'
    BY <1>0, <1>2, <1>4 DEF CallsOK
  <1>6. Debounced'
    BY <1>2, <1>3, <1>4, DebounceLeftAlone DEF IInv
  <1> QED
    BY <1>1, <1>3, <1>5, <1>6, TypePartsNext DEF IInv

\* A sync that starts writes nothing yet.
LEMMA StartSyncKeeps ==
    ASSUME DataOK, SyncsOK, NEW i \in Syncs, StartSync(i)
    PROVE  /\ DataOK' /\ SyncsOK'
           /\ InFlight' \subseteq InFlight \cup {i}
  <1>1. SyncsOK' /\ InFlight' \subseteq InFlight \cup {i}
    BY DEF SyncsOK, SyncStates, Steps, StartSync, InFlight
  <1>2. DataOK'
    BY DEF DataOK, StartSync, caches, bounds, misses
  <1> QED
    BY <1>1, <1>2

\* The timer's sync is the only debounced one: none was in flight while it ran.
LEMMA TimerFiresKeeps ==
    ASSUME IInv, TimerFires PROVE IInv'
  <1>0. CallsOK /\ DataOK /\ SyncsOK
    BY TypeParts DEF IInv
  <1>1. PICK c \in Callers :
          /\ timer = c /\ timer' = None /\ pendingSync' = c
          /\ caller' = [caller EXCEPT ![c] = "syncing"]
          /\ StartSync(c)
          /\ UNCHANGED <<settling, settlingDirty, boot>>
    BY DEF TimerFires
  <1>2. DataOK' /\ SyncsOK' /\ InFlight' \subseteq InFlight \cup {c}
    BY <1>0, <1>1, Names, StartSyncKeeps
  <1>3. CallsOK'
    BY <1>0, <1>1 DEF CallsOK, CallerPhases
  <1>4. \A d \in Callers : d \notin InFlight
    BY <1>1, Names DEF IInv, Debounced, PendingIsInFlight, TimerAlone
  <1>5. Debounced'
    BY <1>1, <1>2, <1>4 DEF Debounced, PendingIsInFlight, TimerAlone
  <1> QED
    BY <1>2, <1>3, <1>5, TypePartsNext DEF IInv

\* Bootstrap's sync and the one that ends settling are no debounced ones.
LEMMA OtherSyncKeeps ==
    ASSUME IInv, NEW i \in {"boot", "flush"}, StartSync(i)
    PROVE  /\ DataOK' /\ SyncsOK'
           /\ UNCHANGED <<timer, pendingSync>> => Debounced'
  <1>1. DataOK' /\ SyncsOK' /\ InFlight' \subseteq InFlight \cup {i}
    BY TypeParts, Names, StartSyncKeeps DEF IInv
  <1>2. InFlight' \cap Callers \subseteq InFlight
    BY <1>1, SyncConstants
  <1> QED
    BY <1>1, <1>2, DebounceLeftAlone DEF IInv

LEMMA BootSyncKeeps ==
    ASSUME IInv, BootSync PROVE IInv'
  <1>1. StartSync("boot") /\ boot' = "syncing" /\ UNCHANGED <<caller, service>>
    BY DEF BootSync
  <1>2. DataOK' /\ SyncsOK' /\ Debounced'
    BY <1>1, OtherSyncKeeps DEF service
  <1>3. CallsOK'
    BY <1>1, TypeParts DEF IInv, CallsOK, service
  <1> QED
    BY <1>2, <1>3, TypePartsNext DEF IInv

LEMMA EndSettlingKeeps ==
    ASSUME IInv, EndSettling PROVE IInv'
  <1>0. CallsOK /\ DataOK /\ SyncsOK
    BY TypeParts DEF IInv
  <1>1. settling' = FALSE /\ settlingDirty' = FALSE /\ UNCHANGED <<timer, pendingSync, boot>>
    BY DEF EndSettling
  <1>2. CASE settlingDirty
    <2>1. /\ StartSync("flush")
          /\ caller' = [c \in Callers |->
                          IF caller[c] = "deferred" THEN "flushing" ELSE caller[c]]
      BY <1>2 DEF EndSettling
    <2>2. DataOK' /\ SyncsOK' /\ Debounced'
      BY <1>1, <2>1, OtherSyncKeeps
    <2>3. CallsOK'
      BY <1>0, <1>1, <2>1 DEF CallsOK, CallerPhases
    <2> QED
      BY <2>2, <2>3, TypePartsNext DEF IInv
  <1>3. CASE ~settlingDirty
    <2>1. UNCHANGED <<source, caller, sync, disk, caches, gateway, bounds, fresh, misses>>
      BY <1>3 DEF EndSettling
    <2>2. InFlight' = InFlight
      BY <2>1 DEF InFlight
    <2>3. Debounced'
      BY <1>1, <2>2, DebounceLeftAlone DEF IInv
    <2>4. CallsOK' /\ DataOK' /\ SyncsOK'
      BY <1>0, <1>1, <2>1 DEF CallsOK, DataOK, SyncsOK, caches, bounds, misses
    <2> QED
      BY <2>3, <2>4, TypePartsNext DEF IInv
  <1> QED
    BY <1>2, <1>3

LEMMA LoadConfigKeeps ==
    ASSUME IInv, NEW i \in Syncs, LoadConfig(i) PROVE IInv'
  <1>0. CallsOK /\ DataOK /\ SyncsOK
    BY TypeParts DEF IInv
  <1>1. <<source[1], sync[i].doc[2]>> \in Docs
    BY <1>0 DEF DataOK, SyncsOK, SyncStates, Docs
  <1>2. sync' = [sync EXCEPT ![i].step = "compile", ![i].doc = <<source[1], @[2]>>]
    BY DEF LoadConfig
  <1>3. SyncsOK' /\ \A j \in Syncs \ {i} : sync'[j] = sync[j]
    <2>1. sync[i] \in SyncStates
      BY <1>0 DEF SyncsOK
    <2>2. [sync[i] EXCEPT !.step = "compile", !.doc = <<source[1], sync[i].doc[2]>>]
             \in SyncStates
      BY <1>1, <2>1 DEF SyncStates, Steps
    <2>3. sync' = [sync EXCEPT ![i] = [sync[i] EXCEPT !.step = "compile",
                                                  !.doc = <<source[1], sync[i].doc[2]>>]]
      BY <1>0, <1>2, <2>1 DEF SyncsOK, SyncStates
    <2> QED
      BY <1>0, <2>2, <2>3 DEF SyncsOK
  <1>4. CallsOK' /\ Debounced'
    BY <1>3, StepLeavesAlone DEF LoadConfig, At, InFlight
  <1>5. DataOK'
    BY <1>0 DEF LoadConfig, DataOK, caches, bounds, misses
  <1> QED
    BY <1>3, <1>4, <1>5, TypePartsNext DEF IInv

LEMMA CompileKeeps ==
    ASSUME IInv, NEW i \in Syncs, Compile(i) PROVE IInv'
  <1>0. CallsOK /\ DataOK /\ SyncsOK
    BY TypeParts DEF IInv
  <1> DEFINE doc == <<sync[i].doc[1], source[2]>>
  <1>1. doc \in Docs
    BY <1>0 DEF DataOK, SyncsOK, SyncStates, Docs
  <1>2. sync' = [sync EXCEPT ![i] = [step |-> "compare", doc |-> doc,
                                     push |-> gateway.link /\ doc # lastPushed]]
    BY DEF Compile
  <1>3. (gateway.link /\ doc # lastPushed) \in BOOLEAN
    OBVIOUS
  <1> HIDE DEF doc
  <1>4. SyncsOK' /\ \A j \in Syncs \ {i} : sync'[j] = sync[j]
    BY <1>0, <1>1, <1>2, <1>3 DEF SyncsOK, SyncStates, Steps
  <1>5. CallsOK' /\ Debounced'
    BY <1>4, StepLeavesAlone DEF Compile, At, InFlight
  <1>6. DataOK'
    <2>1. blind' \in SUBSET Syncs
      BY <1>0 DEF Compile, DataOK
    <2> QED
      BY <1>0, <2>1 DEF Compile, DataOK, caches, bounds
  <1> QED
    BY <1>4, <1>5, <1>6, TypePartsNext DEF IInv

\* A step of doSync() that goes on to the next one.
LEMMA GoesOnKeeps ==
    ASSUME IInv, NEW i \in Syncs, i \in InFlight, NEW step \in Steps, Go(i, step),
           UNCHANGED <<caller, service, boot>>
    PROVE  CallsOK' /\ SyncsOK' /\ Debounced'
  <1>1. SyncsOK' /\ \A j \in Syncs \ {i} : sync'[j] = sync[j]
    BY TypeParts, GoKeeps DEF IInv
  <1> QED
    BY <1>1, StepLeavesAlone

LEMMA CompareKeeps ==
    ASSUME IInv, NEW i \in Syncs, Compare(i) PROVE IInv'
  <1>0. CallsOK /\ DataOK /\ SyncsOK
    BY TypeParts DEF IInv
  <1>1. PICK step \in {"note", "fill"} : Go(i, step)
    BY DEF Compare
  <1>2. CallsOK' /\ SyncsOK' /\ Debounced'
    BY <1>1, GoesOnKeeps DEF Compare, At, InFlight, Steps
  <1>3. lastWritten' \in Contents /\ disk' \in Contents
    BY <1>0 DEF Compare, DataOK, Contents
  <1>4. DataOK'
    BY <1>0, <1>3 DEF Compare, DataOK, bounds, misses
  <1> QED
    BY <1>2, <1>4, TypePartsNext DEF IInv

LEMMA FillKeeps ==
    ASSUME IInv, NEW i \in Syncs, Fill(i) PROVE IInv'
  <1>0. CallsOK /\ DataOK /\ SyncsOK
    BY TypeParts DEF IInv
  <1>1. CallsOK' /\ SyncsOK' /\ Debounced'
    BY GoesOnKeeps DEF Fill, At, InFlight, Steps
  <1>2. sync[i].doc \in Docs
    BY <1>0 DEF SyncsOK, SyncStates
  <1>3. lastWritten' \in Contents /\ disk' \in Contents
    BY <1>2 DEF Fill, Contents
  <1>4. DataOK'
    BY <1>0, <1>3 DEF Fill, DataOK, bounds, misses
  <1> QED
    BY <1>1, <1>4, TypePartsNext DEF IInv

LEMMA NoteKeeps ==
    ASSUME IInv, NEW i \in Syncs, Note(i) PROVE IInv'
  <1>0. CallsOK /\ DataOK /\ SyncsOK
    BY TypeParts DEF IInv
  <1>1. CallsOK' /\ SyncsOK' /\ Debounced'
    BY GoesOnKeeps DEF Note, At, InFlight, Steps
  <1>2. lastPushed' \in Docs
    BY <1>0 DEF Note, SyncsOK, SyncStates
  <1>3. DataOK'
    BY <1>0, <1>2 DEF Note, DataOK, bounds, misses
  <1> QED
    BY <1>1, <1>3, TypePartsNext DEF IInv

LEMMA FinishKeeps ==
    ASSUME IInv, NEW i \in Syncs, Finish(i) PROVE IInv'
  <1>0. CallsOK /\ DataOK /\ SyncsOK
    BY TypeParts DEF IInv
  <1>1. sync[i].doc[2] \in Values
    BY <1>0 DEF SyncsOK, SyncStates, Docs
  <1>2. CallsOK' /\ SyncsOK' /\ Debounced' /\ lastSkills' \in Values
    <2>1. CASE Go(i, "nudge") /\ UNCHANGED <<caller, service, boot, lastSkills>>
      BY <1>0, <2>1, GoesOnKeeps DEF Finish, At, InFlight, Steps, DataOK
    <2>2. CASE Ends(i, "ok") /\ lastSkills' = sync[i].doc[2]
      BY <1>1, <2>2, EndsKeeps
    <2> QED
      BY <2>1, <2>2 DEF Finish
  <1>3. lapsed' \in {"no", "early", "late"} /\ missed' \in BOOLEAN
    BY <1>0 DEF Finish, Misses, DataOK
  <1>4. DataOK'
    BY <1>0, <1>2, <1>3 DEF Finish, DataOK, bounds
  <1> QED
    BY <1>2, <1>4, TypePartsNext DEF IInv

LEMMA NudgeKeeps ==
    ASSUME IInv, NEW i \in Syncs, Nudge(i) PROVE IInv'
  <1>0. CallsOK /\ DataOK /\ SyncsOK
    BY TypeParts DEF IInv
  <1>1. lastSkills' \in Values
    BY <1>0 DEF Nudge, SyncsOK, SyncStates, Docs
  <1>2. CallsOK' /\ SyncsOK' /\ Debounced'
    BY EndsKeeps DEF Nudge
  <1>3. /\ gateway' \in [up : BOOLEAN, link : BOOLEAN, skills : Values]
        /\ gateway'.link => gateway'.up
        /\ faults' \in 0 .. MaxFaults
    <2>1. gateway \in [up : BOOLEAN, link : BOOLEAN, skills : Values]
          /\ (gateway.link => gateway.up)
      BY <1>0 DEF DataOK
    <2>2. CASE gateway' = [gateway EXCEPT !.up = FALSE, !.link = FALSE] /\ UNCHANGED faults
      BY <1>0, <2>1, <2>2 DEF DataOK
    <2>3. CASE faults < MaxFaults /\ faults' = faults + 1 /\ UNCHANGED gateway
      BY <1>0, <2>1, <2>3, SyncConstants DEF DataOK
    <2> QED
      BY <2>2, <2>3 DEF Nudge
  <1>4. lapsed' \in {"no", "early", "late"} /\ missed' \in BOOLEAN
    BY DEF Nudge, Misses
  <1>5. DataOK'
    BY <1>0, <1>1, <1>3, <1>4 DEF Nudge, DataOK
  <1> QED
    BY <1>2, <1>5, TypePartsNext DEF IInv

LEMMA FailsKeeps ==
    ASSUME IInv, NEW i \in Syncs, Fails(i) PROVE IInv'
  <1>0. CallsOK /\ DataOK /\ SyncsOK
    BY TypeParts DEF IInv
  <1>1. CallsOK' /\ SyncsOK' /\ Debounced'
    BY EndsKeeps DEF Fails
  <1>2. lapsed' \in {"no", "early", "late"}
    BY DEF Fails
  <1>3. DataOK'
    BY <1>0, <1>2, SyncConstants DEF Fails, DataOK, caches
  <1> QED
    BY <1>1, <1>3, TypePartsNext DEF IInv

\* The gateway and its connection come and go beside all that.
LEMMA GatewayKeeps ==
    ASSUME IInv, GatewayStarts \/ LinkComesUp \/ LinkDrops PROVE IInv'
  <1>0. CallsOK /\ DataOK /\ SyncsOK
    BY TypeParts DEF IInv
  <1>1. UNCHANGED <<source, caller, service, boot, sync, disk, caches, fresh, faults>>
    BY DEF GatewayStarts, LinkComesUp, LinkDrops, bounds
  <1>2. InFlight' = InFlight
    BY <1>1 DEF InFlight
  <1>3. CallsOK' /\ SyncsOK' /\ Debounced'
    BY <1>0, <1>1, <1>2, DebounceLeftAlone DEF IInv, CallsOK, SyncsOK, service
  <1>4. drops' \in 0 .. MaxDrops
    BY <1>0, SyncConstants DEF GatewayStarts, LinkComesUp, LinkDrops, DataOK, bounds
  <1>5. /\ gateway' \in [up : BOOLEAN, link : BOOLEAN, skills : Values]
        /\ gateway'.link => gateway'.up
    <2>1. gateway \in [up : BOOLEAN, link : BOOLEAN, skills : Values]
          /\ (gateway.link => gateway.up)
      BY <1>0 DEF DataOK
    <2>2. CASE GatewayStarts
      <3>1. disk[2] \in Values
        BY <2>2 DEF GatewayStarts, Docs
      <3> QED
        BY <2>2, <3>1 DEF GatewayStarts
    <2>3. CASE LinkComesUp
      BY <2>1, <2>3 DEF LinkComesUp
    <2>4. CASE LinkDrops
      BY <2>1, <2>4 DEF LinkDrops
    <2> QED
      BY <2>2, <2>3, <2>4
  <1>6. blind' = blind /\ lapsed' = lapsed /\ missed' \in BOOLEAN
    BY <1>0 DEF GatewayStarts, LinkComesUp, LinkDrops, misses, DataOK
  <1>7. DataOK'
    BY <1>0, <1>1, <1>4, <1>5, <1>6 DEF DataOK, caches
  <1> QED
    BY <1>3, <1>7, TypePartsNext DEF IInv

(***************************************************************************)
(* The theorems.                                                           *)
(***************************************************************************)

LEMMA IInvInit == Init => IInv
  <1> SUFFICES ASSUME Init PROVE IInv
    OBVIOUS
  <1>1. CallsOK
    BY DEF Init, CallsOK, CallerPhases
  <1>2. SyncsOK
    BY DEF Init, SyncsOK, SyncStates, Steps
  <1>3. gateway \in [up : BOOLEAN, link : BOOLEAN, skills : Values] /\ ~gateway.link
    <2>1. source[2] \in Values /\ (disk # NoDoc => disk[2] \in Values)
      BY DEF Init, Docs
    <2>2. CASE disk # NoDoc /\ gateway = [up |-> TRUE, link |-> FALSE, skills |-> disk[2]]
      BY <2>1, <2>2
    <2>3. CASE gateway = [up |-> FALSE, link |-> FALSE, skills |-> source[2]]
      BY <2>1, <2>3
    <2> QED
      BY <2>2, <2>3 DEF Init
  <1>4. fresh \in [Callers -> (SUBSET Values) \X (SUBSET Values)]
    BY DEF Init
  <1>5. DataOK
    <2>1. blind \in SUBSET Syncs /\ lapsed \in {"no", "early", "late"} /\ missed \in BOOLEAN
      BY DEF Init
    <2> QED
      BY <1>3, <1>4, <2>1, SyncConstants DEF Init, DataOK, Contents
  <1>6. Debounced
    BY Names DEF Init, Debounced, PendingIsInFlight, TimerAlone, InFlight
  <1> QED
    BY <1>1, <1>2, <1>5, <1>6, TypeParts DEF IInv

LEMMA IInvStep == IInv /\ [Next]_vars => IInv'
  <1> SUFFICES ASSUME IInv, [Next]_vars PROVE IInv'
    OBVIOUS
  <1>1. ASSUME NEW c \in Callers, Edit(c) \/ SyncAll(c) PROVE IInv'
    BY <1>1, EditKeeps, SyncAllKeeps
  <1>2. CASE TimerFires \/ BootSync \/ EndSettling
    BY <1>2, TimerFiresKeeps, BootSyncKeeps, EndSettlingKeeps
  <1>3. ASSUME NEW i \in Syncs, DoSync(i) \/ Fails(i) PROVE IInv'
    BY <1>3, LoadConfigKeeps, CompileKeeps, CompareKeeps, FillKeeps, NoteKeeps,
       FinishKeeps, NudgeKeeps, FailsKeeps DEF DoSync
  <1>4. CASE GatewayStarts \/ LinkComesUp \/ LinkDrops
    BY <1>4, GatewayKeeps
  <1>5. CASE UNCHANGED vars
    BY <1>5 DEF vars, service, caches, bounds, misses, IInv, TypeOK, Debounced, PendingIsInFlight,
                TimerAlone, InFlight
  <1> QED
    BY <1>1, <1>2, <1>3, <1>4, <1>5 DEF Next

\* The inductive invariant of the debounce, for any callers, overlap and faults.
THEOREM Invariance == Spec => []IInv
  BY IInvInit, IInvStep, PTL DEF Spec

\* Callers, syncs, caches and files keep their types, with any overlap of syncs
\* and failures at any step.
THEOREM TypeCorrect == Spec => []TypeOK
  BY Invariance, PTL DEF IInv

LEMMA DebouncedAloneHolds == IInv => DebouncedAlone
  <1> SUFFICES ASSUME IInv PROVE Cardinality(InFlight \cap Callers) <= 1
    BY DEF DebouncedAlone
  <1>1. InFlight \cap Callers = {} \/ InFlight \cap Callers = {pendingSync}
    BY DEF IInv, Debounced, PendingIsInFlight
  <1>2. Cardinality({}) = 0 /\ Cardinality({pendingSync}) = 1
    BY FS_EmptySet, FS_Singleton
  <1>3. CASE InFlight \cap Callers = {}
    <2>1. Cardinality(InFlight \cap Callers) = Cardinality({})
      BY <1>3, Zenon
    <2> QED
      BY <1>2, <2>1
  <1>4. CASE InFlight \cap Callers = {pendingSync}
    BY <1>2, <1>4
  <1> QED
    BY <1>1, <1>3, <1>4

\* Two debounced syncs are never in flight together, whatever the calls and
\* however long a sync takes (syncAll() waits for pendingSync,
\* openclaw-sync-service.ts:228).
THEOREM DebouncedSyncsAlone == Spec => []DebouncedAlone
  BY Invariance, DebouncedAloneHolds, PTL

(***************************************************************************)
(* Syncs that overlap.  Neither bootstrap's sync nor the flush counts as   *)
(* in flight for the debounce, but they come one after the other, and      *)
(* every caller whose promise is open is one that something will settle.   *)
(***************************************************************************)

\* The flush ends the settling that the end of bootstrap's sync began.
Bootstrapped ==
    /\ boot = "syncing" <=> "boot" \in InFlight
    /\ settling \/ "flush" \in InFlight => boot = "synced"
    /\ "flush" \in InFlight => ~settling

\* What an open promise waits for is there.
Promised ==
    \A c \in Callers :
        /\ caller[c] = "timed" <=> timer = c
        /\ caller[c] = "waiting" => pendingSync \in InFlight
        /\ caller[c] = "syncing" <=> c \in InFlight
        /\ caller[c] = "syncing" <=> pendingSync = c
        /\ caller[c] = "deferred" => settling /\ settlingDirty
        /\ caller[c] = "flushing" => "flush" \in InFlight

PInv == IInv /\ Bootstrapped /\ Promised

\* A sync in flight goes on, or a step concerns none.
LEMMA FlightGoesOn ==
    ASSUME Bootstrapped, Promised, InFlight' = InFlight, UNCHANGED <<caller, service, boot>>
    PROVE  Bootstrapped' /\ Promised'
  BY DEF Bootstrapped, Promised, service

LEMMA GoesOnPromised ==
    ASSUME IInv, Bootstrapped, Promised, NEW i \in Syncs, i \in InFlight,
           \A j \in Syncs \ {i} : sync'[j] = sync[j],
           sync'[i].step \notin {"none", "ok", "failed"}, UNCHANGED <<caller, service, boot>>
    PROVE  Bootstrapped' /\ Promised'
  <1>1. InFlight' = InFlight
    BY DEF InFlight
  <1> QED
    BY <1>1, FlightGoesOn

LEMMA DoSyncGoesOn ==
    ASSUME IInv, NEW i \in Syncs, DoSync(i),
           ~Ends(i, "ok")
    PROVE  /\ i \in InFlight /\ \A j \in Syncs \ {i} : sync'[j] = sync[j]
           /\ sync'[i].step \notin {"none", "ok", "failed"} /\ UNCHANGED <<caller, service, boot>>
  <1>0. SyncsOK
    BY TypeParts DEF IInv
  <1>1. i \in InFlight
    BY DEF DoSync, LoadConfig, Compile, Compare, Fill, Note, Finish, Nudge, At, InFlight
  <1>2. CASE LoadConfig(i)
    BY <1>0, <1>1, <1>2 DEF LoadConfig, SyncsOK, SyncStates
  <1>3. CASE Compile(i)
    BY <1>0, <1>1, <1>3 DEF Compile, SyncsOK
  <1>4. CASE Compare(i) \/ Fill(i) \/ Note(i) \/ Finish(i) \/ Nudge(i)
    <2>1. PICK step \in {"note", "fill", "finish", "nudge"} : Go(i, step)
      BY <1>4 DEF Compare, Fill, Note, Finish, Nudge
    <2>2. UNCHANGED <<caller, service, boot>>
      BY <1>4 DEF Compare, Fill, Note, Finish, Nudge
    <2> QED
      BY <1>0, <1>1, <2>1, <2>2, GoKeeps DEF Steps
  <1> QED
    BY <1>2, <1>3, <1>4 DEF DoSync

\* A sync that ends settles the promises that waited for it, and those that waited
\* behind it share the timer or are lost to it.
LEMMA EndsPromised ==
    ASSUME IInv, Bootstrapped, Promised, NEW i \in Syncs, i \in InFlight,
           NEW outcome \in {"ok", "failed"}, Ends(i, outcome)
    PROVE  Bootstrapped' /\ Promised'
  <1>0. CallsOK /\ SyncsOK /\ TimerAlone
    BY TypeParts DEF IInv, Debounced
  <1> DEFINE mine(c) == c = i \/ (i = "flush" /\ caller[c] = "flushing")
             told == [c \in Callers |->
                       IF ~mine(c) THEN caller[c]
                       ELSE IF outcome = "ok" THEN "resolved" ELSE "rejected"]
             woken == IF i = pendingSync THEN {c \in Callers : caller[c] = "waiting"} ELSE {}
  <1>1. /\ Go(i, outcome) /\ Arm(told, woken)
        /\ pendingSync' = IF i = pendingSync THEN None ELSE pendingSync
        /\ boot' = IF i = "boot" THEN "synced" ELSE boot
        /\ settling' = (settling \/ i = "boot")
        /\ settlingDirty' = (settlingDirty /\ i # "boot")
    BY DEF Ends
  <1>2. /\ sync'[i].step = outcome
        /\ \A j \in Syncs \ {i} : sync'[j] = sync[j]
    BY <1>0, <1>1, GoKeeps DEF Steps
  <1>3. InFlight' = InFlight \ {i}
    BY <1>2 DEF InFlight
  <1>4. Bootstrapped'
    BY <1>0, <1>1, <1>3, Names DEF Bootstrapped, CallsOK
  <1>5. /\ timer' \in IF woken = {} THEN {timer} ELSE woken
        /\ \A c \in Callers : caller'[c] = IF c = timer' THEN "timed"
                                           ELSE IF c \in woken \cup {timer} THEN "lost"
                                           ELSE told[c]
    BY <1>1 DEF Arm
  <1>6. \A c \in Callers : told[c] = IF ~mine(c) THEN caller[c]
                                     ELSE IF outcome = "ok" THEN "resolved" ELSE "rejected"
    OBVIOUS
  <1>7. /\ i = pendingSync => woken = {c \in Callers : caller[c] = "waiting"} /\ timer = None
        /\ i # pendingSync => woken = {}
    BY <1>0, Names DEF TimerAlone, CallsOK
  <1>8. ASSUME NEW c \in Callers, c # i PROVE mine(c) <=> i = "flush" /\ caller[c] = "flushing"
    BY <1>8
  <1> HIDE DEF mine, told, woken
  <1>9. Promised'
    <2> SUFFICES ASSUME NEW c \in Callers
                 PROVE  /\ caller'[c] = "timed" <=> timer' = c
                        /\ caller'[c] = "waiting" => pendingSync' \in InFlight'
                        /\ caller'[c] = "syncing" <=> c \in InFlight'
                        /\ caller'[c] = "syncing" <=> pendingSync' = c
                        /\ caller'[c] = "deferred" => settling' /\ settlingDirty'
                        /\ caller'[c] = "flushing" => "flush" \in InFlight'
      BY DEF Promised
    <2>0. /\ caller[c] = "timed" <=> timer = c
          /\ caller[c] = "waiting" => pendingSync \in InFlight
          /\ caller[c] = "syncing" <=> c \in InFlight
          /\ caller[c] = "syncing" <=> pendingSync = c
          /\ caller[c] = "deferred" => settling /\ settlingDirty
          /\ caller[c] = "flushing" => "flush" \in InFlight
          /\ c # None /\ c # "boot" /\ c # "flush"
      BY Names, SyncConstants DEF Promised, Syncs
    <2>1. i = "boot" => ~settling
      BY DEF Bootstrapped
    <2>2. i \in Callers => pendingSync = i
      BY DEF IInv, Debounced, PendingIsInFlight
    <2>3. CASE c = i
      <3>1. timer # c /\ c \notin woken /\ pendingSync' = None
        BY <1>1, <1>7, <2>0, <2>2, <2>3
      <3>2. caller'[c] \in {"resolved", "rejected"} /\ timer' # c
        BY <1>5, <1>6, <2>3, <3>1 DEF mine
      <3> QED
        BY <1>3, <2>0, <2>3, <3>1, <3>2
    <2>4. CASE c # i /\ c \in woken
      <3>1. i = pendingSync /\ caller[c] = "waiting" /\ timer = None
        BY <1>7, <2>4
      <3>2. caller'[c] = IF c = timer' THEN "timed" ELSE "lost"
        BY <1>5, <2>4
      <3> QED
        BY <1>1, <1>3, <2>0, <3>1, <3>2
    <2>5. CASE c # i /\ c \notin woken
      <3>1. timer' = c <=> timer = c
        BY <1>5, <1>7, <2>0, <2>5
      <3>2. CASE i = "flush" /\ caller[c] = "flushing"
        <4>1. caller'[c] \in {"resolved", "rejected"} /\ timer' # c
          BY <1>5, <1>6, <1>8, <2>0, <2>5, <3>1, <3>2
        <4> QED
          BY <1>1, <1>3, <2>0, <2>5, <3>2, <4>1
      <3>3. CASE ~(i = "flush" /\ caller[c] = "flushing")
        <4>1. caller'[c] = caller[c]
          BY <1>5, <1>6, <1>8, <2>0, <2>5, <3>1, <3>3
        <4>2. caller[c] = "waiting" => pendingSync \in InFlight \ {i}
          BY <1>7, <2>0, <2>5
        <4> QED
          BY <1>1, <1>3, <2>0, <2>1, <2>5, <3>1, <3>3, <4>1, <4>2
      <3> QED
        BY <3>2, <3>3
    <2> QED
      BY <2>3, <2>4, <2>5
  <1> QED
    BY <1>4, <1>9

LEMMA CallsPromised ==
    ASSUME IInv, Bootstrapped, Promised, NEW c \in Callers, Edit(c) \/ SyncAll(c)
    PROVE  Bootstrapped' /\ Promised'
  <1>0. CallsOK /\ TimerAlone
    BY TypeParts DEF IInv, Debounced
  <1>1. InFlight' = InFlight /\ UNCHANGED <<pendingSync, settling, boot>>
    BY DEF Edit, SyncAll, InFlight, service
  <1>2. Bootstrapped'
    BY <1>1 DEF Bootstrapped
  <1>3. CASE Edit(c)
    <2>1. /\ UNCHANGED <<timer, settlingDirty>> /\ caller[c] = "idle" /\ caller'[c] = "edited"
          /\ \A d \in Callers \ {c} : caller'[d] = caller[d]
      BY <1>0, <1>3 DEF Edit, CallsOK, service
    <2> QED
      BY <1>1, <1>2, <2>1 DEF Promised
  <1>4. CASE SyncAll(c) /\ settling
    <2>1. /\ timer' = timer /\ settlingDirty' /\ caller[c] = "edited" /\ caller'[c] = "deferred"
          /\ \A d \in Callers \ {c} : caller'[d] = caller[d]
      BY <1>0, <1>4 DEF SyncAll, CallsOK
    <2> QED
      BY <1>1, <1>2, <1>4, <2>1 DEF Promised
  <1>5. CASE SyncAll(c) /\ ~settling /\ pendingSync # None
    <2>1. /\ UNCHANGED <<timer, settlingDirty>> /\ caller[c] = "edited" /\ caller'[c] = "waiting"
          /\ \A d \in Callers \ {c} : caller'[d] = caller[d]
      BY <1>0, <1>5 DEF SyncAll, CallsOK
    <2>2. pendingSync \in InFlight
      BY <1>0, <1>5 DEF Promised, CallsOK
    <2> QED
      BY <1>1, <1>2, <2>1, <2>2 DEF Promised
  <1>6. CASE SyncAll(c) /\ ~settling /\ pendingSync = None
    <2>1. /\ settlingDirty' = settlingDirty /\ caller[c] = "edited" /\ timer' = c
          /\ \A d \in Callers : caller'[d] = IF d = c THEN "timed"
                                             ELSE IF d = timer THEN "lost" ELSE caller[d]
      BY <1>6 DEF SyncAll, Arm
    <2> QED
      BY <1>1, <1>2, <2>1 DEF Promised
  <1> QED
    BY <1>3, <1>4, <1>5, <1>6

LEMMA StartFlies ==
    ASSUME SyncsOK, NEW i \in Syncs, StartSync(i) PROVE InFlight' = InFlight \cup {i}
  BY DEF SyncsOK, SyncStates, StartSync, InFlight

LEMMA StartsPromised ==
    ASSUME IInv, Bootstrapped, Promised, TimerFires \/ BootSync \/ EndSettling
    PROVE  Bootstrapped' /\ Promised'
  <1>0. CallsOK /\ SyncsOK
    BY TypeParts DEF IInv
  <1>1. CASE TimerFires
    <2>1. PICK c \in Callers :
            /\ timer = c /\ timer' = None /\ pendingSync' = c
            /\ caller' = [caller EXCEPT ![c] = "syncing"]
            /\ StartSync(c) /\ UNCHANGED <<settling, settlingDirty, boot>>
      BY <1>1 DEF TimerFires
    <2>2. InFlight' = InFlight \cup {c} /\ c # None /\ c # "boot" /\ c # "flush"
      BY <1>0, <2>1, StartFlies, Names, SyncConstants
    <2>3. pendingSync = None
      BY <2>1, <2>2 DEF IInv, Debounced, TimerAlone
    <2>4. /\ caller'[c] = "syncing"
          /\ \A d \in Callers \ {c} : caller'[d] = caller[d]
      BY <1>0, <2>1 DEF CallsOK
    <2>5. \A d \in Callers : caller[d] # "waiting"
      <3>1. None \notin InFlight
        BY Names DEF InFlight
      <3> QED
        BY <2>3, <3>1 DEF Promised
    <2>6. Bootstrapped'
      BY <2>1, <2>2 DEF Bootstrapped
    <2>7. Promised'
      BY <2>1, <2>2, <2>3, <2>4, <2>5, Names DEF Promised
    <2> QED
      BY <2>6, <2>7
  <1>2. CASE BootSync
    <2>1. InFlight' = InFlight \cup {"boot"} /\ UNCHANGED <<caller, service>>
          /\ boot = "preparing" /\ boot' = "syncing"
      BY <1>0, <1>2, StartFlies, Names DEF BootSync
    <2>2. Bootstrapped'
      BY <2>1 DEF Bootstrapped, service
    <2>3. Promised'
      BY <2>1, SyncConstants DEF Promised, service
    <2> QED
      BY <2>2, <2>3
  <1>3. CASE EndSettling /\ settlingDirty
    <2>1. /\ InFlight' = InFlight \cup {"flush"} /\ settling /\ ~settling'
          /\ UNCHANGED <<timer, pendingSync, boot>>
          /\ \A c \in Callers : caller'[c] = IF caller[c] = "deferred" THEN "flushing" ELSE caller[c]
      BY <1>0, <1>3, StartFlies, Names DEF EndSettling
    <2>2. Bootstrapped'
      BY <2>1 DEF Bootstrapped
    <2>3. Promised'
      BY <2>1, SyncConstants DEF Promised
    <2> QED
      BY <2>2, <2>3
  <1>4. CASE EndSettling /\ ~settlingDirty
    <2>1. InFlight' = InFlight /\ settling /\ ~settling'
          /\ UNCHANGED <<timer, pendingSync, boot, caller>>
      BY <1>4 DEF EndSettling, InFlight
    <2>2. Bootstrapped'
      BY <2>1 DEF Bootstrapped
    <2>3. Promised'
      BY <1>4, <2>1 DEF Promised
    <2> QED
      BY <2>2, <2>3
  <1> QED
    BY <1>1, <1>2, <1>3, <1>4

LEMMA PInvInit == Init => PInv
  <1> SUFFICES ASSUME Init PROVE Bootstrapped /\ Promised
    BY IInvInit DEF PInv
  <1>1. /\ InFlight = {} /\ timer = None /\ pendingSync = None /\ ~settling /\ boot = "preparing"
        /\ \A c \in Callers : caller[c] = "idle" /\ c # None
    BY Names DEF Init, InFlight
  <1> QED
    BY <1>1 DEF Bootstrapped, Promised

LEMMA PInvStep == PInv /\ [Next]_vars => PInv'
  <1> SUFFICES ASSUME PInv, [Next]_vars PROVE PInv'
    OBVIOUS
  <1>0. IInv /\ Bootstrapped /\ Promised /\ IInv'
    BY IInvStep DEF PInv
  <1>1. ASSUME NEW c \in Callers, Edit(c) \/ SyncAll(c) PROVE PInv'
    BY <1>0, <1>1, CallsPromised DEF PInv
  <1>2. CASE TimerFires \/ BootSync \/ EndSettling
    BY <1>0, <1>2, StartsPromised DEF PInv
  <1>3. ASSUME NEW i \in Syncs, DoSync(i) \/ Fails(i) PROVE PInv'
    <2>1. i \in InFlight
      BY <1>3, SyncConstants DEF DoSync, Fails, LoadConfig, Compile, Compare, Fill, Note, Finish,
                                 Nudge, At, InFlight
    <2>2. CASE Ends(i, "ok") \/ Ends(i, "failed")
      BY <1>0, <2>1, <2>2, EndsPromised DEF PInv
    <2>3. CASE ~(Ends(i, "ok") \/ Ends(i, "failed"))
      <3>1. DoSync(i)
        BY <1>3, <2>3 DEF Fails
      <3> QED
        BY <1>0, <2>3, <3>1, DoSyncGoesOn, GoesOnPromised DEF PInv
    <2> QED
      BY <2>2, <2>3
  <1>4. CASE GatewayStarts \/ LinkComesUp \/ LinkDrops
    <2>1. InFlight' = InFlight /\ UNCHANGED <<caller, service, boot>>
      BY <1>4 DEF GatewayStarts, LinkComesUp, LinkDrops, InFlight
    <2> QED
      BY <1>0, <2>1, FlightGoesOn DEF PInv
  <1>5. CASE UNCHANGED vars
    <2>1. InFlight' = InFlight /\ UNCHANGED <<caller, service, boot>>
      BY <1>5 DEF vars, InFlight
    <2> QED
      BY <1>0, <2>1, FlightGoesOn DEF PInv
  <1> QED
    BY <1>1, <1>2, <1>3, <1>4, <1>5 DEF Next

THEOREM PromisesInvariance == Spec => []PInv
  BY PInvInit, PInvStep, PTL DEF Spec

\* No call is forgotten, whatever overlaps and fails: whoever waits for the debounce timer,
\* the sync in flight, the flush or the end of settling is one that the timer, that sync,
\* the flush or endSettling() will settle (syncAll(), endSettling()).
THEOREM OpenPromisesAreOwed == Spec => []Promised
  BY PromisesInvariance, PTL DEF PInv

\* However long syncs take, at most two are in flight at once: one debounced one, beside
\* bootstrap's own or, after it, the flush (openclaw-sync-service.ts:197, :239, :256).
THEOREM AtMostTwoSyncs == Spec => [](Cardinality(InFlight) <= 2)
  <1>1. ASSUME PInv PROVE Cardinality(InFlight) <= 2
    <2>1. PICK x : InFlight \ Callers \subseteq {x}
      <3>1. InFlight \ Callers \subseteq {"boot", "flush"}
        BY DEF InFlight, Syncs
      <3>2. ~("boot" \in InFlight /\ "flush" \in InFlight)
        BY <1>1 DEF PInv, Bootstrapped
      <3>3. InFlight \ Callers \subseteq {"boot"} \/ InFlight \ Callers \subseteq {"flush"}
        BY <3>1, <3>2
      <3> QED
        BY <3>3
    <2>2. InFlight \subseteq {pendingSync, x}
      BY <1>1, <2>1 DEF PInv, IInv, Debounced, PendingIsInFlight
    <2>3. IsFiniteSet({pendingSync, x}) /\ Cardinality({pendingSync, x}) <= 2
      <3>1. IsFiniteSet({x}) /\ Cardinality({x}) = 1
        BY FS_Singleton
      <3>2. {pendingSync, x} = {x} \cup {pendingSync}
        OBVIOUS
      <3>3. /\ IsFiniteSet({x} \cup {pendingSync})
            /\ Cardinality({x} \cup {pendingSync}) \in {Cardinality({x}), Cardinality({x}) + 1}
        BY <3>1, FS_AddElement
      <3> QED
        BY <3>1, <3>2, <3>3
    <2>4. IsFiniteSet(InFlight) /\ Cardinality(InFlight) <= Cardinality({pendingSync, x})
      BY <2>2, <2>3, FS_Subset
    <2>5. Cardinality(InFlight) \in Nat /\ Cardinality({pendingSync, x}) \in Nat
      BY <2>3, <2>4, FS_CardinalityType
    <2> QED
      BY <2>3, <2>4, <2>5
  <1> QED
    BY <1>1, PromisesInvariance, PTL

(***************************************************************************)
(* Syncs that overlap write to one file.  They may mix two configs, but a  *)
(* truncated file is always one that a sync is about to fill.              *)
(***************************************************************************)
Filled ==
    /\ disk = Empty => \E i \in Syncs : At(i, "fill")
    /\ disk = NoDoc => /\ lastWritten = NoDoc /\ boot # "synced"
                       /\ \A i \in Syncs : sync[i].step \notin {"fill", "note", "finish", "nudge"}

LEMMA NotADoc == NoDoc # Empty /\ Torn # NoDoc /\ Torn # Empty
                 /\ \A doc \in Docs : doc # NoDoc /\ doc # Empty
  BY DEF NoDoc, Empty, Torn, Docs

\* What writes neither the file nor its cache, and takes no sync past the comparison.
LEMMA FileUntouched ==
    ASSUME Filled, UNCHANGED <<disk, lastWritten>>,
           boot' = "synced" => boot = "synced" \/ \E i \in Syncs : sync[i].step \in {"finish", "nudge"},
           \A i \in Syncs : /\ At(i, "fill") => sync'[i].step = "fill"
                            /\ sync'[i].step \in {"fill", "note", "finish", "nudge"} =>
                                 sync[i].step \in {"fill", "note", "finish", "nudge"}
    PROVE  Filled'
  BY DEF Filled, At

\* A sync that starts was not in flight.
LEMMA StartsAnew ==
    ASSUME PInv, TimerFires \/ BootSync \/ EndSettling
    PROVE  /\ UNCHANGED <<disk, lastWritten>> /\ (boot' = "synced" => boot = "synced")
           /\ \A i \in Syncs : \/ sync'[i] = sync[i]
                               \/ i \notin InFlight /\ sync'[i].step = "load"
  <1>0. SyncsOK /\ CallsOK /\ TimerAlone /\ Bootstrapped /\ PendingIsInFlight
    BY TypeParts DEF PInv, IInv, Debounced
  <1>1. ASSUME NEW j \in Syncs, StartSync(j), j \notin InFlight, boot' = "synced" => boot = "synced"
        PROVE  /\ UNCHANGED <<disk, lastWritten>> /\ (boot' = "synced" => boot = "synced")
               /\ \A i \in Syncs : \/ sync'[i] = sync[i]
                                   \/ i \notin InFlight /\ sync'[i].step = "load"
    BY <1>0, <1>1 DEF StartSync, SyncsOK, SyncStates, caches
  <1>2. CASE TimerFires
    <2>1. PICK c \in Callers : timer = c /\ StartSync(c) /\ boot' = boot
      BY <1>2 DEF TimerFires
    <2>2. c \notin InFlight /\ c \in Syncs
      BY <1>0, <2>1, Names DEF TimerAlone, PendingIsInFlight
    <2> QED
      BY <1>1, <2>1, <2>2
  <1>3. CASE BootSync
    <2>1. StartSync("boot") /\ boot' = "syncing" /\ "boot" \notin InFlight
      BY <1>0, <1>3 DEF BootSync, Bootstrapped
    <2> QED
      BY <1>1, <2>1, Names
  <1>4. CASE EndSettling
    <2>1. boot' = boot /\ "flush" \notin InFlight
      BY <1>0, <1>4 DEF EndSettling, Bootstrapped
    <2>2. CASE settlingDirty
      <3>1. StartSync("flush")
        BY <1>4, <2>2 DEF EndSettling
      <3> QED
        BY <1>1, <2>1, <3>1, Names
    <2>3. CASE ~settlingDirty
      BY <1>4, <2>1, <2>3 DEF EndSettling, caches
    <2> QED
      BY <2>2, <2>3
  <1> QED
    BY <1>2, <1>3, <1>4

LEMMA SyncFills ==
    ASSUME IInv, Filled, NEW i \in Syncs, Compare(i) \/ Fill(i)
    PROVE  Filled'
  <1>0. /\ SyncsOK /\ sync[i].doc \in Docs /\ sync[i].doc # NoDoc /\ sync[i].doc # Empty
        /\ boot' = boot
    BY TypeParts, NotADoc DEF IInv, SyncsOK, SyncStates, Compare, Fill
  <1>1. CASE Fill(i)
    <2>1. disk' # Empty /\ disk' # NoDoc
      BY <1>0, <1>1, NotADoc DEF Fill
    <2> QED
      BY <2>1 DEF Filled
  <1>2. CASE Compare(i) /\ lastWritten' # sync[i].doc
    <2>1. disk' = Empty /\ sync'[i].step = "fill"
      BY <1>0, <1>2, GoKeeps DEF Compare, Steps
    <2> QED
      BY <2>1, NotADoc DEF Filled, At
  <1>3. CASE Compare(i) /\ lastWritten' = sync[i].doc
    <2>1. /\ disk' = disk /\ lastWritten' # NoDoc /\ sync[i].step = "compare"
          /\ lastWritten = NoDoc => lastWritten' = disk
          /\ \A j \in Syncs \ {i} : sync'[j] = sync[j]
      BY <1>0, <1>3, GoKeeps DEF Compare, At, Steps
    <2>2. disk # NoDoc
      BY <2>1 DEF Filled
    <2>3. \A j \in Syncs : At(j, "fill") => At(j, "fill")'
      BY <2>1 DEF At
    <2> QED
      BY <2>1, <2>2, <2>3 DEF Filled
  <1> QED
    BY <1>1, <1>2, <1>3

LEMMA FilledStep == ASSUME "fill" \notin Faults, PInv, Filled, [Next]_vars PROVE Filled'
  <1>0. IInv /\ SyncsOK
    BY TypeParts DEF PInv, IInv
  <1>1. ASSUME NEW c \in Callers, Edit(c) \/ SyncAll(c) PROVE Filled'
    BY <1>1, FileUntouched DEF Edit, SyncAll, At, caches
  <1>2. CASE TimerFires \/ BootSync \/ EndSettling
    <2>1. \A i \in Syncs : sync[i].step = "fill" => i \in InFlight
      BY DEF InFlight
    <2>2. /\ UNCHANGED <<disk, lastWritten>> /\ (boot' = "synced" => boot = "synced")
          /\ \A i \in Syncs : \/ sync'[i] = sync[i]
                              \/ i \notin InFlight /\ sync'[i].step = "load"
      BY <1>2, StartsAnew
    <2>3. \A i \in Syncs : /\ sync[i].step = "fill" => sync'[i].step = "fill"
                           /\ sync'[i].step \in {"fill", "note", "finish", "nudge"} =>
                                sync[i].step \in {"fill", "note", "finish", "nudge"}
      BY <2>1, <2>2
    <2> QED
      BY <2>2, <2>3, FileUntouched DEF At
  <1>3. ASSUME NEW i \in Syncs, DoSync(i) \/ Fails(i) PROVE Filled'
    <2>1. CASE Compare(i) \/ Fill(i)
      BY <1>0, <2>1, SyncFills
    <2>2. CASE LoadConfig(i) \/ Compile(i)
      <3>1. /\ sync[i].step \in {"load", "compile"} /\ sync'[i].step \in {"compile", "compare"}
            /\ \A j \in Syncs \ {i} : sync'[j] = sync[j]
            /\ UNCHANGED <<disk, lastWritten, boot>>
        BY <1>0, <2>2 DEF LoadConfig, Compile, At, SyncsOK, SyncStates, caches
      <3> QED
        BY <3>1, FileUntouched DEF At
    <2>3. CASE Note(i) \/ Finish(i) \/ Nudge(i) \/ Fails(i)
      <3>1. PICK step \in {"finish", "nudge", "ok", "failed"} : Go(i, step)
        BY <2>3 DEF Note, Finish, Nudge, Fails, Ends
      <3>2. /\ sync[i].step \in {"note", "finish", "nudge"}
            /\ \A j \in Syncs \ {i} : sync'[j] = sync[j]
            /\ UNCHANGED <<disk, lastWritten>>
        <4>1. sync[i].step \in {"note", "finish", "nudge"}
          <5>1. Fails(i) => \E at \in {"note", "finish"} : At(i, at)
            BY SyncConstants DEF Fails
          <5> QED
            BY <2>3, <5>1 DEF Note, Finish, Nudge, At
        <4>2. \A j \in Syncs \ {i} : sync'[j] = sync[j]
          BY <1>0, <3>1, GoKeeps DEF Steps
        <4>3. UNCHANGED <<disk, lastWritten>>
          BY <2>3 DEF Note, Finish, Nudge, Fails, caches
        <4> QED
          BY <4>1, <4>2, <4>3
      <3>3. boot' = "synced" => boot = "synced" \/ sync[i].step \in {"finish", "nudge"}
        <4>1. CASE Note(i)
          BY <4>1 DEF Note
        <4>2. CASE Finish(i) \/ Nudge(i)
          BY <4>2 DEF Finish, Nudge, At
        <4>3. CASE Fails(i)
          BY <4>3 DEF Fails, Ends
        <4> QED
          BY <2>3, <4>1, <4>2, <4>3
      <3> QED
        BY <3>2, <3>3, FileUntouched DEF At
    <2> QED
      BY <1>3, <2>1, <2>2, <2>3 DEF DoSync
  <1>4. CASE GatewayStarts \/ LinkComesUp \/ LinkDrops
    BY <1>4, FileUntouched DEF GatewayStarts, LinkComesUp, LinkDrops, At, caches
  <1>5. CASE UNCHANGED vars
    BY <1>5, FileUntouched DEF vars, At, caches
  <1> QED
    BY <1>1, <1>2, <1>3, <1>4, <1>5 DEF Next

\* However syncs overlap, a file is never left truncated or unwritten: once bootstrap has
\* synced and no sync is in flight there is one, and it holds a config, if not a mix of two
\* (OpenClawConfigWriter.write(), unless its writeFile() fails half-way).
THEOREM FileIsNeverLeftEmpty ==
    ASSUME "fill" \notin Faults
    PROVE  Spec => [](boot = "synced" /\ InFlight = {} => disk \in Docs \cup {Torn})
  <1>1. Init => Filled
    BY NotADoc DEF Init, Filled
  <1>2. PInv /\ Filled /\ [Next]_vars => Filled'
    BY FilledStep
  <1>3. PInv /\ Filled => (boot = "synced" /\ InFlight = {} => disk \in Docs \cup {Torn})
    BY TypeParts DEF PInv, IInv, DataOK, Contents, Filled, At, InFlight
  <1> QED
    BY <1>1, <1>2, <1>3, PromisesInvariance, PTL DEF Spec

(***************************************************************************)
(* One sync at a time.  While no two syncs overlap and no write is cut     *)
(* short, the file follows the sources.                                    *)
(***************************************************************************)

OneSync == ~Overlap /\ "fill" \notin Faults

\* The steps that follow the reading of the config, of the ledger, and the writing of the file.
HasConfig == {"compile", "compare", "fill", "note", "finish", "nudge"}
HasSkills == {"compare", "fill", "note", "finish", "nudge"}
Written == {"note", "finish", "nudge"}
Past(i, steps) == sync[i].step \in steps

OneAtATime == \A i, j \in InFlight : i = j

\* Whoever waits for the timer, a sync or the flush is seen to do so.
WhoSyncs ==
    /\ timer # None => caller[timer] = "timed"
    /\ \A c \in Callers : c \in InFlight => caller[c] = "syncing"
    /\ settlingDirty => \E c \in Callers : caller[c] = "deferred"
    /\ "flush" \in InFlight => \E c \in Callers : caller[c] = "flushing"
    /\ boot = "syncing" <=> "boot" \in InFlight

\* The file is truncated only by the sync that fills it, and the cache is of what it holds.
Files ==
    /\ disk \in Docs \cup {NoDoc, Empty} /\ lastWritten \in Docs \cup {NoDoc}
    /\ disk = Empty => \E i \in Syncs : At(i, "fill")
    /\ \A i \in Syncs : At(i, "fill") => disk = Empty
    /\ disk # Empty => lastWritten \in {NoDoc, disk}
    /\ \A i \in Syncs : Past(i, Written) => disk = sync[i].doc
    /\ boot = "synced" => disk # NoDoc

Holds(doc, c) == doc[1] \in fresh[c][1] /\ doc[2] \in fresh[c][2]

\* The syncs whose end answers a caller, and those after its answer.
Serves(i, c) == i = c \/ (i = "flush" /\ caller[c] = "flushing") \/ caller[c] = "resolved"

\* They read no older sources than those of the call.
SinceTheCall ==
    \A c \in Callers :
        /\ caller[c] \notin {"idle", "edited"} => Holds(source, c)
        /\ \A i \in Syncs : Serves(i, c) =>
              /\ Past(i, HasConfig) => sync[i].doc[1] \in fresh[c][1]
              /\ Past(i, HasSkills) => sync[i].doc[2] \in fresh[c][2]
        /\ caller[c] = "resolved" => disk # NoDoc /\ (disk # Empty => Holds(disk, c))

\* A sync is to come that reads both sources.
WillRead ==
    \/ boot = "preparing"
    \/ \E c \in Callers : caller[c] \in {"edited", "waiting", "timed", "deferred"}
    \/ \E i \in Syncs : At(i, "load")

ConfigCarried ==
    \/ InFlight = {} /\ disk[1] = source[1]
    \/ \E i \in InFlight : Past(i, HasConfig) /\ sync[i].doc[1] = source[1]

SkillsCarried ==
    \/ InFlight = {} /\ disk[2] = source[2]
    \/ \E i \in InFlight : At(i, "compile") \/ (Past(i, HasSkills) /\ sync[i].doc[2] = source[2])

\* Unless a call was rejected, the file is current or a sync is on its way to make it so.
Owed ==
    \/ \E c \in Callers : caller[c] = "rejected"
    \/ WillRead
    \/ ConfigCarried /\ SkillsCarried

SInv == IInv /\ OneAtATime /\ WhoSyncs /\ Files /\ SinceTheCall /\ Owed

LEMMA SParts == SInv => /\ IInv /\ OneAtATime /\ WhoSyncs /\ Files /\ SinceTheCall /\ Owed
                        /\ CallsOK /\ DataOK /\ SyncsOK
  BY TypeParts DEF SInv, IInv

\* The steps of a sync in flight.
LEMMA Flying ==
    ASSUME NEW i \in Syncs
    PROVE  /\ At(i, "load") \/ Past(i, HasConfig) => i \in InFlight
           /\ Past(i, HasSkills) => Past(i, HasConfig)
           /\ Past(i, HasConfig) => At(i, "compile") \/ Past(i, HasSkills)
  BY DEF At, Past, HasConfig, HasSkills, InFlight

LEMMA Whole ==
    /\ Empty # NoDoc /\ \A doc \in Docs : doc # NoDoc /\ doc # Empty /\ doc = <<doc[1], doc[2]>>
    /\ SyncsOK => \A i \in Syncs : sync[i].doc \in Docs
  BY DEF Empty, NoDoc, SyncsOK, SyncStates, Docs

\* A sync goes on to its next step.
Proceeds(i) ==
    /\ \A j \in Syncs \ {i} : sync'[j] = sync[j]
    /\ UNCHANGED <<source, caller, service, boot, fresh>>
    /\ \/ /\ sync[i].step = "load" /\ sync'[i].step = "compile"
          /\ sync'[i].doc[1] = source[1]
       \/ /\ sync[i].step = "compile" /\ sync'[i].step = "compare"
          /\ sync'[i].doc[1] = sync[i].doc[1] /\ sync'[i].doc[2] = source[2]
       \/ /\ sync[i].step \in HasSkills /\ sync'[i].step \in HasSkills
          /\ sync'[i].doc = sync[i].doc
    /\ disk' = disk \/ disk' = Empty \/ (disk' = sync[i].doc /\ Past(i, HasSkills))

LEMMA ProceedsKeeps ==
    ASSUME SInv, NEW i \in Syncs, Proceeds(i)
    PROVE  OneAtATime' /\ WhoSyncs' /\ SinceTheCall' /\ Owed' /\ i \in InFlight /\ i \in InFlight'
  <1>0. /\ IInv /\ OneAtATime /\ WhoSyncs /\ Files /\ SinceTheCall /\ Owed
        /\ CallsOK /\ DataOK /\ SyncsOK
    BY SParts
  <1>1. /\ \A j \in Syncs \ {i} : sync'[j] = sync[j]
        /\ UNCHANGED <<source, caller, timer, pendingSync, settling, settlingDirty, boot, fresh>>
    BY DEF Proceeds, service
  <1>2. InFlight' = InFlight /\ i \in InFlight
    <2>1. i \in InFlight /\ i \in InFlight'
      BY DEF Proceeds, InFlight, HasSkills
    <2>2. \A j \in Syncs \ {i} : j \in InFlight' <=> j \in InFlight
      BY <1>1 DEF InFlight
    <2> QED
      BY <2>1, <2>2 DEF InFlight
  <1>3. \A j \in InFlight : j = i
    BY <1>0, <1>2 DEF OneAtATime
  <1>4. OneAtATime' /\ WhoSyncs'
    BY <1>0, <1>1, <1>2 DEF OneAtATime, WhoSyncs
  <1>5. SinceTheCall'
    <2> SUFFICES ASSUME NEW c \in Callers
                 PROVE  /\ caller[c] \notin {"idle", "edited"} => Holds(source, c)'
                        /\ \A j \in Syncs : Serves(j, c)' =>
                              /\ Past(j, HasConfig)' => sync'[j].doc[1] \in fresh[c][1]
                              /\ Past(j, HasSkills)' => sync'[j].doc[2] \in fresh[c][2]
                        /\ caller[c] = "resolved" => disk' # NoDoc /\ (disk' # Empty => Holds(disk, c)')
      BY <1>1 DEF SinceTheCall
    <2>1. /\ caller[c] \notin {"idle", "edited"} => Holds(source, c)
          /\ \A j \in Syncs : Serves(j, c) =>
                /\ Past(j, HasConfig) => sync[j].doc[1] \in fresh[c][1]
                /\ Past(j, HasSkills) => sync[j].doc[2] \in fresh[c][2]
          /\ caller[c] = "resolved" => disk # NoDoc /\ (disk # Empty => Holds(disk, c))
      BY <1>0 DEF SinceTheCall
    <2>2. \A j \in Syncs : Serves(j, c)' <=> Serves(j, c)
      BY <1>1 DEF Serves
    <2>3. Serves(i, c) => source[1] \in fresh[c][1] /\ source[2] \in fresh[c][2]
      BY <1>0, <1>2, <2>1 DEF Serves, WhoSyncs, Holds
    <2>4. ASSUME NEW j \in Syncs, Serves(j, c)
          PROVE  /\ Past(j, HasConfig)' => sync'[j].doc[1] \in fresh[c][1]
                 /\ Past(j, HasSkills)' => sync'[j].doc[2] \in fresh[c][2]
      <3>1. CASE j = i
        BY <2>1, <2>3, <2>4, <3>1 DEF Proceeds, Past, HasConfig, HasSkills
      <3>2. CASE j # i
        BY <1>1, <2>1, <2>4, <3>2 DEF Past
      <3> QED
        BY <3>1, <3>2
    <2>5. ASSUME caller[c] = "resolved" PROVE disk' # NoDoc /\ (disk' # Empty => Holds(disk, c)')
      <3>1. Empty # NoDoc /\ sync[i].doc # NoDoc
        BY <1>0, Whole
      <3>2. Past(i, HasSkills) => sync[i].doc[1] \in fresh[c][1] /\ sync[i].doc[2] \in fresh[c][2]
        BY <2>1, <2>5, Flying DEF Serves
      <3> QED
        BY <1>1, <2>1, <2>5, <3>1, <3>2 DEF Proceeds, Holds
    <2> QED
      BY <1>1, <2>1, <2>2, <2>4, <2>5 DEF Holds
  <1>6. Owed'
    <2>1. CASE \E c \in Callers : caller[c] = "rejected"
      BY <1>1, <2>1 DEF Owed
    <2>2. CASE \/ boot = "preparing"
               \/ \E c \in Callers : caller[c] \in {"edited", "waiting", "timed", "deferred"}
      BY <1>1, <2>2 DEF Owed, WillRead
    <2>3. CASE \E j \in Syncs : At(j, "load")
      <3>1. sync[i].step = "load"
        BY <1>3, <2>3, Flying DEF At
      <3>2. sync'[i].step = "compile" /\ sync'[i].doc[1] = source[1]
        BY <3>1 DEF Proceeds, HasSkills
      <3> QED
        BY <1>1, <1>2, <3>2 DEF Owed, ConfigCarried, SkillsCarried, Past, At, HasConfig
    <2>4. CASE ConfigCarried /\ SkillsCarried
      <3>1. /\ Past(i, HasConfig) /\ sync[i].doc[1] = source[1]
            /\ At(i, "compile") \/ (Past(i, HasSkills) /\ sync[i].doc[2] = source[2])
        BY <1>2, <1>3, <2>4 DEF ConfigCarried, SkillsCarried
      <3>2. /\ sync'[i].step \in HasSkills /\ sync'[i].doc[1] = source[1]
            /\ sync'[i].doc[2] = source[2]
        BY <3>1 DEF Proceeds, At, Past, HasConfig, HasSkills
      <3> QED
        BY <1>1, <1>2, <3>2 DEF Owed, ConfigCarried, SkillsCarried, Past, HasConfig, HasSkills
    <2> QED
      BY <1>0, <2>1, <2>2, <2>3, <2>4 DEF Owed, WillRead
  <1> QED
    BY <1>2, <1>4, <1>5, <1>6

\* A step that leaves the syncs, the sources' readers and the file as they are.
LEMMA AsideKeeps ==
    ASSUME SInv, UNCHANGED <<sync, caller, boot, timer, source, disk, fresh>>,
           settlingDirty' => settlingDirty
    PROVE  OneAtATime' /\ WhoSyncs' /\ SinceTheCall' /\ Owed'
  <1>0. OneAtATime /\ WhoSyncs /\ SinceTheCall /\ Owed
    BY SParts
  <1>1. InFlight' = InFlight
    BY DEF InFlight
  <1>2. OneAtATime' /\ WhoSyncs'
    BY <1>0, <1>1 DEF OneAtATime, WhoSyncs
  <1>3. SinceTheCall'
    BY <1>0 DEF SinceTheCall, Holds, Serves, Past
  <1>4. Owed'
    BY <1>0, <1>1 DEF Owed, WillRead, ConfigCarried, SkillsCarried, Past, At
  <1> QED
    BY <1>2, <1>3, <1>4

LEMMA EditServes ==
    ASSUME SInv, NEW c \in Callers, Edit(c)
    PROVE  OneAtATime' /\ WhoSyncs' /\ Files' /\ SinceTheCall' /\ Owed'
  <1>0. /\ OneAtATime /\ WhoSyncs /\ Files /\ SinceTheCall /\ Owed /\ CallsOK /\ DataOK
    BY SParts
  <1>1. /\ caller[c] = "idle" /\ caller' = [caller EXCEPT ![c] = "edited"]
        /\ UNCHANGED <<timer, pendingSync, settling, settlingDirty, boot, sync, disk, lastWritten>>
    BY DEF Edit, service, caches
  <1>2. InFlight' = InFlight
    BY <1>1 DEF InFlight
  <1>3. \A d \in Callers : caller'[d] = IF d = c THEN "edited" ELSE caller[d]
    BY <1>0, <1>1 DEF CallsOK
  <1>4. ASSUME NEW d \in Callers, caller[d] # "idle"
        PROVE  /\ fresh[d][1] \cup {source'[1]} = fresh'[d][1]
               /\ fresh[d][2] \cup {source'[2]} = fresh'[d][2]
    BY <1>4 DEF Edit
  <1>5. OneAtATime' /\ WhoSyncs'
    BY <1>0, <1>1, <1>2, <1>3 DEF OneAtATime, WhoSyncs, CallsOK
  <1>6. Files'
    BY <1>0, <1>1 DEF Files, At, Past
  <1>7. SinceTheCall'
    <2> SUFFICES ASSUME NEW d \in Callers
                 PROVE  /\ caller'[d] \notin {"idle", "edited"} => Holds(source, d)'
                        /\ \A i \in Syncs : Serves(i, d)' =>
                              /\ Past(i, HasConfig)' => sync'[i].doc[1] \in fresh'[d][1]
                              /\ Past(i, HasSkills)' => sync'[i].doc[2] \in fresh'[d][2]
                        /\ caller'[d] = "resolved" =>
                              disk' # NoDoc /\ (disk' # Empty => Holds(disk, d)')
      BY DEF SinceTheCall
    <2>1. CASE d = c
      <3>1. ASSUME NEW i \in Syncs, Serves(i, c)' PROVE ~Past(i, HasConfig)'
        <4>1. i = c /\ c \notin InFlight
          BY <1>0, <1>1, <1>3, <3>1 DEF Serves, WhoSyncs
        <4> QED
          BY <1>1, <4>1, Flying DEF Past
      <3>2. HasSkills \subseteq HasConfig
        BY DEF HasSkills, HasConfig
      <3> QED
        BY <1>3, <2>1, <3>1, <3>2 DEF Past
    <2>2. CASE d # c /\ caller[d] = "idle"
      <3>1. ASSUME NEW i \in Syncs, Serves(i, d)' PROVE ~Past(i, HasConfig)'
        <4>1. i = d /\ d \notin InFlight
          BY <1>0, <1>3, <2>2, <3>1 DEF Serves, WhoSyncs
        <4> QED
          BY <1>1, <4>1, Flying DEF Past
      <3>2. HasSkills \subseteq HasConfig
        BY DEF HasSkills, HasConfig
      <3> QED
        BY <1>3, <2>2, <3>1, <3>2 DEF Past
    <2>3. CASE d # c /\ caller[d] # "idle"
      <3>1. caller'[d] = caller[d]
        BY <1>3, <2>3
      <3>2. Holds(source, d)'
        BY <1>4, <2>3 DEF Holds
      <3>3. \A i \in Syncs : Serves(i, d)' <=> Serves(i, d)
        BY <3>1 DEF Serves
      <3>4. fresh[d][1] \subseteq fresh'[d][1] /\ fresh[d][2] \subseteq fresh'[d][2]
        BY <1>4, <2>3
      <3>5. \A i \in Syncs : Serves(i, d) =>
                /\ Past(i, HasConfig) => sync[i].doc[1] \in fresh[d][1]
                /\ Past(i, HasSkills) => sync[i].doc[2] \in fresh[d][2]
        BY <1>0 DEF SinceTheCall
      <3>6. caller[d] = "resolved" => disk # NoDoc /\ (disk # Empty => Holds(disk, d))
        BY <1>0 DEF SinceTheCall
      <3>7. Holds(disk, d) => Holds(disk, d)'
        BY <1>1, <3>4 DEF Holds
      <3> QED
        BY <1>1, <3>1, <3>2, <3>3, <3>4, <3>5, <3>6, <3>7 DEF Past
    <2> QED
      BY <2>1, <2>2, <2>3
  <1>8. Owed'
    BY <1>3 DEF Owed, WillRead
  <1> QED
    BY <1>5, <1>6, <1>7, <1>8

\* Callers that go on to another wait keep what is said of them.
LEMMA WaitersKeep ==
    ASSUME SInv, UNCHANGED <<sync, source, disk, boot>>,
           caller' \in [Callers -> CallerPhases],
           \A d \in Callers : \/ caller'[d] = caller[d] /\ fresh'[d] = fresh[d]
                              \/ /\ caller[d] \in {"edited", "waiting", "timed"}
                                 /\ caller'[d] \in {"waiting", "timed", "lost", "deferred"}
                                 /\ \/ fresh'[d] = <<{source[1]}, {source[2]}>>
                                    \/ fresh'[d] = fresh[d] /\ caller[d] # "edited",
           timer' # None => caller'[timer'] = "timed",
           settlingDirty' => settlingDirty \/ \E d \in Callers : caller'[d] = "deferred"
    PROVE  OneAtATime' /\ WhoSyncs' /\ SinceTheCall'
  <1>0. OneAtATime /\ WhoSyncs /\ SinceTheCall
    BY SParts
  <1>1. InFlight' = InFlight
    BY DEF InFlight
  <1>2. \A d \in Callers : caller[d] \in {"syncing", "deferred", "flushing", "resolved"}
                              => caller'[d] = caller[d]
    OBVIOUS
  <1>3. OneAtATime' /\ WhoSyncs'
    BY <1>0, <1>1, <1>2 DEF OneAtATime, WhoSyncs
  <1>4. SinceTheCall'
    <2> SUFFICES ASSUME NEW d \in Callers
                 PROVE  /\ caller'[d] \notin {"idle", "edited"} => Holds(source, d)'
                        /\ \A i \in Syncs : Serves(i, d)' =>
                              /\ Past(i, HasConfig)' => sync'[i].doc[1] \in fresh'[d][1]
                              /\ Past(i, HasSkills)' => sync'[i].doc[2] \in fresh'[d][2]
                        /\ caller'[d] = "resolved" =>
                              disk' # NoDoc /\ (disk' # Empty => Holds(disk, d)')
      BY DEF SinceTheCall
    <2>1. /\ caller[d] \notin {"idle", "edited"} => Holds(source, d)
          /\ \A i \in Syncs : Serves(i, d) =>
                /\ Past(i, HasConfig) => sync[i].doc[1] \in fresh[d][1]
                /\ Past(i, HasSkills) => sync[i].doc[2] \in fresh[d][2]
          /\ caller[d] = "resolved" => disk # NoDoc /\ (disk # Empty => Holds(disk, d))
      BY <1>0 DEF SinceTheCall
    <2>2. CASE caller'[d] = caller[d] /\ fresh'[d] = fresh[d]
      <3>1. \A i \in Syncs : Serves(i, d)' <=> Serves(i, d)
        BY <2>2 DEF Serves
      <3> QED
        BY <2>1, <2>2, <3>1 DEF Holds, Past
    <2>3. CASE /\ caller[d] \in {"edited", "waiting", "timed"}
               /\ caller'[d] \in {"waiting", "timed", "lost", "deferred"}
               /\ \/ fresh'[d] = <<{source[1]}, {source[2]}>>
                  \/ fresh'[d] = fresh[d] /\ caller[d] # "edited"
      <3>1. ASSUME NEW i \in Syncs, Serves(i, d)' PROVE ~Past(i, HasConfig)
        <4>1. i = d /\ d \notin InFlight
          BY <1>0, <2>3, <3>1 DEF Serves, WhoSyncs
        <4> QED
          BY <4>1, Flying
      <3>2. HasSkills \subseteq HasConfig
        BY DEF HasSkills, HasConfig
      <3>3. Holds(source, d)'
        BY <2>1, <2>3 DEF Holds
      <3> QED
        BY <2>3, <3>1, <3>2, <3>3 DEF Past
    <2> QED
      BY <2>2, <2>3
  <1> QED
    BY <1>3, <1>4

LEMMA SyncAllServes ==
    ASSUME SInv, NEW c \in Callers, SyncAll(c)
    PROVE  OneAtATime' /\ WhoSyncs' /\ Files' /\ SinceTheCall' /\ Owed'
  <1>0. /\ IInv /\ OneAtATime /\ WhoSyncs /\ Files /\ SinceTheCall /\ Owed /\ CallsOK /\ DataOK
        /\ None \notin Callers
    BY SParts, Names
  <1>1. /\ caller[c] = "edited" /\ fresh' = [fresh EXCEPT ![c] = <<{source[1]}, {source[2]}>>]
        /\ UNCHANGED <<source, pendingSync, settling, boot, sync, disk, lastWritten>>
    BY DEF SyncAll, caches
  <1>2. \A d \in Callers : fresh'[d] = IF d = c THEN <<{source[1]}, {source[2]}>> ELSE fresh[d]
    BY <1>0, <1>1 DEF DataOK
  <1>3. /\ caller' \in [Callers -> CallerPhases]
        /\ caller'[c] \in {"waiting", "timed", "deferred"}
        /\ \A d \in Callers \ {c} : \/ caller'[d] = caller[d]
                                    \/ caller[d] = "timed" /\ caller'[d] = "lost"
        /\ timer' # None => caller'[timer'] = "timed"
        /\ settlingDirty' => settlingDirty \/ \E d \in Callers : caller'[d] = "deferred"
    <2>1. timer # None => timer \in Callers /\ caller[timer] = "timed" /\ timer # c
      BY <1>0, <1>1 DEF WhoSyncs, CallsOK
    <2>2. CASE /\ settlingDirty' = TRUE /\ caller' = [caller EXCEPT ![c] = "deferred"]
               /\ UNCHANGED timer
      BY <1>0, <2>1, <2>2 DEF CallsOK, CallerPhases
    <2>3. CASE caller' = [caller EXCEPT ![c] = "waiting"] /\ UNCHANGED <<timer, settlingDirty>>
      BY <1>0, <2>1, <2>3 DEF CallsOK, CallerPhases
    <2>4. CASE Arm(caller, {c}) /\ UNCHANGED settlingDirty
      <3>1. timer' = c /\ \A d \in Callers : caller'[d] = IF d = c THEN "timed"
                                                ELSE IF d = timer THEN "lost" ELSE caller[d]
        BY <2>4 DEF Arm
      <3>2. caller' \in [Callers -> CallerPhases]
        BY <1>0, <2>4, ArmKeeps DEF CallsOK
      <3> QED
        BY <1>0, <2>1, <2>4, <3>1, <3>2
    <2> QED
      BY <2>2, <2>3, <2>4 DEF SyncAll
  <1>4. OneAtATime' /\ WhoSyncs' /\ SinceTheCall'
    <2>1. \A d \in Callers : \/ caller'[d] = caller[d] /\ fresh'[d] = fresh[d]
                             \/ /\ caller[d] \in {"edited", "waiting", "timed"}
                                /\ caller'[d] \in {"waiting", "timed", "lost", "deferred"}
                                /\ \/ fresh'[d] = <<{source[1]}, {source[2]}>>
                                   \/ fresh'[d] = fresh[d] /\ caller[d] # "edited"
      BY <1>1, <1>2, <1>3
    <2> QED
      BY <1>1, <1>3, <2>1, WaitersKeep
  <1>5. Files'
    BY <1>0, <1>1 DEF Files, At, Past
  <1>6. Owed'
    BY <1>3 DEF Owed, WillRead
  <1> QED
    BY <1>4, <1>5, <1>6

\* A sync starts alone, and will read the sources.
LEMMA StartServes ==
    ASSUME OneSync, SInv, NEW i \in Syncs, StartSync(i), timer' \in {timer, None},
           \A d \in Callers : \/ caller'[d] = caller[d]
                              \/ /\ caller[d] = "timed" /\ d = i /\ caller'[d] = "syncing"
                                 /\ timer' = None
                              \/ /\ caller[d] = "deferred" /\ i = "flush"
                                 /\ caller'[d] = "flushing",
           i \in Callers => caller'[i] = "syncing",
           i = "flush" => \E d \in Callers : caller'[d] = "flushing",
           boot' = IF i = "boot" THEN "syncing" ELSE boot,
           settlingDirty' => settlingDirty /\ i # "flush"
    PROVE  OneAtATime' /\ WhoSyncs' /\ Files' /\ SinceTheCall' /\ Owed'
  <1>0. /\ WhoSyncs /\ Files /\ SinceTheCall /\ CallsOK /\ DataOK /\ SyncsOK
        /\ "boot" \notin Callers /\ "flush" \notin Callers /\ "boot" # "flush"
        /\ "boot" \in Syncs /\ "flush" \in Syncs /\ None \notin Callers
    BY SParts, Names, SyncConstants
  <1>1. /\ InFlight = {} /\ UNCHANGED <<source, disk, lastWritten, fresh>>
        /\ sync' = [sync EXCEPT ![i].step = "load"]
    BY DEF StartSync, OneSync, caches
  <1>2. sync'[i].step = "load" /\ \A j \in Syncs \ {i} : sync'[j] = sync[j]
    BY <1>0, <1>1 DEF SyncsOK, SyncStates
  <1>3. InFlight' = {i}
    BY <1>1, <1>2 DEF InFlight
  <1>4. /\ \A j \in Syncs : ~Past(j, HasConfig)' /\ ~Past(j, HasSkills)' /\ ~Past(j, Written)'
        /\ \A j \in Syncs : ~At(j, "fill") /\ ~At(j, "fill")'
    BY <1>1, <1>2 DEF InFlight, Past, At, HasConfig, HasSkills, Written
  <1>5. OneAtATime'
    BY <1>3 DEF OneAtATime
  <1>6. WhoSyncs'
    <2>1. ASSUME timer' # None PROVE caller'[timer'] = "timed"
      <3>1. timer' = timer /\ timer \in Callers /\ caller[timer] = "timed"
        BY <1>0, <2>1 DEF WhoSyncs, CallsOK
      <3> QED
        BY <2>1, <3>1
    <2>2. \A c \in Callers : c \in InFlight' => caller'[c] = "syncing"
      BY <1>3
    <2>3. ASSUME settlingDirty' PROVE \E c \in Callers : caller'[c] = "deferred"
      BY <1>0, <2>3 DEF WhoSyncs
    <2>4. "flush" \in InFlight' => \E c \in Callers : caller'[c] = "flushing"
      BY <1>3
    <2>5. boot' = "syncing" <=> "boot" \in InFlight'
      BY <1>0, <1>1, <1>3 DEF WhoSyncs
    <2> QED
      BY <2>1, <2>2, <2>3, <2>4, <2>5 DEF WhoSyncs
  <1>7. Files'
    BY <1>0, <1>1, <1>4 DEF Files
  <1>8. SinceTheCall'
    <2> SUFFICES ASSUME NEW d \in Callers
                 PROVE  /\ caller'[d] \notin {"idle", "edited"} => Holds(source, d)'
                        /\ caller'[d] = "resolved" =>
                              disk' # NoDoc /\ (disk' # Empty => Holds(disk, d)')
      BY <1>4 DEF SinceTheCall
    <2> QED
      BY <1>0, <1>1 DEF SinceTheCall, Holds
  <1>9. Owed'
    BY <1>2 DEF Owed, WillRead, At
  <1> QED
    BY <1>5, <1>6, <1>7, <1>8, <1>9

LEMMA StartsServe ==
    ASSUME OneSync, SInv, TimerFires \/ BootSync \/ EndSettling
    PROVE  OneAtATime' /\ WhoSyncs' /\ Files' /\ SinceTheCall' /\ Owed'
  <1>0. WhoSyncs /\ Files /\ CallsOK /\ SyncsOK /\ OneAtATime
        /\ Callers \subseteq Syncs /\ "boot" \notin Callers /\ "flush" \notin Callers
        /\ "boot" \in Syncs /\ "flush" \in Syncs
    BY SParts, Names, SyncConstants
  <1>1. CASE TimerFires
    <2>1. PICK c \in Callers :
            /\ timer = c /\ timer' = None /\ caller' = [caller EXCEPT ![c] = "syncing"]
            /\ StartSync(c) /\ UNCHANGED <<settling, settlingDirty, boot>>
      BY <1>1 DEF TimerFires
    <2>2. timer # None
      BY <2>1, Names
    <2>3. caller[c] = "timed"
      BY <1>0, <2>1, <2>2 DEF WhoSyncs
    <2>4. \A d \in Callers : caller'[d] = IF d = c THEN "syncing" ELSE caller[d]
      BY <1>0, <2>1 DEF CallsOK
    <2>5. /\ c \in Syncs /\ c # "flush" /\ c # "boot" /\ timer' \in {timer, None}
          /\ boot' = IF c = "boot" THEN "syncing" ELSE boot
          /\ settlingDirty' => settlingDirty /\ c # "flush"
          /\ c \in Callers => caller'[c] = "syncing"
          /\ c = "flush" => \E d \in Callers : caller'[d] = "flushing"
      BY <1>0, <2>1, <2>4
    <2>6. \A d \in Callers : \/ caller'[d] = caller[d]
                             \/ /\ caller[d] = "timed" /\ d = c /\ caller'[d] = "syncing"
                                /\ timer' = None
                             \/ /\ caller[d] = "deferred" /\ c = "flush"
                                /\ caller'[d] = "flushing"
      BY <2>1, <2>3, <2>4
    <2> QED
      BY <2>1, <2>5, <2>6, StartServes
  <1>2. CASE BootSync
    <2>1. /\ StartSync("boot") /\ boot' = "syncing"
          /\ UNCHANGED <<caller, timer, pendingSync, settling, settlingDirty>>
      BY <1>2 DEF BootSync, service
    <2>2. "boot" # "flush" /\ timer' \in {timer, None}
      BY <2>1
    <2> QED
      BY <1>0, <2>1, <2>2, StartServes
  <1>3. CASE EndSettling /\ settlingDirty
    <2>1. /\ StartSync("flush") /\ settlingDirty' = FALSE /\ UNCHANGED <<timer, pendingSync, boot>>
          /\ caller' = [c \in Callers |-> IF caller[c] = "deferred" THEN "flushing" ELSE caller[c]]
      BY <1>3 DEF EndSettling
    <2>2. \A d \in Callers : caller'[d] = IF caller[d] = "deferred" THEN "flushing" ELSE caller[d]
      BY <2>1
    <2>3. \E d \in Callers : caller'[d] = "flushing"
      BY <1>0, <1>3, <2>2 DEF WhoSyncs
    <2>4. /\ timer' \in {timer, None} /\ boot' = IF "flush" = "boot" THEN "syncing" ELSE boot
          /\ ~settlingDirty'
          /\ \A d \in Callers : \/ caller'[d] = caller[d]
                                \/ caller[d] = "deferred" /\ caller'[d] = "flushing"
      BY <2>1, <2>2
    <2> QED
      BY <1>0, <2>1, <2>3, <2>4, StartServes
  <1>4. CASE EndSettling /\ ~settlingDirty
    <2>1. /\ UNCHANGED <<source, caller, sync, disk, caches, fresh, timer, pendingSync, boot>>
          /\ settlingDirty' = FALSE
      BY <1>4 DEF EndSettling
    <2>2. OneAtATime' /\ WhoSyncs' /\ SinceTheCall' /\ Owed'
      BY <2>1, AsideKeeps
    <2>3. Files'
      BY <1>0, <2>1 DEF Files, At, Past, caches
    <2> QED
      BY <2>2, <2>3
  <1> QED
    BY <1>1, <1>2, <1>3, <1>4

\* What a sync's end does to the callers.
LEMMA EndsTells ==
    ASSUME SInv, NEW i \in InFlight, NEW outcome \in {"ok", "failed"}, Ends(i, outcome)
    PROVE  LET mine(c) == c = i \/ (i = "flush" /\ caller[c] = "flushing")
               answer == IF outcome = "ok" THEN "resolved" ELSE "rejected"
           IN  /\ \A c \in Callers : mine(c) => /\ caller[c] \in {"syncing", "flushing"}
                                                /\ caller'[c] = answer
               /\ \A c \in Callers : ~mine(c) => \/ caller'[c] = caller[c]
                                                 \/ /\ caller[c] \in {"waiting", "timed"}
                                                    /\ caller'[c] \in {"timed", "lost"}
               /\ timer' # None => caller'[timer'] = "timed"
               /\ (\E c \in Callers : caller[c] \in {"waiting", "timed"}) =>
                      \E c \in Callers : caller'[c] \in {"waiting", "timed"}
  <1>0. WhoSyncs /\ CallsOK
    BY SParts
  <1> DEFINE mine(c) == c = i \/ (i = "flush" /\ caller[c] = "flushing")
             answer == IF outcome = "ok" THEN "resolved" ELSE "rejected"
             told == [c \in Callers |->
                       IF ~mine(c) THEN caller[c]
                       ELSE IF outcome = "ok" THEN "resolved" ELSE "rejected"]
             woken == IF i = pendingSync THEN {c \in Callers : caller[c] = "waiting"} ELSE {}
  <1>1. Arm(told, woken)
    BY DEF Ends
  <1>2. \A c \in Callers : told[c] = IF mine(c) THEN answer ELSE caller[c]
    OBVIOUS
  <1>3. \A c \in Callers : mine(c) => caller[c] \in {"syncing", "flushing"}
    BY <1>0 DEF WhoSyncs
  <1>4. woken \subseteq Callers /\ \A c \in woken : caller[c] = "waiting"
    OBVIOUS
  <1> HIDE DEF mine, answer, told, woken
  <1>5. /\ timer' \in IF woken = {} THEN {timer} ELSE woken
        /\ \A c \in Callers : caller'[c] = IF c = timer' THEN "timed"
                                           ELSE IF c \in woken \cup {timer} THEN "lost" ELSE told[c]
    BY <1>1 DEF Arm
  <1>6. timer # None => timer \in Callers /\ caller[timer] = "timed"
    BY <1>0 DEF WhoSyncs, CallsOK
  <1>7. timer' # None => timer' \in Callers /\ caller'[timer'] = "timed"
    BY <1>4, <1>5, <1>6
  <1>8. ASSUME NEW c \in Callers
        PROVE  /\ mine(c) => caller'[c] = answer
               /\ ~mine(c) => \/ caller'[c] = caller[c]
                              \/ /\ caller[c] \in {"waiting", "timed"}
                                 /\ caller'[c] \in {"timed", "lost"}
    <2>1. c = timer => caller[c] = "timed"
      BY <1>6, Names
    <2>2. c \in woken => caller[c] = "waiting"
      BY <1>4
    <2>3. c = timer' => c = timer \/ c \in woken
      BY <1>5
    <2> QED
      BY <1>2, <1>3, <1>5, <2>1, <2>2, <2>3
  <1>9. ASSUME NEW c \in Callers, caller[c] \in {"waiting", "timed"}
        PROVE  \E d \in Callers : caller'[d] \in {"waiting", "timed"}
    <2>1. CASE woken = {}
      <3>1. caller'[c] = "timed" \/ (c # timer /\ caller'[c] = told[c])
        BY <1>5, <2>1
      <3> QED
        BY <1>2, <1>3, <1>9, <3>1
    <2>2. CASE woken # {}
      <3>1. timer' \in woken
        BY <1>5, <2>2
      <3> QED
        BY <1>4, <1>5, <3>1
    <2> QED
      BY <2>1, <2>2
  <1> QED
    BY <1>3, <1>7, <1>8, <1>9 DEF mine, answer

\* A sync ends with the file it wrote in place.
LEMMA EndsServe ==
    ASSUME SInv, NEW i \in Syncs, Past(i, Written), NEW outcome \in {"ok", "failed"},
           Ends(i, outcome), outcome = "failed" => i # "boot",
           UNCHANGED <<source, disk, lastWritten, fresh>>
    PROVE  /\ OneAtATime' /\ WhoSyncs' /\ Files' /\ SinceTheCall' /\ Owed'
           /\ \A c \in Callers : caller'[c] = "resolved" /\ caller[c] # "resolved" =>
                 disk \in Docs /\ Holds(disk, c)
  <1>0. /\ OneAtATime /\ WhoSyncs /\ Files /\ SinceTheCall /\ Owed /\ CallsOK /\ SyncsOK
        /\ "boot" \in Syncs
    BY SParts, Names
  <1> DEFINE mine(c) == c = i \/ (i = "flush" /\ caller[c] = "flushing")
             answer == IF outcome = "ok" THEN "resolved" ELSE "rejected"
  <1>1. /\ Past(i, HasConfig) /\ Past(i, HasSkills) /\ ~At(i, "load") /\ ~At(i, "compile")
        /\ ~At(i, "fill")
    BY DEF Past, At, Written, HasConfig, HasSkills
  <1>2. i \in InFlight /\ \A j \in InFlight : j = i
    BY <1>0, <1>1, Flying DEF OneAtATime
  <1>3. /\ disk = sync[i].doc /\ disk \in Docs /\ disk # NoDoc /\ disk # Empty
    BY <1>0, Whole DEF Files
  <1>4. /\ Go(i, outcome) /\ boot' = IF i = "boot" THEN "synced" ELSE boot
        /\ settlingDirty' = (settlingDirty /\ i # "boot")
    BY DEF Ends
  <1>5. sync'[i].step = outcome /\ \A j \in Syncs \ {i} : sync'[j] = sync[j]
    BY <1>0, <1>4, GoKeeps DEF Steps
  <1>6. /\ InFlight' = {} /\ \A j \in Syncs : ~At(j, "fill")'
        /\ \A j \in Syncs : ~Past(j, HasConfig)' /\ ~Past(j, HasSkills)' /\ ~Past(j, Written)'
    <2>1. \A j \in Syncs : sync'[j].step \in {"none", "ok", "failed"}
      BY <1>2, <1>5 DEF InFlight
    <2> QED
      BY <2>1 DEF InFlight, At, Past, HasConfig, HasSkills, Written
  <1>7. /\ \A c \in Callers : mine(c) => /\ caller[c] \in {"syncing", "flushing"}
                                         /\ caller'[c] = answer
        /\ \A c \in Callers : ~mine(c) => \/ caller'[c] = caller[c]
                                          \/ /\ caller[c] \in {"waiting", "timed"}
                                             /\ caller'[c] \in {"timed", "lost"}
        /\ timer' # None => caller'[timer'] = "timed"
        /\ (\E c \in Callers : caller[c] \in {"waiting", "timed"}) =>
               \E c \in Callers : caller'[c] \in {"waiting", "timed"}
    BY <1>2, EndsTells
  <1>8. \A c \in Callers : mine(c) => Serves(i, c)
    BY DEF Serves
  <1>9. \A c \in Callers : Serves(i, c) => Holds(disk, c)
    BY <1>0, <1>1, <1>3 DEF SinceTheCall, Holds
  <1>10. \A c \in Callers : mine(c) => Holds(disk, c)
    BY <1>8, <1>9
  <1>11. i \in Callers => mine(i)
    OBVIOUS
  <1>12. i = "flush" => \E c \in Callers : mine(c)
    BY <1>0, <1>2 DEF WhoSyncs
  <1> HIDE DEF mine
  <1>13. \A c \in Callers : caller[c] \in {"deferred", "rejected", "edited"} => caller'[c] = caller[c]
    BY <1>7
  <1>14. OneAtATime'
    BY <1>6 DEF OneAtATime
  <1>15. WhoSyncs'
    <2>1. settlingDirty' => \E c \in Callers : caller'[c] = "deferred"
      BY <1>0, <1>4, <1>13 DEF WhoSyncs
    <2>2. boot' # "syncing"
      BY <1>0, <1>2, <1>4 DEF WhoSyncs
    <2> QED
      BY <1>6, <1>7, <2>1, <2>2 DEF WhoSyncs
  <1>16. Files'
    BY <1>0, <1>3, <1>6 DEF Files
  <1>17. SinceTheCall'
    <2> SUFFICES ASSUME NEW d \in Callers
                 PROVE  /\ caller'[d] \notin {"idle", "edited"} => Holds(source, d)'
                        /\ caller'[d] = "resolved" =>
                              disk' # NoDoc /\ (disk' # Empty => Holds(disk, d)')
      BY <1>6 DEF SinceTheCall
    <2>1. /\ caller[d] \notin {"idle", "edited"} => Holds(source, d)
          /\ caller[d] = "resolved" => Holds(disk, d)
      BY <1>0, <1>3 DEF SinceTheCall
    <2>2. caller'[d] \notin {"idle", "edited"} => Holds(source, d)
      BY <1>7, <2>1
    <2>3. caller'[d] = "resolved" => Holds(disk, d)
      BY <1>7, <1>10, <2>1
    <2> QED
      BY <1>3, <2>2, <2>3 DEF Holds
  <1>18. Owed'
    <2>1. CASE outcome = "failed"
      <3>1. \E c \in Callers : mine(c)
        BY <1>11, <1>12, <2>1 DEF Syncs
      <3> QED
        BY <1>7, <2>1, <3>1 DEF Owed
    <2>2. CASE \E c \in Callers : caller[c] = "rejected"
      BY <1>13, <2>2 DEF Owed
    <2>3. CASE boot = "preparing"
      <3>1. i # "boot"
        BY <1>0, <1>2, <2>3 DEF WhoSyncs
      <3> QED
        BY <1>4, <2>3, <3>1 DEF Owed, WillRead
    <2>4. CASE \E c \in Callers : caller[c] \in {"edited", "waiting", "timed", "deferred"}
      BY <1>7, <1>13, <2>4 DEF Owed, WillRead
    <2>5. CASE \E j \in Syncs : At(j, "load")
      BY <1>1, <1>2, <2>5, Flying
    <2>6. CASE ConfigCarried /\ SkillsCarried
      <3>1. disk[1] = source[1] /\ disk[2] = source[2]
        BY <1>1, <1>2, <1>3, <2>6 DEF ConfigCarried, SkillsCarried
      <3> QED
        BY <1>6, <3>1 DEF Owed, ConfigCarried, SkillsCarried
    <2> QED
      BY <1>0, <2>2, <2>3, <2>4, <2>5, <2>6 DEF Owed, WillRead
  <1>19. \A c \in Callers : caller'[c] = "resolved" /\ caller[c] # "resolved" => Holds(disk, c)
    BY <1>7, <1>10
  <1> QED
    BY <1>3, <1>14, <1>15, <1>16, <1>17, <1>18, <1>19

(***************************************************************************)
(* Each step of doSync() serves the same.                                  *)
(***************************************************************************)

Serve == OneAtATime' /\ WhoSyncs' /\ Files' /\ SinceTheCall' /\ Owed'

\* A step within a sync that leaves the file alone.
LEMMA FilesLeftAlone ==
    ASSUME Files, NEW i \in Syncs, UNCHANGED <<disk, lastWritten, boot>>,
           \A j \in Syncs \ {i} : sync'[j] = sync[j],
           ~At(i, "fill"), ~At(i, "fill")',
           Past(i, Written)' => Past(i, Written) /\ sync'[i].doc = sync[i].doc
    PROVE  Files'
  <1>1. \A j \in Syncs : At(j, "fill")' <=> At(j, "fill")
    BY DEF At
  <1>2. \A j \in Syncs : Past(j, Written)' => disk = sync'[j].doc
    BY DEF Files, Past
  <1> QED
    BY <1>1, <1>2 DEF Files

LEMMA LoadConfigServes ==
    ASSUME SInv, NEW i \in Syncs, LoadConfig(i) PROVE Serve
  <1>0. SyncsOK /\ Files
    BY SParts
  <1>1. /\ sync[i].step = "load" /\ sync'[i].step = "compile" /\ sync'[i].doc[1] = source[1]
        /\ \A j \in Syncs \ {i} : sync'[j] = sync[j]
    BY <1>0 DEF LoadConfig, At, SyncsOK, SyncStates
  <1>2. UNCHANGED <<source, caller, service, boot, fresh, disk, lastWritten>>
    BY DEF LoadConfig, caches
  <1>3. Proceeds(i)
    BY <1>1, <1>2 DEF Proceeds
  <1>4. Files'
    BY <1>0, <1>1, <1>2, FilesLeftAlone DEF At, Past, Written
  <1> QED
    BY <1>3, <1>4, ProceedsKeeps DEF Serve

LEMMA CompileServes ==
    ASSUME SInv, NEW i \in Syncs, Compile(i) PROVE Serve
  <1>0. SyncsOK /\ Files
    BY SParts
  <1>1. /\ sync[i].step = "compile" /\ sync'[i].step = "compare"
        /\ sync'[i].doc = <<sync[i].doc[1], source[2]>>
        /\ \A j \in Syncs \ {i} : sync'[j] = sync[j]
    BY <1>0 DEF Compile, At, SyncsOK
  <1>2. UNCHANGED <<source, caller, service, boot, fresh, disk, lastWritten>>
    BY DEF Compile, caches
  <1>3. Proceeds(i)
    BY <1>1, <1>2 DEF Proceeds
  <1>4. Files'
    BY <1>0, <1>1, <1>2, FilesLeftAlone DEF At, Past, Written
  <1> QED
    BY <1>3, <1>4, ProceedsKeeps DEF Serve

\* What going on to the next step means to the sync, whose document stays.
LEMMA GoesOn ==
    ASSUME SInv, NEW i \in Syncs, NEW step \in HasSkills, Go(i, step), Past(i, HasSkills),
           UNCHANGED <<source, caller, service, boot, fresh>>,
           disk' \in {disk, Empty, sync[i].doc}
    PROVE  /\ Proceeds(i) /\ sync'[i].step = step /\ sync'[i].doc = sync[i].doc
           /\ \A j \in Syncs \ {i} : sync'[j] = sync[j]
           /\ i \in InFlight /\ \A j \in InFlight : j = i
  <1>0. SyncsOK /\ OneAtATime
    BY SParts
  <1>1. sync'[i].step = step /\ sync'[i].doc = sync[i].doc
        /\ \A j \in Syncs \ {i} : sync'[j] = sync[j]
    BY <1>0 DEF Go, SyncsOK, SyncStates
  <1>2. Proceeds(i)
    BY <1>1 DEF Proceeds, Past
  <1>3. i \in InFlight /\ \A j \in InFlight : j = i
    BY <1>0, Flying DEF OneAtATime
  <1> QED
    BY <1>1, <1>2, <1>3

\* Content that is in the file is skipped rightly: with no other sync the cache is of
\* the file.
LEMMA CompareServes ==
    ASSUME SInv, NEW i \in Syncs, Compare(i) PROVE Serve
  <1>0. SyncsOK /\ Files /\ OneAtATime
    BY SParts
  <1>1. /\ At(i, "compare") /\ lastWritten' = IF lastWritten = NoDoc THEN disk ELSE lastWritten
        /\ UNCHANGED <<source, caller, service, boot, fresh>>
    BY DEF Compare
  <1>2. sync[i].doc \in Docs /\ NoDoc \notin Docs /\ Empty \notin Docs /\ Empty # NoDoc
    BY <1>0, Whole
  <1>3. \A j \in Syncs : ~At(j, "fill") /\ (j # i => ~Past(j, Written))
    <2>1. i \in InFlight
      BY <1>1 DEF At, InFlight
    <2>2. \A j \in Syncs : j # i => j \notin InFlight
      BY <1>0, <2>1 DEF OneAtATime
    <2> QED
      BY <1>1, <2>2 DEF At, InFlight, Past, Written
  <1>4. disk \in Docs \cup {NoDoc} /\ disk # Empty /\ lastWritten' = disk
    BY <1>0, <1>1, <1>2, <1>3 DEF Files
  <1>5. CASE disk = sync[i].doc
    <2>1. Go(i, "note") /\ disk' = disk
      BY <1>4, <1>5 DEF Compare
    <2>2. /\ Proceeds(i) /\ sync'[i].step = "note" /\ sync'[i].doc = sync[i].doc
          /\ \A j \in Syncs \ {i} : sync'[j] = sync[j]
      BY <1>1, <2>1, GoesOn DEF At, Past, HasSkills
    <2>3. \A j \in Syncs : ~At(j, "fill")' /\ (j # i => ~Past(j, Written)')
      BY <1>3, <2>2 DEF At, Past
    <2>4. Files'
      BY <1>0, <1>1, <1>2, <1>4, <1>5, <2>1, <2>2, <2>3 DEF Files
    <2> QED
      BY <2>2, <2>4, ProceedsKeeps DEF Serve
  <1>6. CASE disk # sync[i].doc
    <2>1. Go(i, "fill") /\ disk' = Empty
      BY <1>4, <1>6 DEF Compare
    <2>2. /\ Proceeds(i) /\ sync'[i].step = "fill"
          /\ \A j \in Syncs \ {i} : sync'[j] = sync[j]
      BY <1>1, <2>1, GoesOn DEF At, Past, HasSkills
    <2>3. At(i, "fill")' /\ \A j \in Syncs : ~Past(j, Written)'
      BY <1>3, <2>2 DEF At, Past, Written
    <2>4. Files'
      BY <1>2, <1>4, <2>1, <2>3 DEF Files
    <2> QED
      BY <2>2, <2>4, ProceedsKeeps DEF Serve
  <1> QED
    BY <1>5, <1>6

\* The file that a sync fills is the one it truncated: it is not torn.
LEMMA FillServes ==
    ASSUME SInv, NEW i \in Syncs, Fill(i) PROVE Serve
  <1>0. SyncsOK /\ Files /\ OneAtATime
    BY SParts
  <1>1. /\ At(i, "fill") /\ Go(i, "note") /\ lastWritten' = sync[i].doc
        /\ UNCHANGED <<source, caller, service, boot, fresh>>
    BY DEF Fill
  <1>2. disk = Empty /\ disk' = sync[i].doc
    BY <1>0, <1>1 DEF Fill, Files
  <1>3. sync[i].doc \in Docs /\ NoDoc \notin Docs /\ Empty \notin Docs
    BY <1>0, Whole
  <1>4. /\ Proceeds(i) /\ sync'[i].step = "note" /\ sync'[i].doc = sync[i].doc
        /\ \A j \in Syncs \ {i} : sync'[j] = sync[j]
        /\ \A j \in InFlight : j = i
    BY <1>1, <1>2, GoesOn DEF At, Past, HasSkills
  <1>5. \A j \in Syncs : ~At(j, "fill")' /\ (j # i => ~Past(j, Written)')
    <2>1. \A j \in Syncs : j # i => j \notin InFlight
      BY <1>4
    <2> QED
      BY <1>4, <2>1 DEF At, InFlight, Past, Written
  <1>6. Files'
    BY <1>1, <1>2, <1>3, <1>4, <1>5 DEF Files
  <1> QED
    BY <1>4, <1>6, ProceedsKeeps DEF Serve

LEMMA NoteServes ==
    ASSUME SInv, NEW i \in Syncs, Note(i) PROVE Serve
  <1>0. Files
    BY SParts
  <1>1. /\ At(i, "note") /\ Go(i, "finish")
        /\ UNCHANGED <<source, caller, service, boot, fresh, disk, lastWritten>>
    BY DEF Note
  <1>2. /\ Proceeds(i) /\ sync'[i].step = "finish" /\ sync'[i].doc = sync[i].doc
        /\ \A j \in Syncs \ {i} : sync'[j] = sync[j]
    BY <1>1, GoesOn DEF At, Past, HasSkills
  <1>3. Files'
    BY <1>0, <1>1, <1>2, FilesLeftAlone DEF At, Past, Written
  <1> QED
    BY <1>2, <1>3, ProceedsKeeps DEF Serve

\* What the callers are told.
Told == \A c \in Callers : caller'[c] = "resolved" /\ caller[c] # "resolved" =>
            disk \in Docs /\ Holds(disk, c)

LEMMA FinishServes ==
    ASSUME SInv, NEW i \in Syncs, Finish(i) PROVE Serve /\ Told
  <1>0. Files
    BY SParts
  <1>1. At(i, "finish") /\ UNCHANGED <<source, disk, lastWritten, fresh>>
    BY DEF Finish
  <1>2. CASE Go(i, "nudge") /\ UNCHANGED <<caller, service, boot>>
    <2>1. /\ Proceeds(i) /\ sync'[i].step = "nudge" /\ sync'[i].doc = sync[i].doc
          /\ \A j \in Syncs \ {i} : sync'[j] = sync[j]
      BY <1>1, <1>2, GoesOn DEF At, Past, HasSkills
    <2>2. Files'
      BY <1>0, <1>1, <1>2, <2>1, FilesLeftAlone DEF At, Past, Written
    <2> QED
      BY <1>2, <2>1, <2>2, ProceedsKeeps DEF Serve, Told
  <1>3. CASE Ends(i, "ok")
    <2>1. Past(i, Written)
      BY <1>1 DEF At, Past, Written
    <2> QED
      BY <1>1, <1>3, <2>1, EndsServe DEF Serve, Told
  <1> QED
    BY <1>2, <1>3 DEF Finish

LEMMA NudgeServes ==
    ASSUME SInv, NEW i \in Syncs, Nudge(i) PROVE Serve /\ Told
  <1>1. /\ Past(i, Written) /\ Ends(i, "ok")
        /\ UNCHANGED <<source, disk, lastWritten, fresh>>
    BY DEF Nudge, At, Past, Written
  <1> QED
    BY <1>1, EndsServe DEF Serve, Told

LEMMA FailsServes ==
    ASSUME OneSync, SInv, NEW i \in Syncs, Fails(i) PROVE Serve /\ Told
  <1>1. /\ Past(i, Written) /\ Ends(i, "failed") /\ i # "boot"
        /\ UNCHANGED <<source, disk, lastWritten, fresh>>
    BY SyncConstants DEF OneSync, Fails, At, Past, Written, caches
  <1> QED
    BY <1>1, EndsServe DEF Serve, Told

LEMMA GatewayServes ==
    ASSUME SInv, GatewayStarts \/ LinkComesUp \/ LinkDrops PROVE Serve
  <1>0. Files
    BY SParts
  <1>1. UNCHANGED <<source, caller, service, boot, sync, disk, caches, fresh>>
    BY DEF GatewayStarts, LinkComesUp, LinkDrops
  <1>2. OneAtATime' /\ WhoSyncs' /\ SinceTheCall' /\ Owed'
    BY <1>1, AsideKeeps DEF service
  <1>3. Files'
    BY <1>0, <1>1 DEF Files, At, Past, caches
  <1> QED
    BY <1>2, <1>3 DEF Serve

LEMMA SInvInit == Init => SInv
  <1> SUFFICES ASSUME Init PROVE SInv
    OBVIOUS
  <1>1. IInv
    BY IInvInit
  <1>2. \A i \in Syncs : sync[i].step = "none"
    BY DEF Init
  <1>3. InFlight = {} /\ OneAtATime
    BY <1>2 DEF InFlight, OneAtATime
  <1>4. WhoSyncs
    BY <1>3 DEF Init, WhoSyncs
  <1>5. Files
    BY <1>2, Whole DEF Init, Files, At, Past, Written
  <1>6. SinceTheCall
    BY <1>2 DEF Init, SinceTheCall, Past, HasConfig, HasSkills
  <1>7. Owed
    BY DEF Init, Owed, WillRead
  <1> QED
    BY <1>1, <1>3, <1>4, <1>5, <1>6, <1>7 DEF SInv

LEMMA NextServes ==
    ASSUME OneSync, SInv, [Next]_vars PROVE SInv' /\ Told
  <1>0. IInv' /\ Files /\ CallsOK
    BY SParts, IInvStep
  <1>1. ASSUME NEW c \in Callers, Edit(c) PROVE Serve /\ Told
    <2>1. \A d \in Callers : caller'[d] = caller[d] \/ caller'[d] = "edited"
      BY <1>0, <1>1 DEF Edit, CallsOK
    <2> QED
      BY <1>1, <2>1, EditServes DEF Serve, Told
  <1>2. ASSUME NEW c \in Callers, SyncAll(c) PROVE Serve /\ Told
    <2>1. \A d \in Callers : caller'[d] = caller[d] \/ caller'[d] # "resolved"
      BY <1>0, <1>2 DEF SyncAll, Arm, CallsOK
    <2> QED
      BY <1>2, <2>1, SyncAllServes DEF Serve, Told
  <1>3. ASSUME TimerFires \/ BootSync \/ EndSettling PROVE Serve /\ Told
    <2>1. \A d \in Callers : caller'[d] = caller[d] \/ caller'[d] # "resolved"
      BY <1>0, <1>3 DEF TimerFires, BootSync, EndSettling, CallsOK
    <2>2. Told
      BY <2>1 DEF Told
    <2> QED
      BY <1>3, <2>2, StartsServe DEF Serve
  <1>4. ASSUME NEW i \in Syncs, LoadConfig(i) \/ Compile(i) \/ Compare(i) \/ Fill(i) \/ Note(i)
        PROVE  Serve /\ Told
    <2>1. caller' = caller
      BY <1>4 DEF LoadConfig, Compile, Compare, Fill, Note
    <2>2. Told
      BY <2>1 DEF Told
    <2> QED
      BY <1>4, <2>2, LoadConfigServes, CompileServes, CompareServes, FillServes, NoteServes
  <1>5. ASSUME NEW i \in Syncs, Finish(i) \/ Nudge(i) \/ Fails(i) PROVE Serve /\ Told
    BY <1>5, FinishServes, NudgeServes, FailsServes
  <1>6. ASSUME GatewayStarts \/ LinkComesUp \/ LinkDrops PROVE Serve /\ Told
    <2>1. caller' = caller
      BY <1>6 DEF GatewayStarts, LinkComesUp, LinkDrops
    <2>2. Told
      BY <2>1 DEF Told
    <2> QED
      BY <1>6, <2>2, GatewayServes
  <1>7. ASSUME UNCHANGED vars PROVE Serve /\ Told
    <2>1. UNCHANGED <<source, caller, timer, settlingDirty, boot, sync, disk, lastWritten, fresh>>
      BY <1>7 DEF vars, service, caches
    <2>2. OneAtATime' /\ WhoSyncs' /\ SinceTheCall' /\ Owed'
      BY <2>1, AsideKeeps
    <2>3. Files'
      BY <1>0, <2>1 DEF Files, At, Past
    <2>4. Told
      BY <2>1 DEF Told
    <2> QED
      BY <2>2, <2>3, <2>4 DEF Serve
  <1>8. Serve /\ Told
    <2>1. CASE \E c \in Callers : Edit(c) \/ SyncAll(c)
      BY <1>1, <1>2, <2>1
    <2>2. CASE \E i \in Syncs : DoSync(i) \/ Fails(i)
      BY <1>4, <1>5, <2>2 DEF DoSync
    <2> QED
      BY <1>3, <1>6, <1>7, <2>1, <2>2 DEF Next
  <1> QED
    BY <1>0, <1>8 DEF Serve, SInv

\* While no two syncs overlap the file is whole, and every sync under way read what
\* its callers had written.
THEOREM FileFollows == ASSUME OneSync PROVE Spec => []SInv
  BY SInvInit, NextServes, PTL DEF Spec

LEMMA RestIsCurrent == SInv => QuietDiskIsCurrent
  <1> SUFFICES ASSUME SInv, Quiet PROVE disk = source
    BY DEF QuietDiskIsCurrent
  <1>0. Files /\ SinceTheCall /\ Owed /\ DataOK
    BY SParts
  <1>1. InFlight = {} /\ boot = "synced"
        /\ \A c \in Callers : caller[c] \in {"idle", "lost", "resolved", "rejected"}
    BY DEF Quiet
  <1>2. \A i \in Syncs : ~At(i, "fill") /\ ~At(i, "load")
    BY <1>1 DEF InFlight, At
  <1>3. disk \in Docs /\ source \in Docs
    BY <1>0, <1>1, <1>2 DEF Files, DataOK
  <1>4. ~WillRead
    BY <1>1, <1>2 DEF WillRead
  <1>5. disk[1] = source[1] /\ disk[2] = source[2]
    <2>1. CASE ConfigCarried /\ SkillsCarried
      BY <1>1, <2>1 DEF ConfigCarried, SkillsCarried
    <2>2. CASE \E c \in Callers : caller[c] = "rejected"
      <3>1. PICK c \in Callers : caller[c] = "resolved" /\ fresh[c] = <<{source[1]}, {source[2]}>>
        BY <2>2 DEF Quiet
      <3>2. Holds(disk, c)
        BY <1>0, <1>3, <3>1, Whole DEF SinceTheCall
      <3> QED
        BY <3>1, <3>2 DEF Holds
    <2> QED
      BY <1>0, <1>4, <2>1, <2>2 DEF Owed
  <1> QED
    BY <1>3, <1>5, Whole

\* At rest openclaw.json is the compilation of the sources, for any callers and
\* values, any drops of the connection and any failures after the write: no edit
\* is forgotten by the debounce, by the deferral while settling, or by the
\* comparison with the cached content.
THEOREM RestingFileIsCurrent == ASSUME OneSync PROVE Spec => []QuietDiskIsCurrent
  BY FileFollows, RestIsCurrent, PTL

\* A resolved syncAll() has its caller's edit, or a later one, in the file: the
\* debounce, the wait for a sync in flight and the flush all read after the call.
THEOREM AnswersAreRead == ASSUME OneSync PROVE Spec => AnsweredIsOnDisk
  <1> DEFINE Answer == \A c \in Callers :
                          caller'[c] = "resolved" /\ caller[c] # "resolved" =>
                              /\ disk \in Docs
                              /\ disk[1] \in fresh[c][1] /\ disk[2] \in fresh[c][2]
  <1>1. SInv /\ [Next]_vars => [Answer]_vars
    BY NextServes DEF Told, Holds
  <1> QED
    BY <1>1, FileFollows, PTL DEF Spec, AnsweredIsOnDisk

(***************************************************************************)
(* The gateway's skills.  When, besides, the controller starts the gateway *)
(* itself, the skills the gateway started with follow the ledger, unless   *)
(* the code is known to have left the gateway behind (missed).             *)
(***************************************************************************)

Managing == OneSync /\ Managed

\* The steps at which the push has been decided, and those after it was noted.
Decided == {"compare", "fill", "note"}
Noted == {"finish", "nudge"}

GatewayAfterBoot == gateway.up => boot = "synced"

\* A sync that saw the connection has a running gateway, which only it restarts.
SeenIsUp == \A i \in Syncs : Past(i, HasSkills) /\ i \notin blind => gateway.up

\* Between two syncs the service's marks are of the file, unless one failed.
MarksFollow ==
    boot = "synced" =>
        /\ lapsed = "no" /\ (\A i \in Syncs : ~Past(i, HasSkills)) => lastPushed = disk
        /\ lapsed # "late" /\ (\A i \in Syncs : ~Past(i, Noted)) => lastSkills = lastPushed[2]

\* An early failure is one before a running gateway.
EarlyIsUp == lapsed = "early" => gateway.up

\* A sync that sees the connection and will ask for no restart changes no skills.
WillAsk ==
    \A i \in Syncs \ blind :
        /\ Past(i, Decided) => (sync[i].push <=> sync[i].doc # lastPushed)
        /\ At(i, "finish") /\ lapsed # "late" => sync[i].push \/ lastSkills = sync[i].doc[2]

NotedIsPushed == \A i \in Syncs : Past(i, Noted) => lastPushed = sync[i].doc

\* The gateway has the skills last marked, unless a blind sync may be bringing others.
GatewayFollows ==
    /\ gateway.up /\ ~missed /\ lapsed # "late"
    /\ \A i \in Syncs : Past(i, HasSkills) => i \notin blind
    => gateway.skills = lastSkills

Skills == /\ GatewayAfterBoot /\ SeenIsUp /\ EarlyIsUp
          /\ MarksFollow /\ WillAsk /\ NotedIsPushed /\ GatewayFollows

KInv == SInv /\ Skills

\* While a sync is in flight no other is past any step.
LEMMA OnlyOne ==
    ASSUME SInv, NEW i \in Syncs, i \in InFlight
    PROVE  \A j \in Syncs \ {i} :
              ~Past(j, HasSkills) /\ ~Past(j, Noted) /\ ~Past(j, Decided) /\ ~At(j, "finish")
  <1>1. OneAtATime
    BY SParts
  <1> QED
    BY <1>1 DEF OneAtATime, InFlight, Past, At, HasSkills, Noted, Decided

\* A step that leaves the syncs, the gateway and the marks alone.
LEMMA SkillsLeftAlone ==
    ASSUME Skills, UNCHANGED <<boot, sync, disk, lastPushed, lastSkills, gateway, misses>>
    PROVE  Skills'
  BY DEF Skills, GatewayAfterBoot, SeenIsUp, EarlyIsUp, MarksFollow, WillAsk, NotedIsPushed,
         GatewayFollows, Past, At, misses

\* A sync that starts has decided nothing.
LEMMA StartKeepsSkills ==
    ASSUME Managing, KInv, NEW i \in Syncs, StartSync(i),
           boot' = boot \/ (boot = "preparing" /\ boot' = "syncing")
    PROVE  Skills'
  <1>0. Skills /\ SyncsOK
    BY SParts DEF KInv
  <1>1. /\ InFlight = {} /\ sync' = [sync EXCEPT ![i].step = "load"]
        /\ UNCHANGED <<disk, lastPushed, lastSkills, gateway, blind, lapsed, missed>>
    BY DEF StartSync, Managing, OneSync, caches, bounds, misses
  <1>2. sync'[i].step = "load" /\ \A j \in Syncs \ {i} : sync'[j] = sync[j]
    BY <1>0, <1>1 DEF SyncsOK, SyncStates
  <1>3. \A j \in Syncs : /\ ~Past(j, HasSkills) /\ ~Past(j, HasSkills)'
                         /\ ~Past(j, Noted) /\ ~Past(j, Noted)'
                         /\ ~Past(j, Decided)' /\ ~At(j, "finish")'
    BY <1>1, <1>2 DEF InFlight, Past, At, Noted, Decided, HasSkills
  <1>4. GatewayAfterBoot' /\ EarlyIsUp'
    BY <1>0, <1>1 DEF Skills, GatewayAfterBoot, EarlyIsUp
  <1>5. MarksFollow' /\ GatewayFollows'
    BY <1>0, <1>1, <1>3 DEF Skills, MarksFollow, GatewayFollows
  <1>6. SeenIsUp' /\ WillAsk' /\ NotedIsPushed'
    BY <1>3 DEF SeenIsUp, WillAsk, NotedIsPushed
  <1> QED
    BY <1>4, <1>5, <1>6 DEF Skills

\* The steps of a sync that come before its config is noted.  One that compiles
\* with the connection up knows the config last noted.
LEMMA DecidingKeepsSkills ==
    ASSUME KInv, NEW i \in Syncs, i \in InFlight, ~Past(i, Noted), ~Past(i, Noted)',
           UNCHANGED <<boot, lastPushed, lastSkills, gateway, lapsed, missed>>,
           \A j \in Syncs \ {i} : sync'[j] = sync[j],
           Past(i, HasSkills) => Past(i, HasSkills)' /\ blind' = blind,
           Past(i, HasSkills)' \/ disk' = disk,
           Past(i, HasSkills)' /\ i \notin blind' =>
              gateway.up /\ (sync'[i].push <=> sync'[i].doc # lastPushed)
    PROVE  Skills'
  <1>0. Skills
    BY DEF KInv
  <1>1. \A j \in Syncs \ {i} :
           /\ ~Past(j, HasSkills) /\ ~Past(j, Noted) /\ ~Past(j, Decided) /\ ~At(j, "finish")
           /\ ~Past(j, HasSkills)' /\ ~Past(j, Noted)' /\ ~Past(j, Decided)'
           /\ ~At(j, "finish")'
    BY OnlyOne DEF KInv, Past, At
  <1>2. ~At(i, "finish")' /\ (Past(i, Decided)' => Past(i, HasSkills)')
    BY DEF Past, At, Noted, Decided, HasSkills
  <1>3. GatewayAfterBoot' /\ EarlyIsUp' /\ SeenIsUp'
    BY <1>0, <1>1 DEF Skills, GatewayAfterBoot, EarlyIsUp, SeenIsUp
  <1>4. MarksFollow'
    BY <1>0, <1>1 DEF Skills, MarksFollow
  <1>5. WillAsk' /\ NotedIsPushed'
    BY <1>1, <1>2 DEF WillAsk, NotedIsPushed
  <1>6. GatewayFollows'
    BY <1>0, <1>1 DEF Skills, GatewayFollows
  <1> QED
    BY <1>3, <1>4, <1>5, <1>6 DEF Skills

LEMMA ReadingKeepsSkills ==
    ASSUME KInv, NEW i \in Syncs, LoadConfig(i) \/ Compile(i)
    PROVE  Skills'
  <1>0. SyncsOK /\ DataOK
    BY SParts DEF KInv
  <1>1. UNCHANGED <<boot, disk, lastPushed, lastSkills, gateway, lapsed, missed>>
    BY DEF LoadConfig, Compile, caches, bounds, misses
  <1>2. CASE LoadConfig(i)
    <2>1. /\ sync[i].step = "load" /\ sync'[i].step = "compile"
          /\ \A j \in Syncs \ {i} : sync'[j] = sync[j]
      BY <1>0, <1>2 DEF LoadConfig, At, SyncsOK, SyncStates
    <2>2. /\ i \in InFlight /\ ~Past(i, Noted) /\ ~Past(i, Noted)'
          /\ ~Past(i, HasSkills) /\ ~Past(i, HasSkills)'
      BY <2>1 DEF InFlight, Past, Noted, HasSkills
    <2> QED
      BY <1>1, <2>1, <2>2, DecidingKeepsSkills
  <1>3. CASE Compile(i)
    <2> DEFINE doc == <<sync[i].doc[1], source[2]>>
    <2>1. /\ sync[i].step = "compile"
          /\ sync' = [sync EXCEPT ![i] = [step |-> "compare", doc |-> doc,
                                          push |-> gateway.link /\ doc # lastPushed]]
          /\ blind' = blind \cup (IF gateway.link THEN {} ELSE {i})
      BY <1>3 DEF Compile, At
    <2> HIDE DEF doc
    <2>2. /\ sync'[i].step = "compare" /\ sync'[i].doc = doc
          /\ sync'[i].push <=> gateway.link /\ doc # lastPushed
          /\ \A j \in Syncs \ {i} : sync'[j] = sync[j]
      BY <1>0, <2>1 DEF SyncsOK
    <2>3. /\ i \in InFlight /\ ~Past(i, Noted) /\ ~Past(i, Noted)' /\ ~Past(i, HasSkills)
          /\ Past(i, HasSkills)'
      BY <2>1, <2>2 DEF InFlight, Past, Noted, HasSkills
    <2>4. i \notin blind' => gateway.link /\ gateway.up
      BY <1>0, <2>1 DEF DataOK
    <2>5. i \notin blind' => gateway.up /\ (sync'[i].push <=> sync'[i].doc # lastPushed)
      BY <2>2, <2>4
    <2> QED
      BY <1>1, <2>2, <2>3, <2>5, DecidingKeepsSkills
  <1> QED
    BY <1>2, <1>3

LEMMA WritingKeepsSkills ==
    ASSUME KInv, NEW i \in Syncs, Compare(i) \/ Fill(i)
    PROVE  Skills'
  <1>0. SyncsOK /\ Skills
    BY SParts DEF KInv
  <1>1. UNCHANGED <<boot, lastPushed, lastSkills, gateway, blind, lapsed, missed>>
    BY DEF Compare, Fill, bounds, misses
  <1>2. PICK step \in {"fill", "note"} : Go(i, step)
    BY DEF Compare, Fill
  <1>3. /\ sync'[i].step = step /\ sync'[i].doc = sync[i].doc /\ sync'[i].push = sync[i].push
        /\ \A j \in Syncs \ {i} : sync'[j] = sync[j]
    BY <1>0, <1>2 DEF Go, SyncsOK, SyncStates
  <1>4. i \in InFlight /\ Past(i, Decided) /\ Past(i, HasSkills) /\ ~Past(i, Noted)
    BY DEF Compare, Fill, At, Past, Decided, HasSkills, Noted, InFlight
  <1>5. Past(i, HasSkills)' /\ ~Past(i, Noted)'
    BY <1>3 DEF Past, HasSkills, Noted
  <1>6. i \notin blind => gateway.up /\ (sync[i].push <=> sync[i].doc # lastPushed)
    BY <1>0, <1>4 DEF Skills, SeenIsUp, WillAsk
  <1> QED
    BY <1>1, <1>3, <1>4, <1>5, <1>6, DecidingKeepsSkills

\* The mark moves on: a config that was not to be pushed is the one marked.
LEMMA NoteKeepsSkills ==
    ASSUME KInv, NEW i \in Syncs, Note(i)
    PROVE  Skills'
  <1>0. SyncsOK /\ Skills
    BY SParts DEF KInv
  <1>1. /\ sync[i].step = "note" /\ Go(i, "finish") /\ lastPushed' = sync[i].doc
        /\ UNCHANGED <<boot, lastSkills, gateway, blind, lapsed, missed>>
    BY DEF Note, At, bounds, misses
  <1>2. /\ sync'[i].step = "finish" /\ sync'[i].doc = sync[i].doc /\ sync'[i].push = sync[i].push
        /\ \A j \in Syncs \ {i} : sync'[j] = sync[j]
    BY <1>0, <1>1 DEF Go, SyncsOK, SyncStates
  <1>3. /\ i \in InFlight /\ Past(i, HasSkills) /\ Past(i, HasSkills)' /\ Past(i, Decided)
        /\ ~Past(i, Noted) /\ Past(i, Noted)' /\ ~Past(i, Decided)'
    BY <1>1, <1>2 DEF InFlight, Past, HasSkills, Noted, Decided
  <1>4. \A j \in Syncs \ {i} :
           /\ ~Past(j, HasSkills) /\ ~Past(j, Noted)
           /\ ~Past(j, HasSkills)' /\ ~Past(j, Noted)' /\ ~Past(j, Decided)'
           /\ ~At(j, "finish")'
    BY <1>2, <1>3, OnlyOne DEF KInv, Past, At
  <1>5. GatewayAfterBoot' /\ EarlyIsUp' /\ SeenIsUp' /\ GatewayFollows'
    BY <1>0, <1>1, <1>3, <1>4 DEF Skills, GatewayAfterBoot, EarlyIsUp, SeenIsUp, GatewayFollows
  <1>6. MarksFollow' /\ NotedIsPushed'
    BY <1>1, <1>2, <1>3, <1>4 DEF MarksFollow, NotedIsPushed
  <1>7. ASSUME i \notin blind, lapsed # "late" PROVE sync[i].push \/ lastSkills = sync[i].doc[2]
    <2>1. boot = "synced"
      BY <1>0, <1>3, <1>7 DEF Skills, SeenIsUp, GatewayAfterBoot
    <2>2. lastSkills = lastPushed[2]
      BY <1>0, <1>3, <1>4, <1>7, <2>1 DEF Skills, MarksFollow
    <2>3. sync[i].push <=> sync[i].doc # lastPushed
      BY <1>0, <1>3, <1>7 DEF Skills, WillAsk
    <2> QED
      BY <2>2, <2>3
  <1>8. WillAsk'
    BY <1>1, <1>2, <1>3, <1>4, <1>7 DEF WillAsk
  <1> QED
    BY <1>5, <1>6, <1>8 DEF Skills

\* A sync ends with both marks of what it wrote.
LEMMA EndKeepsSkills ==
    ASSUME KInv, NEW i \in Syncs, Past(i, Noted), Ends(i, "ok"),
           UNCHANGED <<disk, lastPushed>>, lastSkills' = sync[i].doc[2],
           gateway'.up => gateway.up, lapsed' = "no",
           gateway'.up /\ ~missed' => gateway'.skills = sync[i].doc[2]
    PROVE  Skills'
  <1>0. SyncsOK /\ Skills /\ Files
    BY SParts DEF KInv
  <1>1. Go(i, "ok") /\ boot' \in {boot, "synced"}
    BY DEF Ends
  <1>2. sync'[i].step = "ok" /\ \A j \in Syncs \ {i} : sync'[j] = sync[j]
    BY <1>0, <1>1, GoKeeps DEF Steps
  <1>3. i \in InFlight
    BY DEF InFlight, Past, Noted
  <1>4. \A j \in Syncs : /\ ~Past(j, HasSkills)' /\ ~Past(j, Noted)' /\ ~Past(j, Decided)'
                         /\ ~At(j, "finish")'
    BY <1>2, <1>3, OnlyOne DEF KInv, Past, At, HasSkills, Noted, Decided
  <1>5. disk = sync[i].doc /\ lastPushed = sync[i].doc
    BY <1>0 DEF Files, Past, Noted, Written, Skills, NotedIsPushed
  <1>6. GatewayAfterBoot'
    BY <1>0, <1>1 DEF Skills, GatewayAfterBoot
  <1>7. MarksFollow' /\ EarlyIsUp'
    BY <1>5 DEF MarksFollow, EarlyIsUp
  <1>8. WillAsk' /\ NotedIsPushed' /\ SeenIsUp'
    BY <1>4 DEF WillAsk, NotedIsPushed, SeenIsUp
  <1>9. GatewayFollows'
    BY DEF GatewayFollows
  <1> QED
    BY <1>6, <1>7, <1>8, <1>9 DEF Skills

LEMMA FinishKeepsSkills ==
    ASSUME KInv, NEW i \in Syncs, Finish(i)
    PROVE  Skills'
  <1>0. SyncsOK /\ Skills
    BY SParts DEF KInv
  <1>1. /\ At(i, "finish") /\ UNCHANGED <<disk, lastPushed, gateway, blind>>
        /\ Past(i, Noted) /\ Past(i, HasSkills) /\ i \in InFlight
    BY DEF Finish, bounds, At, Past, Noted, HasSkills, InFlight
  <1>2. \A j \in Syncs \ {i} :
           ~Past(j, HasSkills) /\ ~Past(j, Noted) /\ ~Past(j, Decided) /\ ~At(j, "finish")
    BY <1>1, OnlyOne DEF KInv
  <1>3. CASE Go(i, "nudge") /\ UNCHANGED <<boot, lastSkills, lapsed, missed>>
    <2>1. /\ sync'[i].step = "nudge" /\ sync'[i].doc = sync[i].doc
          /\ \A j \in Syncs \ {i} : sync'[j] = sync[j]
      BY <1>0, <1>3 DEF Go, SyncsOK, SyncStates
    <2>2. Past(i, Noted)' /\ Past(i, HasSkills)' /\ ~Past(i, Decided)' /\ ~At(i, "finish")'
      BY <2>1 DEF Past, At, Noted, Decided, HasSkills
    <2>3. \A j \in Syncs \ {i} : /\ ~Past(j, HasSkills)' /\ ~Past(j, Noted)' /\ ~Past(j, Decided)'
                                 /\ ~At(j, "finish")'
      BY <1>2, <2>1 DEF Past, At
    <2>4. GatewayAfterBoot' /\ EarlyIsUp' /\ SeenIsUp' /\ GatewayFollows'
      BY <1>0, <1>1, <1>2, <1>3, <2>2, <2>3
         DEF Skills, GatewayAfterBoot, EarlyIsUp, SeenIsUp, GatewayFollows
    <2>5. NotedIsPushed' /\ WillAsk' /\ MarksFollow'
      BY <1>0, <1>1, <2>1, <2>2, <2>3 DEF Skills, NotedIsPushed, WillAsk, MarksFollow
    <2> QED
      BY <2>4, <2>5 DEF Skills
  <1>4. CASE /\ Ends(i, "ok") /\ lastSkills' = sync[i].doc[2]
             /\ Misses(i, i \in blind \/ lapsed = "late" \/ missed)
             /\ ~(sync[i].push /\ lastSkills # sync[i].doc[2])
    <2>1. ASSUME gateway.up, ~missed' PROVE gateway.skills = sync[i].doc[2]
      <3>1. SUFFICES ASSUME i \notin blind, lapsed # "late", ~missed
                     PROVE  gateway.skills = sync[i].doc[2]
        BY <1>4, <2>1 DEF Misses
      <3>2. gateway.skills = lastSkills
        BY <1>0, <1>2, <2>1, <3>1 DEF Skills, GatewayFollows
      <3>3. sync[i].push \/ lastSkills = sync[i].doc[2]
        BY <1>0, <1>1, <3>1 DEF Skills, WillAsk
      <3> QED
        BY <1>4, <3>2, <3>3
    <2>2. lapsed' = "no"
      BY <1>4 DEF Misses
    <2> QED
      BY <1>1, <1>4, <2>1, <2>2, EndKeepsSkills
  <1> QED
    BY <1>3, <1>4 DEF Finish, service

\* The restart that is asked for takes the gateway down; one that fails is missed.
LEMMA NudgeKeepsSkills ==
    ASSUME KInv, NEW i \in Syncs, Nudge(i)
    PROVE  Skills'
  <1>0. DataOK
    BY SParts DEF KInv
  <1>1. /\ Past(i, Noted) /\ Ends(i, "ok") /\ lastSkills' = sync[i].doc[2]
        /\ UNCHANGED <<disk, lastPushed>> /\ lapsed' = "no"
    BY DEF Nudge, At, Past, Noted, Misses
  <1>2. CASE gateway' = [gateway EXCEPT !.up = FALSE, !.link = FALSE]
    <2>1. ~gateway'.up
      BY <1>0, <1>2 DEF DataOK
    <2> QED
      BY <1>1, <2>1, EndKeepsSkills
  <1>3. CASE Misses(i, TRUE) /\ UNCHANGED gateway
    <2>1. gateway'.up /\ ~missed' => gateway'.skills = sync[i].doc[2]
      BY <1>3 DEF Misses
    <2> QED
      BY <1>1, <1>3, <2>1, EndKeepsSkills
  <1> QED
    BY <1>2, <1>3 DEF Nudge

\* A sync that fails before its config is noted leaves the marks of a gateway that
\* had them.
LEMMA FailsKeepsSkills ==
    ASSUME KInv, NEW i \in Syncs, Fails(i)
    PROVE  Skills'
  <1>0. SyncsOK /\ Skills
    BY SParts DEF KInv
  <1>1. PICK step \in Faults \ {"nudge"} :
          /\ At(i, step) /\ i # "boot" /\ Ends(i, "failed")
          /\ lapsed' = IF /\ lapsed # "late" /\ step # "finish"
                          /\ gateway.up /\ gateway.skills = lastSkills
                       THEN "early" ELSE "late"
          /\ UNCHANGED <<disk, lastPushed, lastSkills, gateway, blind, missed>>
    BY DEF Fails, caches
  <1>2. boot' = boot /\ sync'[i].step = "failed" /\ \A j \in Syncs \ {i} : sync'[j] = sync[j]
    BY <1>0, <1>1, GoKeeps DEF Ends, Steps
  <1>3. step \in {"fill", "note", "finish"}
    BY <1>1, SyncConstants
  <1>4. i \in InFlight /\ (step # "finish" => ~Past(i, Noted))
    BY <1>1, <1>3 DEF At, InFlight, Past, Noted
  <1>5. \A j \in Syncs : /\ ~Past(j, HasSkills)' /\ ~Past(j, Noted)' /\ ~Past(j, Decided)'
                         /\ ~At(j, "finish")'
    BY <1>2, <1>4, OnlyOne DEF KInv, Past, At, HasSkills, Noted, Decided
  <1>6. GatewayAfterBoot' /\ EarlyIsUp'
    BY <1>0, <1>1, <1>2 DEF Skills, GatewayAfterBoot, EarlyIsUp
  <1>7. SeenIsUp' /\ WillAsk' /\ NotedIsPushed'
    BY <1>5 DEF SeenIsUp, WillAsk, NotedIsPushed
  <1>8. MarksFollow'
    <2>1. SUFFICES ASSUME boot = "synced", lapsed' # "late"
                   PROVE  lapsed' = "early" /\ lastSkills = lastPushed[2]
      BY <1>1, <1>2 DEF MarksFollow
    <2>2. lapsed # "late" /\ step # "finish"
      BY <1>1, <2>1
    <2>3. \A j \in Syncs : ~Past(j, Noted)
      BY <1>4, <2>2, OnlyOne DEF KInv
    <2> QED
      BY <1>0, <1>1, <2>1, <2>2, <2>3 DEF Skills, MarksFollow
  <1>9. GatewayFollows'
    BY <1>1 DEF GatewayFollows
  <1> QED
    BY <1>6, <1>7, <1>8, <1>9 DEF Skills

\* A gateway that starts while no sync may be bringing other skills starts from a
\* file that both marks are of.
LEMMA GatewayKeepsSkills ==
    ASSUME Managing, KInv, GatewayStarts \/ LinkComesUp \/ LinkDrops
    PROVE  Skills'
  <1>0. DataOK /\ Skills
    BY SParts DEF KInv
  <1>1. UNCHANGED <<boot, sync, disk, lastPushed, lastSkills, blind, lapsed>>
    BY DEF GatewayStarts, LinkComesUp, LinkDrops, caches, misses
  <1>2. CASE GatewayStarts
    <2>1. /\ ~gateway.up /\ boot = "synced"
          /\ gateway' = [up |-> TRUE, link |-> FALSE, skills |-> disk[2]]
      BY <1>2 DEF GatewayStarts, Managing
    <2>2. GatewayAfterBoot' /\ EarlyIsUp' /\ SeenIsUp'
      BY <1>1, <2>1 DEF GatewayAfterBoot, EarlyIsUp, SeenIsUp
    <2>3. MarksFollow' /\ WillAsk' /\ NotedIsPushed'
      BY <1>0, <1>1 DEF Skills, MarksFollow, WillAsk, NotedIsPushed, Past, At
    <2>4. GatewayFollows'
      <3>1. SUFFICES ASSUME lapsed # "late",
                            \A i \in Syncs : Past(i, HasSkills) => i \notin blind
                     PROVE  disk[2] = lastSkills
        BY <1>1, <2>1 DEF GatewayFollows, Past
      <3>2. \A i \in Syncs : ~Past(i, HasSkills) /\ ~Past(i, Noted)
        BY <1>0, <2>1, <3>1 DEF Skills, SeenIsUp, Past, HasSkills, Noted
      <3>3. lapsed = "no"
        BY <1>0, <2>1, <3>1 DEF DataOK, Skills, EarlyIsUp
      <3> QED
        BY <1>0, <2>1, <3>2, <3>3 DEF Skills, MarksFollow
    <2> QED
      BY <2>2, <2>3, <2>4 DEF Skills
  <1>3. CASE LinkComesUp \/ LinkDrops
    <2>1. gateway'.up = gateway.up /\ gateway'.skills = gateway.skills /\ missed' = missed
      BY <1>0, <1>3 DEF LinkComesUp, LinkDrops, DataOK, misses
    <2> QED
      BY <1>0, <1>1, <2>1 DEF Skills, GatewayAfterBoot, SeenIsUp, EarlyIsUp, MarksFollow,
                              WillAsk, NotedIsPushed, GatewayFollows, Past, At
  <1> QED
    BY <1>2, <1>3

LEMMA KInvInit == ASSUME Managing, Init PROVE KInv
  <1>1. SInv
    BY SInvInit DEF Managing
  <1>2. /\ ~gateway.up /\ boot = "preparing" /\ lapsed = "no"
        /\ \A i \in Syncs : sync[i].step = "none"
    BY DEF Init, Managing
  <1>3. \A i \in Syncs : /\ ~Past(i, HasSkills) /\ ~Past(i, Noted) /\ ~Past(i, Decided)
                         /\ ~At(i, "finish")
    BY <1>2 DEF Past, At, HasSkills, Noted, Decided
  <1>4. Skills
    BY <1>2, <1>3 DEF Skills, GatewayAfterBoot, SeenIsUp, EarlyIsUp, MarksFollow, WillAsk,
                      NotedIsPushed, GatewayFollows
  <1> QED
    BY <1>1, <1>4 DEF KInv

LEMMA KInvStep == ASSUME Managing, KInv, [Next]_vars PROVE KInv'
  <1>0. SInv' /\ SInv /\ Skills
    BY NextServes DEF KInv, Managing
  <1>1. ASSUME NEW c \in Callers, Edit(c) \/ SyncAll(c) PROVE Skills'
    <2>1. UNCHANGED <<boot, sync, disk, lastPushed, lastSkills, gateway, misses>>
      BY <1>1 DEF Edit, SyncAll, caches
    <2> QED
      BY <1>0, <2>1, SkillsLeftAlone
  <1>2. ASSUME TimerFires \/ BootSync PROVE Skills'
    BY <1>2, StartKeepsSkills, Names DEF TimerFires, BootSync
  <1>3. ASSUME EndSettling PROVE Skills'
    <2>1. CASE StartSync("flush")
      BY <1>3, <2>1, StartKeepsSkills, Names DEF EndSettling
    <2>2. CASE UNCHANGED <<source, caller, sync, disk, caches, gateway, bounds, fresh, misses>>
      BY <1>0, <1>3, <2>2, SkillsLeftAlone DEF EndSettling, caches
    <2> QED
      BY <1>3, <2>1, <2>2 DEF EndSettling
  <1>4. ASSUME NEW i \in Syncs, DoSync(i) \/ Fails(i) PROVE Skills'
    BY <1>4, ReadingKeepsSkills, WritingKeepsSkills, NoteKeepsSkills, FinishKeepsSkills,
       NudgeKeepsSkills, FailsKeepsSkills DEF DoSync
  <1>5. ASSUME GatewayStarts \/ LinkComesUp \/ LinkDrops PROVE Skills'
    BY <1>5, GatewayKeepsSkills
  <1>6. ASSUME UNCHANGED vars PROVE Skills'
    BY <1>0, <1>6, SkillsLeftAlone DEF vars, caches
  <1>7. Skills'
    <2>1. CASE \E c \in Callers : Edit(c) \/ SyncAll(c)
      BY <1>1, <2>1
    <2>2. CASE \E i \in Syncs : DoSync(i) \/ Fails(i)
      BY <1>4, <2>2
    <2> QED
      BY <1>2, <1>3, <1>5, <1>6, <2>1, <2>2 DEF Next
  <1> QED
    BY <1>0, <1>7 DEF KInv

LEMMA RestIsServed == KInv => QuietGatewayIsCurrent
  <1> SUFFICES ASSUME KInv, Quiet, gateway.up, lapsed = "no", ~missed
               PROVE  gateway.skills = source[2]
    BY DEF QuietGatewayIsCurrent
  <1>1. disk = source
    BY RestIsCurrent DEF KInv, QuietDiskIsCurrent
  <1>2. boot = "synced" /\ \A i \in Syncs : ~Past(i, HasSkills) /\ ~Past(i, Noted)
    BY DEF Quiet, InFlight, Past, Noted, HasSkills
  <1>3. lastPushed = disk /\ lastSkills = lastPushed[2] /\ gateway.skills = lastSkills
    BY <1>2 DEF KInv, Skills, MarksFollow, GatewayFollows
  <1> QED
    BY <1>1, <1>3

\* At rest a running gateway uses the ledger's skills, for any callers and values,
\* any drops of the connection, gateways starting beside a sync and syncs failing
\* after the write, whenever the sync that brought the skills could see the
\* gateway, its restart worked, and no failure before it had left the service's
\* marks and the gateway apart.
THEOREM RestingGatewayIsCurrent == ASSUME Managing PROVE Spec => []QuietGatewayIsCurrent
  <1>1. Init => KInv
    BY KInvInit
  <1>2. KInv /\ [Next]_vars => KInv'
    BY KInvStep
  <1> QED
    BY <1>1, <1>2, RestIsServed, PTL DEF Spec

===============================================================================
