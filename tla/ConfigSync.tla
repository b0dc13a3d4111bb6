------------------------------ MODULE ConfigSync ------------------------------
(***************************************************************************)
(* How an edit reaches the OpenClaw gateway: a caller edits the config     *)
(* store or the skill ledger and calls syncAll(); the calls are debounced, *)
(* deferred while the program settles, and end in doSync(), which compiles *)
(* the two sources into openclaw.json and, when the agents' skills         *)
(* changed, restarts the gateway.                                          *)
(*                                                                         *)
(* Data: a compiled config is the pair <<config, skills>> it was compiled  *)
(* from.  A sync is named after the caller whose debounce timer started    *)
(* it; bootstrap's own and the one that ends settling have names too.      *)
(* The auth-profile, locale, model-state and compiled-snapshot writers     *)
(* that doSync() also awaits are points where it may fail.                 *)
(***************************************************************************)
EXTENDS Naturals, FiniteSets

CONSTANTS
    Callers,       \* each edits once and then calls syncAll() once
    Values,        \* what either source may hold
    NoSkills,      \* the value of an empty allowlist
    Managed,       \* the controller starts the gateway, or attaches to one
    Overlap,       \* bound: may a sync start while another one is in flight?
    LateCalls,     \* bound: may callers act before bootstrap's sync is over?
    Faults,        \* bound: the steps at which a sync may fail
    MaxFaults,     \* bound: how many fail
    MaxDrops       \* bound: how often the WebSocket drops

ASSUME SyncConstants ==
    /\ Managed \in BOOLEAN /\ Overlap \in BOOLEAN /\ LateCalls \in BOOLEAN
    /\ Faults \subseteq {"fill", "note", "finish", "nudge"}
    /\ MaxFaults \in Nat /\ MaxDrops \in Nat
    /\ NoSkills \in Values
    /\ Callers \cap {"none", "boot", "flush"} = {}

None == "none"
Syncs == Callers \cup {"boot", "flush"}
Docs == Values \X Values
NoDoc == <<>>               \* no file; a cache or hash not yet set
Empty == <<"empty">>        \* a file just truncated
Torn == <<"torn">>          \* a file mixed by two writers
Contents == Docs \cup {NoDoc, Empty, Torn}

VARIABLES
    source,       \* NexuConfigStore's config and SkillDb's installed slugs
    caller,       \* where each caller is
    timer,        \* debounceTimer: the caller whose promise it will settle
    pendingSync,  \* the debounced sync in flight
    settling, settlingDirty,
    boot,         \* bootstrap: "preparing", "syncing" or "synced"
    sync,         \* each sync: its step and what it has read and decided
    disk,         \* openclaw.json
    lastWritten,  \* OpenClawConfigWriter.lastWrittenContent
    lastPushed,   \* OpenClawGatewayService.lastPushedConfigHash
    lastSkills,   \* lastSkillAllowlist
    gateway,      \* external: is it up, linked, and the skills it started with
    faults, drops,
    fresh,        \* history: what the sources held since each caller's call
    blind,        \* history: the syncs that compiled without a connection
    lapsed,       \* history: has a sync failed since one last ended well, "early",
                  \* so that a retry finds the marks the running gateway has, or
                  \* "late"?
    missed        \* history: the last sync to end well left a running gateway on
                  \* other skills, being blind or after a late failure, or its
                  \* restart failed

service == <<timer, pendingSync, settling, settlingDirty>>
caches == <<lastWritten, lastPushed, lastSkills>>
bounds == <<faults, drops>>
misses == <<blind, lapsed, missed>>
vars == <<source, caller, service, boot, sync, disk, caches, gateway, bounds, fresh,
          misses>>

CallerPhases == {"idle", "edited", "waiting", "timed", "lost", "deferred",
                 "flushing", "syncing", "resolved", "rejected"}
Steps == {"none", "load", "compile", "compare", "fill", "note", "finish", "nudge",
          "ok", "failed"}

SyncStates == [step : Steps, doc : Docs, push : BOOLEAN]

TypeOK ==
    /\ source \in Docs
    /\ caller \in [Callers -> CallerPhases]
    /\ timer \in Callers \cup {None} /\ pendingSync \in Callers \cup {None}
    /\ settling \in BOOLEAN /\ settlingDirty \in BOOLEAN
    /\ boot \in {"preparing", "syncing", "synced"}
    /\ sync \in [Syncs -> SyncStates]
    /\ disk \in Contents /\ lastWritten \in Contents /\ lastPushed \in Docs \cup {NoDoc}
    /\ lastSkills \in Values
    /\ gateway \in [up : BOOLEAN, link : BOOLEAN, skills : Values]
    /\ gateway.link => gateway.up
    /\ faults \in 0 .. MaxFaults /\ drops \in 0 .. MaxDrops
    /\ fresh \in [Callers -> (SUBSET Values) \X (SUBSET Values)]
    /\ blind \in SUBSET Syncs /\ lapsed \in {"no", "early", "late"} /\ missed \in BOOLEAN

Init ==
    /\ source \in Docs
    /\ caller = [c \in Callers |-> "idle"]
    /\ timer = None /\ pendingSync = None
    /\ settling = FALSE /\ settlingDirty = FALSE
    /\ boot = "preparing"
    /\ sync = [i \in Syncs |-> [step |-> "none", doc |-> source, push |-> FALSE]]
    /\ disk \in Docs \cup {NoDoc}       \* what the last session left
    /\ lastWritten = NoDoc /\ lastPushed = NoDoc /\ lastSkills = NoSkills
    /\ \/ disk # NoDoc /\ ~Managed /\ gateway = [up |-> TRUE, link |-> FALSE, skills |-> disk[2]]
       \/ gateway = [up |-> FALSE, link |-> FALSE, skills |-> source[2]]
    /\ faults = 0 /\ drops = 0
    /\ fresh = [c \in Callers |-> <<{}, {}>>]
    /\ blind = {} /\ lapsed = "no" /\ missed = FALSE

InFlight == {i \in Syncs : sync[i].step \notin {"none", "ok", "failed"}}

(***************************************************************************)
(* The callers, and the debounce.                                          *)
(***************************************************************************)

\* The awaited store update, or the ledger's write, that comes before the call.
Edit(c) ==
    /\ caller[c] = "idle" /\ (LateCalls \/ boot = "synced")
    /\ caller' = [caller EXCEPT ![c] = "edited"]
    /\ \E v \in Values : source' \in {<<v, source[2]>>, <<source[1], v>>}
    /\ fresh' = [d \in Callers |->
                    IF caller[d] = "idle" THEN fresh[d]
                    ELSE <<fresh[d][1] \cup {source'[1]}, fresh[d][2] \cup {source'[2]}>>]
    /\ UNCHANGED <<service, boot, sync, disk, caches, gateway, bounds, misses>>

\* The callers of ready reach the last part of syncAll() one after the other: each
\* clears the timer of the one before, whose promise nothing will settle, and
\* the last one's timer stays.
Arm(phases, ready) ==
    /\ timer' \in IF ready = {} THEN {timer} ELSE ready
    /\ caller' = [c \in Callers |->
                    IF c = timer' THEN "timed"
                    ELSE IF c \in ready \cup {timer} THEN "lost" ELSE phases[c]]

\* syncAll(): deferred while settling, behind the debounced sync in flight, or
\* straight to the timer.
SyncAll(c) ==
    /\ caller[c] = "edited"
    /\ fresh' = [fresh EXCEPT ![c] = <<{source[1]}, {source[2]}>>]
    /\ \/ /\ settling
          /\ settlingDirty' = TRUE
          /\ caller' = [caller EXCEPT ![c] = "deferred"]
          /\ UNCHANGED timer
       \/ /\ ~settling /\ pendingSync # None
          /\ caller' = [caller EXCEPT ![c] = "waiting"]
          /\ UNCHANGED <<timer, settlingDirty>>
       \/ /\ ~settling /\ pendingSync = None
          /\ Arm(caller, {c})
          /\ UNCHANGED settlingDirty
    /\ UNCHANGED <<source, pendingSync, settling, boot, sync, disk, caches, gateway, bounds,
                   misses>>

StartSync(i) ==
    /\ Overlap \/ InFlight = {}
    /\ sync' = [sync EXCEPT ![i].step = "load"]
    /\ UNCHANGED <<source, disk, caches, gateway, bounds, fresh, misses>>

\* The debounce timer fires.
TimerFires ==
    \E c \in Callers :
        /\ timer = c
        /\ timer' = None
        /\ pendingSync' = c
        /\ caller' = [caller EXCEPT ![c] = "syncing"]
        /\ StartSync(c)
        /\ UNCHANGED <<settling, settlingDirty, boot>>

(***************************************************************************)
(* Bootstrap's immediate sync, beginSettling() right after it, and         *)
(* endSettling(), which flushes what was deferred in one sync.             *)
(***************************************************************************)

BootSync ==
    /\ boot = "preparing"
    /\ boot' = "syncing"
    /\ StartSync("boot")
    /\ UNCHANGED <<caller, service>>

\* Mutant: the deferred calls are told that nothing changed.
EndSettlingUnflushed ==
    /\ settling
    /\ settling' = FALSE /\ settlingDirty' = FALSE
    /\ caller' = [c \in Callers |->
                    IF caller[c] = "deferred" THEN "resolved" ELSE caller[c]]
    /\ UNCHANGED <<source, timer, pendingSync, boot, sync, disk, caches, gateway, bounds,
                   fresh, misses>>

\* Mutant: the resolvers are dropped with the list.
EndSettlingDropped ==
    /\ settling
    /\ settling' = FALSE /\ settlingDirty' = FALSE
    /\ IF settlingDirty
       THEN StartSync("flush") /\ UNCHANGED caller
       ELSE UNCHANGED <<source, caller, sync, disk, caches, gateway, bounds, fresh, misses>>
    /\ UNCHANGED <<timer, pendingSync, boot>>

EndSettling ==
    /\ settling
    /\ settling' = FALSE /\ settlingDirty' = FALSE
    /\ IF settlingDirty
       THEN /\ StartSync("flush")
            /\ caller' = [c \in Callers |->
                            IF caller[c] = "deferred" THEN "flushing" ELSE caller[c]]
       ELSE UNCHANGED <<source, caller, sync, disk, caches, gateway, bounds, fresh, misses>>
    /\ UNCHANGED <<timer, pendingSync, boot>>

(***************************************************************************)
(* doSync().                                                               *)
(***************************************************************************)

At(i, step) == sync[i].step = step
Go(i, step) == sync' = [sync EXCEPT ![i].step = step]

\* A sync is over: its callers are told, and when it was the debounced one those
\* that waited for it go on to the timer.
Ends(i, outcome) ==
    LET mine(c) == c = i \/ (i = "flush" /\ caller[c] = "flushing")
        told == [c \in Callers |->
                    IF ~mine(c) THEN caller[c]
                    ELSE IF outcome = "ok" THEN "resolved" ELSE "rejected"]
        woken == IF i = pendingSync THEN {c \in Callers : caller[c] = "waiting"} ELSE {}
    IN  /\ Go(i, outcome)
        /\ Arm(told, woken)
        /\ pendingSync' = IF i = pendingSync THEN None ELSE pendingSync
        /\ boot' = IF i = "boot" THEN "synced" ELSE boot
        /\ settling' = (settling \/ i = "boot")
        /\ settlingDirty' = (settlingDirty /\ i # "boot")

\* getConfig() resolves.
LoadConfig(i) ==
    /\ At(i, "load")
    /\ sync' = [sync EXCEPT ![i].step = "compile", ![i].doc = <<source[1], @[2]>>]
    /\ UNCHANGED <<source, caller, service, boot, disk, caches, gateway, bounds, fresh, misses>>

\* The OAuth state resolves; the ledger is read, the config compiled, and, if the
\* gateway is connected, compared with the last one written.
Compile(i) ==
    /\ At(i, "compile")
    /\ LET doc == <<sync[i].doc[1], source[2]>>
       IN sync' = [sync EXCEPT ![i] = [step |-> "compare", doc |-> doc,
                                       push |-> gateway.link /\ doc # lastPushed]]
    /\ blind' = blind \cup (IF gateway.link THEN {} ELSE {i})
    /\ UNCHANGED <<source, caller, service, boot, disk, caches, gateway, bounds, fresh,
                   lapsed, missed>>

\* OpenClawConfigWriter.write() up to writeFile()'s truncation: the cache is seeded
\* from the file on a cold start, and unchanged content is not written.
Compare(i) ==
    /\ At(i, "compare")
    /\ lastWritten' = IF lastWritten = NoDoc THEN disk ELSE lastWritten
    /\ IF lastWritten' = sync[i].doc
       THEN Go(i, "note") /\ UNCHANGED disk
       ELSE Go(i, "fill") /\ disk' = Empty
    /\ UNCHANGED <<source, caller, service, boot, lastPushed, lastSkills, gateway,
                   bounds, fresh, misses>>

\* The content is in place.  A file another sync wrote to meanwhile may keep a
\* longer tail of the other content.
Fill(i) ==
    /\ At(i, "fill")
    /\ disk' \in {sync[i].doc} \cup (IF disk = Empty THEN {} ELSE {Torn})
    /\ lastWritten' = sync[i].doc
    /\ Go(i, "note")
    /\ UNCHANGED <<source, caller, service, boot, lastPushed, lastSkills, gateway,
                   bounds, fresh, misses>>

\* Auth profiles are written; noteConfigWritten().
Note(i) ==
    /\ At(i, "note")
    /\ lastPushed' = sync[i].doc
    /\ Go(i, "finish")
    /\ UNCHANGED <<source, caller, service, boot, disk, lastWritten, lastSkills, gateway,
                   bounds, fresh, misses>>

\* History: a sync ends well; if a running gateway is left on other skills, is it
\* for a known reason?
Misses(i, known) ==
    /\ missed' = (gateway.up /\ gateway.skills # sync[i].doc[2] /\ known)
    /\ lapsed' = "no"

\* The remaining writers are done: a pushed config with other skills nudges the
\* gateway first; else this was all.  (touchConfig() changes no content.)
Finish(i) ==
    /\ At(i, "finish")
    /\ IF sync[i].push /\ lastSkills # sync[i].doc[2]
       THEN Go(i, "nudge") /\ UNCHANGED <<caller, service, boot, lastSkills, lapsed, missed>>
       ELSE /\ Ends(i, "ok") /\ lastSkills' = sync[i].doc[2]
            /\ Misses(i, i \in blind \/ lapsed = "late" \/ missed)
    /\ UNCHANGED <<source, disk, lastWritten, lastPushed, gateway, bounds, fresh, blind>>

\* Mutant: the allowlist changes without a restart.
NudgeMarkerOnly(i) ==
    /\ At(i, "nudge")
    /\ lastSkills' = sync[i].doc[2]
    /\ Ends(i, "ok") /\ Misses(i, FALSE)
    /\ UNCHANGED <<source, disk, lastWritten, lastPushed, gateway, bounds, fresh, blind>>

\* nudgeSkillsWatcher(): the gateway process is restarted; a failure to restart is
\* absorbed.
Nudge(i) ==
    /\ At(i, "nudge")
    /\ lastSkills' = sync[i].doc[2]
    /\ Ends(i, "ok")
    /\ \/ /\ gateway' = [gateway EXCEPT !.up = FALSE, !.link = FALSE]
          /\ Misses(i, FALSE) /\ UNCHANGED faults
       \/ /\ "nudge" \in Faults /\ faults < MaxFaults
          /\ faults' = faults + 1
          /\ Misses(i, TRUE) /\ UNCHANGED gateway
    /\ UNCHANGED <<source, disk, lastWritten, lastPushed, drops, fresh, blind>>

\* An awaited write fails and doSync() rejects.  (When bootstrap's sync fails the
\* program ends.)
Fails(i) ==
    \E step \in Faults \ {"nudge"} :
        /\ At(i, step) /\ i # "boot" /\ faults < MaxFaults
        /\ faults' = faults + 1
        /\ Ends(i, "failed")
        /\ lapsed' = IF /\ lapsed # "late" /\ step # "finish"
                       /\ gateway.up /\ gateway.skills = lastSkills
                    THEN "early" ELSE "late"
        /\ UNCHANGED <<source, disk, caches, gateway, drops, fresh, blind, missed>>

(***************************************************************************)
(* The gateway: external.                                                  *)
(***************************************************************************)

\* A process that is started reads the config once for its agents' skills.
GatewayStarts ==
    /\ ~gateway.up /\ disk \in Docs
    /\ Managed => boot = "synced"
    /\ gateway' = [up |-> TRUE, link |-> FALSE, skills |-> disk[2]]
    /\ missed' = FALSE
    /\ UNCHANGED <<source, caller, service, boot, sync, disk, caches, bounds, fresh, blind,
                   lapsed>>

LinkComesUp ==
    /\ gateway.up /\ ~gateway.link
    /\ gateway' = [gateway EXCEPT !.link = TRUE]
    /\ UNCHANGED <<source, caller, service, boot, sync, disk, caches, bounds, fresh, misses>>

LinkDrops ==
    /\ gateway.link /\ drops < MaxDrops
    /\ drops' = drops + 1
    /\ gateway' = [gateway EXCEPT !.link = FALSE]
    /\ UNCHANGED <<source, caller, service, boot, sync, disk, caches, faults, fresh, misses>>

DoSync(i) ==
    \/ LoadConfig(i) \/ Compile(i) \/ Compare(i) \/ Fill(i) \/ Note(i)
    \/ Finish(i) \/ Nudge(i)

Next ==
    \/ \E c \in Callers : Edit(c) \/ SyncAll(c)
    \/ TimerFires \/ BootSync \/ EndSettling
    \/ \E i \in Syncs : DoSync(i) \/ Fails(i)
    \/ GatewayStarts \/ LinkComesUp \/ LinkDrops

Spec == Init /\ [][Next]_vars

\* A caller that has edited goes on to call, timers fire, awaited I/O ends and the
\* gateway comes up and connects.  Nobody is made to edit, and nothing must fail.
Fairness ==
    /\ \A c \in Callers : WF_vars(SyncAll(c))
    /\ WF_vars(TimerFires) /\ WF_vars(BootSync) /\ WF_vars(EndSettling)
    /\ \A i \in Syncs : WF_vars(DoSync(i))
    /\ WF_vars(GatewayStarts) /\ WF_vars(LinkComesUp)

FairSpec == Spec /\ Fairness

-------------------------------------------------------------------------------

\* Nothing is under way or owed, and if some sync failed a later call, made when the
\* sources held what they hold now, was answered well.
Quiet ==
    /\ boot = "synced" /\ ~settling /\ InFlight = {} /\ timer = None
    /\ \A c \in Callers : caller[c] \in {"idle", "lost", "resolved", "rejected"}
    /\ (\E c \in Callers : caller[c] = "rejected") =>
          \E c \in Callers : /\ caller[c] = "resolved"
                             /\ fresh[c] = <<{source[1]}, {source[2]}>>

\* Two debounced syncs are never in flight together: pendingSync is set and cleared,
\* and its waiters resumed, so that no timer is running when it is not null.
DebouncedAlone == Cardinality(InFlight \cap Callers) <= 1

\* When syncAll() resolves, openclaw.json holds a whole config compiled from what
\* the sources held at the call or since, deferral and debounce included; the
\* routes that await it read their own write.
AnsweredIsOnDisk ==
    [][\A c \in Callers :
          caller'[c] = "resolved" /\ caller[c] # "resolved" =>
              /\ disk \in Docs
              /\ disk[1] \in fresh[c][1] /\ disk[2] \in fresh[c][2]]_vars

\* No edit is forgotten by the debounce, the deferral, or the skip of unchanged
\* content: at rest the file is the compilation of the sources.  syncAll() is
\* documented to wait for "a sync ... already in flight" and to schedule another
\* after it (openclaw-sync-service.ts:228).
QuietDiskIsCurrent == Quiet => disk = source

\* At rest, a sync having ended well since one last failed, a running gateway uses
\* the skills the ledger lists, however often the connection drops and whatever
\* failed before: "Fix applied: nudgeSkillsWatcher() now restarts the OpenClaw
\* gateway" (specs/guides/skill-nudge-diagnosis.md:87).  Exempt, until it is next
\* started, is a gateway that the code does leave behind (missed): the sync that
\* brought the skills saw no connection when it compiled; or its restart failed;
\* or the one before it failed with its config noted already, or while no gateway
\* ran or one that had not the skills last pushed.
QuietGatewayIsCurrent ==
    Quiet /\ gateway.up /\ lapsed = "no" /\ ~missed => gateway.skills = source[2]

\* Every call is answered, or superseded by a later one of the same window.
LatestCallIsAnswered ==
    \A c \in Callers :
        caller[c] = "edited" ~> caller[c] \in {"resolved", "rejected", "lost"}

\* Every call is answered: rapid calls are documented to be coalesced "into a single
\* execution" (openclaw-sync-service.ts:215), whose result each of them awaits.
EveryCallIsAnswered ==
    \A c \in Callers : caller[c] = "edited" ~> caller[c] \in {"resolved", "rejected"}

\* Once the edits stop the file becomes current and stays so, unless a sync failed:
\* nothing but a later edit tries again.  So do the gateway's skills, unless the
\* sync that brought them saw no connection.
Converges ==
    [](faults = 0) => <>[](disk = source /\ (gateway.skills = source[2] \/ missed))

===============================================================================
