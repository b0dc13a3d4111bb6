------------------------------- MODULE SkillHub -------------------------------
(***************************************************************************)
(* The skill hub: the install queue together with the skills on disk, the  *)
(* ledger of what is installed, imports, uninstalls, the watcher that      *)
(* reconciles the ledger with the disk, and the notices after which the    *)
(* configuration is synced (ConfigSync).                                   *)
(*                                                                         *)
(* A skill is on disk when its directory has a SKILL.md.  The ledger has   *)
(* one row per skill and source.  Skills of single agents, and the bundled *)
(* skill that is put back at every start, are left out.  The downloader is *)
(* an external process: what it writes, and when, is up to it.             *)
(***************************************************************************)
EXTENDS InstallQueue

CONSTANTS
    Curated, Bundled, \* skills installed, or copied, when the ledger does not know them
    Personal,         \* skills the user keeps in a directory of their own
    MaxEvents         \* bound: how many imports, restarts and changes from outside

ASSUME HubConstants ==
    /\ Curated \cup Bundled \cup Personal \subseteq Slugs /\ None \notin Slugs
    /\ MaxEvents \in Nat

Sources == {"managed", "custom", "user"}
Unknown == [x \in Sources |-> "none"]

VARIABLES
    boot,      \* the controller: served, bootstrapped, starting (watching, its bots not yet
               \* read), started, stopping
    skillsDir, userSkillsDir, \* the skills on disk
    written,   \* installs whose skill is on disk
    ledger,    \* of each skill, the row of each source: none, in (installed) or out
    importing, \* the skill whose import waits for its dependencies
    curating,  \* curated skills that initialize() has yet to enqueue
    sync,      \* is the watcher's debounce timer armed?
    told,      \* what was installed when a sync was last asked for
    events,    \* how many imports, restarts and changes from outside there have been
    \* History, read by the properties only:
    removed,   \* skills the user removed and has not asked for since
    missed,    \* skills whose row start() or the read of the bots changed, giving no notice
    disturbed  \* skills a failed or killed install or import left behind, that were taken away
               \* under an install, or that the watcher met while it left them to an install

disks == <<skillsDir, userSkillsDir, written>>
past == <<removed, missed, disturbed>>
hub == <<boot, disks, ledger, importing, curating, sync, told, events, past>>
hubVars == <<vars, hub>>

HubTypeOK ==
    /\ TypeOK /\ boot \in {"served", "bootstrapped", "starting", "started", "stopping"}
    /\ {skillsDir, userSkillsDir, curating, told, removed, missed, disturbed} \subseteq SUBSET Slugs
    /\ written \subseteq running /\ ledger \in [Slugs -> [Sources -> {"none", "in", "out"}]]
    /\ importing \in Slugs \cup {None} /\ sync \in BOOLEAN
    /\ events \in 0 .. MaxEvents

HubInit ==
    /\ Init /\ boot = "served"
    /\ skillsDir = {} /\ userSkillsDir = Personal /\ written = {}
    /\ ledger = [s \in Slugs |-> Unknown]
    /\ importing = None /\ curating = {} /\ sync = FALSE /\ told = {}
    /\ events = 0
    /\ removed = {} /\ missed = {} /\ disturbed = {}

Busy == {s \in Slugs : InFlight(s)}
In(led, s) == {x \in Sources : led[s][x] = "in"}
Installed(led) == {s \in Slugs : In(led, s) # {}}
Row(s, x, status) == [ledger EXCEPT ![s][x] = status]

\* The watcher sees that the skills directory changes.
Touched == sync' = (sync \/ boot \in {"starting", "started"})

Notice(led) == told' = Installed(led)

\* onIdle, when the drain() of a queue that had completions finds nothing left.
IdleNotice(had, led) == IF had /\ ~hadCompletionSinceIdle' THEN Notice(led) ELSE UNCHANGED told

(***************************************************************************)
(* syncNow(): what is on disk and has no row becomes managed, unless it is *)
(* being installed; rows of what is not there are out.  The shared         *)
(* directory is compared with all rows, the user's with those of its own.  *)
(***************************************************************************)

\* Mutant: what is gone from disk stays installed.
SyncAdds(led, dir, own, busy) ==
    [s \in Slugs |-> [x \in Sources |->
        IF x = "user" /\ s \in own THEN "in"
        ELSE IF x = "managed" /\ s \in dir \ busy /\ In(led, s) = {} THEN "in"
        ELSE led[s][x]]]

SyncNow(led, dir, own, busy) ==
    [s \in Slugs |-> [x \in Sources |->
        IF x = "user" /\ s \in own THEN "in"
        ELSE IF x = "managed" /\ s \in dir \ busy /\ In(led, s) = {} THEN "in"
        ELSE IF led[s][x] = "in" /\ (x = "user" \/ s \notin dir) THEN "out"
        ELSE led[s][x]]]

Synced == SyncNow(ledger, skillsDir, userSkillsDir, Busy)

\* What it finds changed, rows of the user's it takes out and puts back included.
SyncChanges == Synced # ledger \/ \E s \in userSkillsDir \ skillsDir : ledger[s]["user"] = "in"

\* Those it leaves to the queue.
LeftAlone == (skillsDir \cap Busy) \ Installed(ledger)

SyncFires ==
    /\ sync /\ sync' = FALSE
    /\ ledger' = Synced /\ disturbed' = disturbed \cup LeftAlone
    /\ IF SyncChanges THEN Notice(ledger') ELSE UNCHANGED told
    /\ UNCHANGED <<vars, boot, disks, importing, curating, events, removed, missed>>

(***************************************************************************)
(* bootstrap() and start(): reconcile, copy the bundled skills the ledger  *)
(* does not know, enqueue the curated ones it does not know either.  The   *)
(* first sync follows bootstrap(), the watchers start with start(), which  *)
(* reconciles once more when it has read the bots.                         *)
(***************************************************************************)

\* Mutant: a skill that was uninstalled is not known.
UnknownOrOut(led) == {s \in Slugs : In(led, s) = {}}

UnknownTo(led) == {s \in Slugs : led[s] = Unknown}

Initialize ==
    LET copied == (Bundled \cap UnknownTo(Synced)) \ skillsDir
    IN  /\ skillsDir' = skillsDir \cup copied
        /\ ledger' = [s \in Slugs |-> IF s \in copied THEN [Synced[s] EXCEPT !["managed"] = "in"]
                                                      ELSE Synced[s]]
        /\ curating' = Curated \cap UnknownTo(ledger')
        /\ disturbed' = disturbed \cup LeftAlone
        /\ UNCHANGED <<vars, userSkillsDir, written, importing, sync, events, removed>>

Bootstrap ==
    /\ boot = "served" /\ boot' = "bootstrapped"
    /\ Initialize /\ Notice(ledger') /\ missed' = {}

\* Neither start() nor its continuation gives a notice.
Unsaid ==
    /\ missed' = missed \cup {s \in Slugs : (s \in Installed(ledger)) # (s \in Installed(ledger'))}
    /\ UNCHANGED told

StartWatching ==
    boot = "bootstrapped" /\ boot' = "starting" /\ Initialize /\ Unsaid

BotsRead ==
    /\ boot = "starting" /\ boot' = "started"
    /\ ledger' = Synced /\ disturbed' = disturbed \cup LeftAlone
    /\ Unsaid
    /\ UNCHANGED <<vars, disks, importing, curating, sync, events, removed>>

\* One after the other, and before anything else.
EnqueueCurated(s) ==
    /\ s \in curating /\ curating' = curating \ {s}
    /\ \/ Enqueue(s) /\ IdleNotice(hadCompletionSinceIdle, ledger)
       \/ /\ s \in Busy \/ RowsOf(completed, s, {"done"}) # {} \/ Len(item) = MaxItems
          /\ UNCHANGED <<vars, told>>
    /\ UNCHANGED <<boot, disks, ledger, importing, sync, events, past>>

(***************************************************************************)
(* The routes: install, cancel, uninstall, import.                         *)
(***************************************************************************)
EnqueueInstall(s) ==
    /\ boot # "stopping" /\ Enqueue(s) /\ IdleNotice(hadCompletionSinceIdle, ledger)
    /\ removed' = removed \ {s}
    /\ UNCHANGED <<boot, disks, ledger, importing, curating, sync, events, missed, disturbed>>

CancelInstall(s) == boot # "stopping" /\ Cancel(s) /\ UNCHANGED hub

\* catalogManager.uninstallSkill(): the row asked for, or one of those there are, says which
\* directory to delete; that row, or else the one asked for or managed, is out.
Uninstalled(s, source) ==
    LET rows == In(ledger, s) \cap IF source = "any" THEN Sources ELSE {source}
        Outcome(x, own) ==
            [dir |-> IF own THEN skillsDir ELSE skillsDir \ {s},
             own |-> IF own THEN userSkillsDir \ {s} ELSE userSkillsDir,
             ledger |-> IF s \in (IF own THEN userSkillsDir ELSE skillsDir) THEN Row(s, x, "out")
                                                                             ELSE ledger]
    IN  {Outcome(x, x = "user") : x \in rows}
            \cup IF rows = {} THEN {Outcome(IF source = "any" THEN "managed" ELSE source, FALSE)}
                 ELSE {}

Removes(s, r) ==
    /\ skillsDir' = r.dir /\ userSkillsDir' = r.own
    /\ removed' = removed \cup (skillsDir \ r.dir)
    /\ disturbed' = disturbed \ ({s} \ r.dir)
    /\ IF r.dir # skillsDir \/ r.own # userSkillsDir THEN Touched ELSE UNCHANGED sync
    /\ Notice(ledger')

\* uninstallSkill(): the install under way is cancelled, and the ledger reconciled at once.
Uninstall(s, source) ==
    /\ boot # "stopping"
    /\ \/ Cancel(s)
       \/ s \notin Busy /\ RowsOf(completed, s, {"failed"}) = {} /\ UNCHANGED vars
    /\ \E r \in Uninstalled(s, source) :
         /\ ledger' = SyncNow(r.ledger, r.dir, r.own, Busy')
         /\ Removes(s, r)
    /\ UNCHANGED <<boot, written, importing, curating, events, missed>>

\* The archive is unpacked in place of what is there, and its dependencies are installed.
Import(s) ==
    /\ boot # "stopping" /\ importing = None /\ events < MaxEvents
    /\ importing' = s /\ events' = events + 1
    /\ skillsDir' = skillsDir \cup {s} /\ Touched
    /\ removed' = removed \ {s}
    /\ UNCHANGED <<vars, boot, userSkillsDir, written, ledger, curating, told, missed, disturbed>>

\* npm is external: it fails in a directory that was taken away meanwhile.  (The code
\* does not look, and records the skill if npm should succeed all the same.)
ImportSucceeds ==
    /\ importing \in skillsDir
    /\ ledger' = Row(importing, "custom", "in") /\ Notice(ledger')
    /\ importing' = None
    /\ UNCHANGED <<vars, boot, disks, curating, sync, events, removed, missed, disturbed>>

ImportFails ==
    /\ importing # None
    /\ skillsDir' = skillsDir \ {importing} /\ Touched
    /\ disturbed' = disturbed \cup (Busy \cap {importing})
    /\ importing' = None
    /\ UNCHANGED <<vars, boot, userSkillsDir, written, ledger, curating, told, events, removed,
                   missed>>

(***************************************************************************)
(* The queue's steps, with what its executor and callbacks do here.        *)
(***************************************************************************)
ExecutorWrites(id) ==
    /\ id \in running \ written /\ written' = written \cup {id}
    /\ skillsDir' = skillsDir \cup {SlugOf(id)} /\ Touched
    /\ UNCHANGED <<vars, boot, userSkillsDir, ledger, importing, curating, told, events, past>>

\* onComplete
InstallSucceeds(id) ==
    /\ id \in written /\ Succeeds(id)
    /\ ledger' = Row(SlugOf(id), "managed", "in") /\ IdleNotice(TRUE, ledger')
    /\ disturbed' = disturbed \ ({SlugOf(id)} \cap skillsDir) /\ written' = written \ {id}
    /\ UNCHANGED <<boot, skillsDir, userSkillsDir, importing, curating, sync, events, removed,
                   missed>>

\* onCancelled
InstallSucceedsCancelled(id) ==
    /\ id \in written /\ SucceedsCancelled(id)
    /\ \E r \in Uninstalled(SlugOf(id), "any") : ledger' = r.ledger /\ Removes(SlugOf(id), r)
    /\ written' = written \ {id}
    /\ UNCHANGED <<boot, importing, curating, events, missed>>

\* Mutant: a failure that leaves the queue idle gives no notice.
InstallFailsUntold(id) ==
    /\ Fails(id) \/ RateLimited(id) \/ SettlesDisposed(id)
    /\ written' = written \ {id}
    /\ disturbed' = disturbed \cup (IF id \in written THEN {SlugOf(id)} ELSE {})
    /\ UNCHANGED <<boot, skillsDir, userSkillsDir, ledger, importing, curating, sync, told, events,
                   removed, missed>>

\* What it wrote stays on disk.
InstallFails(id) ==
    /\ \/ Fails(id) /\ IdleNotice(hadCompletionSinceIdle, ledger)
       \/ (RateLimited(id) \/ SettlesDisposed(id)) /\ UNCHANGED told
    /\ written' = written \ {id}
    /\ disturbed' = disturbed \cup (IF id \in written THEN {SlugOf(id)} ELSE {})
    /\ UNCHANGED <<boot, skillsDir, userSkillsDir, ledger, importing, curating, sync, events,
                   removed, missed>>

QueueGoesOn ==
    /\ PauseTimer \/ \E id \in Ids : Cleaned(id)
    /\ IdleNotice(hadCompletionSinceIdle, ledger)
    /\ UNCHANGED <<boot, disks, ledger, importing, curating, sync, events, past>>

TimePasses == (PauseElapses \/ \E id \in Ids : CleanupTimer(id)) /\ UNCHANGED hub

(***************************************************************************)
(* The controller stops, or dies, and starts again; a downloader that was  *)
(* running may still finish.  Something else, such as an agent, adds or    *)
(* removes a skill.                                                        *)
(***************************************************************************)
Stop ==
    /\ boot \in {"starting", "started"} /\ boot' = "stopping" /\ Dispose /\ sync' = FALSE
    /\ UNCHANGED <<disks, ledger, importing, curating, told, events, past>>

ResetQueue ==
    /\ item' = <<>> /\ pending' = <<>> /\ completed' = <<>> /\ active' = [s \in Slugs |-> None]
    /\ cancelled' = {} /\ running' = {} /\ cleaning' = {} /\ timers' = {}
    /\ recorded' = {} /\ uninstalled' = {} /\ dropped' = {}
    /\ pause' = "off" /\ disposed' = FALSE /\ hadCompletionSinceIdle' = FALSE

Restart ==
    LET interrupted == {SlugOf(id) : id \in running} \cup ({importing} \ {None})
    IN  /\ events < MaxEvents /\ events' = events + 1
        /\ boot' = "served" /\ ResetQueue
        /\ \E S \in SUBSET {SlugOf(id) : id \in running} : skillsDir' = skillsDir \cup S
        /\ disturbed' = disturbed \cup interrupted
        /\ written' = {} /\ importing' = None /\ curating' = {} /\ sync' = FALSE
        /\ UNCHANGED <<userSkillsDir, ledger, told, removed, missed>>

Outside(s) ==
    /\ boot # "stopping" /\ events < MaxEvents
    /\ events' = events + 1
    /\ skillsDir' = (IF s \in skillsDir THEN skillsDir \ {s} ELSE skillsDir \cup {s}) /\ Touched
    /\ removed' = removed \ {s} /\ disturbed' = disturbed \cup (Busy \cap {s})
    /\ UNCHANGED <<vars, boot, userSkillsDir, written, ledger, importing, curating, told, missed>>

Install(id) ==
    ExecutorWrites(id) \/ InstallSucceeds(id) \/ InstallSucceedsCancelled(id) \/ InstallFails(id)

Routes ==
    \/ \E s \in Slugs : EnqueueInstall(s) \/ CancelInstall(s) \/ Import(s)
    \/ \E s \in Slugs, source \in Sources \cup {"any"} : Uninstall(s, source)

HubNext ==
    \/ \E s \in Slugs : EnqueueCurated(s)
    \/ /\ curating = {}
       /\ \/ Routes \/ ImportSucceeds \/ ImportFails \/ SyncFires
          \/ \E id \in Ids : Install(id)
          \/ QueueGoesOn \/ TimePasses
          \/ Bootstrap \/ StartWatching \/ BotsRead \/ Stop \/ Restart
          \/ \E s \in Slugs : Outside(s)

HubSpec == HubInit /\ [][HubNext]_hubVars

-------------------------------------------------------------------------------

AtRest == boot = "started" /\ ~sync /\ importing = None /\ Busy = {}

\* At rest the ledger lists what is on disk, whatever was installed, cancelled, imported,
\* uninstalled or changed from outside at the same time (syncNow, isSlugInFlight,
\* onComplete, onCancelled), and when the controller died between any two of the writes.
\* Exempt are the skills of an install or import that failed with its files written or
\* was killed, and what was changed, or met by the watcher, while an install of it was
\* under way (disturbed): nothing looks at those again before the directory next changes or
\* the controller next starts.
QuietLedgerMatchesDisk ==
    AtRest => \A s \in Slugs \ disturbed :
                  s \in Installed(ledger) <=> s \in skillsDir \cup userSkillsDir

\* A skill the user removed stays removed: no install under way, watcher, curated list or
\* bundle brings it back (uninstallSkill, cancelled, getAllKnownSlugs).
RemovedStaysRemoved ==
    skillsDir \cap (removed \ (disturbed \cup Busy \cup Personal)) = {}

\* Whatever became installed, or is no longer, was followed by a sync that saw it, though
\* the ledger is written in one place and the notice given in another (onIdle, onChange,
\* onCancelled, the routes) or, when the queue is paused, once the pause is over.
QuietSyncSawTheLedger ==
    AtRest /\ pause = "off" =>
        told \ (missed \cup disturbed) = Installed(ledger) \ (missed \cup disturbed)

\* The ledger lists a skill once, with its "correct source" (skill-dir-watcher.ts:84), and
\* once more when the user has a copy: the skill being imported is not in the queue, though.
OneSharedRow == AtRest => \A s \in Slugs : ~({"managed", "custom"} \subseteq In(ledger, s))

\* Cancelling an install from the hub does not touch the user's own skills.
CancelSparesPersonal ==
    [][\A id \in Ids : id \in written /\ id \in cleaning' => userSkillsDir' = userSkillsDir]_hubVars

===============================================================================
