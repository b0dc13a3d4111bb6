------------------------------ MODULE LowDbStore ------------------------------
(***************************************************************************)
(* The JSON document store behind config.json, the cloud profiles, the     *)
(* artifacts index and the compiled-config snapshot: one cached document,  *)
(* one chain of queued writes, three files (the document, its backup and   *)
(* the temporary file a write is renamed from).                            *)
(*                                                                         *)
(* A document is abstracted to the set of update() calls whose edit it     *)
(* contains; the default document is the empty set.  Every await of the    *)
(* code is a point where another call, a crash or a failed write may come  *)
(* between two steps.                                                      *)
(***************************************************************************)
EXTENDS Naturals, Sequences, FiniteSets

CONSTANTS
    Updates,        \* the update() calls, each made at most once
    Reads,          \* the plain read() calls (getConfig and its like)
    Absent, Torn,   \* a file that does not exist; one cut short or not JSON
    NoDoc,          \* the cache before the first read
    MaxCrashes, MaxFaults, MaxBreaks   \* bounds on what the environment does

Doc == SUBSET Updates
Default == {}
Calls == Updates \cup Reads

ASSUME StoreConstants ==
    /\ Updates \cap Reads = {}
    /\ MaxCrashes \in Nat /\ MaxFaults \in Nat /\ MaxBreaks \in Nat
    /\ Absent \notin Doc /\ Torn \notin Doc /\ NoDoc \notin Doc
    /\ Absent # Torn

Files == {"main", "bak", "tmp"}
Job == [by : Calls, doc : Doc]

VARIABLES
    disk,       \* the three files
    cache,      \* LowDbStore.cache
    queue,      \* the jobs chained on LowDbStore.writeQueue, the head running
    step,       \* how far the head job has come
    poisoned,   \* writeQueue is a rejected promise
    pc,         \* where each update() call is suspended
    local,      \* the document each call has in hand
    crashes, faults, breaks

budgets == <<crashes, faults, breaks>>
vars == <<disk, cache, queue, step, poisoned, pc, local, budgets>>

Steps == {"idle", "tmp", "tmpFull", "bak", "bakFull", "renamed"}
Ended == {"done", "failed"}
Reading == {"openMain", "parseMain", "openBak", "parseBak"}
Restoring == {"restoringBak", "restoringDefault"}
Loading == Reading \cup Restoring
Waiting == Restoring \cup {"writing"}
Phases == {"idle", "updating"} \cup Reading \cup Waiting \cup Ended

TypeOK ==
    /\ disk \in [Files -> Doc \cup {Absent, Torn}]
    /\ cache \in Doc \cup {NoDoc}
    /\ queue \in Seq(Job)
    /\ step \in Steps
    /\ poisoned \in BOOLEAN
    /\ pc \in [Calls -> Phases]
    /\ local \in [Calls -> Doc \cup {Absent, Torn}]
    /\ crashes \in Nat /\ faults \in Nat /\ breaks \in Nat

Init ==
    /\ disk = [f \in Files |-> Absent]
    /\ cache = NoDoc
    /\ queue = <<>>
    /\ step = "idle"
    /\ poisoned = FALSE
    /\ pc = [u \in Calls |-> "idle"]
    /\ local = [u \in Calls |-> Absent]
    /\ crashes = 0 /\ faults = 0 /\ breaks = 0

InFlight == {u \in Calls : pc[u] \notin {"idle"} \cup Ended}

Goto(u, phase) == pc' = [pc EXCEPT ![u] = phase]
Hold(u, doc) == local' = [local EXCEPT ![u] = doc]

\* Where a call goes when its read() returns.
AfterRead(u) == IF u \in Updates THEN "updating" ELSE "done"

\* write() chains its job; on a rejected chain the job never runs and the
\* promise write() awaits is rejected too, so the caller takes phase `fail'.
Write(u, doc, phase, fail) ==
    /\ queue' = IF poisoned THEN queue ELSE Append(queue, [by |-> u, doc |-> doc])
    /\ Goto(u, IF poisoned THEN fail ELSE phase)

(***************************************************************************)
(* read(): the cache if there is one, else the document, else its backup,  *)
(* else the default; the last two are written back before read() returns.  *)
(***************************************************************************)

\* update() calls read(), which looks at the cache before its first await.
CallRead(u) ==
    /\ pc[u] = "idle"
    /\ \/ /\ cache # NoDoc
          /\ Goto(u, AfterRead(u))
          /\ Hold(u, cache)
       \/ /\ cache = NoDoc
          /\ Goto(u, "openMain")
          /\ UNCHANGED local
    /\ UNCHANGED <<disk, cache, queue, step, poisoned, budgets>>

\* readFile() sees the file that bears the name when it opens it.
OpenFile(u) ==
    /\ \/ pc[u] = "openMain" /\ Goto(u, "parseMain") /\ Hold(u, disk["main"])
       \/ pc[u] = "openBak" /\ Goto(u, "parseBak") /\ Hold(u, disk["bak"])
    /\ UNCHANGED <<disk, cache, queue, step, poisoned, budgets>>

\* The content of the document arrives: it becomes the cache, whatever another
\* reader or writer has put there since, or read() turns to the backup.
ParseMain(u) ==
    /\ pc[u] = "parseMain"
    /\ \/ /\ local[u] \in Doc
          /\ cache' = local[u]
          /\ Goto(u, AfterRead(u))
       \/ /\ local[u] \notin Doc
          /\ Goto(u, "openBak")
          /\ UNCHANGED cache
    /\ UNCHANGED <<disk, queue, step, poisoned, local, budgets>>

\* A whole backup is cached and written back; a broken one, or a backup that
\* cannot be written back, is answered with the default document.
ParseBak(u) ==
    /\ pc[u] = "parseBak"
    /\ LET whole == local[u] \in Doc
           restored == IF whole THEN local[u] ELSE Default
       IN /\ cache' = IF poisoned THEN Default ELSE restored
          /\ Write(u, restored,
                   IF whole THEN "restoringBak" ELSE "restoringDefault", "failed")
    /\ UNCHANGED <<disk, step, poisoned, local, budgets>>

(***************************************************************************)
(* update(): apply the edit to the document read() returned, then write().  *)
(***************************************************************************)

\* The updater resolves; its document is the one read() returned plus the edit.
CallWrite(u) ==
    /\ pc[u] = "updating"
    /\ Hold(u, local[u] \cup {u})
    /\ Write(u, local[u] \cup {u}, "writing", "failed")
    /\ UNCHANGED <<disk, cache, step, poisoned, budgets>>

(***************************************************************************)
(* The head of the write chain: writeFile(tmp), writeFile(bak), rename,    *)
(* cache.  writeFile truncates first, so a file is torn until it is full.  *)
(***************************************************************************)

Running(at) == queue # <<>> /\ step = at
Put(f, content) == disk' = [disk EXCEPT ![f] = content]
RestUnchanged == UNCHANGED <<cache, queue, poisoned, pc, local, budgets>>

\* Mutant: write() truncates the document itself and fills it later.
TruncateInPlace ==
    /\ Running("idle")
    /\ step' = "tmp"
    /\ disk' = [disk EXCEPT !["tmp"] = Torn, !["main"] = Torn]
    /\ RestUnchanged

TruncateTmp == Running("idle") /\ step' = "tmp" /\ Put("tmp", Torn) /\ RestUnchanged

FillTmp ==
    Running("tmp") /\ step' = "tmpFull" /\ Put("tmp", Head(queue).doc) /\ RestUnchanged

TruncateBak == Running("tmpFull") /\ step' = "bak" /\ Put("bak", Torn) /\ RestUnchanged

\* Mutant: the backup is taken from the document being replaced.
FillBakFromMain ==
    Running("bak") /\ step' = "bakFull" /\ Put("bak", disk["main"]) /\ RestUnchanged

FillBak ==
    Running("bak") /\ step' = "bakFull" /\ Put("bak", Head(queue).doc) /\ RestUnchanged

Rename ==
    /\ Running("bakFull")
    /\ step' = "renamed"
    /\ disk' = [disk EXCEPT !["main"] = disk["tmp"], !["tmp"] = Absent]
    /\ RestUnchanged

\* Mutant: the caller is told before the rename.
PublishEarly ==
    /\ Running("bakFull")
    /\ step' = "idle"
    /\ queue' = Tail(queue)
    /\ cache' = Head(queue).doc
    /\ LET u == Head(queue).by
       IN \/ pc[u] = "writing" /\ Goto(u, "done") /\ UNCHANGED local
          \/ pc[u] \in Restoring /\ Goto(u, AfterRead(u)) /\ Hold(u, cache')
    /\ UNCHANGED <<disk, poisoned, budgets>>

\* Mutant: the cache keeps the document from before the write.
PublishUncached ==
    /\ Running("renamed")
    /\ step' = "idle"
    /\ queue' = Tail(queue)
    /\ LET u == Head(queue).by
       IN \/ pc[u] = "writing" /\ Goto(u, "done") /\ UNCHANGED local
          \/ pc[u] \in Restoring /\ Goto(u, AfterRead(u)) /\ Hold(u, cache)
    /\ UNCHANGED <<disk, cache, poisoned, budgets>>

\* The job caches what it wrote and its write() resolves: an update() call
\* returns, a read() that was restoring returns the cache.
Publish ==
    /\ Running("renamed")
    /\ step' = "idle"
    /\ queue' = Tail(queue)
    /\ LET u == Head(queue).by
           doc == Head(queue).doc
       IN /\ cache' = doc
          /\ \/ pc[u] = "writing" /\ Goto(u, "done") /\ UNCHANGED local
             \/ pc[u] \in Restoring /\ Goto(u, AfterRead(u)) /\ Hold(u, doc)
    /\ UNCHANGED <<disk, poisoned, budgets>>

\* Mutant: the promises of the skipped jobs are never settled.
WriteFailsSilently ==
    /\ queue # <<>> /\ step # "renamed"
    /\ faults < MaxFaults
    /\ faults' = faults + 1
    /\ poisoned' = TRUE
    /\ queue' = <<>>
    /\ step' = "idle"
    /\ UNCHANGED <<disk, cache, pc, local, crashes, breaks>>

\* A file operation of the head job fails: every job behind it is skipped and
\* every waiting call rejects.  A read() restoring the backup catches this,
\* caches the default document and then fails to write that one too.
WriteFails ==
    /\ queue # <<>> /\ step # "renamed"
    /\ faults < MaxFaults
    /\ faults' = faults + 1
    /\ poisoned' = TRUE
    /\ queue' = <<>>
    /\ step' = "idle"
    /\ pc' = [u \in Calls |-> IF pc[u] \in Waiting THEN "failed" ELSE pc[u]]
    /\ cache' = IF \E u \in Calls : pc[u] = "restoringBak" THEN Default ELSE cache
    /\ UNCHANGED <<disk, local, crashes, breaks>>

(***************************************************************************)
(* The environment.                                                        *)
(***************************************************************************)

\* The controller dies or quits and comes back: only the files are left.
Restart ==
    /\ crashes < MaxCrashes
    /\ crashes' = crashes + 1
    /\ cache' = NoDoc
    /\ queue' = <<>>
    /\ step' = "idle"
    /\ poisoned' = FALSE
    /\ pc' = [u \in Calls |-> IF u \in InFlight THEN "failed" ELSE pc[u]]
    /\ UNCHANGED <<disk, local, faults, breaks>>

\* Something else damages the document while the controller is down.
BreakMain ==
    /\ cache = NoDoc /\ InFlight = {}
    /\ disk["main"] \in Doc
    /\ breaks < MaxBreaks
    /\ breaks' = breaks + 1
    /\ Put("main", Torn)
    /\ UNCHANGED <<cache, queue, step, poisoned, pc, local, crashes, faults>>

Call(u) == CallRead(u) \/ OpenFile(u) \/ ParseMain(u) \/ ParseBak(u) \/ CallWrite(u)
RunJob == TruncateTmp \/ FillTmp \/ TruncateBak \/ FillBak \/ Rename \/ Publish

Next ==
    \/ \E u \in Calls : Call(u)
    \/ RunJob \/ WriteFails
    \/ Restart \/ BreakMain

Spec == Init /\ [][Next]_vars

\* The event loop runs every continuation that is ready: a call that is under
\* way and the head job both go on.  Nothing makes a client call update().
Fairness ==
    /\ \A u \in Calls : WF_vars(pc[u] # "idle" /\ Call(u))
    /\ WF_vars(RunJob)

FairSpec == Spec /\ Fairness

-------------------------------------------------------------------------------

\* What read() would answer if the process died now and started again.
Recovered ==
    IF disk["main"] \in Doc THEN disk["main"]
    ELSE IF disk["bak"] \in Doc THEN disk["bak"] ELSE Default

\* update() returned to its caller.
Acked == {u \in Updates : pc[u] = "done"}

\* The document is never seen half-written, whatever instant the process dies
\* at, for as long as nothing but the store touches it: writes go to a
\* temporary file and reach the document by rename only.
MainWhole == breaks = 0 => disk["main"] # Torn

\* When an update() call returns, its edit is already what a restart reads:
\* the cache and the caller are told only after the rename.
AckIsDurable ==
    [][\A u \in Updates : pc[u] # "done" /\ pc'[u] = "done" => u \in Recovered']_vars

\* An edit that update() returned for stays in the document through crashes and
\* failed writes, provided the callers never let two update() calls overlap:
\* update() reads the cache, awaits, and writes what it read.
AckedSurvive == breaks = 0 => Acked \subseteq Recovered

\* A whole backup holds every acknowledged edit: damage to the document alone
\* loses nothing a caller was told is saved.
BackupCovers == breaks = 0 /\ disk["bak"] \in Doc => Acked \subseteq disk["bak"]

\* A cached document holds every acknowledged edit: no reader is shown a
\* configuration older than one a caller was told is saved.  Besides updates
\* that do not overlap this needs cold reads that do not: a slow first read
\* puts back the document it opened before an update replaced it.
CacheIsCurrent == cache # NoDoc => Acked \subseteq cache

\* When nothing is being read or written the cache and the file agree.
QuietCacheMatchesDisk ==
    cache # NoDoc /\ InFlight = {} /\ ~poisoned => cache = disk["main"]

\* Every call under way returns or rejects.
EveryCallSettles == \A u \in Calls : u \in InFlight ~> pc[u] \in Ended

\* The document file implements the durable document: at every instant a whole
\* document, reached in the order the writes were asked for, unless something
\* else spoilt the file while the store was not running (BreakMain, the only
\* step that maps to Damage: `damages' is `breaks').  A job counts as written
\* from its rename on, though its caller learns of it a step later.
Durable ==
    INSTANCE DurableDocument WITH
        Documents <- Doc, Nothing <- Absent, Damaged <- Torn,
        document <- disk["main"],
        damages <- breaks,
        wanted <- LET jobs == IF step = "renamed" THEN Tail(queue) ELSE queue
                  IN [i \in DOMAIN jobs |-> jobs[i].doc]

DurableSpec == Durable!DocSpec

===============================================================================
