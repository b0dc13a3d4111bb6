----------------------------- MODULE InstallQueue -----------------------------
(***************************************************************************)
(* The skill install queue: pending installs in order, a bounded number of *)
(* them running, the ended ones kept for the UI, a pause after a rate      *)
(* limit, and cancellation marks kept by slug.                             *)
(*                                                                         *)
(* Items are numbered in the order enqueue() created them.  The executor   *)
(* (the download and install of one skill) and the callbacks are the       *)
(* owner's: an execution ends at any time, well, with a rate limit or with *)
(* another error.  Clock time is abstracted: a pause lasts for a while,    *)
(* then it is over, then its timer fires.                                  *)
(***************************************************************************)
EXTENDS Naturals, Sequences, FiniteSets, SequencesExt

CONSTANTS
    Slugs,
    MaxConcurrency, MaxRetries,
    MaxItems       \* bound: how many items enqueue() may create

ASSUME QueueConstants ==
    /\ MaxConcurrency \in Nat \ {0}
    /\ MaxRetries \in Nat \ {0}
    /\ MaxItems \in Nat

Ids == 1 .. MaxItems
None == 0

VARIABLES
    item,       \* every item ever enqueued, by number
    pending,    \* InstallQueue.pending
    active,     \* InstallQueue.active: the item a slug is installed for
    completed,  \* InstallQueue.completed
    cancelled,  \* InstallQueue.cancelled
    running,    \* items whose executor has not settled
    cleaning,   \* items whose onCancelled has not settled
    pause,      \* "off", "on", or "over": elapsed, its timer yet to fire
    timers,     \* items with a cleanup timer
    disposed,
    hadCompletionSinceIdle,
    \* History, read by the properties only:
    recorded,   \* items reported to onComplete, which records them in the ledger
    uninstalled, \* items handed to onCancelled, which removes them from disk
    dropped     \* items that cancel() was called for while they were active

history == <<recorded, uninstalled, dropped>>
vars == <<item, pending, active, completed, cancelled, running, cleaning,
          pause, timers, disposed, hadCompletionSinceIdle, history>>

Statuses == {"queued", "downloading", "done", "failed"}

TypeOK ==
    /\ item \in Seq([slug : Slugs, status : Statuses, retries : 0 .. MaxRetries])
    /\ Len(item) <= MaxItems
    /\ pending \in Seq(DOMAIN item) /\ completed \in Seq(DOMAIN item)
    /\ active \in [Slugs -> {None} \cup DOMAIN item]
    /\ cancelled \subseteq Slugs
    /\ pause \in {"off", "on", "over"}
    /\ disposed \in BOOLEAN /\ hadCompletionSinceIdle \in BOOLEAN
    /\ UNION {running, cleaning, timers, recorded, uninstalled, dropped}
          \subseteq DOMAIN item

Init ==
    /\ item = <<>> /\ pending = <<>> /\ completed = <<>>
    /\ active = [s \in Slugs |-> None]
    /\ cancelled = {} /\ running = {} /\ cleaning = {} /\ timers = {}
    /\ pause = "off"
    /\ disposed = FALSE /\ hadCompletionSinceIdle = FALSE
    /\ recorded = {} /\ uninstalled = {} /\ dropped = {}

ActiveSlugs(act) == {s \in Slugs : act[s] # None}
SlugOf(id) == item[id].slug

\* The positions of a list that show slug s with one of the given statuses.
RowsOf(list, s, statuses) ==
    {i \in DOMAIN list : SlugOf(list[i]) = s /\ item[list[i]].status \in statuses}

\* findIndex (indexOf) and splice: the list without the first such row, if there is one.
WithoutFirst(list, rows) ==
    IF rows = {} THEN list
    ELSE RemoveAt(list, CHOOSE i \in rows : \A j \in rows : i <= j)

(***************************************************************************)
(* drain(): unless disposed or paused, start pending items from the front  *)
(* while there is a free slot; then, if nothing is left and something was  *)
(* completed, tell the owner the queue is idle.  Every method that ends in *)
(* drain() passes the state it has reached.                                *)
(***************************************************************************)
Drain(items, pend, act, run, had) ==
    LET free == MaxConcurrency - Cardinality(ActiveSlugs(act))
        n == IF disposed \/ pause = "on" \/ free <= 0 THEN 0
             ELSE IF Len(pend) < free THEN Len(pend) ELSE free
        started == {pend[i] : i \in 1 .. n}
    IN  /\ pending' = SubSeq(pend, n + 1, Len(pend))
        /\ active' = [s \in Slugs |->
                        IF \E id \in started : items[id].slug = s
                        THEN CHOOSE id \in started : items[id].slug = s ELSE act[s]]
        /\ item' = [id \in DOMAIN items |->
                        IF id \in started THEN [items[id] EXCEPT !.status = "downloading"]
                        ELSE items[id]]
        /\ running' = run \cup started
        /\ hadCompletionSinceIdle' =
              (had /\ (\/ disposed \/ pause = "on"
                       \/ ActiveSlugs(active') # {} \/ pending' # <<>>))

(***************************************************************************)
(* The public methods.                                                     *)
(***************************************************************************)

InFlight(s) == active[s] # None \/ \E i \in DOMAIN pending : SlugOf(pending[i]) = s

\* Mutant: a retry leaves the earlier failed row where it is.
EnqueueBeside(s) ==
    /\ Len(item) < MaxItems
    /\ ~InFlight(s)
    /\ RowsOf(completed, s, {"done"}) = {}
    /\ LET new == [slug |-> s, status |-> "queued", retries |-> 0]
       IN Drain(Append(item, new), Append(pending, Len(item) + 1), active, running,
                hadCompletionSinceIdle)
    /\ UNCHANGED <<completed, cancelled, cleaning, pause, timers, disposed, history>>

\* enqueue(): one already active, pending or done is returned as it is; an
\* earlier failed row of the slug gives way to the new item.
Enqueue(s) ==
    /\ Len(item) < MaxItems
    /\ ~InFlight(s)
    /\ RowsOf(completed, s, {"done"}) = {}
    /\ completed' = WithoutFirst(completed, RowsOf(completed, s, {"failed"}))
    /\ LET new == [slug |-> s, status |-> "queued", retries |-> 0]
       IN Drain(Append(item, new), Append(pending, Len(item) + 1), active, running,
                hadCompletionSinceIdle)
    /\ UNCHANGED <<cancelled, cleaning, pause, timers, disposed, history>>

Settle(id, status) == item' = [item EXCEPT ![id].status = status]

\* cancel(): a pending item fails at once; an active one is marked by its slug;
\* the row of a failed one is dismissed.
CancelPending(s) ==
    \E i \in DOMAIN pending :
        /\ SlugOf(pending[i]) = s /\ \A j \in 1 .. i - 1 : SlugOf(pending[j]) # s
        /\ pending' = RemoveAt(pending, i)
        /\ Settle(pending[i], "failed")
        /\ completed' = Append(completed, pending[i])
        /\ timers' = timers \cup {pending[i]}
        /\ UNCHANGED <<active, cancelled, running, cleaning, pause, disposed,
                       hadCompletionSinceIdle, history>>

CancelActive(s) ==
    /\ active[s] # None /\ \A i \in DOMAIN pending : SlugOf(pending[i]) # s
    /\ cancelled' = cancelled \cup {s}
    /\ dropped' = dropped \cup {active[s]}
    /\ UNCHANGED <<item, pending, active, completed, running, cleaning, pause, timers,
                   disposed, hadCompletionSinceIdle, recorded, uninstalled>>

DismissFailed(s) ==
    /\ ~InFlight(s)
    /\ RowsOf(completed, s, {"failed"}) # {}
    /\ completed' = WithoutFirst(completed, RowsOf(completed, s, {"failed"}))
    /\ UNCHANGED <<item, pending, active, cancelled, running, cleaning, pause, timers,
                   disposed, hadCompletionSinceIdle, history>>

Cancel(s) == CancelPending(s) \/ CancelActive(s) \/ DismissFailed(s)

\* dispose() clears the timers; executions under way settle into nothing.
Dispose ==
    /\ ~disposed
    /\ disposed' = TRUE
    /\ pause' = IF pause = "off" THEN "off" ELSE "over"
    /\ timers' = {}
    /\ UNCHANGED <<item, pending, active, completed, cancelled, running, cleaning,
                   hadCompletionSinceIdle, history>>

(***************************************************************************)
(* execute(): the continuations of the executor's promise.                 *)
(***************************************************************************)

Freed(id) == [active EXCEPT ![SlugOf(id)] = None]
With(id, status) == [item EXCEPT ![id].status = status]

SettlesDisposed(id) ==
    /\ id \in running /\ disposed
    /\ running' = running \ {id}
    /\ UNCHANGED <<item, pending, active, completed, cancelled, cleaning, pause, timers,
                   disposed, hadCompletionSinceIdle, history>>

\* Mutant: completion does not look at the mark.
SucceedsUnchecked(id) ==
    /\ id \in running /\ ~disposed
    /\ recorded' = recorded \cup {id}
    /\ completed' = Append(completed, id)
    /\ timers' = timers \cup {id}
    /\ Drain(With(id, "done"), pending, Freed(id), running \ {id}, TRUE)
    /\ UNCHANGED <<cancelled, cleaning, pause, disposed, uninstalled, dropped>>

\* The install ends well and nobody cancelled it: it is recorded in the ledger.
Succeeds(id) ==
    /\ id \in running /\ ~disposed /\ SlugOf(id) \notin cancelled
    /\ recorded' = recorded \cup {id}
    /\ completed' = Append(completed, id)
    /\ timers' = timers \cup {id}
    /\ Drain(With(id, "done"), pending, Freed(id), running \ {id}, TRUE)
    /\ UNCHANGED <<cancelled, cleaning, pause, disposed, uninstalled, dropped>>

\* Mutant: the slot is freed before the clean-up is awaited.
SucceedsCancelledFreed(id) ==
    /\ id \in running /\ ~disposed /\ SlugOf(id) \in cancelled
    /\ cancelled' = cancelled \ {SlugOf(id)}
    /\ running' = running \ {id}
    /\ active' = Freed(id)
    /\ cleaning' = cleaning \cup {id}
    /\ uninstalled' = uninstalled \cup {id}
    /\ UNCHANGED <<item, pending, completed, pause, timers, disposed,
                   hadCompletionSinceIdle, recorded, dropped>>

\* It ends well but its slug is marked: the mark is consumed and onCancelled,
\* which uninstalls the skill, is awaited with the item still active.
SucceedsCancelled(id) ==
    /\ id \in running /\ ~disposed /\ SlugOf(id) \in cancelled
    /\ cancelled' = cancelled \ {SlugOf(id)}
    /\ running' = running \ {id}
    /\ cleaning' = cleaning \cup {id}
    /\ uninstalled' = uninstalled \cup {id}
    /\ UNCHANGED <<item, pending, active, completed, pause, timers, disposed,
                   hadCompletionSinceIdle, recorded, dropped>>

\* onCancelled settles, well or badly: the item fails as "Cancelled".
Cleaned(id) ==
    /\ id \in cleaning
    /\ cleaning' = cleaning \ {id}
    /\ completed' = Append(completed, id)
    /\ timers' = timers \cup {id}
    /\ Drain(With(id, "failed"), pending, Freed(id), running, hadCompletionSinceIdle)
    /\ UNCHANGED <<cancelled, pause, disposed, history>>

\* Mutant: a failure frees its slot and passes it to nobody.
FailsUndrained(id) ==
    /\ id \in running /\ ~disposed
    /\ completed' = Append(completed, id)
    /\ item' = With(id, "failed")
    /\ active' = Freed(id)
    /\ running' = running \ {id}
    /\ UNCHANGED <<pending, cancelled, cleaning, pause, timers, disposed,
                   hadCompletionSinceIdle, history>>

\* Any other error, or a rate limit once too often: the item fails for good.
Fails(id) ==
    /\ id \in running /\ ~disposed
    /\ completed' = Append(completed, id)
    /\ \/ Drain(With(id, "failed"), pending, Freed(id), running \ {id},
                hadCompletionSinceIdle)
       \/ /\ item[id].retries + 1 >= MaxRetries
          /\ Drain([item EXCEPT ![id].status = "failed", ![id].retries = @ + 1],
                   pending, Freed(id), running \ {id}, hadCompletionSinceIdle)
    /\ UNCHANGED <<cancelled, cleaning, pause, timers, disposed, history>>

\* Mutant: the item goes to the back of the queue.
RateLimitedToBack(id) ==
    /\ id \in running /\ ~disposed
    /\ item[id].retries + 1 < MaxRetries
    /\ item' = [item EXCEPT ![id].status = "queued", ![id].retries = @ + 1]
    /\ active' = Freed(id)
    /\ running' = running \ {id}
    /\ pending' = Append(pending, id)
    /\ pause' = "on"
    /\ UNCHANGED <<completed, cancelled, cleaning, timers, disposed,
                   hadCompletionSinceIdle, history>>

\* A rate limit: the item goes back to the front and the whole queue pauses.
RateLimited(id) ==
    /\ id \in running /\ ~disposed
    /\ item[id].retries + 1 < MaxRetries
    /\ item' = [item EXCEPT ![id].status = "queued", ![id].retries = @ + 1]
    /\ active' = Freed(id)
    /\ running' = running \ {id}
    /\ pending' = <<id>> \o pending
    /\ pause' = "on"
    /\ UNCHANGED <<completed, cancelled, cleaning, timers, disposed,
                   hadCompletionSinceIdle, history>>

(***************************************************************************)
(* Time.                                                                   *)
(***************************************************************************)

PauseElapses ==
    /\ pause = "on"
    /\ pause' = "over"
    /\ UNCHANGED <<item, pending, active, completed, cancelled, running, cleaning,
                   timers, disposed, hadCompletionSinceIdle, history>>

PauseTimer ==
    /\ pause = "over" /\ ~disposed
    /\ pause' = "off"
    /\ Drain(item, pending, active, running, hadCompletionSinceIdle)
    /\ UNCHANGED <<completed, cancelled, cleaning, timers, disposed, history>>

\* A cleanup timer takes its own item's row away, if it is still there.
CleanupTimer(id) ==
    /\ id \in timers /\ ~disposed
    /\ timers' = timers \ {id}
    /\ completed' = WithoutFirst(completed, {i \in DOMAIN completed : completed[i] = id})
    /\ UNCHANGED <<item, pending, active, cancelled, running, cleaning, pause, disposed,
                   hadCompletionSinceIdle, history>>

Settles(id) ==
    \/ SettlesDisposed(id) \/ Succeeds(id) \/ SucceedsCancelled(id)
    \/ Fails(id) \/ RateLimited(id)

Next ==
    \/ \E s \in Slugs : Enqueue(s) \/ Cancel(s)
    \/ Dispose
    \/ \E id \in Ids : Settles(id) \/ Cleaned(id) \/ CleanupTimer(id)
    \/ PauseElapses \/ PauseTimer

Spec == Init /\ [][Next]_vars

\* Time passes and the pause's timer fires.  Nothing makes an executor settle.
FairSpec == Spec /\ WF_vars(PauseElapses) /\ WF_vars(PauseTimer)

-------------------------------------------------------------------------------

\* What getQueue() lists: active, pending and ended items.
Rows == {active[s] : s \in ActiveSlugs(active)}
            \cup {pending[i] : i \in DOMAIN pending}
            \cup {completed[i] : i \in DOMAIN completed}

\* The UI shows a skill in one row: neither a retry nor a cancel leaves a stale
\* failed row beside the new one, and no list holds an item twice.
OneRowPerSkill ==
    /\ \A a, b \in Rows : SlugOf(a) = SlugOf(b) => a = b
    /\ Cardinality(ActiveSlugs(active)) + Len(pending) + Len(completed) = Cardinality(Rows)

\* No more executors and clean-ups are under way than the limit allows, counted
\* by the promises that have not settled, not by the size of the map.
ConcurrencyBound == Cardinality(running \cup cleaning) <= MaxConcurrency

\* No install waits for a wake-up that nothing will give: with items pending and
\* no pause to end, every slot is taken by work that will call drain() again.
NothingStranded ==
    ~disposed /\ pending # <<>> /\ pause = "off" =>
        Cardinality(running \cup cleaning) = MaxConcurrency

\* Once a skill was installed the owner is told when the queue falls idle: the
\* flag that owes it the notice is never left with nothing to lead to drain().
IdleNoticeOwed ==
    hadCompletionSinceIdle /\ ~disposed =>
        running \cup cleaning # {} \/ pause # "off"

\* An install the user cancelled while it ran is never recorded as installed.
CancelledIsNotRecorded == recorded \cap dropped = {}

\* Installs start in the order they were asked for: retries at the front of the
\* queue and pauses let no item overtake an earlier one.
NoOvertaking ==
    [][\A id \in running' \ running : \A i \in DOMAIN pending' : id < pending'[i]]_vars

InstallIsOver(id) == id \in DOMAIN item /\ item[id].status \in {"done", "failed"}

\* Provided no executor or clean-up hangs (none has a time-out), every install asked
\* for is done or failed in the end: however few the slots, each is passed on by
\* whatever ends the one that held it, or by the timer of the pause.
InstallsEnd ==
    (\A id \in Ids : []<>(id \notin running \cup cleaning)) =>
        \A id \in Ids :
            id \in DOMAIN item ~> disposed \/ InstallIsOver(id)

\* An install that ends well and that nobody cancelled is recorded, not removed:
\* cancel() is documented to mark "active items ... so the executor skips the DB
\* record on completion" (install-queue.ts:152), the item it was called for.
OnlyCancelledIsRemoved == uninstalled \subseteq dropped

===============================================================================
