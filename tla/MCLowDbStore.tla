---------------------------- MODULE MCLowDbStore ----------------------------
(***************************************************************************)
(* LowDbStore on a few update() calls, for TLC, with the history that says *)
(* whether its callers kept the discipline some of its promises need.      *)
(***************************************************************************)
EXTENDS LowDbStore

VARIABLE alone  \* no two update() calls, and no two loads of the file, overlapped

history == <<vars, alone>>

Serial ==
    /\ \A u, v \in InFlight \cap Updates : u = v
    /\ \A u, v \in Calls : pc[u] \in Loading /\ pc[v] \in Loading => u = v

MCInit == Init /\ alone = TRUE
MCNext == Next /\ alone' = (alone /\ Serial')
MCSpec ==
    /\ MCInit /\ [][MCNext]_history
    /\ \A u \in Calls : WF_vars(pc[u] # "idle" /\ Call(u))
    /\ WF_vars(RunJob)

\* An edit that update() returned for stays in the document through crashes and
\* failed writes, as long as no two update() calls overlapped: update() reads
\* the cache, awaits, and writes what it read.
AloneSurvive == alone => AckedSurvive

\* Under the same discipline a whole backup holds every acknowledged edit.
AloneBackupCovers == alone => BackupCovers

\* When nothing is being read or written the cache and the file agree, unless a
\* slow first read put back the document it opened before an update replaced it,
\* which takes two calls that overlap.
AloneCacheMatches == alone => QuietCacheMatchesDisk

=============================================================================
