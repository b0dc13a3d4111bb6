--------------------------- MODULE LowDbStoreProofs ---------------------------
(***************************************************************************)
(* What LowDbStore guarantees for any number of calls, of crashes and of   *)
(* failed writes: its types, that the document is never seen half-written, *)
(* that an update() that returned is on disk, and that the document file   *)
(* implements DurableDocument.  Then what it guarantees besides to callers *)
(* that do not overlap.                                                    *)
(***************************************************************************)
EXTENDS MCLowDbStore, SequenceTheorems, TLAPS

(***************************************************************************)
(* The inductive invariant.                                                *)
(***************************************************************************)

\* A call that is about to apply its edit is an update() with a whole document.
HeldWhole == \A u \in Calls : pc[u] = "updating" => u \in Updates /\ local[u] \in Doc

\* Every queued job has its own caller, which is waiting for it; the document
\* an update() call queued contains its edit.
JobsAwaited ==
    /\ \A i \in 1 .. Len(queue) :
          /\ pc[queue[i].by] \in Waiting
          /\ pc[queue[i].by] = "writing" => queue[i].by \in queue[i].doc
    /\ \A i, j \in 1 .. Len(queue) : queue[i].by = queue[j].by => i = j

\* What the files hold of the running job at each of its steps.
StepFiles ==
    /\ step # "idle" => queue # <<>>
    /\ step \in {"tmpFull", "bak", "bakFull"} => disk["tmp"] = Head(queue).doc
    /\ step = "renamed" => disk["main"] = Head(queue).doc

IInv == TypeOK /\ HeldWhole /\ JobsAwaited /\ StepFiles /\ MainWhole

(***************************************************************************)
(* Sequences of jobs, as the store uses them.                              *)
(***************************************************************************)

\* The head of a chain that is not empty is its first job; the tail shifts.
LEMMA TailJob ==
    ASSUME NEW q \in Seq(Job), q # <<>>
    PROVE  /\ Len(q) \in Nat \ {0}
           /\ Head(q) = q[1] /\ Head(q) \in Job
           /\ Tail(q) \in Seq(Job)
           /\ Len(Tail(q)) = Len(q) - 1
           /\ \A i \in 1 .. Len(q) - 1 : Tail(q)[i] = q[i + 1]
  OBVIOUS

(***************************************************************************)
(* Each action preserves the invariant.                                    *)
(***************************************************************************)

\* A call that waits for no job and comes to wait for none disturbs none.
LEMMA JobsLeftAlone ==
    ASSUME IInv, NEW u \in Calls, pc[u] \notin Waiting,
           NEW phase \in Phases, pc' = [pc EXCEPT ![u] = phase],
           queue' = queue
    PROVE  JobsAwaited'
  <1>1. \A i \in 1 .. Len(queue) : queue[i].by # u /\ queue[i] \in Job
    BY DEF IInv, TypeOK, JobsAwaited
  <1>2. \A i \in 1 .. Len(queue) : pc'[queue[i].by] = pc[queue[i].by]
    BY <1>1 DEF IInv, TypeOK, Job
  <1> QED
    BY <1>2 DEF IInv, JobsAwaited

\* write() gives its caller the only job of that caller.
LEMMA WriteQueues ==
    ASSUME IInv, NEW u \in Calls, pc[u] \notin Waiting,
           NEW doc \in Doc, NEW phase \in Waiting, NEW fail \in Phases \ Waiting,
           phase = "writing" => u \in doc,
           Write(u, doc, phase, fail)
    PROVE  /\ queue' \in Seq(Job) /\ pc' \in [Calls -> Phases]
           /\ JobsAwaited'
           /\ queue # <<>> => queue' # <<>> /\ Head(queue') = Head(queue)
  <1> DEFINE j == [by |-> u, doc |-> doc]
  <1>0. j \in Job /\ j.by = u /\ j.doc = doc
    BY DEF Job
  <1>1. CASE poisoned
    <2>1. queue' = queue /\ pc' = [pc EXCEPT ![u] = fail]
      BY <1>1 DEF Write, Goto
    <2>2. JobsAwaited'
      BY <2>1, JobsLeftAlone DEF IInv, TypeOK
    <2> QED
      BY <2>1, <2>2 DEF IInv, TypeOK
  <1>2. CASE ~poisoned
    <2>1. queue' = Append(queue, j) /\ pc' = [pc EXCEPT ![u] = phase]
      BY <1>2 DEF Write, Goto
    <2>2. /\ queue' \in Seq(Job) /\ Len(queue') = Len(queue) + 1
          /\ \A i \in 1 .. Len(queue) : queue'[i] = queue[i]
          /\ queue'[Len(queue) + 1] = j
          /\ queue # <<>> => queue' # <<>> /\ Head(queue') = Head(queue)
      BY <1>0, <2>1, AppendProperties, HeadTailAppend DEF IInv, TypeOK
    <2>3. pc' \in [Calls -> Phases]
      BY <2>1 DEF IInv, TypeOK, Phases
    <2>4. \A i \in 1 .. Len(queue) : queue[i].by # u /\ queue[i] \in Job
      BY DEF IInv, TypeOK, JobsAwaited
    <2>5. JobsAwaited'
      BY <1>0, <2>1, <2>2, <2>4 DEF IInv, TypeOK, JobsAwaited, Job
    <2> QED
      BY <2>2, <2>3, <2>5
  <1> QED
    BY <1>1, <1>2

LEMMA CallReadKeeps ==
    ASSUME IInv, NEW u \in Calls, CallRead(u)
    PROVE  IInv'
  <1>1. PICK phase \in {"updating", "done", "openMain"}, doc \in Doc \cup {local[u]} :
           /\ pc' = [pc EXCEPT ![u] = phase]
           /\ local' = [local EXCEPT ![u] = doc]
           /\ phase = "updating" => u \in Updates /\ doc \in Doc
    <2>1. CASE cache # NoDoc
      BY <2>1 DEF CallRead, Goto, Hold, AfterRead, IInv, TypeOK
    <2>2. CASE cache = NoDoc
      BY <2>2 DEF CallRead, Goto, IInv, TypeOK
    <2> QED
      BY <2>1, <2>2
  <1>2. phase \in Phases /\ pc[u] = "idle" /\ pc[u] \notin Waiting
    BY DEF CallRead, Phases, Reading, Ended, Waiting, Restoring
  <1>3. UNCHANGED <<disk, cache, queue, step, poisoned, budgets>>
    BY DEF CallRead
  <1>4. TypeOK'
    BY <1>1, <1>2, <1>3 DEF IInv, TypeOK, budgets
  <1>5. HeldWhole'
    BY <1>1, <1>2 DEF IInv, TypeOK, HeldWhole
  <1>6. JobsAwaited'
    BY <1>1, <1>2, <1>3, JobsLeftAlone
  <1>7. StepFiles' /\ MainWhole'
    BY <1>3 DEF IInv, StepFiles, MainWhole, budgets
  <1> QED
    BY <1>4, <1>5, <1>6, <1>7 DEF IInv

LEMMA OpenFileKeeps ==
    ASSUME IInv, NEW u \in Calls, OpenFile(u)
    PROVE  IInv'
  <1>1. PICK phase \in {"parseMain", "parseBak"}, f \in Files :
           /\ pc' = [pc EXCEPT ![u] = phase]
           /\ local' = [local EXCEPT ![u] = disk[f]]
    BY DEF OpenFile, Goto, Hold, Files
  <1>2. phase \in Phases /\ pc[u] \notin Waiting
    BY DEF OpenFile, Phases, Reading, Waiting, Restoring
  <1>3. UNCHANGED <<disk, cache, queue, step, poisoned, budgets>>
    BY DEF OpenFile
  <1>4. TypeOK'
    BY <1>1, <1>2, <1>3 DEF IInv, TypeOK, budgets
  <1>5. HeldWhole'
    BY <1>1, <1>2 DEF IInv, TypeOK, HeldWhole
  <1>6. JobsAwaited'
    BY <1>1, <1>2, <1>3, JobsLeftAlone
  <1>7. StepFiles' /\ MainWhole'
    BY <1>3 DEF IInv, StepFiles, MainWhole, budgets
  <1> QED
    BY <1>4, <1>5, <1>6, <1>7 DEF IInv

LEMMA ParseMainKeeps ==
    ASSUME IInv, NEW u \in Calls, ParseMain(u)
    PROVE  IInv'
  <1>1. PICK phase \in {"updating", "done", "openBak"} :
           /\ pc' = [pc EXCEPT ![u] = phase]
           /\ phase = "updating" => u \in Updates /\ local[u] \in Doc
           /\ cache' \in Doc \/ cache' = cache
    BY DEF ParseMain, Goto, AfterRead
  <1>2. phase \in Phases /\ pc[u] \notin Waiting
    BY DEF ParseMain, Phases, Reading, Ended, Waiting, Restoring
  <1>3. UNCHANGED <<disk, queue, step, poisoned, local, budgets>>
    BY DEF ParseMain
  <1>4. TypeOK'
    BY <1>1, <1>2, <1>3 DEF IInv, TypeOK, budgets
  <1>5. HeldWhole'
    BY <1>1, <1>2, <1>3 DEF IInv, TypeOK, HeldWhole
  <1>6. JobsAwaited'
    BY <1>1, <1>2, <1>3, JobsLeftAlone
  <1>7. StepFiles' /\ MainWhole'
    BY <1>3 DEF IInv, StepFiles, MainWhole, budgets
  <1> QED
    BY <1>4, <1>5, <1>6, <1>7 DEF IInv

LEMMA ParseBakKeeps ==
    ASSUME IInv, NEW u \in Calls, ParseBak(u)
    PROVE  IInv'
  <1>1. PICK doc \in Doc, phase \in Restoring :
           /\ Write(u, doc, phase, "failed")
           /\ cache' \in Doc
    BY DEF ParseBak, Doc, Default, Restoring
  <1>2. pc[u] \notin Waiting /\ phase \in Waiting /\ phase # "writing"
        /\ "failed" \in Phases \ Waiting
    BY DEF ParseBak, Phases, Ended, Waiting, Restoring
  <1>3. UNCHANGED <<disk, step, poisoned, local, budgets>>
    BY DEF ParseBak
  <1>4. /\ queue' \in Seq(Job) /\ pc' \in [Calls -> Phases]
        /\ JobsAwaited'
        /\ queue # <<>> => queue' # <<>> /\ Head(queue') = Head(queue)
    BY <1>1, <1>2, WriteQueues
  <1>5. TypeOK'
    BY <1>1, <1>3, <1>4 DEF IInv, TypeOK, budgets
  <1>6. HeldWhole'
    BY <1>1, <1>3 DEF IInv, TypeOK, HeldWhole, Write, Goto, Restoring
  <1>7. StepFiles' /\ MainWhole'
    BY <1>3, <1>4 DEF IInv, StepFiles, MainWhole, budgets
  <1> QED
    BY <1>4, <1>5, <1>6, <1>7 DEF IInv

LEMMA CallWriteKeeps ==
    ASSUME IInv, NEW u \in Calls, CallWrite(u)
    PROVE  IInv'
  <1> DEFINE doc == local[u] \cup {u}
  <1>1. doc \in Doc /\ u \in doc
    BY DEF CallWrite, IInv, HeldWhole, Doc
  <1>2. pc[u] \notin Waiting /\ "writing" \in Waiting /\ "failed" \in Phases \ Waiting
    BY DEF CallWrite, Phases, Ended, Waiting, Restoring
  <1>3. Write(u, doc, "writing", "failed") /\ local' = [local EXCEPT ![u] = doc]
        /\ UNCHANGED <<disk, cache, step, poisoned, budgets>>
    BY DEF CallWrite, Hold
  <1>4. /\ queue' \in Seq(Job) /\ pc' \in [Calls -> Phases]
        /\ JobsAwaited'
        /\ queue # <<>> => queue' # <<>> /\ Head(queue') = Head(queue)
    BY <1>1, <1>2, <1>3, WriteQueues
  <1>5. TypeOK'
    BY <1>1, <1>3, <1>4 DEF IInv, TypeOK, budgets
  <1>6. HeldWhole'
    BY <1>1, <1>3 DEF IInv, TypeOK, HeldWhole, Write, Goto
  <1>7. StepFiles' /\ MainWhole'
    BY <1>3, <1>4 DEF IInv, StepFiles, MainWhole, budgets
  <1> QED
    BY <1>4, <1>5, <1>6, <1>7 DEF IInv

\* Filling and truncating the temporary file and the backup moves the files and
\* the step only.
LEMMA FileStepKeeps ==
    ASSUME IInv, TruncateTmp \/ FillTmp \/ TruncateBak \/ FillBak
    PROVE  IInv'
  <1>1. queue # <<>> /\ Head(queue) \in Job /\ Head(queue).doc \in Doc
    BY TailJob DEF TruncateTmp, FillTmp, TruncateBak, FillBak, Running, IInv, TypeOK, Job
  <1>2. UNCHANGED <<cache, queue, poisoned, pc, local, budgets>>
    BY DEF TruncateTmp, FillTmp, TruncateBak, FillBak, RestUnchanged
  <1>3. TypeOK'
    BY <1>1, <1>2 DEF TruncateTmp, FillTmp, TruncateBak, FillBak, Put,
                      IInv, TypeOK, Files, Steps, budgets
  <1>4. HeldWhole' /\ JobsAwaited'
    BY <1>2 DEF IInv, HeldWhole, JobsAwaited
  <1>5. StepFiles'
    BY <1>1, <1>2 DEF TruncateTmp, FillTmp, TruncateBak, FillBak, Put, Running,
                      IInv, TypeOK, StepFiles, Files
  <1>6. disk'["main"] = disk["main"]
    BY DEF TruncateTmp, FillTmp, TruncateBak, FillBak, Put, IInv, TypeOK, Files
  <1>7. MainWhole'
    BY <1>2, <1>6 DEF IInv, MainWhole, budgets
  <1> QED
    BY <1>3, <1>4, <1>5, <1>7 DEF IInv

\* The rename puts a whole document in place: the temporary file is full by then.
LEMMA RenameKeeps ==
    ASSUME IInv, Rename
    PROVE  IInv' /\ disk'["main"] = Head(queue).doc
  <1>1. queue # <<>> /\ Head(queue).doc \in Doc /\ disk["tmp"] = Head(queue).doc
    BY TailJob DEF Rename, Running, IInv, TypeOK, StepFiles, Job
  <1>2. UNCHANGED <<cache, queue, poisoned, pc, local, budgets>>
    BY DEF Rename, RestUnchanged
  <1>3. disk'["main"] = Head(queue).doc /\ step' = "renamed"
    BY <1>1 DEF Rename, IInv, TypeOK, Files
  <1>4. TypeOK'
    BY <1>1, <1>2, <1>3 DEF Rename, IInv, TypeOK, Files, Steps, budgets
  <1>5. HeldWhole' /\ JobsAwaited'
    BY <1>2 DEF IInv, HeldWhole, JobsAwaited
  <1>6. StepFiles'
    BY <1>1, <1>2, <1>3 DEF StepFiles
  <1>7. MainWhole'
    BY <1>1, <1>3, StoreConstants DEF MainWhole
  <1> QED
    BY <1>3, <1>4, <1>5, <1>6, <1>7 DEF IInv

LEMMA PublishKeeps ==
    ASSUME IInv, Publish
    PROVE  IInv'
  <1> DEFINE u == Head(queue).by
             doc == Head(queue).doc
  <1>1. /\ queue # <<>> /\ queue \in Seq(Job)
        /\ u \in Calls /\ doc \in Doc
        /\ queue' = Tail(queue) /\ step' = "idle" /\ cache' = doc
        /\ UNCHANGED <<disk, poisoned, budgets>>
    BY TailJob DEF Publish, Running, IInv, TypeOK, Job
  <1>2. PICK phase \in {"updating", "done"} :
           /\ pc' = [pc EXCEPT ![u] = phase]
           /\ local' = local \/ local' = [local EXCEPT ![u] = doc]
           /\ phase = "updating" => u \in Updates /\ local' = [local EXCEPT ![u] = doc]
    BY DEF Publish, Goto, Hold, AfterRead
  <1>3. phase \in Phases
    BY DEF Phases, Ended
  <1>4. /\ Len(queue) \in Nat \ {0} /\ u = queue[1].by
        /\ queue' \in Seq(Job) /\ Len(queue') = Len(queue) - 1
        /\ \A i \in 1 .. Len(queue) - 1 : queue'[i] = queue[i + 1]
    BY <1>1, TailJob
  <1>5. TypeOK'
    BY <1>1, <1>2, <1>3, <1>4 DEF IInv, TypeOK, Steps, budgets
  <1>6. HeldWhole'
    BY <1>1, <1>2 DEF IInv, TypeOK, HeldWhole
  <1>7. \A i \in 1 .. Len(queue') :
           /\ i + 1 \in 1 .. Len(queue) /\ queue'[i] = queue[i + 1]
           /\ queue'[i].by # u /\ pc'[queue'[i].by] = pc[queue'[i].by]
    <2> SUFFICES ASSUME NEW i \in 1 .. Len(queue')
                 PROVE  /\ i + 1 \in 1 .. Len(queue) /\ queue'[i] = queue[i + 1]
                        /\ queue'[i].by # u /\ pc'[queue'[i].by] = pc[queue'[i].by]
      OBVIOUS
    <2>1. i + 1 \in 1 .. Len(queue) /\ queue'[i] = queue[i + 1] /\ i + 1 # 1
      BY <1>4
    <2>2. queue'[i].by # u
      BY <1>4, <2>1 DEF IInv, JobsAwaited
    <2>3. queue'[i].by \in Calls
      <3>1. queue[i + 1] \in Job
        BY <1>1, <2>1, ElementOfSeq
      <3> QED
        BY <2>1, <3>1 DEF Job
    <2> QED
      BY <1>1, <1>2, <2>1, <2>2, <2>3 DEF IInv, TypeOK
  <1>8. JobsAwaited'
    <2>1. \A i \in 1 .. Len(queue) :
             /\ pc[queue[i].by] \in Waiting
             /\ pc[queue[i].by] = "writing" => queue[i].by \in queue[i].doc
      BY DEF IInv, JobsAwaited
    <2>2. \A i \in 1 .. Len(queue') :
             /\ pc'[queue'[i].by] \in Waiting
             /\ pc'[queue'[i].by] = "writing" => queue'[i].by \in queue'[i].doc
      BY <1>7, <2>1
    <2>3. \A i, j \in 1 .. Len(queue') : queue'[i].by = queue'[j].by => i = j
      <3>1. \A i, j \in 1 .. Len(queue) : queue[i].by = queue[j].by => i = j
        BY DEF IInv, JobsAwaited
      <3>2. Len(queue') \in Nat
        BY <1>4
      <3> QED
        BY <1>7, <3>1, <3>2
    <2> QED
      BY <2>2, <2>3 DEF JobsAwaited
  <1>9. StepFiles' /\ MainWhole'
    BY <1>1 DEF IInv, StepFiles, MainWhole, budgets
  <1> QED
    BY <1>5, <1>6, <1>8, <1>9 DEF IInv

\* A failed write and a restart leave an empty chain and the files as they are.
LEMMA ChainDropped ==
    ASSUME IInv, WriteFails \/ Restart
    PROVE  IInv'
  <1>0. /\ cache' \in Doc \cup {NoDoc}
        /\ poisoned' \in BOOLEAN
    <2>1. Default \in Doc
      BY DEF Doc, Default
    <2> QED
      BY <2>1, Zenon DEF WriteFails, Restart, IInv, TypeOK
  <1>1. /\ queue' = <<>> /\ step' = "idle" /\ UNCHANGED <<disk, local, breaks>>
        /\ poisoned' \in BOOLEAN /\ cache' \in Doc \cup {NoDoc}
        /\ crashes' \in Nat /\ faults' \in Nat
    BY <1>0 DEF WriteFails, Restart, IInv, TypeOK
  <1>2. /\ pc' \in [Calls -> Phases]
        /\ \A u \in Calls : pc'[u] = pc[u] \/ pc'[u] = "failed"
    BY DEF WriteFails, Restart, IInv, TypeOK, Phases, Ended
  <1>3. TypeOK'
    BY <1>1, <1>2 DEF IInv, TypeOK, Steps
  <1>4. HeldWhole'
    BY <1>1, <1>2 DEF IInv, TypeOK, HeldWhole
  <1>5. JobsAwaited'
    BY <1>1, EmptySeq DEF JobsAwaited
  <1>6. StepFiles' /\ MainWhole'
    BY <1>1 DEF IInv, StepFiles, MainWhole
  <1> QED
    BY <1>3, <1>4, <1>5, <1>6 DEF IInv

\* Nothing is queued while nothing is in flight, so damage hits no running job.
LEMMA BreakMainKeeps ==
    ASSUME IInv, BreakMain
    PROVE  IInv' /\ queue = <<>> /\ disk'["main"] = Torn
  <1>1. queue = <<>>
    <2> SUFFICES ASSUME queue # <<>> PROVE FALSE
      OBVIOUS
    <2>1. Len(queue) \in Nat \ {0} /\ queue[1] \in Job
      BY TailJob DEF IInv, TypeOK
    <2>2. queue[1].by \in Calls /\ pc[queue[1].by] \in Waiting
      BY <2>1 DEF IInv, JobsAwaited, Job
    <2>3. queue[1].by \in InFlight
      BY <2>2 DEF InFlight, Waiting, Restoring, Ended
    <2> QED
      BY <2>3 DEF BreakMain
  <1>2. UNCHANGED <<cache, queue, step, poisoned, pc, local, crashes, faults>>
    BY DEF BreakMain
  <1>3. disk' \in [Files -> Doc \cup {Absent, Torn}] /\ breaks' = breaks + 1
        /\ disk'["main"] = Torn
    BY DEF BreakMain, Put, IInv, TypeOK, Files
  <1>4. TypeOK'
    BY <1>2, <1>3 DEF IInv, TypeOK
  <1>5. HeldWhole' /\ JobsAwaited'
    BY <1>2 DEF IInv, HeldWhole, JobsAwaited
  <1>6. StepFiles'
    BY <1>1, <1>2 DEF IInv, StepFiles
  <1>7. MainWhole'
    BY <1>3 DEF IInv, TypeOK, MainWhole
  <1> QED
    BY <1>1, <1>3, <1>4, <1>5, <1>6, <1>7 DEF IInv

LEMMA IInvInit == Init => IInv
  <1> SUFFICES ASSUME Init PROVE IInv
    OBVIOUS
  <1>1. TypeOK
    BY EmptySeq DEF Init, TypeOK, Files, Steps, Phases
  <1>2. HeldWhole /\ JobsAwaited /\ StepFiles
    BY EmptySeq DEF Init, HeldWhole, JobsAwaited, StepFiles
  <1>3. MainWhole
    BY StoreConstants DEF Init, MainWhole, Files
  <1> QED
    BY <1>1, <1>2, <1>3 DEF IInv

LEMMA IInvStep == IInv /\ [Next]_vars => IInv'
  <1> SUFFICES ASSUME IInv, [Next]_vars PROVE IInv'
    OBVIOUS
  <1>1. ASSUME NEW u \in Calls, Call(u) PROVE IInv'
    BY <1>1, CallReadKeeps, OpenFileKeeps, ParseMainKeeps, ParseBakKeeps, CallWriteKeeps
       DEF Call
  <1>2. CASE RunJob
    BY <1>2, FileStepKeeps, RenameKeeps, PublishKeeps DEF RunJob
  <1>3. CASE WriteFails \/ Restart
    BY <1>3, ChainDropped
  <1>4. CASE BreakMain
    BY <1>4, BreakMainKeeps
  <1>5. CASE UNCHANGED vars
    BY <1>5 DEF vars, budgets, IInv, TypeOK, HeldWhole, JobsAwaited, StepFiles, MainWhole
  <1> QED
    BY <1>1, <1>2, <1>3, <1>4, <1>5 DEF Next

THEOREM Invariance == Spec => []IInv
  BY IInvInit, IInvStep, PTL DEF Spec

\* The variables keep their types through every interleaving, crash and fault.
THEOREM TypeCorrect == Spec => []TypeOK
  BY Invariance, PTL DEF IInv

\* The document file is never half-written: no crash can leave one that does
\* not parse, whatever is queued (LowDbStore.write, temporary file and rename).
THEOREM DocumentNeverTorn == Spec => []MainWhole
  BY Invariance, PTL DEF IInv

(***************************************************************************)
(* What a caller may rely on when update() returns.                        *)
(***************************************************************************)

\* Only the publication of its own job makes an update() call return.
LEMMA AckOnlyByPublish ==
    ASSUME IInv, Next, NEW u \in Updates, pc[u] # "done", pc'[u] = "done"
    PROVE  Publish /\ u = Head(queue).by /\ pc[u] = "writing"
  <1>0. u \in Calls /\ pc \in [Calls -> Phases]
    BY DEF Calls, IInv, TypeOK
  <1>1. ASSUME NEW v \in Calls, Call(v) PROVE FALSE
    <2>1. PICK phase \in Phases : pc' = [pc EXCEPT ![v] = phase] /\ (v = u => phase # "done")
      BY <1>0, <1>1 DEF Call, CallRead, OpenFile, ParseMain, ParseBak, CallWrite, Write,
                        Goto, AfterRead, Phases, Reading, Waiting, Restoring, Ended
    <2> QED
      BY <1>0, <2>1
  <1>2. CASE RunJob
    <2>1. CASE Publish
      <3>1. Head(queue).by \in Calls
        BY <2>1, TailJob DEF Publish, Running, IInv, TypeOK, Job
      <3>2. PICK phase \in {"updating", "done"} :
              /\ pc' = [pc EXCEPT ![Head(queue).by] = phase]
              /\ phase = "done" => \/ pc[Head(queue).by] = "writing"
                                   \/ Head(queue).by \notin Updates
        BY <2>1 DEF Publish, Goto, AfterRead
      <3> QED
        BY <1>0, <2>1, <3>1, <3>2
    <2>2. CASE ~Publish
      BY <1>2, <2>2 DEF RunJob, TruncateTmp, FillTmp, TruncateBak, FillBak, Rename,
                        RestUnchanged
    <2> QED
      BY <2>1, <2>2
  <1>3. CASE WriteFails \/ Restart \/ BreakMain
    BY <1>0, <1>3 DEF WriteFails, Restart, BreakMain
  <1> QED
    BY <1>1, <1>2, <1>3 DEF Next

LEMMA AckStep ==
    ASSUME IInv, Next, NEW u \in Updates, pc[u] # "done", pc'[u] = "done"
    PROVE  u \in Recovered'
  <1>1. Publish /\ u = Head(queue).by /\ pc[u] = "writing"
    BY AckOnlyByPublish
  <1>2. /\ Len(queue) \in Nat \ {0} /\ Head(queue) = queue[1]
        /\ Head(queue).doc \in Doc
    BY <1>1, TailJob DEF Publish, Running, IInv, TypeOK, Job
  <1>3. u \in Head(queue).doc
    BY <1>1, <1>2 DEF IInv, JobsAwaited
  <1>4. disk'["main"] = Head(queue).doc
    BY <1>1 DEF Publish, Running, IInv, StepFiles
  <1> QED
    BY <1>2, <1>3, <1>4 DEF Recovered

\* When update() returns, a restart at that very moment reads its edit back
\* (LowDbStore.update awaits the write, which resolves after the rename).
THEOREM AcknowledgedIsDurable == Spec => AckIsDurable
  <1>1. IInv /\ [Next]_vars =>
          [\A u \in Updates : pc[u] # "done" /\ pc'[u] = "done" => u \in Recovered']_vars
    BY AckStep
  <1> QED
    BY <1>1, Invariance, PTL DEF Spec, AckIsDurable

(***************************************************************************)
(* The document file implements DurableDocument.                           *)
(***************************************************************************)

\* The jobs whose document has not reached the file, and those documents.
Unwritten == IF step = "renamed" THEN Tail(queue) ELSE queue
DocsOf(jobs) == [i \in DOMAIN jobs |-> jobs[i].doc]

LEMMA DocsOfType ==
    ASSUME NEW q \in Seq(Job)
    PROVE  DocsOf(q) \in Seq(Doc) /\ Len(DocsOf(q)) = Len(q)
  <1>1. DOMAIN q = 1 .. Len(q) /\ Len(q) \in Nat
    BY LenProperties
  <1>2. \A i \in 1 .. Len(q) : q[i].doc \in Doc
    <2>1. \A i \in 1 .. Len(q) : q[i] \in Job
      BY ElementOfSeq
    <2> QED
      BY <2>1 DEF Job
  <1>3. DocsOf(q) \in [1 .. Len(q) -> Doc]
    BY <1>1, <1>2 DEF DocsOf
  <1> QED
    BY <1>1, <1>3

LEMMA DocsOfAppend ==
    ASSUME NEW q \in Seq(Job), NEW j \in Job
    PROVE  DocsOf(Append(q, j)) = Append(DocsOf(q), j.doc)
  <1>1. /\ Append(q, j) \in Seq(Job) /\ Len(Append(q, j)) = Len(q) + 1
        /\ \A i \in 1 .. Len(q) : Append(q, j)[i] = q[i]
        /\ Append(q, j)[Len(q) + 1] = j
        /\ Len(q) \in Nat /\ j.doc \in Doc
    BY AppendProperties, LenProperties DEF Job
  <1>2. /\ DocsOf(q) \in Seq(Doc) /\ Len(DocsOf(q)) = Len(q)
        /\ DocsOf(Append(q, j)) \in Seq(Doc) /\ Len(DocsOf(Append(q, j))) = Len(q) + 1
    BY <1>1, DocsOfType
  <1>3. /\ Append(DocsOf(q), j.doc) \in Seq(Doc)
        /\ Len(Append(DocsOf(q), j.doc)) = Len(q) + 1
        /\ \A i \in 1 .. Len(q) : Append(DocsOf(q), j.doc)[i] = DocsOf(q)[i]
        /\ Append(DocsOf(q), j.doc)[Len(q) + 1] = j.doc
    BY <1>1, <1>2, AppendProperties
  <1>4. DOMAIN q = 1 .. Len(q) /\ DOMAIN Append(q, j) = 1 .. Len(q) + 1
    BY <1>1, LenProperties
  <1>5. \A i \in 1 .. Len(q) + 1 : DocsOf(Append(q, j))[i] = Append(DocsOf(q), j.doc)[i]
    BY <1>1, <1>3, <1>4 DEF DocsOf
  <1> QED
    BY <1>2, <1>3, <1>5, SeqEqual

LEMMA DocsOfTail ==
    ASSUME NEW q \in Seq(Job), q # <<>>
    PROVE  DocsOf(q) # <<>> /\ Head(DocsOf(q)) = Head(q).doc
           /\ DocsOf(Tail(q)) = Tail(DocsOf(q))
  <1>1. /\ Len(q) \in Nat \ {0} /\ Head(q) = q[1] /\ Tail(q) \in Seq(Job)
        /\ Len(Tail(q)) = Len(q) - 1
        /\ \A i \in 1 .. Len(q) - 1 : Tail(q)[i] = q[i + 1]
    BY TailJob
  <1>2. /\ DocsOf(q) \in Seq(Doc) /\ Len(DocsOf(q)) = Len(q)
        /\ DocsOf(Tail(q)) \in Seq(Doc) /\ Len(DocsOf(Tail(q))) = Len(q) - 1
    BY <1>1, DocsOfType
  <1>3. DOMAIN q = 1 .. Len(q) /\ DOMAIN Tail(q) = 1 .. Len(q) - 1
    BY <1>1, LenProperties
  <1>4. DocsOf(q) # <<>>
    BY <1>1, <1>2
  <1>5. Head(DocsOf(q)) = Head(q).doc
    BY <1>1, <1>2, <1>3, <1>4 DEF DocsOf
  <1>6. /\ Tail(DocsOf(q)) \in Seq(Doc) /\ Len(Tail(DocsOf(q))) = Len(q) - 1
        /\ \A i \in 1 .. Len(q) - 1 : Tail(DocsOf(q))[i] = DocsOf(q)[i + 1]
    BY <1>2, <1>4, HeadTailProperties
  <1>7. \A i \in 1 .. Len(q) - 1 : DocsOf(Tail(q))[i] = Tail(DocsOf(q))[i]
    BY <1>1, <1>3, <1>6 DEF DocsOf
  <1> QED
    BY <1>2, <1>4, <1>5, <1>6, <1>7, SeqEqual

\* The mapping of the refinement, in terms of DocsOf.
LEMMA WantedIs ==
    Durable!docVars = <<disk["main"], DocsOf(Unwritten), breaks>>
  BY DEF Durable!docVars, DocsOf, Unwritten

\* A step of the store that queues a document is an Ask.
LEMMA WriteAsks ==
    ASSUME IInv, NEW u \in Calls, NEW doc \in Doc, NEW phase, NEW fail,
           Write(u, doc, phase, fail), UNCHANGED <<disk, step, breaks>>
    PROVE  [Durable!DocNext]_(Durable!docVars)
  <1> DEFINE j == [by |-> u, doc |-> doc]
  <1>0. j \in Job /\ j.doc = doc /\ queue \in Seq(Job) /\ (step = "renamed" => queue # <<>>)
    BY DEF Job, IInv, TypeOK, StepFiles
  <1>1. CASE poisoned
    BY <1>1, WantedIs DEF Write, Unwritten, DocsOf, Durable!docVars
  <1>2. CASE ~poisoned
    <2>1. queue' = Append(queue, j)
      BY <1>2 DEF Write
    <2>2. Unwritten \in Seq(Job) /\ Unwritten' = Append(Unwritten, j)
      BY <1>0, <2>1, HeadTailAppend, TailJob DEF Unwritten
    <2>3. DocsOf(Unwritten)' = Append(DocsOf(Unwritten), doc)
      BY <1>0, <2>2, DocsOfAppend DEF DocsOf
    <2>4. Durable!Ask(doc)
      BY <2>3 DEF Durable!Ask, DocsOf, Unwritten
    <2> QED
      BY <2>4 DEF Durable!DocNext
  <1> QED
    BY <1>1, <1>2

\* The rename is the Commit.
LEMMA RenameCommits ==
    ASSUME IInv, Rename
    PROVE  Durable!Commit
  <1>1. queue \in Seq(Job) /\ queue # <<>> /\ step # "renamed" /\ step' = "renamed"
        /\ queue' = queue
    BY DEF Rename, Running, RestUnchanged, IInv, TypeOK
  <1>2. Unwritten = queue /\ Unwritten' = Tail(queue)
    BY <1>1 DEF Unwritten
  <1>3. /\ DocsOf(Unwritten) # <<>>
        /\ Head(DocsOf(Unwritten)) = Head(queue).doc
        /\ DocsOf(Unwritten)' = Tail(DocsOf(Unwritten))
    BY <1>1, <1>2, DocsOfTail DEF DocsOf
  <1>4. disk'["main"] = Head(queue).doc /\ UNCHANGED breaks
    BY RenameKeeps DEF Rename, RestUnchanged, budgets
  <1> QED
    BY <1>3, <1>4 DEF Durable!Commit, DocsOf, Unwritten

LEMMA DurableStep ==
    ASSUME IInv, [Next]_vars
    PROVE  [Durable!DocNext]_(Durable!docVars)
  <1>0. queue \in Seq(Job) /\ disk \in [Files -> Doc \cup {Absent, Torn}]
    BY DEF IInv, TypeOK
  <1>1. CASE disk'["main"] = disk["main"] /\ UNCHANGED <<step, queue, breaks>>
    BY <1>1 DEF Durable!docVars
  <1>2. ASSUME NEW u \in Calls, CallRead(u) \/ OpenFile(u) \/ ParseMain(u)
        PROVE  [Durable!DocNext]_(Durable!docVars)
    BY <1>1, <1>2 DEF CallRead, OpenFile, ParseMain, budgets
  <1>3. ASSUME NEW u \in Calls, ParseBak(u) PROVE [Durable!DocNext]_(Durable!docVars)
    <2>1. PICK doc \in Doc, phase \in Restoring : Write(u, doc, phase, "failed")
      BY <1>3 DEF ParseBak, Doc, Default, Restoring
    <2> QED
      BY <1>3, <2>1, WriteAsks DEF ParseBak, budgets
  <1>4. ASSUME NEW u \in Calls, CallWrite(u) PROVE [Durable!DocNext]_(Durable!docVars)
    <2>1. local[u] \cup {u} \in Doc
      BY <1>4 DEF CallWrite, IInv, HeldWhole, Doc
    <2> QED
      BY <1>4, <2>1, WriteAsks DEF CallWrite, budgets
  <1>5. CASE TruncateTmp \/ FillTmp \/ TruncateBak \/ FillBak
    <2>1. disk'["main"] = disk["main"] /\ UNCHANGED <<queue, breaks>>
          /\ step # "renamed" /\ step' # "renamed"
      BY <1>0, <1>5 DEF TruncateTmp, FillTmp, TruncateBak, FillBak, Put, Running,
                        RestUnchanged, budgets, Files
    <2> QED
      BY <2>1 DEF Durable!docVars
  <1>6. CASE Rename
    BY <1>6, RenameCommits DEF Durable!DocNext
  <1>7. CASE Publish
    <2>1. Unwritten = Tail(queue) /\ Unwritten' = Tail(queue)
          /\ UNCHANGED <<disk, breaks>>
      BY <1>7 DEF Publish, Running, Unwritten, budgets
    <2>2. UNCHANGED Durable!docVars
      BY <2>1 DEF Durable!docVars, Unwritten
    <2> QED
      BY <2>2
  <1>8. CASE WriteFails \/ Restart
    <2>1. UNCHANGED <<disk, breaks>> /\ Unwritten' = <<>>
      BY <1>8 DEF WriteFails, Restart, Unwritten
    <2>2. DocsOf(Unwritten)' = <<>>
      BY <2>1, EmptySeq, DocsOfType DEF DocsOf
    <2>3. Durable!GiveUp
      BY <2>1, <2>2 DEF Durable!GiveUp, DocsOf, Unwritten
    <2> QED
      BY <2>3 DEF Durable!DocNext
  <1>9. CASE BreakMain
    <2>1. disk'["main"] = Torn /\ queue = <<>> /\ UNCHANGED <<queue, step>>
          /\ breaks' = breaks + 1 /\ step # "renamed"
      BY <1>9, BreakMainKeeps DEF BreakMain, IInv, StepFiles
    <2>2. DocsOf(Unwritten) = <<>>
      BY <2>1, EmptySeq, DocsOfType DEF DocsOf, Unwritten
    <2>3. Durable!Damage
      BY <2>1, <2>2 DEF Durable!Damage, DocsOf, Unwritten
    <2> QED
      BY <2>3 DEF Durable!DocNext
  <1> QED
    BY <1>1, <1>2, <1>3, <1>4, <1>5, <1>6, <1>7, <1>8, <1>9
       DEF Next, Call, RunJob, vars, budgets

LEMMA DurableInit == Init => Durable!DocInit
  <1> SUFFICES ASSUME Init PROVE Durable!DocInit
    OBVIOUS
  <1>1. DocsOf(<<>>) = <<>>
    BY EmptySeq, DocsOfType DEF DocsOf
  <1> QED
    BY <1>1 DEF Init, Durable!DocInit, DocsOf, Files

\* LowDbStore implements DurableDocument: its file moves only between whole
\* documents, to those its callers asked for, in the order they asked; it is
\* spoilt by nothing the store does, at no instant of a write.
THEOREM StoreIsDurable == Spec => DurableSpec
  <1>1. IInv /\ [Next]_vars => [Durable!DocNext]_(Durable!docVars)
    BY DurableStep
  <1> QED
    BY <1>1, DurableInit, Invariance, PTL DEF Spec, DurableSpec, Durable!DocSpec

(***************************************************************************)
(* What callers who do not overlap may rely on besides: while no two       *)
(* update() calls and no two loads of the file have overlapped (alone),    *)
(* acknowledged edits survive, and the cache is of the file.               *)
(***************************************************************************)

\* The cache is set before any write is asked for, and stays until a restart.
Warm ==
    cache = NoDoc => /\ queue = <<>> /\ ~poisoned
                     /\ \A u \in Calls : pc[u] \notin Waiting \cup {"updating"}

\* A load of the file is under way only while there is no cache.
LoadsCold == \A u \in Calls : pc[u] \in Reading => cache = NoDoc

\* What a load has seen is still so: nothing is written while it reads.
Seen ==
    \A u \in Calls :
        /\ pc[u] = "parseMain" => local[u] = disk["main"]
        /\ pc[u] \in {"openBak", "parseBak"} => disk["main"] \notin Doc
        /\ pc[u] = "parseBak" => local[u] = disk["bak"]

\* Nothing is queued behind the write of an update().
WriterLast ==
    /\ \A u \in Calls : pc[u] = "writing" => u \in Updates
    /\ \A i \in 1 .. Len(queue) : pc[queue[i].by] = "writing" => i = Len(queue)

\* The cache is of the file, unless the file is about to become it.
CacheFollows ==
    ~poisoned /\ cache # NoDoc /\ step # "renamed" /\ (\A u \in Calls : pc[u] \notin Restoring)
        => cache = disk["main"]

\* The document an acknowledged edit is never missing from.
Kept ==
    /\ Acked # {} => disk["main"] \in Doc /\ Acked \subseteq disk["main"]
    /\ disk["bak"] \in Doc => Acked \subseteq disk["bak"]
    /\ \A i \in 1 .. Len(queue) : Acked \subseteq queue[i].doc
    /\ step \in {"bakFull", "renamed"} => disk["bak"] = Head(queue).doc
    /\ ~poisoned => /\ cache # NoDoc => Acked \subseteq cache
                    /\ \A u \in Calls : pc[u] = "updating" => Acked \subseteq local[u]

Disciplined ==
    /\ Serial /\ Warm /\ LoadsCold /\ Seen /\ WriterLast /\ CacheFollows
    /\ (breaks = 0 => Kept)

\* All but the callers' discipline, after a step.
Keeps == Warm' /\ LoadsCold' /\ Seen' /\ WriterLast' /\ CacheFollows' /\ (breaks' = 0 => Kept')

LEMMA Queued ==
    ASSUME IInv
    PROVE  /\ \A i \in 1 .. Len(queue) : /\ queue[i].by \in Calls /\ queue[i].doc \in Doc
                                         /\ pc[queue[i].by] \in Waiting
           /\ queue # <<>> => 1 \in 1 .. Len(queue) /\ Head(queue) = queue[1]
           /\ Len(queue) \in Nat
  <1>1. \A i \in 1 .. Len(queue) : queue[i] \in Job
    BY ElementOfSeq DEF IInv, TypeOK
  <1>2. queue # <<>> => 1 \in 1 .. Len(queue) /\ Head(queue) = queue[1]
    BY TailJob DEF IInv, TypeOK
  <1> QED
    BY <1>1, <1>2 DEF IInv, TypeOK, JobsAwaited, Job

LEMMA Distinct == NoDoc \notin Doc /\ Torn \notin Doc /\ Absent \notin Doc /\ Default \in Doc
  BY StoreConstants DEF Doc, Default

\* While a call loads the file there is no other, and nothing is written.
LEMMA LoadsAlone ==
    ASSUME IInv, Disciplined, NEW u \in Calls, pc[u] \in Reading
    PROVE  /\ cache = NoDoc /\ queue = <<>> /\ ~poisoned
           /\ \A v \in Calls : pc[v] \notin Waiting \cup {"updating"}
           /\ \A v \in Calls : pc[v] \in Reading => v = u
  BY DEF Disciplined, Serial, Warm, LoadsCold, Loading

\* With a cache nobody loads the file.
LEMMA WarmReads ==
    ASSUME Disciplined, cache # NoDoc PROVE \A v \in Calls : pc[v] \notin Reading
  BY DEF Disciplined, LoadsCold

\* A call that neither queues a write nor starts one leaves the order of the queue.
LEMMA WritersStay ==
    ASSUME WriterLast, UNCHANGED queue, IInv,
           \A v \in Calls : pc'[v] = "writing" => pc[v] = "writing"
    PROVE  WriterLast'
  BY Queued DEF WriterLast

LEMMA CallReadDisciplined ==
    ASSUME IInv, Disciplined, NEW u \in Calls, CallRead(u), Acked' \subseteq Acked
    PROVE  Keeps
  <1>0. /\ pc \in [Calls -> Phases] /\ local \in [Calls -> Doc \cup {Absent, Torn}]
        /\ pc[u] = "idle" /\ UNCHANGED <<disk, cache, queue, step, poisoned, breaks>>
        /\ Warm /\ LoadsCold /\ Seen /\ WriterLast /\ CacheFollows /\ (breaks = 0 => Kept)
    BY DEF IInv, TypeOK, CallRead, Disciplined, budgets
  <1>1. CASE cache # NoDoc
    <2>1. /\ \A v \in Calls : pc'[v] = IF v = u THEN AfterRead(u) ELSE pc[v]
          /\ \A v \in Calls : local'[v] = IF v = u THEN cache ELSE local[v]
          /\ AfterRead(u) \in {"updating", "done"}
      BY <1>0, <1>1 DEF CallRead, Goto, Hold, AfterRead
    <2>2. \A v \in Calls : pc'[v] \notin Reading
      BY <1>1, <2>1, WarmReads DEF Reading
    <2>3. Warm' /\ LoadsCold' /\ Seen'
      BY <1>0, <1>1, <2>2 DEF Warm, LoadsCold, Seen, Reading
    <2>4. WriterLast'
      BY <1>0, <2>1, WritersStay
    <2>5. CacheFollows'
      BY <1>0, <2>1 DEF CacheFollows, Restoring
    <2>6. (breaks' = 0 => Kept')
      BY <1>0, <1>1, <2>1 DEF Kept
    <2> QED
      BY <2>3, <2>4, <2>5, <2>6 DEF Keeps
  <1>2. CASE cache = NoDoc
    <2>1. /\ \A v \in Calls : pc'[v] = IF v = u THEN "openMain" ELSE pc[v]
          /\ local' = local
      BY <1>0, <1>2 DEF CallRead, Goto
    <2>2. Warm' /\ LoadsCold' /\ Seen'
      BY <1>0, <1>2, <2>1 DEF Warm, LoadsCold, Seen, Waiting, Restoring
    <2>3. WriterLast'
      BY <1>0, <2>1, WritersStay
    <2>4. CacheFollows'
      BY <1>0, <1>2 DEF CacheFollows
    <2>5. (breaks' = 0 => Kept')
      BY <1>0, <2>1 DEF Kept
    <2> QED
      BY <2>2, <2>3, <2>4, <2>5 DEF Keeps
  <1> QED
    BY <1>1, <1>2

LEMMA OpenFileDisciplined ==
    ASSUME IInv, Disciplined, NEW u \in Calls, OpenFile(u), Acked' \subseteq Acked
    PROVE  Keeps
  <1>0. /\ pc \in [Calls -> Phases] /\ local \in [Calls -> Doc \cup {Absent, Torn}]
        /\ pc[u] \in Reading /\ UNCHANGED <<disk, cache, queue, step, poisoned, breaks>>
        /\ Warm /\ LoadsCold /\ Seen /\ WriterLast /\ CacheFollows /\ (breaks = 0 => Kept)
    BY DEF IInv, TypeOK, OpenFile, Disciplined, Reading, budgets
  <1>1. PICK phase \in {"parseMain", "parseBak"} :
          /\ \A v \in Calls : pc'[v] = IF v = u THEN phase ELSE pc[v]
          /\ phase = "parseMain" => local' = [local EXCEPT ![u] = disk["main"]]
          /\ phase = "parseBak" => local' = [local EXCEPT ![u] = disk["bak"]] /\ pc[u] = "openBak"
    BY <1>0 DEF OpenFile, Goto, Hold
  <1>2. cache = NoDoc /\ \A v \in Calls : pc[v] \in Reading => v = u
    BY <1>0, LoadsAlone
  <1>3. \A v \in Calls \ {u} : pc'[v] = pc[v] /\ local'[v] = local[v] /\ pc[v] \notin Reading
    BY <1>0, <1>1, <1>2
  <1>4. Warm' /\ LoadsCold'
    BY <1>0, <1>1, <1>2 DEF Warm, LoadsCold, Waiting, Restoring
  <1>5. Seen'
    BY <1>0, <1>1, <1>3 DEF Seen, Reading
  <1>6. WriterLast'
    BY <1>0, <1>1, WritersStay
  <1>7. CacheFollows'
    BY <1>0, <1>2 DEF CacheFollows
  <1>8. (breaks' = 0 => Kept')
    BY <1>0, <1>1, <1>3 DEF Kept
  <1> QED
    BY <1>4, <1>5, <1>6, <1>7, <1>8 DEF Keeps

LEMMA ParseMainDisciplined ==
    ASSUME IInv, Disciplined, NEW u \in Calls, ParseMain(u), Acked' \subseteq Acked
    PROVE  Keeps
  <1>0. /\ pc \in [Calls -> Phases] /\ pc[u] = "parseMain" /\ pc[u] \in Reading
        /\ UNCHANGED <<disk, queue, step, poisoned, local, breaks>>
        /\ Warm /\ LoadsCold /\ Seen /\ WriterLast /\ CacheFollows /\ (breaks = 0 => Kept)
    BY DEF IInv, TypeOK, ParseMain, Disciplined, Reading, budgets
  <1>1. /\ cache = NoDoc /\ local[u] = disk["main"]
        /\ \A v \in Calls : pc[v] \notin Waiting \cup {"updating"}
        /\ \A v \in Calls : pc[v] \in Reading => v = u
    BY <1>0, LoadsAlone DEF Seen
  <1>2. CASE local[u] \in Doc
    <2>1. /\ \A v \in Calls : pc'[v] = IF v = u THEN AfterRead(u) ELSE pc[v]
          /\ AfterRead(u) \in {"updating", "done"} /\ cache' = disk["main"] /\ cache' # NoDoc
      BY <1>0, <1>1, <1>2, Distinct DEF ParseMain, Goto, AfterRead
    <2>2. \A v \in Calls : pc'[v] \notin Reading
      BY <1>1, <2>1 DEF Reading
    <2>3. Warm' /\ LoadsCold' /\ Seen'
      BY <2>1, <2>2 DEF Warm, LoadsCold, Seen, Reading
    <2>4. WriterLast'
      BY <1>0, <2>1, WritersStay
    <2>5. CacheFollows'
      BY <1>0, <2>1 DEF CacheFollows
    <2>6. (breaks' = 0 => Kept')
      BY <1>0, <1>1, <2>1 DEF Kept
    <2> QED
      BY <2>3, <2>4, <2>5, <2>6 DEF Keeps
  <1>3. CASE local[u] \notin Doc
    <2>1. /\ \A v \in Calls : pc'[v] = IF v = u THEN "openBak" ELSE pc[v]
          /\ cache' = cache
      BY <1>0, <1>3 DEF ParseMain, Goto
    <2>2. Warm' /\ LoadsCold'
      BY <1>0, <1>1, <2>1 DEF Warm, LoadsCold, Waiting, Restoring
    <2>3. Seen'
      BY <1>0, <1>1, <1>3, <2>1 DEF Seen, Reading
    <2>4. WriterLast'
      BY <1>0, <2>1, WritersStay
    <2>5. CacheFollows'
      BY <1>1, <2>1 DEF CacheFollows
    <2>6. (breaks' = 0 => Kept')
      BY <1>0, <2>1 DEF Kept
    <2> QED
      BY <2>2, <2>3, <2>4, <2>5, <2>6 DEF Keeps
  <1> QED
    BY <1>2, <1>3

\* A backup is read only when nothing was acknowledged, or the file was damaged.
LEMMA ParseBakDisciplined ==
    ASSUME IInv, Disciplined, NEW u \in Calls, ParseBak(u), Acked' \subseteq Acked
    PROVE  Keeps
  <1>0. /\ pc \in [Calls -> Phases] /\ pc[u] = "parseBak" /\ pc[u] \in Reading
        /\ UNCHANGED <<disk, step, poisoned, local, breaks>>
        /\ Warm /\ LoadsCold /\ Seen /\ WriterLast /\ CacheFollows /\ (breaks = 0 => Kept)
    BY DEF IInv, TypeOK, ParseBak, Disciplined, Reading, budgets
  <1>1. /\ cache = NoDoc /\ disk["main"] \notin Doc /\ queue = <<>> /\ ~poisoned
        /\ \A v \in Calls : pc[v] \notin Waiting \cup {"updating"}
        /\ \A v \in Calls : pc[v] \in Reading => v = u
    BY <1>0, LoadsAlone DEF Seen
  <1>2. PICK doc \in Doc, phase \in Restoring :
          /\ cache' = doc /\ queue' = Append(queue, [by |-> u, doc |-> doc])
          /\ pc' = [pc EXCEPT ![u] = phase]
    BY <1>1, Distinct DEF ParseBak, Write, Goto, Restoring
  <1>3. /\ cache' # NoDoc
        /\ \A v \in Calls : pc'[v] = IF v = u THEN phase ELSE pc[v]
        /\ \A v \in Calls : pc'[v] \notin Reading \cup {"writing", "updating"}
    BY <1>0, <1>1, <1>2, Distinct DEF Reading, Restoring, Waiting
  <1>4. Warm' /\ LoadsCold' /\ Seen'
    BY <1>3 DEF Warm, LoadsCold, Seen, Reading
  <1>5. Len(queue') = 1 /\ \A i \in 1 .. Len(queue') : queue'[i] = [by |-> u, doc |-> doc]
    BY <1>1, <1>2
  <1>6. WriterLast'
    BY <1>3, <1>5 DEF WriterLast
  <1>7. CacheFollows'
    BY <1>0, <1>2, <1>3 DEF CacheFollows
  <1>8. ASSUME breaks = 0 PROVE Kept'
    <2>1. Acked' = {}
      BY <1>0, <1>1, <1>8 DEF Kept
    <2>2. step = "idle"
      BY <1>1 DEF IInv, StepFiles
    <2> QED
      BY <1>0, <2>1, <2>2 DEF Kept
  <1> QED
    BY <1>0, <1>4, <1>6, <1>7, <1>8 DEF Keeps

\* The update()'s write goes behind at most the restoring one it read from.
LEMMA CallWriteDisciplined ==
    ASSUME IInv, Disciplined, NEW u \in Calls, CallWrite(u), Acked' \subseteq Acked
    PROVE  Keeps
  <1>0. /\ pc \in [Calls -> Phases] /\ pc[u] = "updating" /\ u \in Updates
        /\ local \in [Calls -> Doc \cup {Absent, Torn}] /\ queue \in Seq(Job)
        /\ UNCHANGED <<disk, cache, step, poisoned, breaks>>
        /\ Warm /\ LoadsCold /\ Seen /\ WriterLast /\ CacheFollows /\ (breaks = 0 => Kept)
        /\ local[u] \in Doc
    BY DEF IInv, TypeOK, HeldWhole, CallWrite, Disciplined, budgets
  <1>1. cache # NoDoc
    BY <1>0 DEF Warm
  <1>2. \A v \in Calls : pc[v] \notin Reading
    BY <1>1, WarmReads
  <1>3. PICK phase \in {"writing", "failed"} :
          /\ \A v \in Calls : pc'[v] = IF v = u THEN phase ELSE pc[v]
          /\ \A v \in Calls : local'[v] = IF v = u THEN local[u] \cup {u} ELSE local[v]
    BY <1>0 DEF CallWrite, Write, Goto, Hold
  <1>4. \A v \in Calls : pc'[v] \notin Reading
    BY <1>2, <1>3 DEF Reading
  <1>5. Warm' /\ LoadsCold' /\ Seen'
    BY <1>0, <1>1, <1>4 DEF Warm, LoadsCold, Seen, Reading
  <1>6. CacheFollows'
    BY <1>0, <1>3 DEF CacheFollows, Restoring
  <1>7. CASE poisoned
    <2>1. queue' = queue /\ \A v \in Calls : pc'[v] = "writing" => pc[v] = "writing"
      BY <1>0, <1>7 DEF CallWrite, Write, Goto
    <2>2. WriterLast'
      BY <1>0, <2>1, WritersStay
    <2>3. (breaks' = 0 => Kept')
      BY <1>0, <1>3, <1>7, <2>1 DEF Kept
    <2> QED
      BY <1>5, <1>6, <2>2, <2>3 DEF Keeps
  <1>8. CASE ~poisoned
    <2> DEFINE j == [by |-> u, doc |-> local[u] \cup {u}]
    <2>0. j \in Job /\ j.by = u /\ j.doc = local[u] \cup {u} /\ u \in Calls
      BY <1>0 DEF Job, Doc
    <2>1. queue' = Append(queue, j)
      BY <1>8 DEF CallWrite, Write
    <2> HIDE DEF j
    <2>2. /\ Len(queue') = Len(queue) + 1 /\ Len(queue) \in Nat
          /\ \A i \in 1 .. Len(queue) : queue'[i] = queue[i]
          /\ queue'[Len(queue) + 1] = j
          /\ queue # <<>> => Head(queue') = Head(queue)
      BY <1>0, <2>0, <2>1, AppendProperties, HeadTailAppend
    <2>3. \A v \in Calls : pc[v] # "writing"
      BY <1>0 DEF Disciplined, Serial, InFlight, WriterLast, Ended
    <2>4. \A i \in 1 .. Len(queue) : queue[i].by # u /\ pc[queue[i].by] # "writing"
      BY <1>0, <2>3, Queued DEF Waiting, Restoring
    <2>5. WriterLast'
      <3>1. \A v \in Calls : pc'[v] = "writing" => v \in Updates
        BY <1>0, <1>3 DEF WriterLast
      <3>2. ASSUME NEW i \in 1 .. Len(queue'), pc'[queue'[i].by] = "writing"
            PROVE  i = Len(queue')
        <4>1. i \in 1 .. Len(queue) \/ i = Len(queue')
          BY <2>2
        <4>2. i \in 1 .. Len(queue) => pc'[queue'[i].by] # "writing"
          BY <1>3, <2>2, <2>4, Queued
        <4> QED
          BY <3>2, <4>1, <4>2
      <3> QED
        BY <3>1, <3>2 DEF WriterLast
    <2>6. ASSUME breaks = 0 PROVE Kept'
      <3>1. Acked \subseteq local[u] \cup {u}
        BY <1>0, <1>8, <2>6 DEF Kept
      <3>2. \A i \in 1 .. Len(queue') : Acked' \subseteq queue'[i].doc
        <4> SUFFICES ASSUME NEW i \in 1 .. Len(queue') PROVE Acked \subseteq queue'[i].doc
          OBVIOUS
        <4>1. CASE i \in 1 .. Len(queue)
          BY <1>0, <2>2, <2>6, <4>1 DEF Kept
        <4>2. CASE i = Len(queue) + 1
          BY <2>0, <2>2, <3>1, <4>2
        <4> QED
          BY <2>2, <4>1, <4>2
      <3>3. step' \in {"bakFull", "renamed"} => disk'["bak"] = Head(queue').doc
        BY <1>0, <2>2, <2>6 DEF Kept, IInv, StepFiles
      <3>4. \A v \in Calls : pc'[v] = "updating" => Acked' \subseteq local'[v]
        BY <1>0, <1>3, <1>8, <2>6 DEF Kept
      <3> QED
        BY <1>0, <2>6, <3>2, <3>3, <3>4 DEF Kept
    <2> QED
      BY <1>0, <1>5, <1>6, <2>5, <2>6 DEF Keeps
  <1> QED
    BY <1>7, <1>8

\* What the running job does to the files.
LEMMA JobDisciplined ==
    ASSUME IInv, Disciplined, TruncateTmp \/ FillTmp \/ TruncateBak \/ FillBak \/ Rename,
           Acked' \subseteq Acked
    PROVE  Keeps
  <1>0. /\ queue # <<>> /\ UNCHANGED <<cache, queue, poisoned, pc, local, breaks>>
        /\ Warm /\ LoadsCold /\ Seen /\ WriterLast /\ CacheFollows /\ (breaks = 0 => Kept)
        /\ disk \in [Files -> Doc \cup {Absent, Torn}]
    BY DEF TruncateTmp, FillTmp, TruncateBak, FillBak, Rename, Running, RestUnchanged,
           Disciplined, budgets, IInv, TypeOK
  <1>1. cache # NoDoc
    BY <1>0 DEF Warm
  <1>2. \A v \in Calls : pc'[v] \notin Reading
    BY <1>0, <1>1, WarmReads
  <1>3. Warm' /\ LoadsCold' /\ Seen'
    BY <1>0, <1>1, <1>2 DEF Warm, LoadsCold, Seen, Reading
  <1>4. WriterLast'
    BY <1>0, WritersStay
  <1>5. /\ step' = "renamed" => disk'["main"] = Head(queue).doc
        /\ step' # "renamed" => disk'["main"] = disk["main"] /\ step # "renamed"
        /\ disk'["bak"] = disk["bak"] \/ disk'["bak"] = Torn \/ disk'["bak"] = Head(queue).doc
        /\ step' = "bakFull" => disk'["bak"] = Head(queue).doc
        /\ step' = "renamed" => disk'["bak"] = disk["bak"] /\ step = "bakFull"
        /\ step' \in {"tmp", "tmpFull", "bak", "bakFull", "renamed"}
    <2>1. CASE Rename
      <3>1. disk'["main"] = Head(queue).doc
        BY <2>1, RenameKeeps
      <3> QED
        BY <1>0, <2>1, <3>1 DEF Rename, Running, Files
    <2>2. CASE ~Rename
      BY <1>0, <2>2 DEF TruncateTmp, FillTmp, TruncateBak, FillBak, Put, Running, Files
    <2> QED
      BY <2>1, <2>2
  <1>6. CacheFollows'
    BY <1>0, <1>5 DEF CacheFollows
  <1>7. ASSUME breaks = 0 PROVE Kept'
    <2>1. Acked \subseteq Head(queue).doc /\ Head(queue).doc \in Doc
      BY <1>0, <1>7, Queued DEF Kept
    <2>2. Acked' # {} => disk'["main"] \in Doc /\ Acked' \subseteq disk'["main"]
      BY <1>0, <1>5, <1>7, <2>1 DEF Kept
    <2>3. disk'["bak"] \in Doc => Acked' \subseteq disk'["bak"]
      BY <1>0, <1>5, <1>7, <2>1, Distinct DEF Kept
    <2>4. step' \in {"bakFull", "renamed"} => disk'["bak"] = Head(queue').doc
      BY <1>0, <1>5, <1>7 DEF Kept
    <2> QED
      BY <1>0, <1>7, <2>2, <2>3, <2>4 DEF Kept
  <1> QED
    BY <1>0, <1>3, <1>4, <1>6, <1>7 DEF Keeps

\* An acknowledged edit is in the file, the backup and the cache; no write that
\* does not know of it is left.
LEMMA PublishDisciplined ==
    ASSUME IInv, Disciplined, Publish
    PROVE  Keeps
  <1> DEFINE u == Head(queue).by
             doc == Head(queue).doc
  <1>0. /\ queue # <<>> /\ queue \in Seq(Job) /\ step = "renamed"
        /\ u = queue[1].by /\ doc = queue[1].doc /\ u \in Calls /\ doc \in Doc
        /\ queue' = Tail(queue) /\ step' = "idle" /\ cache' = doc
        /\ UNCHANGED <<disk, poisoned, breaks>>
        /\ Warm /\ LoadsCold /\ Seen /\ WriterLast /\ CacheFollows /\ (breaks = 0 => Kept)
        /\ pc \in [Calls -> Phases] /\ local \in [Calls -> Doc \cup {Absent, Torn}]
        /\ disk["main"] = doc
    BY Queued DEF Publish, Running, IInv, TypeOK, StepFiles, Disciplined, budgets
  <1>1. PICK phase \in {"updating", "done"} :
          /\ \A v \in Calls : pc'[v] = IF v = u THEN phase ELSE pc[v]
          /\ \A v \in Calls : v # u => local'[v] = local[v]
          /\ phase = "updating" => local'[u] = doc
          /\ phase = "done" /\ u \in Updates => pc[u] = "writing"
    BY <1>0 DEF Publish, Goto, Hold, AfterRead
  <1> HIDE DEF u, doc
  <1>2. cache # NoDoc /\ cache' # NoDoc
    BY <1>0, Distinct DEF Warm
  <1>3. \A v \in Calls : pc'[v] \notin Reading
    BY <1>1, <1>2, WarmReads DEF Reading
  <1>4. Warm' /\ LoadsCold' /\ Seen'
    BY <1>2, <1>3 DEF Warm, LoadsCold, Seen, Reading
  <1>5. /\ Len(queue) \in Nat \ {0} /\ Len(queue') = Len(queue) - 1
        /\ \A i \in 1 .. Len(queue') : /\ i + 1 \in 1 .. Len(queue) /\ queue'[i] = queue[i + 1]
                                       /\ queue[i + 1].by \in Calls
    <2>1. /\ Len(queue) \in Nat \ {0} /\ Len(queue') = Len(queue) - 1
          /\ \A i \in 1 .. Len(queue) - 1 : queue'[i] = queue[i + 1]
      BY <1>0, TailJob
    <2> QED
      BY <2>1, Queued
  <1>6. WriterLast'
    <2>1. \A v \in Calls : pc'[v] = "writing" => pc[v] = "writing"
      BY <1>1
    <2>2. ASSUME NEW i \in 1 .. Len(queue'), pc'[queue'[i].by] = "writing"
          PROVE  i = Len(queue')
      <3>1. /\ i + 1 \in 1 .. Len(queue) /\ queue'[i] = queue[i + 1]
            /\ queue[i + 1].by \in Calls
        BY <1>5
      <3>2. pc[queue[i + 1].by] = "writing"
        BY <2>1, <2>2, <3>1
      <3>3. i + 1 = Len(queue)
        BY <1>0, <3>1, <3>2 DEF WriterLast
      <3> QED
        BY <1>5, <3>1, <3>3
    <2> QED
      BY <1>0, <2>1, <2>2 DEF WriterLast
  <1>7. CacheFollows'
    BY <1>0 DEF CacheFollows
  <1>8. ASSUME breaks = 0 PROVE Kept'
    <2>1. Acked \subseteq doc /\ disk["bak"] = doc
      BY <1>0, <1>5, <1>8 DEF Kept, doc
    <2>2. pc[u] = "writing" => u \in doc
      BY <1>0, <1>5 DEF IInv, JobsAwaited
    <2>3. Acked' \subseteq Acked \cup {u} /\ (u \in Acked' => pc[u] = "writing")
      BY <1>0, <1>1 DEF Acked, Calls
    <2>4. Acked' \subseteq doc
      BY <2>1, <2>2, <2>3
    <2>5. CASE pc[u] # "writing"
      <3>1. Acked' \subseteq Acked
        BY <2>3, <2>5
      <3>2. \A i \in 1 .. Len(queue') : Acked' \subseteq queue'[i].doc
        BY <1>0, <1>5, <1>8, <3>1 DEF Kept
      <3>3. poisoned \/ \A v \in Calls : pc'[v] = "updating" => Acked' \subseteq local'[v]
        BY <1>0, <1>1, <1>8, <2>4, <3>1 DEF Kept
      <3> QED
        BY <1>0, <2>1, <2>4, <3>2, <3>3 DEF Kept
    <2>6. CASE pc[u] = "writing"
      <3>1. Len(queue') = 0
        <4>1. 1 \in 1 .. Len(queue) /\ pc[queue[1].by] = "writing"
          BY <1>0, <1>5, <2>6
        <4>2. 1 = Len(queue)
          BY <1>0, <4>1 DEF WriterLast
        <4>3. Len(queue') = Len(queue) - 1
          BY <1>5
        <4> QED
          BY <4>2, <4>3
      <3>2. \A v \in Calls : pc'[v] # "updating"
        <4>1. pc'[u] = "done"
          BY <1>0, <1>1, <2>6 DEF Publish, Goto, u, Restoring
        <4>2. \A v \in Calls : pc[v] # "updating"
          BY <1>0, <2>6 DEF Disciplined, Serial, WriterLast, InFlight, IInv, HeldWhole, Ended
        <4> QED
          BY <1>1, <4>1, <4>2
      <3> QED
        BY <1>0, <2>1, <2>4, <3>1, <3>2 DEF Kept
    <2> QED
      BY <2>5, <2>6
  <1> QED
    BY <1>0, <1>4, <1>6, <1>7, <1>8 DEF Keeps

LEMMA DroppedDisciplined ==
    ASSUME IInv, Disciplined, WriteFails \/ Restart, Acked' \subseteq Acked
    PROVE  Keeps
  <1>0. /\ queue' = <<>> /\ step' = "idle" /\ UNCHANGED <<disk, local, breaks>>
        /\ \A v \in Calls : pc'[v] = pc[v] \/ pc'[v] = "failed"
        /\ Warm /\ LoadsCold /\ Seen /\ WriterLast /\ CacheFollows /\ (breaks = 0 => Kept)
        /\ pc \in [Calls -> Phases]
    BY DEF WriteFails, Restart, Disciplined, IInv, TypeOK
  <1>1. WriterLast'
    BY <1>0, EmptySeq DEF WriterLast
  <1>2. CASE WriteFails
    <2>1. cache # NoDoc /\ cache' # NoDoc /\ poisoned'
      BY <1>0, <1>2, Distinct DEF WriteFails, Warm
    <2>2. \A v \in Calls : pc'[v] \notin Reading
      BY <1>0, <2>1, WarmReads DEF Reading
    <2>3. Warm' /\ LoadsCold' /\ Seen' /\ CacheFollows'
      BY <2>1, <2>2 DEF Warm, LoadsCold, Seen, CacheFollows, Reading
    <2>4. (breaks' = 0 => Kept')
      BY <1>0, <2>1, EmptySeq DEF Kept
    <2> QED
      BY <1>1, <2>3, <2>4 DEF Keeps
  <1>3. CASE Restart
    <2>1. /\ cache' = NoDoc /\ ~poisoned'
          /\ \A v \in Calls : pc'[v] = IF v \in InFlight THEN "failed" ELSE pc[v]
      BY <1>3 DEF Restart
    <2>2. \A v \in Calls : pc'[v] \in {"idle"} \cup Ended
      BY <1>0, <2>1 DEF InFlight, Ended
    <2>3. Warm' /\ LoadsCold' /\ Seen' /\ CacheFollows'
      BY <1>0, <2>1, <2>2 DEF Warm, LoadsCold, Seen, CacheFollows, Waiting, Restoring, Ended
    <2>4. (breaks' = 0 => Kept')
      BY <1>0, <2>1, <2>2, EmptySeq DEF Kept, Ended
    <2> QED
      BY <1>1, <2>3, <2>4 DEF Keeps
  <1> QED
    BY <1>2, <1>3

LEMMA BreakMainDisciplined ==
    ASSUME IInv, Disciplined, BreakMain
    PROVE  Keeps
  <1>0. /\ UNCHANGED <<cache, queue, step, poisoned, pc, local>> /\ cache = NoDoc /\ breaks' # 0
        /\ Warm /\ LoadsCold /\ WriterLast
    BY DEF BreakMain, Disciplined, IInv, TypeOK
  <1>1. \A v \in Calls : pc[v] \in {"idle"} \cup Ended
    BY DEF BreakMain, InFlight
  <1>2. Warm' /\ LoadsCold' /\ Seen' /\ CacheFollows'
    BY <1>0, <1>1 DEF Warm, LoadsCold, Seen, CacheFollows, Ended
  <1>3. WriterLast'
    BY <1>0, WritersStay
  <1> QED
    BY <1>0, <1>2, <1>3 DEF Keeps

AInv == IInv /\ (alone => Disciplined)

LEMMA AInvInit == MCInit => AInv
  <1> SUFFICES ASSUME Init PROVE IInv /\ Disciplined
    BY DEF MCInit, AInv
  <1>1. /\ queue = <<>> /\ ~poisoned /\ cache = NoDoc /\ step = "idle"
        /\ \A u \in Calls : pc[u] = "idle"
    BY DEF Init
  <1>2. Serial /\ Warm /\ LoadsCold /\ Seen /\ CacheFollows
    BY <1>1 DEF Serial, InFlight, Loading, Reading, Restoring, Waiting, Warm, LoadsCold, Seen,
                CacheFollows
  <1>3. WriterLast
    BY <1>1, EmptySeq DEF WriterLast
  <1>4. Kept
    <2>1. Acked = {} /\ disk["bak"] = Absent
      BY <1>1 DEF Init, Acked, Calls, Files
    <2> QED
      BY <1>1, <2>1, EmptySeq DEF Kept
  <1> QED
    BY <1>2, <1>3, <1>4, IInvInit DEF Disciplined

LEMMA NextDisciplined ==
    ASSUME IInv, Disciplined, Next PROVE Keeps
  <1>1. CASE Publish
    BY <1>1, PublishDisciplined
  <1>2. CASE ~Publish
    <2>1. Acked' \subseteq Acked
      BY <1>2, AckOnlyByPublish DEF Acked
    <2>2. ASSUME NEW u \in Calls, Call(u) PROVE Keeps
      BY <2>1, <2>2, CallReadDisciplined, OpenFileDisciplined, ParseMainDisciplined,
         ParseBakDisciplined, CallWriteDisciplined DEF Call
    <2>3. CASE RunJob
      BY <1>2, <2>1, <2>3, JobDisciplined DEF RunJob
    <2>4. CASE WriteFails \/ Restart
      BY <2>1, <2>4, DroppedDisciplined
    <2>5. CASE BreakMain
      BY <2>5, BreakMainDisciplined
    <2> QED
      BY <2>2, <2>3, <2>4, <2>5 DEF Next
  <1> QED
    BY <1>1, <1>2

LEMMA AInvStep == ASSUME AInv, [MCNext]_history PROVE AInv'
  <1>1. CASE MCNext
    <2>1. IInv'
      BY <1>1, IInvStep DEF MCNext, AInv
    <2>2. ASSUME alone' PROVE Disciplined'
      <3>1. alone /\ Serial' /\ Next
        BY <1>1, <2>2 DEF MCNext
      <3>2. Keeps
        BY <3>1, NextDisciplined DEF AInv
      <3> QED
        BY <3>1, <3>2 DEF Keeps, Disciplined
    <2> QED
      BY <2>1, <2>2 DEF AInv
  <1>2. CASE UNCHANGED history
    <2>1. UNCHANGED vars /\ alone' = alone
      BY <1>2 DEF history
    <2>2. IInv'
      BY <2>1, IInvStep DEF AInv
    <2>3. alone => Disciplined'
      BY <2>1 DEF AInv, vars, budgets, Disciplined, Serial, InFlight, Warm, LoadsCold, Seen,
                  WriterLast, CacheFollows, Kept, Acked
    <2> QED
      BY <2>1, <2>2, <2>3 DEF AInv
  <1> QED
    BY <1>1, <1>2

THEOREM AloneInvariance == MCSpec => []AInv
  <1>1. MCInit => AInv
    BY AInvInit
  <1>2. AInv /\ [MCNext]_history => AInv'
    BY AInvStep
  <1> QED
    BY <1>1, <1>2, PTL DEF MCSpec

\* An edit that update() returned for is what a restart reads, for any number of
\* calls that did not overlap, of crashes and of failed writes (update()
\* reads, awaits the updater, and writes what it read).
THEOREM AloneEditsSurvive == MCSpec => []AloneSurvive
  <1>1. AInv => AloneSurvive
    <2> SUFFICES ASSUME IInv, Disciplined, breaks = 0 PROVE Acked \subseteq Recovered
      BY DEF AInv, AloneSurvive, AckedSurvive
    <2> QED
      BY DEF Disciplined, Kept, Recovered
  <1> QED
    BY <1>1, AloneInvariance, PTL

\* Under the same discipline a backup that is whole holds it too.
THEOREM AloneEditsAreBackedUp == MCSpec => []AloneBackupCovers
  <1>1. AInv => AloneBackupCovers
    BY DEF AInv, AloneBackupCovers, BackupCovers, Disciplined, Kept
  <1> QED
    BY <1>1, AloneInvariance, PTL

\* Under the same discipline the cache and the file agree at rest, even after damage
\* from outside.
THEOREM AloneCacheIsOfFile == MCSpec => []AloneCacheMatches
  <1>1. AInv => AloneCacheMatches
    <2> SUFFICES ASSUME IInv, Disciplined, cache # NoDoc, InFlight = {}, ~poisoned
                 PROVE  cache = disk["main"]
      BY DEF AInv, AloneCacheMatches, QuietCacheMatchesDisk
    <2>1. \A u \in Calls : pc[u] \notin Waiting
      BY DEF InFlight, Waiting, Restoring, Ended
    <2>2. queue = <<>>
      BY <2>1, Queued
    <2>3. step # "renamed"
      BY <2>2 DEF IInv, StepFiles
    <2> QED
      BY <2>1, <2>3 DEF Disciplined, CacheFollows, Waiting
  <1> QED
    BY <1>1, AloneInvariance, PTL

===============================================================================
