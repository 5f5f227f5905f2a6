--------------------------- MODULE JobQueueProofs ---------------------------
(***************************************************************************)
(* Theorems about JobQueue for every set of videos, instances and          *)
(* goroutine slots, and every bound.                                       *)
(***************************************************************************)
EXTENDS JobQueue, FiniteSetTheorems, TLAPS

-----------------------------------------------------------------------------
\* Type correctness

USE ConstantsAssumption

LEMMA NoStateType == NoState \in JobStates
BY DEF NoState, JobStates, Statuses

\* What the setters and the recovery loop make of a job state.
LEMMA StateType ==
  ASSUME NEW state \in JobStates
  PROVE  /\ [state EXCEPT !.status = "processing"] \in JobStates
         /\ [state EXCEPT !.status = "done"] \in JobStates
         /\ [state EXCEPT !.status = "pending"] \in JobStates
         /\ [state EXCEPT !.status = "failed", !.retry = state.retry + 1] \in JobStates
         /\ [state EXCEPT !.status = "pending", !.retry = state.retry + 1] \in JobStates
<1>1. ASSUME NEW status \in Statuses PROVE [state EXCEPT !.status = status] \in JobStates
  BY DEF JobStates
<1>2. ASSUME NEW status \in Statuses
      PROVE  [state EXCEPT !.status = status, !.retry = state.retry + 1] \in JobStates
  <2>1. ASSUME NEW t \in JobStates, NEW n \in Nat PROVE [t EXCEPT !.retry = n] \in JobStates
    BY DEF JobStates
  <2>2. state.retry + 1 \in Nat
    BY DEF JobStates
  <2> QED
    BY <1>1, <2>1, <2>2
<1> QED
  BY <1>1, <1>2 DEF Statuses

LEMMA FailedType ==
  ASSUME NEW state \in JobStates
  PROVE  FailedState(state) \in JobStates
BY StateType DEF FailedState

\* What they change, and what they leave.
LEMMA StateFields ==
  ASSUME NEW state \in JobStates, NEW status
  PROVE  /\ [state EXCEPT !.status = status].status = status
         /\ [state EXCEPT !.status = status].retry = state.retry
         /\ FailedState(state).status = "failed"
         /\ FailedState(state).retry = state.retry + 1
         /\ [state EXCEPT !.status = status, !.retry = state.retry + 1].status = status
         /\ [state EXCEPT !.status = status, !.retry = state.retry + 1].retry = state.retry + 1
BY DEF JobStates, FailedState

\* A SET that may have failed makes no job done but the one it writes.
LEMMA StateWritten ==
  ASSUME jobState \in [Videos -> JobStates], NEW v \in Videos, NEW state,
         jobState' = [jobState EXCEPT ![v] = state] \/ jobState' = jobState
  PROVE  \A w \in Videos : jobState'[w].status = "done" =>
           jobState[w].status = "done" \/ (w = v /\ state.status = "done")
OBVIOUS

LEMMA NotifyType ==
  ASSUME TypeOK, NEW v \in Videos, NEW state, Notify(v, state)
  PROVE  webhooks' \subseteq Videos \X BOOLEAN
<1>1. <<v, state.status = "done">> \in Videos \X BOOLEAN
  OBVIOUS
<1> QED
  BY <1>1 DEF TypeOK, Notify

LEMMA InitType == Init => TypeOK
BY NoStateType, SMTT(30)
   DEF Init, TypeOK, JobSteps, Contexts, RecoverySteps

\* Each command of a job goroutine keeps the types.
LEMMA JobType ==
  ASSUME TypeOK, NEW s \in Attempts, JobStep(s)
  PROVE  TypeOK'
<1> USE NoStateType DEF TypeOK, redisVars, minioVars, recoverVars, historyVars, boundVars, Goto, Keep, Fault
<1>1. CASE SetJobProcessingGet(s)
  BY <1>1 DEF SetJobProcessingGet, SetterGet, GetJobState, JobSteps, WorkerSteps, DeferredSteps
<1>2. CASE SetJobProcessing(s)
  <2>1. [copy[s] EXCEPT !.status = "processing"] \in JobStates
    BY StateType
  <2>2. pc' \in [Attempts -> JobSteps] /\ pc'[s] = "download"
    BY <1>2 DEF SetJobProcessing, JobSteps, WorkerSteps
  <2>3. video[s] \in Videos /\ copy' \in [Attempts -> JobStates]
    BY <1>2 DEF SetJobProcessing
  <2>4. jobState' \in [Videos -> JobStates] /\ aged' \subseteq Videos
    BY <1>2, <2>1, <2>3 DEF SetJobProcessing, SetJobState
  <2>5. /\ ctx' \in [Attempts -> Contexts]
        /\ faults' \in Nat /\ crashes' = crashes /\ timeouts' = timeouts
    BY <1>2 DEF SetJobProcessing, Contexts
  <2> QED
    BY <1>2, <2>2, <2>3, <2>4, <2>5, SMTT(30) DEF SetJobProcessing
<1>3. CASE Download(s) \/ Process(s) \/ Upload(s)
  BY <1>3 DEF Download, Process, Upload, Fail, JobSteps, WorkerSteps, DeferredSteps
<1>4. CASE ArchiveCopy(s) \/ ArchiveRemove(s)
  BY <1>4 DEF ArchiveCopy, ArchiveRemove, JobSteps, WorkerSteps
<1>5. CASE PublishSuccessMessage(s)
  BY <1>5 DEF PublishSuccessMessage, Fail, JobSteps, WorkerSteps, DeferredSteps
<1>6. CASE SetJobDoneGet(s)
  BY <1>6 DEF SetJobDoneGet, SetterGet, GetJobState, JobSteps, WorkerSteps
<1>7. CASE SetJobDone(s)
  <2>1. [copy[s] EXCEPT !.status = "done"] \in JobStates
    BY StateType
  <2>2. pc' \in [Attempts -> JobSteps] /\ video[s] \in Videos
    BY <1>7 DEF SetJobDone, JobSteps, WorkerSteps
  <2>3. jobState' \in [Videos -> JobStates] /\ aged' \subseteq Videos
    BY <1>7, <2>1, <2>2 DEF SetJobDone, SetJobState, SetJobStateFails
  <2>4. faults' \in Nat /\ crashes' = crashes /\ timeouts' = timeouts
    BY <1>7 DEF SetJobDone, SetJobStateFails
  <2>5. copy' \in [Attempts -> JobStates]
    BY <1>7 DEF SetJobDone
  <2>6. \A x \in Attempts : pc'[x] # "free" => video'[x] \in Videos
    BY <1>7 DEF SetJobDone
  <2>7. UNCHANGED <<requestQ, processingQ, deadQ, finishedQ, raw, archived, processed, video, ctx, rpc,
                  todo, rvideo, rcopy, webhooks, submitted, requeued, dropped, failures, unrecorded>>
    BY <1>7 DEF SetJobDone
  <2> QED
    BY <2>2, <2>3, <2>4, <2>5, <2>6, <2>7, SMTT(30)
<1>8. CASE NotifySuccess(s)
  <2>1. webhooks' \subseteq Videos \X BOOLEAN
    BY <1>8, NotifyType DEF NotifySuccess
  <2> QED
    BY <1>8, <2>1 DEF NotifySuccess, GetJobState, JobSteps, WorkerSteps, DeferredSteps
<1>9. CASE SetJobFailedGet(s)
  BY <1>9 DEF SetJobFailedGet, SetterGet, GetJobState, JobSteps, WorkerSteps, DeferredSteps
<1>10. CASE SetJobFailed(s)
  <2>1. FailedState(copy[s]) \in JobStates
    BY FailedType
  <2>2. pc' \in [Attempts -> JobSteps] /\ video[s] \in Videos
    BY <1>10 DEF SetJobFailed, JobSteps, WorkerSteps, DeferredSteps
  <2>3. failures' \in [Videos -> Nat]
    BY <1>10 DEF SetJobFailed, CountFailure
  <2>4. jobState' \in [Videos -> JobStates] /\ aged' \subseteq Videos
    BY <1>10, <2>1, <2>2 DEF SetJobFailed, SetJobState, SetJobStateFails
  <2>5. faults' \in Nat /\ crashes' = crashes /\ timeouts' = timeouts
    BY <1>10 DEF SetJobFailed, SetJobStateFails
  <2>6. copy' \in [Attempts -> JobStates] /\ unrecorded' \subseteq Videos
    BY <1>10, <2>1, <2>2 DEF SetJobFailed
  <2> QED
    BY <1>10, <2>2, <2>3, <2>4, <2>5, <2>6 DEF SetJobFailed
<1>11. CASE RequeueJobGet(s)
  BY <1>11 DEF RequeueJobGet, GetJobState, JobSteps, WorkerSteps, DeferredSteps
<1>12. CASE RequeueJobSet(s)
  <2>1. [copy[s] EXCEPT !.status = "pending"] \in JobStates
    BY StateType
  <2>2. pc' \in [Attempts -> JobSteps] /\ video[s] \in Videos
    BY <1>12 DEF RequeueJobSet, JobSteps, WorkerSteps, DeferredSteps
  <2>3. jobState' \in [Videos -> JobStates] /\ aged' \subseteq Videos
    BY <1>12, <2>1, <2>2 DEF RequeueJobSet, SetJobState, SetJobStateFails
  <2>4. faults' \in Nat /\ crashes' = crashes /\ timeouts' = timeouts
    BY <1>12 DEF RequeueJobSet, SetJobStateFails
  <2>5. copy' \in [Attempts -> JobStates]
    BY <1>12 DEF RequeueJobSet
  <2>6. \A x \in Attempts : pc'[x] # "free" => video'[x] \in Videos
    BY <1>12 DEF RequeueJobSet
  <2>7. /\ UNCHANGED <<requestQ, processingQ, deadQ, finishedQ, raw, archived, processed, video, ctx, rpc,
                     todo, rvideo, rcopy, webhooks, submitted, requeued, failures, unrecorded>>
        /\ dropped' \subseteq Videos
    BY <1>12, <2>2 DEF RequeueJobSet
  <2> QED
    BY <2>2, <2>3, <2>4, <2>5, <2>6, <2>7, SMTT(30)
<1>13. CASE RequeueJobPush(s)
  BY <1>13 DEF RequeueJobPush, LPush, JobSteps, WorkerSteps, DeferredSteps
<1>14. CASE MoveToDLQ(s)
  <2>1. webhooks' \subseteq Videos \X BOOLEAN
    BY <1>14, NotifyType DEF MoveToDLQ
  <2>2. copy' \in [Attempts -> JobStates] /\ pc' \in [Attempts -> JobSteps]
    BY <1>14 DEF MoveToDLQ, JobSteps, WorkerSteps, DeferredSteps
  <2>3. faults' \in Nat /\ crashes' = crashes /\ timeouts' = timeouts
    BY <1>14 DEF MoveToDLQ
  <2> QED
    BY <1>14, <2>1, <2>2, <2>3 DEF MoveToDLQ
<1>15. CASE AcknowledgeMessage(s)
  <2>1. processingQ' \in [Videos -> Nat]
    BY <1>15, SMTT(30) DEF AcknowledgeMessage, LRem
  <2>2. \A x \in Attempts : pc'[x] # "free" => video'[x] \in Videos
    BY <1>15 DEF AcknowledgeMessage
  <2> QED
    BY <1>15, <2>1, <2>2 DEF AcknowledgeMessage, JobSteps, Contexts
<1> QED
  BY <1>1, <1>2, <1>3, <1>4, <1>5, <1>6, <1>7, <1>8, <1>9, <1>10, <1>11, <1>12, <1>13, <1>14,
     <1>15 DEF JobStep

\* So does each command of a recovery loop.
LEMMA RecoveryType ==
  ASSUME TypeOK, NEW p \in Procs, RecoveryStep(p)
  PROVE  TypeOK'
<1> USE NoStateType DEF TypeOK, redisVars, minioVars, jobVars, recoverVars, historyVars, boundVars,
                        Fault, RecoverNext, RecoverySteps
<1>1. CASE RecoverScan(p)
  BY <1>1 DEF RecoverScan
<1>2. CASE RecoverGet(p)
  <2>0. PICK v \in todo[p] : \E state \in {jobState[v], NoState} :
          /\ GetJobState(v, state)
          /\ todo' = [todo EXCEPT ![p] = @ \ {v}]
          /\ Examine(p, v, state)
    BY <1>2 DEF RecoverGet
  <2>1. PICK state \in {jobState[v], NoState} :
          /\ GetJobState(v, state)
          /\ todo' = [todo EXCEPT ![p] = @ \ {v}]
          /\ Examine(p, v, state)
    BY <2>0
  <2>2. [state EXCEPT !.status = "pending", !.retry = state.retry + 1] \in JobStates
    BY StateType
  <2>3. /\ rpc' \in [Procs -> RecoverySteps]
        /\ rvideo' \in [Procs -> Videos \cup {NoVideo}]
        /\ rcopy' \in [Procs -> JobStates]
        /\ \A q \in Procs : rpc'[q] # "scan" => rvideo'[q] \in Videos
    BY <2>1, <2>2 DEF Examine
  <2>4. faults' \in Nat /\ crashes' = crashes /\ timeouts' = timeouts
    BY <2>1 DEF GetJobState
  <2>5. todo' \in [Procs -> SUBSET Videos]
    BY <2>1
  <2> QED
    BY <1>2, <2>3, <2>4, <2>5 DEF RecoverGet
<1>3. CASE RecoverSet(p)
  BY <1>3 DEF RecoverSet, SetJobState, SetJobStateFails, CountFailure
<1>4. CASE RecoverRem(p)
  BY <1>4 DEF RecoverRem, LRem
<1>5. CASE RecoverPush(p)
  BY <1>5 DEF RecoverPush, LPush
<1> QED
  BY <1>1, <1>2, <1>3, <1>4, <1>5 DEF RecoveryStep

LEMMA OtherType ==
  ASSUME TypeOK
  PROVE  /\ \A v \in Videos : PublishJob(v) \/ Age(v) \/ Expire(v) => TypeOK'
         /\ \A s \in Attempts : Timeout(s) => TypeOK'
         /\ \A s \in Attempts, v \in Videos : ConsumeMessage(s, v) => TypeOK'
         /\ ConsumeMessageFails => TypeOK'
         /\ \A p \in Procs : Crash(p) => TypeOK'
         /\ UNCHANGED vars => TypeOK'
<1> USE NoStateType DEF TypeOK, redisVars, minioVars, jobVars, recoverVars, historyVars, boundVars,
                        Fault, LPush
<1>1. ASSUME NEW v \in Videos, PublishJob(v) PROVE TypeOK'
  <2>1. [status |-> "pending", retry |-> 0, callback |-> v \in WithCallback] \in JobStates
    BY DEF JobStates, Statuses
  <2> QED
    BY <1>1, <2>1 DEF PublishJob, SetJobState
<1>2. ASSUME NEW v \in Videos, Age(v) \/ Expire(v) PROVE TypeOK'
  BY <1>2 DEF Age, Expire
<1>3. ASSUME NEW s \in Attempts, Timeout(s) PROVE TypeOK'
  BY <1>3 DEF Timeout, Contexts
<1>4. ASSUME NEW s \in Attempts, NEW v \in Videos, ConsumeMessage(s, v) PROVE TypeOK'
  BY <1>4 DEF ConsumeMessage, BRPopLPush, Goto, JobSteps, WorkerSteps
<1>5. CASE ConsumeMessageFails
  BY <1>5 DEF ConsumeMessageFails, BRPopLPush
<1>6. ASSUME NEW p \in Procs, Crash(p) PROVE TypeOK'
  BY <1>6 DEF Crash, JobSteps, Contexts, RecoverySteps
<1>7. CASE UNCHANGED vars
  BY <1>7 DEF vars
<1> QED
  BY <1>1, <1>2, <1>3, <1>4, <1>5, <1>6, <1>7

LEMMA StepType == TypeOK /\ [Next]_vars => TypeOK'
BY JobType, RecoveryType, OtherType DEF Next

\* Every variable keeps its type, and whatever works on something works on a video.
THEOREM TypeCorrect == Spec => []TypeOK
BY InitType, StepType, PTL DEF Spec

-----------------------------------------------------------------------------
\* Published results and kept sources

AfterPublish == {"doneGet", "doneSet", "hookGet"}
AfterUpload  == {"archiveCopy", "archiveRemove", "publish"} \cup AfterPublish

\* How far each goroutine has come tells what it has left in MinIO and in the finished queue.
Progress ==
  /\ \A s \in Attempts :
       /\ pc[s] \in AfterUpload => video[s] \in processed
       /\ pc[s] = "archiveRemove" => video[s] \in archived
       /\ pc[s] \in AfterPublish => video[s] \in finishedQ
       /\ pc[s] = "dlqPush" => copy[s].status # "done"
  /\ \A p \in Procs : rpc[p] = "set" => rcopy[p].status # "done"

PublishedInv == TypeOK /\ Progress /\ finishedQ \subseteq processed
                /\ DoneImpliesPublished /\ SourceKept

LEMMA InitPublished == Init => PublishedInv
<1> SUFFICES ASSUME Init PROVE PublishedInv
  OBVIOUS
<1>1. TypeOK
  BY InitType
<1> QED
  BY <1>1 DEF Init, PublishedInv, Progress, AfterUpload, AfterPublish, DoneImpliesPublished,
              SourceKept, NoState

LEMMA JobPublished ==
  ASSUME PublishedInv, NEW s \in Attempts, JobStep(s)
  PROVE  Progress' /\ (finishedQ \subseteq processed)' /\ DoneImpliesPublished' /\ SourceKept'
<1> USE DEF PublishedInv, TypeOK, Progress, AfterUpload, AfterPublish, DoneImpliesPublished,
            SourceKept, redisVars, minioVars, recoverVars, historyVars, boundVars, Goto, Keep,
            Fault, Fail
<1>1. CASE SetJobProcessingGet(s)
  BY <1>1 DEF SetJobProcessingGet, SetterGet
<1>2. CASE SetJobProcessing(s)
  <2>1. [copy[s] EXCEPT !.status = "processing"].status = "processing"
    BY StateFields
  <2> QED
    BY <1>2, <2>1 DEF SetJobProcessing, SetJobState
<1>3. CASE Download(s) \/ Process(s)
  <2>1. pc'[s] \in {"process", "upload", "failGet"}
    BY <1>3 DEF Download, Process
  <2>2. Progress'
    BY <1>3, <2>1 DEF Download, Process
  <2>3. (finishedQ \subseteq processed)' /\ DoneImpliesPublished' /\ SourceKept'
    BY <1>3 DEF Download, Process
  <2> QED
    BY <2>2, <2>3
<1>4. CASE Upload(s)
  <2>1. processed \subseteq processed' /\ processed' \subseteq processed \cup {video[s]}
    BY <1>4 DEF Upload
  <2>2. (pc'[s] = "archiveCopy" /\ video[s] \in processed') \/ pc'[s] = "failGet"
    BY <1>4 DEF Upload
  <2>3. Progress'
    BY <1>4, <2>1, <2>2 DEF Upload
  <2>4. (finishedQ \subseteq processed)' /\ DoneImpliesPublished' /\ SourceKept'
    BY <1>4, <2>1 DEF Upload
  <2> QED
    BY <2>3, <2>4
<1>5. CASE ArchiveCopy(s)
  <2>1. archived \subseteq archived' /\ (pc'[s] = "archiveRemove" => video[s] \in archived')
    BY <1>5 DEF ArchiveCopy
  <2>2. Progress'
    BY <1>5, <2>1 DEF ArchiveCopy
  <2>3. (finishedQ \subseteq processed)' /\ DoneImpliesPublished' /\ SourceKept'
    BY <1>5, <2>1 DEF ArchiveCopy
  <2> QED
    BY <2>2, <2>3
<1>6. CASE ArchiveRemove(s)
  BY <1>6 DEF ArchiveRemove
<1>7. CASE PublishSuccessMessage(s)
  <2>1. /\ finishedQ \subseteq finishedQ'
        /\ finishedQ' \subseteq finishedQ \cup {video[s]}
        /\ (pc'[s] = "doneGet" /\ video[s] \in finishedQ') \/ pc'[s] = "failGet"
        /\ \A x \in Attempts : x # s => pc'[x] = pc[x]
        /\ video[s] \in processed
    BY <1>7 DEF PublishSuccessMessage
  <2>2. UNCHANGED <<jobState, raw, archived, processed, webhooks, video, copy, rpc, rcopy>>
    BY <1>7 DEF PublishSuccessMessage
  <2>3. Progress'
    BY <2>1, <2>2
  <2>4. (finishedQ \subseteq processed)' /\ DoneImpliesPublished' /\ SourceKept'
    BY <2>1, <2>2
  <2> QED
    BY <2>3, <2>4
<1>8. CASE SetJobDoneGet(s)
  BY <1>8 DEF SetJobDoneGet, SetterGet
<1>9. CASE SetJobDone(s)
  <2>1. [copy[s] EXCEPT !.status = "done"].status = "done"
    BY StateFields
  <2>2. \/ jobState' = [jobState EXCEPT ![video[s]] = [copy[s] EXCEPT !.status = "done"]]
        \/ jobState' = jobState
    BY <1>9 DEF SetJobDone, SetJobState, SetJobStateFails
  <2>3. video[s] \in finishedQ
    BY <1>9 DEF SetJobDone
  <2>4. \A w \in Videos : jobState'[w].status = "done" =>
          jobState[w].status = "done" \/ w = video[s]
    BY <1>9, <2>2, StateWritten DEF SetJobDone
  <2>5. DoneImpliesPublished'
    BY <1>9, <2>3, <2>4 DEF SetJobDone
  <2>6. Progress' /\ (finishedQ \subseteq processed)' /\ SourceKept'
    BY <1>9 DEF SetJobDone
  <2> QED
    BY <2>5, <2>6
<1>10. CASE NotifySuccess(s)
  <2>1. webhooks' \subseteq webhooks \cup {<<video[s], TRUE>>, <<video[s], FALSE>>}
    BY <1>10 DEF NotifySuccess, Notify
  <2>2. video[s] \in finishedQ /\ video[s] \in processed
    BY <1>10 DEF NotifySuccess
  <2>3. DoneImpliesPublished'
    BY <1>10, <2>1, <2>2 DEF NotifySuccess
  <2>4. Progress' /\ (finishedQ \subseteq processed)' /\ SourceKept'
    BY <1>10 DEF NotifySuccess
  <2> QED
    BY <2>3, <2>4
<1>11. CASE SetJobFailedGet(s)
  BY <1>11 DEF SetJobFailedGet, SetterGet
<1>12. CASE SetJobFailed(s)
  <2>1. FailedState(copy[s]).status = "failed"
    BY StateFields
  <2>2. \/ jobState' = [jobState EXCEPT ![video[s]] = FailedState(copy[s])]
        \/ jobState' = jobState
    BY <1>12 DEF SetJobFailed, SetJobState, SetJobStateFails
  <2>3. \A w \in Videos : jobState'[w].status = "done" => jobState[w].status = "done"
    BY <1>12, <2>1, <2>2, StateWritten DEF SetJobFailed
  <2>4. DoneImpliesPublished'
    BY <1>12, <2>3 DEF SetJobFailed
  <2>5. copy'[s].status # "done"
    BY <1>12, <2>1 DEF SetJobFailed, NoState
  <2>6. pc'[s] \in {"reqGet", "dlqPush"}
    BY <1>12 DEF SetJobFailed
  <2>7. Progress' /\ (finishedQ \subseteq processed)' /\ SourceKept'
    BY <1>12, <2>5, <2>6 DEF SetJobFailed
  <2> QED
    BY <2>4, <2>7
<1>13. CASE RequeueJobGet(s)
  <2>1. pc'[s] \in {"reqPush", "reqSet"}
    BY <1>13 DEF RequeueJobGet
  <2>2. Progress'
    BY <1>13, <2>1 DEF RequeueJobGet
  <2>3. (finishedQ \subseteq processed)' /\ DoneImpliesPublished' /\ SourceKept'
    BY <1>13 DEF RequeueJobGet
  <2> QED
    BY <2>2, <2>3
<1>14. CASE RequeueJobSet(s)
  <2>1. [copy[s] EXCEPT !.status = "pending"].status = "pending"
    BY StateFields
  <2>2. \/ jobState' = [jobState EXCEPT ![video[s]] = [copy[s] EXCEPT !.status = "pending"]]
        \/ jobState' = jobState
    BY <1>14 DEF RequeueJobSet, SetJobState, SetJobStateFails
  <2>0. video[s] \in Videos /\ jobState \in [Videos -> JobStates]
    BY <1>14 DEF RequeueJobSet
  <2>3. \A w \in Videos : jobState'[w].status = "done" => jobState[w].status = "done"
    BY ONLY <2>0, <2>1, <2>2, StateWritten
  <2>4. DoneImpliesPublished'
    BY <1>14, <2>3 DEF RequeueJobSet
  <2>5. pc'[s] \in {"reqPush", "ack"}
    BY <1>14 DEF RequeueJobSet
  <2>6. Progress' /\ (finishedQ \subseteq processed)' /\ SourceKept'
    BY <1>14, <2>5 DEF RequeueJobSet
  <2> QED
    BY <2>4, <2>6
<1>15. CASE RequeueJobPush(s)
  BY <1>15 DEF RequeueJobPush
<1>16. CASE MoveToDLQ(s)
  BY <1>16 DEF MoveToDLQ, Notify
<1>17. CASE AcknowledgeMessage(s)
  BY <1>17 DEF AcknowledgeMessage
<1> QED
  BY <1>1, <1>2, <1>3, <1>4, <1>5, <1>6, <1>7, <1>8, <1>9, <1>10, <1>11, <1>12, <1>13, <1>14,
     <1>15, <1>16, <1>17 DEF JobStep

LEMMA RecoveryPublished ==
  ASSUME PublishedInv, NEW p \in Procs, RecoveryStep(p)
  PROVE  Progress' /\ (finishedQ \subseteq processed)' /\ DoneImpliesPublished' /\ SourceKept'
<1> USE DEF PublishedInv, TypeOK, Progress, DoneImpliesPublished, SourceKept, redisVars, minioVars,
            jobVars, recoverVars, historyVars, boundVars, Fault, RecoverNext
<1>1. CASE RecoverScan(p)
  BY <1>1 DEF RecoverScan
<1>2. CASE RecoverGet(p)
  <2>1. PICK v \in Videos, state \in JobStates : Examine(p, v, state)
    BY <1>2, NoStateType DEF RecoverGet, TypeOK
  <2>2. [state EXCEPT !.status = "pending", !.retry = state.retry + 1].status = "pending"
    BY StateFields
  <2>3. \A q \in Procs : rpc'[q] = "set" => rcopy'[q].status # "done"
    BY <2>1, <2>2 DEF Examine, TypeOK
  <2> QED
    BY <1>2, <2>3 DEF RecoverGet
<1>3. CASE RecoverSet(p)
  <2>1. jobState' = [jobState EXCEPT ![rvideo[p]] = rcopy[p]] \/ jobState' = jobState
    BY <1>3 DEF RecoverSet, SetJobState, SetJobStateFails
  <2>2. rvideo[p] \in Videos /\ rcopy[p].status # "done"
    BY <1>3 DEF RecoverSet, TypeOK
  <2>3. \A w \in Videos : jobState'[w].status = "done" => jobState[w].status = "done"
    BY <2>1, <2>2, StateWritten DEF TypeOK
  <2> QED
    BY <1>3, <2>3 DEF RecoverSet
<1>4. CASE RecoverRem(p)
  BY <1>4 DEF RecoverRem
<1>5. CASE RecoverPush(p)
  BY <1>5 DEF RecoverPush
<1> QED
  BY <1>1, <1>2, <1>3, <1>4, <1>5 DEF RecoveryStep

LEMMA OtherPublished ==
  ASSUME PublishedInv
  PROVE  LET Kept == Progress' /\ (finishedQ \subseteq processed)' /\ DoneImpliesPublished'
                     /\ SourceKept'
         IN  /\ \A v \in Videos : PublishJob(v) \/ Age(v) \/ Expire(v) => Kept
             /\ \A s \in Attempts : Timeout(s) => Kept
             /\ \A s \in Attempts, v \in Videos : ConsumeMessage(s, v) => Kept
             /\ ConsumeMessageFails => Kept
             /\ \A p \in Procs : Crash(p) => Kept
             /\ UNCHANGED vars => Kept
<1> USE DEF PublishedInv, TypeOK, Progress, AfterUpload, AfterPublish, DoneImpliesPublished,
            SourceKept, redisVars, minioVars, jobVars, recoverVars, historyVars, boundVars, Fault
<1> DEFINE Kept == Progress' /\ (finishedQ \subseteq processed)' /\ DoneImpliesPublished'
                   /\ SourceKept'
<1>1. ASSUME NEW v \in Videos, PublishJob(v) PROVE Kept
  BY <1>1 DEF PublishJob, SetJobState
<1>2. ASSUME NEW v \in Videos, Age(v) \/ Expire(v) PROVE Kept
  <2>1. jobState' = [jobState EXCEPT ![v] = NoState] \/ jobState' = jobState
    BY <1>2 DEF Age, Expire
  <2>2. \A w \in Videos : jobState'[w].status = "done" => jobState[w].status = "done"
    BY <2>1, StateWritten DEF NoState
  <2> QED
    BY <1>2, <2>2 DEF Age, Expire
<1>3. ASSUME NEW s \in Attempts, Timeout(s) PROVE Kept
  BY <1>3 DEF Timeout
<1>4. ASSUME NEW s \in Attempts, NEW v \in Videos, ConsumeMessage(s, v) PROVE Kept
  BY <1>4 DEF ConsumeMessage, Goto
<1>5. CASE ConsumeMessageFails
  BY <1>5 DEF ConsumeMessageFails
<1>6. ASSUME NEW p \in Procs, Crash(p) PROVE Kept
  BY <1>6 DEF Crash
<1>7. CASE UNCHANGED vars
  BY <1>7 DEF vars
<1> QED
  BY <1>1, <1>2, <1>3, <1>4, <1>5, <1>6, <1>7

LEMMA StepPublished == PublishedInv /\ [Next]_vars => PublishedInv'
<1> SUFFICES ASSUME PublishedInv, [Next]_vars PROVE PublishedInv'
  OBVIOUS
<1>1. TypeOK'
  BY StepType DEF PublishedInv
<1> QED
  BY <1>1, JobPublished, RecoveryPublished, OtherPublished DEF Next, PublishedInv

\* A job that says done, or was reported as a success, is in MinIO and in the finished queue.
THEOREM DonePublished == Spec => []DoneImpliesPublished
<1>1. PublishedInv => DoneImpliesPublished
  BY DEF PublishedInv
<1> QED
  BY InitPublished, StepPublished, <1>1, PTL DEF Spec

\* No interleaving of attempts loses the source of a video before its result exists.
THEOREM SourceNeverLost == Spec => []SourceKept
<1>1. PublishedInv => SourceKept
  BY DEF PublishedInv
<1> QED
  BY InitPublished, StepPublished, <1>1, PTL DEF Spec

=============================================================================
