------------------------- MODULE JobQueueLossProofs -------------------------
(***************************************************************************)
(* No job is given up early, and none is lost silently.                    *)
(*                                                                         *)
(* No job reaches the dead letter queue before it has failed more than     *)
(* MaxJobRetries times.  Concurrent attempts write stale retry counters,   *)
(* but only ever stale ones: no counter, in Redis or in a goroutine, runs  *)
(* ahead of the failures that have happened.                               *)
(*                                                                         *)
(* No job vanishes, although an acknowledgement removes any copy of its    *)
(* video.  The argument counts: a goroutine that removes a copy has put    *)
(* one back before, or the job is over, or its hand-over failed.           *)
(***************************************************************************)
EXTENDS JobQueueProofs

-----------------------------------------------------------------------------
\* Retry counters

\* The retry counter r is not ahead of the failures of v, as far as they are counted.
Counted(r, v) == r <= failures[v] \/ failures[v] > MaxJobRetries

\* A goroutine starts without a state.
CountersCovered ==
  /\ \A s \in Attempts : pc[s] = "free" => copy[s].retry = 0
  /\ \A v \in Videos : Counted(jobState[v].retry, v)
  /\ \A s \in Attempts : video[s] \in Videos => Counted(copy[s].retry, video[s])

\* A recovery loop holds a counter for a failure it has not recorded yet.
RecoveryCovered ==
  \A p \in Procs : rpc[p] = "set" =>
    rcopy[p].retry <= failures[rvideo[p]] + 1 \/ failures[rvideo[p]] > MaxJobRetries

GivenUp ==
  \A s \in Attempts :
    pc[s] = "dlqPush" => failures[video[s]] > MaxJobRetries \/ video[s] \in unrecorded

RetryInv ==
  TypeOK /\ CountersCovered /\ RecoveryCovered /\ GivenUp /\ DeadLetterJustified

-----------------------------------------------------------------------------
\* One more failure covers one more retry, and takes nothing from what was covered.
LEMMA CountFailureCovers ==
  ASSUME TypeOK, NEW u \in Videos, CountFailure(u)
  PROVE  /\ \A v \in Videos : failures[v] <= failures'[v]
         /\ \A v \in Videos : failures[v] > MaxJobRetries => failures'[v] > MaxJobRetries
         /\ failures'[u] = failures[u] + 1 \/ failures'[u] > MaxJobRetries
BY DEF TypeOK, CountFailure

\* A nil state has no retries.
LEMMA NoStateCounted ==
  ASSUME TypeOK, NEW v \in Videos
  PROVE  Counted(NoState.retry, v)
BY DEF TypeOK, NoState, Counted

\* What was covered stays covered when one more failure is counted.
LEMMA CoveredKept ==
  ASSUME TypeOK, TypeOK', NEW u \in Videos, CountFailure(u),
         NEW v \in Videos, NEW r \in Nat, Counted(r, v)
  PROVE  r <= failures'[v] \/ failures'[v] > MaxJobRetries
BY CountFailureCovers, ConstantsAssumption DEF TypeOK, Counted

LEMMA InitRetry == Init => RetryInv
<1> SUFFICES ASSUME Init PROVE RetryInv
  OBVIOUS
<1>1. TypeOK
  BY InitType
<1> QED
  BY <1>1, NoStateCounted DEF Init, NoState, RetryInv, CountersCovered, RecoveryCovered, GivenUp,
     DeadLetterJustified

\* SetJobFailed counts the failure before it decides between a retry and the dead letter queue.
LEMMA FailRetry ==
  ASSUME RetryInv, TypeOK', NEW s \in Attempts, SetJobFailed(s)
  PROVE  CountersCovered' /\ RecoveryCovered' /\ GivenUp' /\ DeadLetterJustified'
<1> DEFINE v == video[s]
           state == FailedState(copy[s])
<1>1. v \in Videos /\ CountFailure(v) /\ video' = video
  BY DEF SetJobFailed, RetryInv, TypeOK
<1>2. state.retry = copy[s].retry + 1 /\ copy[s].retry \in Nat
  BY StateFields DEF RetryInv, TypeOK, JobStates
<1>3. state.retry <= failures'[v] \/ failures'[v] > MaxJobRetries
  BY <1>1, <1>2, CountFailureCovers DEF RetryInv, CountersCovered, Counted, TypeOK
<1>4. /\ jobState' = [jobState EXCEPT ![v] = state] \/ jobState' = jobState
      /\ copy' = [copy EXCEPT ![s] = state] \/ copy' = [copy EXCEPT ![s] = NoState]
  BY DEF SetJobFailed, SetJobState, SetJobStateFails, Keep
<1>5. \A w \in Videos : Counted(jobState[w].retry, w)'
  <2> SUFFICES ASSUME NEW w \in Videos PROVE Counted(jobState[w].retry, w)'
    OBVIOUS
  <2>1. CASE jobState'[w] = state /\ w = v
    BY <2>1, <1>3 DEF Counted
  <2>2. CASE jobState'[w] = jobState[w]
    BY <2>2, <1>1, CoveredKept DEF Counted, RetryInv, CountersCovered, TypeOK, JobStates
  <2> QED
    BY <1>4, <2>1, <2>2 DEF RetryInv, TypeOK
<1>6. \A t \in Attempts : video'[t] \in Videos => Counted(copy[t].retry, video[t])'
  <2> SUFFICES ASSUME NEW t \in Attempts, video[t] \in Videos
               PROVE  Counted(copy[t].retry, video[t])'
    BY <1>1
  <2>1. CASE t = s /\ copy'[t] = state
    BY <2>1, <1>1, <1>3 DEF Counted
  <2>2. CASE copy'[t] = NoState
    BY <2>2, <1>1 DEF Counted, NoState, TypeOK
  <2>3. CASE copy'[t] = copy[t]
    BY <2>3, <1>1, CoveredKept DEF Counted, RetryInv, CountersCovered, TypeOK, JobStates
  <2> QED
    BY <1>4, <2>1, <2>2, <2>3 DEF RetryInv, TypeOK
<1>7. \A t \in Attempts : pc'[t] = "free" => copy'[t].retry = 0
  BY DEF SetJobFailed, Goto, Keep, RetryInv, CountersCovered, TypeOK
<1>8. RecoveryCovered'
  BY <1>1, CountFailureCovers, ConstantsAssumption
     DEF SetJobFailed, RetryInv, RecoveryCovered, TypeOK, JobStates, recoverVars
<1>9. GivenUp'
  <2>1. pc'[s] = "dlqPush" => failures'[v] > MaxJobRetries \/ v \in unrecorded'
    BY <1>2, <1>3, ConstantsAssumption
       DEF SetJobFailed, MayRetry, Goto, RetryInv, TypeOK
  <2>2. \A t \in Attempts : t # s => pc'[t] = pc[t]
    BY DEF SetJobFailed, Goto, RetryInv, TypeOK
  <2> QED
    BY <1>1, <2>1, <2>2, CountFailureCovers DEF SetJobFailed, RetryInv, GivenUp, TypeOK
<1>10. DeadLetterJustified'
  BY <1>1, CountFailureCovers DEF SetJobFailed, RetryInv, DeadLetterJustified, TypeOK
<1> QED
  BY <1>5, <1>6, <1>7, <1>8, <1>9, <1>10 DEF CountersCovered

LEMMA JobRetry ==
  ASSUME RetryInv, TypeOK', NEW s \in Attempts, JobStep(s)
  PROVE  CountersCovered' /\ RecoveryCovered' /\ GivenUp' /\ DeadLetterJustified'
<1> USE DEF RetryInv, TypeOK, CountersCovered, RecoveryCovered, GivenUp, DeadLetterJustified,
            redisVars, minioVars, recoverVars, historyVars, boundVars, Goto, Keep, Fault, Fail
<1>1. CASE SetJobProcessingGet(s)
  BY <1>1, NoStateCounted DEF SetJobProcessingGet, SetterGet, Counted
<1>2. CASE SetJobProcessing(s)
  <2>1. [copy[s] EXCEPT !.status = "processing"].retry = copy[s].retry
    BY StateFields
  <2> QED
    BY <1>2, <2>1, NoStateCounted DEF SetJobProcessing, SetJobState, Counted
<1>3. CASE Download(s) \/ Process(s) \/ Upload(s) \/ ArchiveCopy(s) \/ ArchiveRemove(s)
  BY <1>3 DEF Download, Process, Upload, ArchiveCopy, ArchiveRemove, Counted
<1>4. CASE PublishSuccessMessage(s) \/ NotifySuccess(s) 
  BY <1>4 DEF PublishSuccessMessage, NotifySuccess, Counted
<1>5. CASE SetJobDoneGet(s) \/ SetJobFailedGet(s)
  <2>1. CASE SetJobDoneGet(s)
    BY <2>1, NoStateCounted DEF SetJobDoneGet, SetterGet, Counted
  <2>2. CASE SetJobFailedGet(s)
    BY <2>2, NoStateCounted DEF SetJobFailedGet, SetterGet, Counted
  <2> QED
    BY <1>5, <2>1, <2>2
<1>6. CASE SetJobDone(s)
  <2>1. [copy[s] EXCEPT !.status = "done"].retry = copy[s].retry
    BY StateFields
  <2> QED
    BY <1>6, <2>1, NoStateCounted DEF SetJobDone, SetJobState, SetJobStateFails, Counted
<1>7. CASE RequeueJobGet(s)
  BY <1>7, NoStateCounted DEF RequeueJobGet, Counted
<1>8. CASE RequeueJobSet(s)
  <2>1. [copy[s] EXCEPT !.status = "pending"].retry = copy[s].retry
    BY StateFields
  <2>2. \A w \in Videos : \/ jobState'[w].retry = jobState[w].retry
                          \/ w = video[s] /\ jobState'[w].retry = copy[s].retry
    BY <1>8, <2>1 DEF RequeueJobSet, SetJobState, SetJobStateFails
  <2>3. pc'[s] \in {"reqPush", "ack"}
    BY <1>8 DEF RequeueJobSet
  <2> QED
    BY <1>8, <2>2, <2>3, NoStateCounted DEF RequeueJobSet, Counted
<1>9. CASE RequeueJobPush(s)
  BY <1>9 DEF RequeueJobPush, Counted
<1>10. CASE MoveToDLQ(s)
  BY <1>10, NoStateCounted DEF MoveToDLQ, Counted
<1>11. CASE AcknowledgeMessage(s)
  BY <1>11, ConstantsAssumption DEF AcknowledgeMessage, Counted, NoState
<1>12. CASE SetJobFailed(s)
  BY <1>12, FailRetry
<1> QED
  BY <1>1, <1>2, <1>3, <1>4, <1>5, <1>6, <1>7, <1>8, <1>9, <1>10, <1>11, <1>12 DEF JobStep

\* RecoverSet counts the failure for which its copy of the state already holds a retry.
LEMMA RecoverSetRetry ==
  ASSUME RetryInv, TypeOK', NEW p \in Procs, RecoverSet(p)
  PROVE  CountersCovered' /\ RecoveryCovered' /\ GivenUp' /\ DeadLetterJustified'
<1> DEFINE v == rvideo[p]
<1>1. v \in Videos /\ CountFailure(v) /\ UNCHANGED <<pc, video, copy, deadQ, unrecorded>>
  BY DEF RecoverSet, RetryInv, TypeOK, jobVars
<1>2. rcopy[p].retry <= failures'[v] \/ failures'[v] > MaxJobRetries
  BY <1>1, CountFailureCovers, ConstantsAssumption
     DEF RecoverSet, RetryInv, RecoveryCovered, TypeOK, JobStates
<1>3. jobState' = [jobState EXCEPT ![v] = rcopy[p]] \/ jobState' = jobState
  BY DEF RecoverSet, SetJobState, SetJobStateFails
<1>4. \A w \in Videos : Counted(jobState[w].retry, w)'
  <2> SUFFICES ASSUME NEW w \in Videos PROVE Counted(jobState[w].retry, w)'
    OBVIOUS
  <2>1. CASE jobState'[w] = rcopy[p] /\ w = v
    BY <2>1, <1>2 DEF Counted
  <2>2. CASE jobState'[w] = jobState[w]
    BY <2>2, <1>1, CoveredKept DEF Counted, RetryInv, CountersCovered, TypeOK, JobStates
  <2> QED
    BY <1>3, <2>1, <2>2 DEF RetryInv, TypeOK
<1>5. \A t \in Attempts : video'[t] \in Videos => Counted(copy[t].retry, video[t])'
  BY <1>1, CoveredKept DEF Counted, RetryInv, CountersCovered, TypeOK, JobStates
<1>6. \A t \in Attempts : pc'[t] = "free" => copy'[t].retry = 0
  BY <1>1 DEF RetryInv, CountersCovered
<1>7. RecoveryCovered'
  <2>1. \A q \in Procs : rpc'[q] = "set" =>
          rpc[q] = "set" /\ rcopy'[q] = rcopy[q] /\ rvideo'[q] = rvideo[q]
    BY DEF RecoverSet, RecoverNext, RetryInv, TypeOK
  <2> QED
    BY <1>1, <2>1, CountFailureCovers, ConstantsAssumption
       DEF RetryInv, RecoveryCovered, TypeOK, JobStates
<1>8. GivenUp' /\ DeadLetterJustified'
  BY <1>1, CountFailureCovers DEF RetryInv, GivenUp, DeadLetterJustified, TypeOK
<1> QED
  BY <1>4, <1>5, <1>6, <1>7, <1>8 DEF CountersCovered

LEMMA RecoveryRetry ==
  ASSUME RetryInv, TypeOK', NEW p \in Procs, RecoveryStep(p)
  PROVE  CountersCovered' /\ RecoveryCovered' /\ GivenUp' /\ DeadLetterJustified'
<1> USE DEF RetryInv, TypeOK, CountersCovered, RecoveryCovered, GivenUp, DeadLetterJustified, Counted,
            redisVars, minioVars, jobVars, recoverVars, historyVars, boundVars, Fault, RecoverNext
<1>1. CASE RecoverScan(p)
  BY <1>1 DEF RecoverScan
<1>2. CASE RecoverGet(p)
  <2>1. PICK v \in Videos : \E state \in {jobState[v], NoState} : Examine(p, v, state)
    BY <1>2 DEF RecoverGet
  <2>2. PICK state \in {jobState[v], NoState} : Examine(p, v, state)
    BY <2>1
  <2>3. [state EXCEPT !.status = "pending", !.retry = state.retry + 1].retry = state.retry + 1
    BY StateFields, NoStateType
  <2>4. (state.retry <= failures[v] \/ failures[v] > MaxJobRetries) /\ state.retry \in Nat
    BY NoStateCounted, NoStateType, SMTT(30) DEF JobStates
  <2>5. \/ UNCHANGED <<rpc, rvideo, rcopy>>
        \/ /\ rvideo' = [rvideo EXCEPT ![p] = v]
           /\ \E t \in JobStates : t.retry = state.retry + 1 /\ rcopy' = [rcopy EXCEPT ![p] = t]
           /\ rpc' = [rpc EXCEPT ![p] = "set"]
    BY <2>2, <2>3, StateType, NoStateType DEF Examine
  <2>6. RecoveryCovered'
    BY <1>2, <2>4, <2>5 DEF RecoverGet, JobStates
  <2>7. CountersCovered' /\ GivenUp' /\ DeadLetterJustified'
    BY <1>2 DEF RecoverGet
  <2> QED
    BY <2>6, <2>7
<1>3. CASE RecoverSet(p)
  BY <1>3, RecoverSetRetry
<1>4. CASE RecoverRem(p)
  BY <1>4 DEF RecoverRem
<1>5. CASE RecoverPush(p)
  BY <1>5 DEF RecoverPush
<1> QED
  BY <1>1, <1>2, <1>3, <1>4, <1>5 DEF RecoveryStep

LEMMA OtherRetry ==
  ASSUME RetryInv, TypeOK'
  PROVE  LET Kept == CountersCovered' /\ RecoveryCovered' /\ GivenUp' /\ DeadLetterJustified'
         IN  /\ \A v \in Videos : PublishJob(v) \/ Age(v) \/ Expire(v) => Kept
             /\ \A s \in Attempts : Timeout(s) => Kept
             /\ \A s \in Attempts, v \in Videos : ConsumeMessage(s, v) => Kept
             /\ ConsumeMessageFails => Kept
             /\ \A p \in Procs : Crash(p) => Kept
             /\ UNCHANGED vars => Kept
<1> USE DEF RetryInv, TypeOK, CountersCovered, RecoveryCovered, GivenUp, DeadLetterJustified, Counted,
            redisVars, minioVars, jobVars, recoverVars, historyVars, boundVars, Fault
<1> DEFINE Kept == CountersCovered' /\ RecoveryCovered' /\ GivenUp' /\ DeadLetterJustified'
<1>1. ASSUME NEW v \in Videos, PublishJob(v) PROVE Kept
  BY <1>1 DEF PublishJob, SetJobState
<1>2. ASSUME NEW v \in Videos, Age(v) PROVE Kept
  BY <1>2 DEF Age
<1>3. ASSUME NEW v \in Videos, Expire(v) PROVE Kept
  <2>1. \A w \in Videos : jobState'[w] = jobState[w] \/ jobState'[w] = NoState
    BY <1>3 DEF Expire
  <2>2. \A w \in Videos : NoState.retry <= failures[w]
    BY DEF NoState
  <2> QED
    BY <1>3, <2>1, <2>2 DEF Expire
<1>4. ASSUME NEW s \in Attempts, Timeout(s) PROVE Kept
  BY <1>4 DEF Timeout
<1>5. ASSUME NEW s \in Attempts, NEW v \in Videos, ConsumeMessage(s, v) PROVE Kept
  BY <1>5 DEF ConsumeMessage, Goto
<1>6. CASE ConsumeMessageFails
  BY <1>6 DEF ConsumeMessageFails
<1>7. ASSUME NEW p \in Procs, Crash(p) PROVE Kept
  BY <1>7, ConstantsAssumption DEF Crash, NoState
<1>8. CASE UNCHANGED vars
  BY <1>8 DEF vars
<1> QED
  BY <1>1, <1>2, <1>3, <1>4, <1>5, <1>6, <1>7, <1>8

LEMMA StepRetry == RetryInv /\ [Next]_vars => RetryInv'
<1> SUFFICES ASSUME RetryInv, [Next]_vars PROVE RetryInv'
  OBVIOUS
<1>1. TypeOK'
  BY StepType DEF RetryInv
<1> QED
  BY <1>1, JobRetry, RecoveryRetry, OtherRetry DEF Next, RetryInv

\* Whatever counters concurrent attempts overwrite, a dead job has used up its retries, or one
\* of its failures could not be recorded.
THEOREM NoEarlyDeadLetter == Spec => []DeadLetterJustified
<1>1. RetryInv => DeadLetterJustified
  BY DEF RetryInv
<1> QED
  BY InitRetry, StepRetry, <1>1, PTL DEF Spec

-----------------------------------------------------------------------------
\* Copies in the queues

\* Nothing more is owed to v: it is finished, dead, or one of its hand-overs failed.
Released(v) == Settled(v) \/ v \in dropped

\* A goroutine acknowledges only what it has pushed back or what is released.
AckCovered ==
  \A s \in Attempts :
    /\ s \in requeued => pc[s] = "ack"
    /\ pc[s] = "ack" /\ s \notin requeued => Released(video[s])
    /\ pc[s] \in {"doneGet", "doneSet", "hookGet"} => video[s] \in finishedQ

Owed(v) == Cardinality(Returners(v)) + (IF v \in submitted THEN 1 ELSE 0)

Balanced(v) == Released(v) \/ Owed(v) <= Copies(v)

LossInv == TypeOK /\ AckCovered /\ CopiesCounted

-----------------------------------------------------------------------------
LEMMA BalancedAll == CopiesCounted <=> \A v \in Videos : Balanced(v)
BY DEF CopiesCounted, Balanced, Released, Owed

\* There are finitely many goroutines and instances.
LEMMA FiniteParties ==
  ASSUME TypeOK, NEW v
  PROVE  /\ IsFiniteSet(Returners(v)) /\ Cardinality(Returners(v)) \in Nat
         /\ IsFiniteSet(Carriers(v)) /\ Cardinality(Carriers(v)) \in Nat
<1>1. IsFiniteSet(Attempts)
  BY ConstantsAssumption, FS_Product DEF Attempts
<1>2. Returners(v) \subseteq Attempts /\ Carriers(v) \subseteq Procs
  BY DEF Returners, Carriers, TypeOK
<1> QED
  BY <1>1, <1>2, ConstantsAssumption, FS_Subset, FS_CardinalityType

\* A step that moves no copy out of the queues keeps the balance.
LEMMA QuietStep ==
  ASSUME TypeOK, TypeOK', NEW v \in Videos, Balanced(v),
         requestQ[v] + processingQ[v] <= requestQ'[v] + processingQ'[v],
         Carriers(v)' = Carriers(v), Returners(v)' = Returners(v), submitted' = submitted,
         Released(v) => Released(v)'
  PROVE  Balanced(v)'
BY FiniteParties DEF Balanced, Owed, Copies, TypeOK

LEMMA InitLoss == Init => LossInv
<1> SUFFICES ASSUME Init PROVE LossInv
  OBVIOUS
<1>1. TypeOK
  BY InitType
<1>2. AckCovered
  BY DEF Init, AckCovered
<1>3. ASSUME NEW v \in Videos PROVE Balanced(v)
  <2>1. Returners(v) = {} /\ Carriers(v) = {}
    BY DEF Init, Returners, Carriers
  <2> QED
    BY <2>1, FS_EmptySet DEF Init, Balanced, Owed, Copies
<1> QED
  BY <1>1, <1>2, <1>3, BalancedAll DEF LossInv

-----------------------------------------------------------------------------
\* Acknowledgements are covered

LEMMA JobAck ==
  ASSUME LossInv, NEW s \in Attempts, JobStep(s)
  PROVE  AckCovered'
<1> USE DEF LossInv, TypeOK, AckCovered, Released, Settled, redisVars, minioVars, recoverVars,
            historyVars, boundVars, Goto, Keep, Fault, Fail
<1>1. CASE SetJobProcessingGet(s) \/ SetJobDoneGet(s) \/ SetJobFailedGet(s)
  BY <1>1 DEF SetJobProcessingGet, SetJobDoneGet, SetJobFailedGet, SetterGet
<1>2. CASE SetJobProcessing(s) \/ SetJobDone(s)
  BY <1>2 DEF SetJobProcessing, SetJobDone
<1>3. CASE Download(s) \/ Process(s) \/ Upload(s) \/ ArchiveCopy(s) \/ ArchiveRemove(s)
  BY <1>3 DEF Download, Process, Upload, ArchiveCopy, ArchiveRemove
<1>4. CASE PublishSuccessMessage(s)
  BY <1>4 DEF PublishSuccessMessage
<1>5. CASE NotifySuccess(s)
  BY <1>5 DEF NotifySuccess
<1>6. CASE SetJobFailed(s)
  <2>1. pc'[s] \in {"reqGet", "dlqPush"}
    BY <1>6 DEF SetJobFailed
  <2> QED
    BY <1>6, <2>1 DEF SetJobFailed
<1>7. CASE RequeueJobGet(s)
  BY <1>7 DEF RequeueJobGet
<1>8. CASE RequeueJobSet(s)
  BY <1>8 DEF RequeueJobSet
<1>9. CASE RequeueJobPush(s)
  BY <1>9 DEF RequeueJobPush
<1>10. CASE MoveToDLQ(s)
  BY <1>10 DEF MoveToDLQ
<1>11. CASE AcknowledgeMessage(s)
  BY <1>11 DEF AcknowledgeMessage
<1> QED
  BY <1>1, <1>2, <1>3, <1>4, <1>5, <1>6, <1>7, <1>8, <1>9, <1>10, <1>11 DEF JobStep

LEMMA OtherAck ==
  ASSUME LossInv
  PROVE  /\ \A v \in Videos : PublishJob(v) \/ Age(v) \/ Expire(v) => AckCovered'
         /\ \A s \in Attempts : Timeout(s) => AckCovered'
         /\ \A s \in Attempts, v \in Videos : ConsumeMessage(s, v) => AckCovered'
         /\ ConsumeMessageFails => AckCovered'
         /\ \A p \in Procs : RecoveryStep(p) \/ Crash(p) => AckCovered'
         /\ UNCHANGED vars => AckCovered'
<1> USE DEF LossInv, TypeOK, AckCovered, Released, Settled, redisVars, minioVars, jobVars,
            recoverVars, historyVars, boundVars
<1>1. ASSUME NEW v \in Videos, PublishJob(v) \/ Age(v) \/ Expire(v) PROVE AckCovered'
  BY <1>1 DEF PublishJob, Age, Expire
<1>2. ASSUME NEW s \in Attempts, Timeout(s) PROVE AckCovered'
  BY <1>2 DEF Timeout
<1>3. ASSUME NEW s \in Attempts, NEW v \in Videos, ConsumeMessage(s, v) PROVE AckCovered'
  BY <1>3 DEF ConsumeMessage, Goto
<1>4. CASE ConsumeMessageFails
  BY <1>4 DEF ConsumeMessageFails
<1>5. ASSUME NEW p \in Procs, RecoveryStep(p) PROVE AckCovered'
  BY <1>5 DEF RecoveryStep, RecoverScan, RecoverGet, RecoverSet, RecoverRem, RecoverPush
<1>6. ASSUME NEW p \in Procs, Crash(p) PROVE AckCovered'
  BY <1>6 DEF Crash
<1>7. CASE UNCHANGED vars
  BY <1>7 DEF vars
<1> QED
  BY <1>1, <1>2, <1>3, <1>4, <1>5, <1>6, <1>7

-----------------------------------------------------------------------------
\* The balance of copies

\* What a goroutine does between its consumption and its last two commands moves no copy.
LEMMA QuietJobBalance ==
  ASSUME LossInv, TypeOK', NEW s \in Attempts, JobStep(s),
         ~ RequeueJobPush(s), ~ AcknowledgeMessage(s), NEW v \in Videos
  PROVE  Balanced(v)'
<1>1. /\ UNCHANGED <<requestQ, processingQ, submitted, video, requeued, rpc, rvideo>>
      /\ finishedQ \subseteq finishedQ' /\ deadQ \subseteq deadQ' /\ dropped \subseteq dropped'
  <2> USE DEF redisVars, recoverVars, historyVars
  <2>1. CASE SetJobProcessingGet(s) \/ SetJobDoneGet(s) \/ SetJobFailedGet(s)
    BY <2>1 DEF SetJobProcessingGet, SetJobDoneGet, SetJobFailedGet, SetterGet
  <2>2. CASE SetJobProcessing(s) \/ SetJobDone(s) \/ SetJobFailed(s)
    BY <2>2 DEF SetJobProcessing, SetJobDone, SetJobFailed
  <2>3. CASE Download(s) \/ Process(s) \/ Upload(s) \/ ArchiveCopy(s) \/ ArchiveRemove(s)
    BY <2>3 DEF Download, Process, Upload, ArchiveCopy, ArchiveRemove
  <2>4. CASE PublishSuccessMessage(s) \/ NotifySuccess(s)
    BY <2>4 DEF PublishSuccessMessage, NotifySuccess
  <2>5. CASE RequeueJobGet(s) \/ RequeueJobSet(s) \/ MoveToDLQ(s)
    BY <2>5 DEF RequeueJobGet, RequeueJobSet, MoveToDLQ
  <2> QED
    BY <2>1, <2>2, <2>3, <2>4, <2>5 DEF JobStep
<1>2. Carriers(v)' = Carriers(v) /\ Returners(v)' = Returners(v)
  BY <1>1 DEF Carriers, Returners
<1>3. Released(v) => Released(v)'
  BY <1>1 DEF Released, Settled
<1> QED
  BY <1>1, <1>2, <1>3, QuietStep, BalancedAll DEF LossInv, TypeOK

\* RequeueJobPush adds a copy and owes one removal, or drops the job.
LEMMA PushBalance ==
  ASSUME LossInv, TypeOK', NEW s \in Attempts, RequeueJobPush(s), NEW v \in Videos
  PROVE  Balanced(v)'
<1> USE DEF LossInv
<1>1. /\ UNCHANGED <<processingQ, submitted, video, rpc, rvideo, finishedQ, deadQ>>
      /\ dropped \subseteq dropped'
      /\ video[s] \in Videos
  BY DEF RequeueJobPush, recoverVars, TypeOK
<1>2. Carriers(v)' = Carriers(v)
  BY <1>1 DEF Carriers
<1>3. CASE UNCHANGED <<requestQ, requeued>> /\ video[s] \in dropped'
  <2>1. Returners(v)' = Returners(v)
    BY <1>1, <1>3 DEF Returners
  <2>2. Released(v) => Released(v)'
    BY <1>1 DEF Released, Settled
  <2> QED
    BY <1>1, <1>2, <1>3, <2>1, <2>2, QuietStep, BalancedAll DEF TypeOK
<1>4. CASE requestQ' = LPush(requestQ, video[s]) /\ requeued' = requeued \cup {s}
  <2>1. CASE video[s] = v
    <3>1. Returners(v)' = Returners(v) \cup {s}
      BY <1>1, <1>4, <2>1 DEF Returners
    <3>2. \/ Cardinality(Returners(v)') = Cardinality(Returners(v)) + 1
          \/ Cardinality(Returners(v)') = Cardinality(Returners(v))
      <4>1. IsFiniteSet(Returners(v))
        BY FiniteParties
      <4> QED
        BY <3>1, <4>1, FS_AddElement
    <3>3. requestQ'[v] = requestQ[v] + 1
      BY <1>4, <2>1 DEF LPush, TypeOK
    <3> QED
      BY <1>1, <1>2, <3>2, <3>3, FiniteParties, BalancedAll
         DEF Balanced, Owed, Copies, Released, Settled, TypeOK
  <2>2. CASE video[s] # v
    <3>1. Returners(v)' = Returners(v) /\ requestQ'[v] = requestQ[v]
      BY <1>1, <1>4, <2>2 DEF Returners, LPush, TypeOK
    <3> QED
      BY <1>1, <1>2, <3>1, QuietStep, BalancedAll, SMTT(30) DEF TypeOK, Released, Settled
  <2> QED
    BY <2>1, <2>2
<1> QED
  BY <1>3, <1>4 DEF RequeueJobPush

\* An acknowledgement removes at most one copy, and no longer owes it.
LEMMA AckBalance ==
  ASSUME LossInv, TypeOK', NEW s \in Attempts, AcknowledgeMessage(s), NEW v \in Videos
  PROVE  Balanced(v)'
<1> USE DEF LossInv
<1>1. /\ UNCHANGED <<requestQ, submitted, rpc, rvideo, finishedQ, deadQ, dropped>>
      /\ video[s] \in Videos
      /\ \A t \in requeued : t # s => video'[t] = video[t]
      /\ requeued' = requeued \ {s}
  BY DEF AcknowledgeMessage, recoverVars, TypeOK
<1>2. Carriers(v)' = Carriers(v)
  BY <1>1 DEF Carriers
<1>3. Returners(v)' = Returners(v) \ {s}
  BY <1>1 DEF Returners
<1>4. /\ processingQ[v] <= processingQ'[v] + 1
      /\ v # video[s] => processingQ'[v] = processingQ[v]
  BY <1>1 DEF AcknowledgeMessage, LRem, TypeOK
<1>5. CASE v = video[s] /\ s \in requeued
  <2>1. s \in Returners(v)
    BY <1>5 DEF Returners
  <2>2. Cardinality(Returners(v)') = Cardinality(Returners(v)) - 1
    BY <1>3, <2>1, FiniteParties, FS_RemoveElement
  <2> QED
    BY <1>1, <1>2, <1>4, <2>2, FiniteParties, BalancedAll
       DEF Balanced, Owed, Copies, Released, Settled, TypeOK
<1>6. CASE v = video[s] /\ s \notin requeued
  BY <1>1, <1>6 DEF AcknowledgeMessage, AckCovered, Balanced, Released, Settled
<1>7. CASE v # video[s]
  <2>1. Returners(v)' = Returners(v)
    BY <1>3, <1>7 DEF Returners
  <2> QED
    BY <1>1, <1>2, <1>4, <1>7, <2>1, QuietStep, BalancedAll DEF TypeOK, Released, Settled
<1> QED
  BY <1>5, <1>6, <1>7

LEMMA RecoveryBalance ==
  ASSUME LossInv, TypeOK', NEW p \in Procs, RecoveryStep(p), NEW v \in Videos
  PROVE  Balanced(v)'
<1> USE DEF LossInv, redisVars, jobVars, historyVars
<1>1. CASE RecoverScan(p) \/ RecoverGet(p) \/ RecoverSet(p)
  <2>0. /\ UNCHANGED <<requestQ, processingQ, submitted, video, requeued, finishedQ, deadQ, dropped>>
        /\ rpc[p] # "push" /\ rpc'[p] # "push"
        /\ \A q \in Procs : q # p => rpc'[q] = rpc[q] /\ rvideo'[q] = rvideo[q]
    <3>1. CASE RecoverScan(p)
      BY <3>1 DEF RecoverScan, TypeOK
    <3>2. CASE RecoverGet(p)
      BY <3>2 DEF RecoverGet, Examine, TypeOK
    <3>3. CASE RecoverSet(p)
      BY <3>3 DEF RecoverSet, RecoverNext, TypeOK
    <3> QED
      BY <1>1, <3>1, <3>2, <3>3
  <2>1. Carriers(v)' = Carriers(v)
    BY <2>0 DEF Carriers
  <2>2. Returners(v)' = Returners(v)
    BY <2>0 DEF Returners
  <2> QED
    BY <2>0, <2>1, <2>2, QuietStep, BalancedAll DEF TypeOK, Released, Settled
<1>2. CASE RecoverRem(p)
  <2>1. /\ UNCHANGED <<requestQ, submitted, video, requeued, rvideo, finishedQ, deadQ, dropped>>
        /\ rvideo[p] \in Videos
        /\ rpc' = [rpc EXCEPT ![p] = "push"] /\ rpc[p] = "rem"
        /\ processingQ[v] <= processingQ'[v] + 1
        /\ v # rvideo[p] => processingQ'[v] = processingQ[v]
    BY <1>2 DEF RecoverRem, LRem, TypeOK
  <2>2. Returners(v)' = Returners(v)
    BY <2>1 DEF Returners
  <2>3. CASE v = rvideo[p]
    <3>1. Carriers(v)' = Carriers(v) \cup {p} /\ p \notin Carriers(v)
      BY <2>1, <2>3 DEF Carriers, TypeOK
    <3>2. Cardinality(Carriers(v)') = Cardinality(Carriers(v)) + 1
      BY <3>1, FiniteParties, FS_AddElement
    <3> QED
      BY <2>1, <2>2, <3>2, FiniteParties, BalancedAll
         DEF Balanced, Owed, Copies, Released, Settled, TypeOK
  <2>4. CASE v # rvideo[p]
    <3>1. Carriers(v)' = Carriers(v)
      BY <2>1, <2>4 DEF Carriers, TypeOK
    <3> QED
      BY <2>1, <2>2, <2>4, <3>1, QuietStep, BalancedAll DEF TypeOK, Released, Settled
  <2> QED
    BY <2>3, <2>4
<1>3. CASE RecoverPush(p)
  <2>1. /\ UNCHANGED <<processingQ, submitted, video, requeued, finishedQ, deadQ>>
        /\ rvideo[p] \in Videos
        /\ rpc' = [rpc EXCEPT ![p] = "scan"] /\ rpc[p] = "push"
        /\ rvideo' = [rvideo EXCEPT ![p] = NoVideo]
        /\ dropped \subseteq dropped'
        /\ \/ requestQ' = LPush(requestQ, rvideo[p])
           \/ requestQ' = requestQ /\ rvideo[p] \in dropped'
    BY <1>3 DEF RecoverPush, RecoverNext, TypeOK
  <2>2. Returners(v)' = Returners(v)
    BY <2>1 DEF Returners
  <2>3. CASE v = rvideo[p]
    <3>1. Carriers(v)' = Carriers(v) \ {p} /\ p \in Carriers(v)
      BY <2>1, <2>3 DEF Carriers, TypeOK
    <3>2. Cardinality(Carriers(v)') = Cardinality(Carriers(v)) - 1
      BY <3>1, FiniteParties, FS_RemoveElement
    <3>3. requestQ'[v] = requestQ[v] + 1 \/ v \in dropped'
      BY <2>1, <2>3 DEF LPush, TypeOK
    <3> QED
      BY <2>1, <2>2, <3>2, <3>3, FiniteParties, BalancedAll
         DEF Balanced, Owed, Copies, Released, Settled, TypeOK
  <2>4. CASE v # rvideo[p]
    <3>1. Carriers(v)' = Carriers(v) /\ requestQ'[v] = requestQ[v]
      BY <2>1, <2>4 DEF Carriers, LPush, TypeOK
    <3> QED
      BY <2>1, <2>2, <3>1, QuietStep, BalancedAll, SMTT(30) DEF TypeOK, Released, Settled
  <2> QED
    BY <2>3, <2>4
<1> QED
  BY <1>1, <1>2, <1>3 DEF RecoveryStep

\* A submission adds a copy and the job it stands for; a consumption moves a copy.
LEMMA QueueBalance ==
  ASSUME LossInv, TypeOK', NEW v \in Videos
  PROVE  /\ \A u \in Videos : PublishJob(u) => Balanced(v)'
         /\ \A s \in Attempts, u \in Videos : ConsumeMessage(s, u) => Balanced(v)'
         /\ ConsumeMessageFails => Balanced(v)'
<1> USE DEF LossInv, recoverVars, jobVars, historyVars
<1>1. ASSUME NEW u \in Videos, PublishJob(u) PROVE Balanced(v)'
  <2>1. /\ UNCHANGED <<processingQ, video, requeued, rpc, rvideo, finishedQ, deadQ, dropped>>
        /\ requestQ'[v] = (IF u = v THEN requestQ[v] + 1 ELSE requestQ[v])
        /\ (v \in submitted' <=> v \in submitted \/ u = v)
        /\ u \notin submitted
    BY <1>1 DEF PublishJob, LPush, TypeOK
  <2>2. Carriers(v)' = Carriers(v) /\ Returners(v)' = Returners(v)
    BY <2>1 DEF Carriers, Returners
  <2> QED
    BY <2>1, <2>2, FiniteParties, BalancedAll
       DEF Balanced, Owed, Copies, Released, Settled, TypeOK
<1>2. ASSUME NEW u \in Videos, BRPopLPush(u)
      PROVE  requestQ[v] + processingQ[v] <= requestQ'[v] + processingQ'[v]
  BY <1>2 DEF BRPopLPush, LPush, TypeOK
<1>3. ASSUME NEW s \in Attempts, NEW u \in Videos, ConsumeMessage(s, u) PROVE Balanced(v)'
  <2>1. /\ UNCHANGED <<submitted, requeued, rpc, rvideo, finishedQ, deadQ, dropped>>
        /\ s \notin requeued
        /\ \A t \in requeued : video'[t] = video[t]
    BY <1>3 DEF ConsumeMessage, AckCovered, TypeOK
  <2>2. Carriers(v)' = Carriers(v) /\ Returners(v)' = Returners(v)
    BY <2>1 DEF Carriers, Returners
  <2> QED
    BY <1>2, <1>3, <2>1, <2>2, QuietStep, BalancedAll DEF ConsumeMessage, Released, Settled
<1>4. CASE ConsumeMessageFails
  <2>1. UNCHANGED <<submitted, video, requeued, rpc, rvideo, finishedQ, deadQ, dropped>>
    BY <1>4 DEF ConsumeMessageFails
  <2>2. Carriers(v)' = Carriers(v) /\ Returners(v)' = Returners(v)
    BY <2>1 DEF Carriers, Returners
  <2> QED
    BY <1>2, <1>4, <2>1, <2>2, QuietStep, BalancedAll DEF ConsumeMessageFails, Released, Settled
<1> QED
  BY <1>1, <1>3, <1>4

\* A crash forgets removals that are owed, and the copy a recovery loop carries, which it drops.
LEMMA CrashBalance ==
  ASSUME LossInv, TypeOK', NEW p \in Procs, Crash(p), NEW v \in Videos
  PROVE  Balanced(v)'
<1> USE DEF LossInv
<1>1. /\ UNCHANGED <<requestQ, processingQ, submitted, finishedQ, deadQ>>
      /\ dropped \subseteq dropped'
  BY DEF Crash, redisVars
<1>2. Returners(v)' \subseteq Returners(v)
  BY DEF Crash, Returners, TypeOK
<1>3. Cardinality(Returners(v)') <= Cardinality(Returners(v)) /\ Cardinality(Returners(v)') \in Nat
  BY <1>2, FiniteParties, FS_Subset, FS_CardinalityType
<1>4. CASE p \in Carriers(v)
  BY <1>4 DEF Crash, Carriers, Balanced, Released
<1>5. CASE p \notin Carriers(v)
  <2>1. Carriers(v)' = Carriers(v)
    BY <1>5 DEF Crash, Carriers, TypeOK
  <2> QED
    BY <1>1, <1>3, <2>1, FiniteParties, BalancedAll
       DEF Balanced, Owed, Copies, Released, Settled, TypeOK
<1> QED
  BY <1>4, <1>5

LEMMA QuietOtherBalance ==
  ASSUME LossInv, TypeOK', NEW v \in Videos
  PROVE  /\ \A u \in Videos : Age(u) \/ Expire(u) => Balanced(v)'
         /\ \A s \in Attempts : Timeout(s) => Balanced(v)'
         /\ UNCHANGED vars => Balanced(v)'
<1> DEFINE Still == UNCHANGED <<requestQ, processingQ, submitted, video, requeued, rpc, rvideo,
                                finishedQ, deadQ, dropped>>
<1>1. ASSUME Still PROVE Balanced(v)'
  <2>1. Carriers(v)' = Carriers(v) /\ Returners(v)' = Returners(v)
    BY <1>1 DEF Carriers, Returners
  <2> QED
    BY <1>1, <2>1, QuietStep, BalancedAll DEF LossInv, TypeOK, Released, Settled
<1>2. \A u \in Videos : Age(u) \/ Expire(u) => Still
  BY DEF Age, Expire, jobVars, recoverVars, historyVars
<1>3. \A s \in Attempts : Timeout(s) => Still
  BY DEF Timeout, redisVars, recoverVars, historyVars
<1>4. UNCHANGED vars => Still
  BY DEF vars, redisVars, jobVars, recoverVars, historyVars
<1> QED
  BY <1>1, <1>2, <1>3, <1>4

LEMMA StepLoss == LossInv /\ [Next]_vars => LossInv'
<1> SUFFICES ASSUME LossInv, [Next]_vars PROVE LossInv'
  OBVIOUS
<1>1. TypeOK'
  BY StepType DEF LossInv
<1>2. AckCovered'
  BY JobAck, OtherAck DEF Next
<1>3. ASSUME NEW v \in Videos PROVE Balanced(v)'
  <2>1. ASSUME NEW s \in Attempts, JobStep(s) PROVE Balanced(v)'
    BY <1>1, <2>1, QuietJobBalance, PushBalance, AckBalance
  <2> QED
    BY <1>1, <2>1, RecoveryBalance, QueueBalance, CrashBalance, QuietOtherBalance DEF Next
<1>4. CopiesCounted'
  BY <1>3, BalancedAll DEF CopiesCounted, Balanced, Released, Owed
<1> QED
  BY <1>1, <1>2, <1>4 DEF LossInv

\* Each removal that is still owed has a copy of its own, and so has each unfinished job.
THEOREM CopiesAreCounted == Spec => []CopiesCounted
<1>1. LossInv => CopiesCounted
  BY DEF LossInv
<1> QED
  BY InitLoss, StepLoss, <1>1, PTL DEF Spec

\* An unfinished job keeps a copy in Redis, or in a recovery loop about to push it, unless one
\* of its hand-overs failed.
THEOREM NoJobLostSilently == Spec => []NoSilentLoss
<1>1. LossInv => NoSilentLoss
  <2> SUFFICES ASSUME LossInv, NEW v \in submitted, ~ Released(v) PROVE Copies(v) > 0
    BY DEF NoSilentLoss, Released
  <2>1. v \in Videos
    BY DEF LossInv, TypeOK
  <2> QED
    BY <2>1, FiniteParties DEF LossInv, CopiesCounted, Released, Copies, TypeOK
<1> QED
  BY InitLoss, StepLoss, <1>1, PTL DEF Spec

=============================================================================
