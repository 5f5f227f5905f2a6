--------------------------- MODULE DeliveryProofs ---------------------------
(***************************************************************************)
(* JobQueue implements Delivery, for every set of videos, instances and    *)
(* goroutine slots, and every bound.  The invariants of the other proofs   *)
(* say what a step finds; here each step is matched with a step of         *)
(* Delivery, or with none.  What Delivery allows then bounds the number of *)
(* jobs that are lost.                                                     *)
(***************************************************************************)
EXTENDS JobQueueDelivery, JobQueueLossProofs

\* The worker is busy with submitted videos only.
OnlySubmitted ==
  /\ finishedQ \subseteq submitted /\ deadQ \subseteq submitted /\ dropped \subseteq submitted
  /\ \A v \in Videos : requestQ[v] > 0 \/ processingQ[v] > 0 => v \in submitted
  /\ \A s \in Attempts : pc[s] # "free" => video[s] \in submitted
  /\ \A p \in Procs : /\ todo[p] \subseteq submitted
                      /\ rpc[p] # "scan" => rvideo[p] \in submitted

PromiseInv == PublishedInv /\ RetryInv /\ LossInv /\ OnlySubmitted

-----------------------------------------------------------------------------
LEMMA InitOnly == Init => OnlySubmitted
BY DEF Init, OnlySubmitted

\* A goroutine announces, drops and pushes back only its own video.
LEMMA JobOnly ==
  ASSUME TypeOK, OnlySubmitted, NEW s \in Attempts, JobStep(s)
  PROVE  OnlySubmitted'
<1>1. pc[s] # "free"
  BY DEF JobStep, SetJobProcessingGet, SetJobDoneGet, SetJobFailedGet, SetterGet, SetJobProcessing,
         Download, Process, Upload, ArchiveCopy, ArchiveRemove, PublishSuccessMessage, SetJobDone,
         NotifySuccess, SetJobFailed, RequeueJobGet, RequeueJobSet, RequeueJobPush, MoveToDLQ,
         AcknowledgeMessage
<1>2. video[s] \in submitted /\ video[s] \in Videos
  BY <1>1 DEF OnlySubmitted, TypeOK
<1>3. UNCHANGED <<submitted, recoverVars>>
  BY DEF JobStep, SetJobProcessingGet, SetJobDoneGet, SetJobFailedGet, SetterGet, SetJobProcessing,
         Download, Process, Upload, ArchiveCopy, ArchiveRemove, PublishSuccessMessage, SetJobDone,
         NotifySuccess, SetJobFailed, RequeueJobGet, RequeueJobSet, RequeueJobPush, MoveToDLQ,
         AcknowledgeMessage, historyVars
<1>4. /\ finishedQ' \subseteq finishedQ \cup {video[s]}
      /\ deadQ' \subseteq deadQ \cup {video[s]}
      /\ dropped' \subseteq dropped \cup {video[s]}
  BY DEF JobStep, SetJobProcessingGet, SetJobDoneGet, SetJobFailedGet, SetterGet, SetJobProcessing,
         Download, Process, Upload, ArchiveCopy, ArchiveRemove, PublishSuccessMessage, SetJobDone,
         NotifySuccess, SetJobFailed, RequeueJobGet, RequeueJobSet, RequeueJobPush, MoveToDLQ,
         AcknowledgeMessage, historyVars, redisVars
<1>5. ASSUME NEW v \in Videos, v # video[s]
      PROVE  requestQ'[v] = requestQ[v] /\ processingQ'[v] = processingQ[v]
  BY <1>5 DEF TypeOK, JobStep, SetJobProcessingGet, SetJobDoneGet, SetJobFailedGet, SetterGet,
         SetJobProcessing, Download, Process, Upload, ArchiveCopy, ArchiveRemove,
         PublishSuccessMessage, SetJobDone, NotifySuccess, SetJobFailed, RequeueJobGet,
         RequeueJobSet, RequeueJobPush, MoveToDLQ, AcknowledgeMessage, redisVars, LPush, LRem
<1>6. /\ \A t \in Attempts \ {s} : pc'[t] = pc[t] /\ video'[t] = video[t]
      /\ pc'[s] # "free" => video'[s] = video[s]
  BY DEF TypeOK, JobStep, SetJobProcessingGet, SetJobDoneGet, SetJobFailedGet, SetterGet,
         SetJobProcessing, Download, Process, Upload, ArchiveCopy, ArchiveRemove, Fail, Goto,
         PublishSuccessMessage, SetJobDone, NotifySuccess, SetJobFailed, RequeueJobGet,
         RequeueJobSet, RequeueJobPush, MoveToDLQ, AcknowledgeMessage, redisVars
<1> QED
  BY <1>2, <1>3, <1>4, <1>5, <1>6 DEF OnlySubmitted, recoverVars

\* So does a recovery loop, whose snapshot holds submitted videos.
LEMMA RecoveryOnly ==
  ASSUME TypeOK, OnlySubmitted, NEW p \in Procs, RecoveryStep(p)
  PROVE  OnlySubmitted'
<1> USE DEF OnlySubmitted, TypeOK, redisVars, jobVars, historyVars, RecoverNext
<1>1. CASE RecoverScan(p)
  BY <1>1 DEF RecoverScan
<1>2. CASE RecoverGet(p)
  <2>1. PICK v \in todo[p] :
          /\ todo' = [todo EXCEPT ![p] = @ \ {v}]
          /\ \/ UNCHANGED <<rpc, rvideo, rcopy>>
             \/ rpc' = [rpc EXCEPT ![p] = "set"] /\ rvideo' = [rvideo EXCEPT ![p] = v]
    BY <1>2 DEF RecoverGet, Examine
  <2> QED
    BY <1>2, <2>1 DEF RecoverGet
<1>3. CASE RecoverSet(p)
  BY <1>3 DEF RecoverSet
<1>4. CASE RecoverRem(p)
  BY <1>4 DEF RecoverRem, LRem
<1>5. CASE RecoverPush(p)
  BY <1>5 DEF RecoverPush, LPush
<1> QED
  BY <1>1, <1>2, <1>3, <1>4, <1>5 DEF RecoveryStep

LEMMA OtherOnly ==
  ASSUME TypeOK, OnlySubmitted
  PROVE  /\ \A v \in Videos : PublishJob(v) \/ Age(v) \/ Expire(v) => OnlySubmitted'
         /\ \A s \in Attempts : Timeout(s) => OnlySubmitted'
         /\ \A s \in Attempts, v \in Videos : ConsumeMessage(s, v) => OnlySubmitted'
         /\ ConsumeMessageFails => OnlySubmitted'
         /\ \A p \in Procs : Crash(p) => OnlySubmitted'
         /\ UNCHANGED vars => OnlySubmitted'
<1> USE DEF OnlySubmitted, TypeOK, redisVars, jobVars, recoverVars, historyVars, LPush
<1>1. ASSUME NEW v \in Videos, PublishJob(v) PROVE OnlySubmitted'
  BY <1>1 DEF PublishJob
<1>2. ASSUME NEW v \in Videos, Age(v) \/ Expire(v) PROVE OnlySubmitted'
  BY <1>2 DEF Age, Expire
<1>3. ASSUME NEW s \in Attempts, Timeout(s) PROVE OnlySubmitted'
  BY <1>3 DEF Timeout
<1>4. ASSUME NEW s \in Attempts, NEW v \in Videos, ConsumeMessage(s, v) PROVE OnlySubmitted'
  BY <1>4 DEF ConsumeMessage, BRPopLPush, Goto
<1>5. CASE ConsumeMessageFails
  BY <1>5 DEF ConsumeMessageFails, BRPopLPush
<1>6. ASSUME NEW p \in Procs, Crash(p) PROVE OnlySubmitted'
  BY <1>6 DEF Crash
<1>7. CASE UNCHANGED vars
  BY <1>7 DEF vars
<1> QED
  BY <1>1, <1>2, <1>3, <1>4, <1>5, <1>6, <1>7

LEMMA StepPromiseInv == PromiseInv /\ [Next]_vars => PromiseInv'
<1>1. TypeOK /\ OnlySubmitted /\ [Next]_vars => OnlySubmitted'
  BY JobOnly, RecoveryOnly, OtherOnly DEF Next
<1> QED
  BY <1>1, StepPublished, StepRetry, StepLoss DEF PromiseInv, LossInv

-----------------------------------------------------------------------------
\* What the queues stand for, once nothing can vanish

FateKnown(v) ==
  IF v \notin submitted THEN "none"
  ELSE IF Settled(v) THEN "over" ELSE IF v \in dropped THEN "lost" ELSE "owed"

LEMMA FateNow == ASSUME NoSilentLoss, NEW v \in Videos PROVE Fate(v) = FateKnown(v)
BY DEF NoSilentLoss, Fate, FateKnown

LEMMA FateNext == ASSUME NoSilentLoss', NEW v \in Videos PROVE Fate(v)' = FateKnown(v)'
BY DEF NoSilentLoss, Fate, FateKnown

\* What a step of Delivery reads and writes.
Unseen == UNCHANGED <<submitted, finishedQ, deadQ, failures, unrecorded, Confirmed>>

MishapPossible == faults' + crashes' \in {faults + crashes, faults + crashes + 1}

\* A step that concerns only the job of u changes only its fate.
LEMMA OneFate ==
  ASSUME NoSilentLoss, NoSilentLoss', NEW u \in Videos,
         \A w \in Videos \ {u} : FateKnown(w)' = FateKnown(w)
  PROVE  JobFates' = [JobFates EXCEPT ![u] = FateKnown(u)']
<1>1. \A w \in Videos : Fate(w)' = FateKnown(w)' /\ Fate(w) = FateKnown(w)
  BY FateNow, FateNext
<1> QED
  BY <1>1 DEF JobFates

LEMMA SameFates ==
  ASSUME NoSilentLoss, NoSilentLoss', \A w \in Videos : FateKnown(w)' = FateKnown(w)
  PROVE  JobFates' = JobFates
<1>1. \A w \in Videos : Fate(w)' = FateKnown(w)' /\ Fate(w) = FateKnown(w)
  BY FateNow, FateNext
<1> QED
  BY <1>1 DEF JobFates

\* A step that Delivery does not see, or sees as a mishap without consequence.
LEMMA QuietPromise ==
  ASSUME NoSilentLoss, NoSilentLoss', Unseen, dropped' = dropped, MishapPossible
  PROVE  [Promise!Next]_Promise!vars
<1>1. JobFates' = JobFates
  BY SameFates DEF Unseen, FateKnown, Settled
<1> QED
  BY <1>1 DEF Unseen, MishapPossible, Promise!Next, Promise!vars, Promise!Suffer, Promise!Mishap

\* A failed hand-over, or a crash, that loses the job of u if it is not over.
LEMMA LosePromise ==
  ASSUME NoSilentLoss, NoSilentLoss', NEW u \in submitted, u \in Videos,
         Unseen, dropped' = dropped \cup {u}, faults' + crashes' = faults + crashes + 1
  PROVE  [Promise!Next]_Promise!vars
<1>1. JobFates' = [JobFates EXCEPT ![u] = FateKnown(u)']
  BY OneFate DEF Unseen, FateKnown, Settled
<1>2. JobFates[u] = FateKnown(u)
  BY FateNow DEF JobFates
<1>3. \/ FateKnown(u)' = FateKnown(u)
      \/ FateKnown(u) = "owed" /\ FateKnown(u)' = "lost"
  BY DEF Unseen, FateKnown, Settled
<1>4. \/ JobFates' = JobFates
      \/ JobFates[u] = "owed" /\ JobFates' = [JobFates EXCEPT ![u] = "lost"]
  BY <1>1, <1>2, <1>3 DEF JobFates
<1> QED
  BY <1>4 DEF Unseen, Promise!Next, Promise!Suffer, Promise!Mishap, Promise!Become

LEMMA FinishPromise ==
  ASSUME NoSilentLoss, NoSilentLoss', NEW u \in submitted, u \in Videos,
         finishedQ' = finishedQ \cup {u}, MishapPossible,
         UNCHANGED <<submitted, deadQ, dropped, failures, unrecorded, Confirmed>>
  PROVE  [Promise!Next]_Promise!vars
<1>1. JobFates' = [JobFates EXCEPT ![u] = FateKnown(u)']
  BY OneFate DEF FateKnown, Settled
<1>2. JobFates[u] # "none" /\ FateKnown(u)' = "over"
  BY FateNow DEF JobFates, FateKnown, Settled
<1> QED
  BY <1>1, <1>2 DEF MishapPossible, Promise!Next, Promise!Finish, Promise!MaybeMishap,
     Promise!Become

LEMMA GiveUpPromise ==
  ASSUME NoSilentLoss, NoSilentLoss', NEW u \in submitted, u \in Videos,
         failures[u] > MaxJobRetries \/ u \in unrecorded,
         deadQ' = deadQ \cup {u}, MishapPossible,
         UNCHANGED <<submitted, finishedQ, dropped, failures, unrecorded, Confirmed>>
  PROVE  [Promise!Next]_Promise!vars
<1>1. JobFates' = [JobFates EXCEPT ![u] = FateKnown(u)']
  BY OneFate DEF FateKnown, Settled
<1>2. JobFates[u] # "none" /\ FateKnown(u)' = "over"
  BY FateNow DEF JobFates, FateKnown, Settled
<1> QED
  BY <1>1, <1>2 DEF MishapPossible, Promise!Next, Promise!GiveUp, Promise!MaybeMishap,
     Promise!Become

LEMMA FailPromise ==
  ASSUME NoSilentLoss, NoSilentLoss', NEW u \in submitted, u \in Videos, CountFailure(u),
         \/ unrecorded' = unrecorded /\ MishapPossible
         \/ /\ unrecorded' = unrecorded \cup {u}
            /\ faults' + crashes' = faults + crashes + 1,
         UNCHANGED <<submitted, finishedQ, deadQ, dropped, Confirmed>>
  PROVE  [Promise!Next]_Promise!vars
<1>1. JobFates' = JobFates
  BY SameFates DEF FateKnown, Settled
<1>2. JobFates[u] # "none"
  BY FateNow DEF JobFates, FateKnown, Settled
<1> QED
  BY <1>1, <1>2 DEF MishapPossible, CountFailure, Promise!Next, Promise!Fail, Promise!MaybeMishap,
     Promise!Mishap

LEMMA ConfirmPromise ==
  ASSUME NoSilentLoss, NoSilentLoss', NEW u \in Videos, u \in finishedQ,
         Confirmed' = Confirmed \cup {u}, MishapPossible,
         UNCHANGED <<submitted, finishedQ, deadQ, dropped, failures, unrecorded>>
  PROVE  [Promise!Next]_Promise!vars
<1>1. JobFates' = JobFates
  BY SameFates DEF FateKnown, Settled
<1> QED
  BY <1>1 DEF MishapPossible, Promise!Next, Promise!Confirm, Promise!MaybeMishap

LEMMA SubmitPromise ==
  ASSUME NoSilentLoss, NoSilentLoss', OnlySubmitted, NEW u \in Videos, u \notin submitted,
         submitted' = submitted \cup {u}, UNCHANGED <<faults, crashes>>,
         UNCHANGED <<finishedQ, deadQ, dropped, failures, unrecorded, Confirmed>>
  PROVE  [Promise!Next]_Promise!vars
<1>1. JobFates' = [JobFates EXCEPT ![u] = FateKnown(u)']
  BY OneFate DEF FateKnown, Settled
<1>2. JobFates[u] = "none" /\ FateKnown(u)' = "owed"
  BY FateNow DEF JobFates, FateKnown, Settled, OnlySubmitted
<1> QED
  BY <1>1, <1>2 DEF Promise!Next, Promise!Submit, Promise!Become

-----------------------------------------------------------------------------
\* Each step of the worker is one of these.

\* The step is allowed with nothing else known than that no job is lost silently.
Allowed == NoSilentLoss /\ NoSilentLoss' => [Promise!Next]_Promise!vars

LEMMA JobPromise ==
  ASSUME PromiseInv, DoneImpliesPublished', NEW s \in Attempts, JobStep(s)
  PROVE  Allowed
<1> DEFINE u == video[s]
<1> USE DEF redisVars, minioVars, recoverVars, historyVars, boundVars, Fault
<1> SUFFICES ASSUME NoSilentLoss, NoSilentLoss' PROVE [Promise!Next]_Promise!vars
  BY DEF Allowed
<1>1. TypeOK /\ OnlySubmitted
  BY DEF PromiseInv, LossInv
<1>2. pc[s] # "free"
  BY DEF JobStep, SetJobProcessingGet, SetJobDoneGet, SetJobFailedGet, SetterGet, SetJobProcessing,
         Download, Process, Upload, ArchiveCopy, ArchiveRemove, PublishSuccessMessage, SetJobDone,
         NotifySuccess, SetJobFailed, RequeueJobGet, RequeueJobSet, RequeueJobPush, MoveToDLQ,
         AcknowledgeMessage
<1>3. u \in submitted /\ u \in Videos
  BY <1>1, <1>2 DEF OnlySubmitted, TypeOK
<1>4. webhooks' = webhooks => Confirmed' = Confirmed
  BY DEF Confirmed
<1>5. faults \in Nat /\ crashes \in Nat
  BY <1>1 DEF TypeOK
<1>6. ASSUME SetJobProcessingGet(s) \/ SetJobDoneGet(s) \/ SetJobFailedGet(s) \/ RequeueJobGet(s)
      PROVE  [Promise!Next]_Promise!vars
  <2>1. Unseen /\ dropped' = dropped /\ MishapPossible
    BY <1>4, <1>5, <1>6 DEF SetJobProcessingGet, SetJobDoneGet, SetJobFailedGet, SetterGet,
       RequeueJobGet, GetJobState, Unseen, MishapPossible
  <2> QED
    BY <2>1, QuietPromise
<1>7. ASSUME \/ SetJobProcessing(s) \/ Download(s) \/ Process(s) \/ Upload(s) \/ ArchiveCopy(s)
             \/ ArchiveRemove(s) \/ SetJobDone(s) \/ AcknowledgeMessage(s)
      PROVE  [Promise!Next]_Promise!vars
  <2>1. Unseen /\ dropped' = dropped /\ MishapPossible
    BY <1>4, <1>5, <1>7 DEF SetJobProcessing, Download, Process, Upload, ArchiveCopy,
       ArchiveRemove, SetJobDone, SetJobStateFails, AcknowledgeMessage, Unseen, MishapPossible
  <2> QED
    BY <2>1, QuietPromise
<1>8. CASE RequeueJobSet(s) \/ RequeueJobPush(s)
  <2>1. /\ Unseen /\ MishapPossible
        /\ \/ dropped' = dropped
           \/ dropped' = dropped \cup {u} /\ faults' + crashes' = faults + crashes + 1
    BY <1>4, <1>5, <1>8 DEF RequeueJobSet, SetJobStateFails, RequeueJobPush, Unseen,
       MishapPossible
  <2> QED
    BY <1>3, <2>1, QuietPromise, LosePromise
<1>9. CASE PublishSuccessMessage(s)
  <2>1. /\ finishedQ' = finishedQ \cup {u} \/ finishedQ' = finishedQ
        /\ UNCHANGED <<submitted, deadQ, dropped, failures, unrecorded, Confirmed>>
        /\ MishapPossible
    BY <1>4, <1>5, <1>9 DEF PublishSuccessMessage, MishapPossible
  <2> QED
    BY <1>3, <2>1, QuietPromise, FinishPromise DEF Unseen
<1>10. CASE MoveToDLQ(s)
  <2>1. failures[u] > MaxJobRetries \/ u \in unrecorded
    BY <1>10 DEF MoveToDLQ, PromiseInv, RetryInv, GivenUp
  <2>2. copy[s].status # "done"
    BY <1>10 DEF MoveToDLQ, PromiseInv, PublishedInv, Progress
  <2>3. webhooks' = webhooks \/ webhooks' = webhooks \cup {<<u, copy[s].status = "done">>}
    BY <1>10 DEF MoveToDLQ, Notify
  <2>4. Confirmed' = Confirmed
    <3>1. (copy[s].status = "done") = FALSE
      BY <2>2
    <3>2. webhooks' = webhooks \/ webhooks' = webhooks \cup {<<u, FALSE>>}
      BY <2>3, <3>1
    <3>3. \A v \in Videos : <<v, TRUE>> # <<u, FALSE>>
      OBVIOUS
    <3>4. \A v \in Videos : <<v, TRUE>> \in webhooks' <=> <<v, TRUE>> \in webhooks
      BY <3>2, <3>3
    <3> QED
      BY <3>4 DEF Confirmed
  <2>5. /\ UNCHANGED <<submitted, finishedQ, failures, unrecorded>>
        /\ MishapPossible
        /\ \/ deadQ' = deadQ \cup {u} /\ dropped' = dropped
           \/ /\ dropped' = dropped \cup {u} /\ deadQ' = deadQ
              /\ faults' + crashes' = faults + crashes + 1
    BY <1>5, <1>10 DEF MoveToDLQ, MishapPossible
  <2> QED
    BY <1>3, <2>1, <2>4, <2>5, GiveUpPromise, LosePromise DEF Unseen
<1>11. CASE SetJobFailed(s)
  <2>1. /\ UNCHANGED <<submitted, finishedQ, deadQ, dropped, Confirmed>>
        /\ CountFailure(u)
        /\ \/ unrecorded' = unrecorded /\ MishapPossible
           \/ unrecorded' = unrecorded \cup {u} /\ faults' + crashes' = faults + crashes + 1
    BY <1>4, <1>5, <1>11 DEF SetJobFailed, SetJobStateFails, MishapPossible
  <2> QED
    BY <1>3, <2>1, FailPromise
<1>12. CASE NotifySuccess(s)
  <2>1. /\ UNCHANGED <<submitted, finishedQ, deadQ, dropped, failures, unrecorded>>
        /\ MishapPossible
    BY <1>5, <1>12 DEF NotifySuccess, GetJobState, MishapPossible
  <2>2. /\ \A v \in Videos : <<v, TRUE>> \in webhooks => <<v, TRUE>> \in webhooks'
        /\ \A v \in Videos \ {u} : <<v, TRUE>> \in webhooks' => <<v, TRUE>> \in webhooks
    BY <1>12 DEF NotifySuccess, Notify
  <2>3. Confirmed' = Confirmed \/ Confirmed' = Confirmed \cup {u}
    BY <2>2, <1>3 DEF Confirmed
  <2>4. u \in Confirmed' => u \in finishedQ
    BY <2>1, <1>3 DEF Confirmed, DoneImpliesPublished
  <2> QED
    BY <1>3, <2>1, <2>3, <2>4, QuietPromise, ConfirmPromise DEF Unseen
<1> QED
  BY <1>6, <1>7, <1>8, <1>9, <1>10, <1>11, <1>12 DEF JobStep

LEMMA RecoveryPromise ==
  ASSUME PromiseInv, NEW p \in Procs, RecoveryStep(p) \/ Crash(p)
  PROVE  Allowed
<1> USE DEF redisVars, minioVars, jobVars, historyVars, boundVars, Fault
<1> SUFFICES ASSUME NoSilentLoss, NoSilentLoss' PROVE [Promise!Next]_Promise!vars
  BY DEF Allowed
<1>1. TypeOK /\ OnlySubmitted
  BY DEF PromiseInv, LossInv
<1>2. webhooks' = webhooks => Confirmed' = Confirmed
  BY DEF Confirmed
<1>3. faults \in Nat /\ crashes \in Nat
  BY <1>1 DEF TypeOK
<1>4. rpc[p] # "scan" => rvideo[p] \in submitted /\ rvideo[p] \in Videos
  BY <1>1 DEF OnlySubmitted, TypeOK
<1>5. CASE RecoverScan(p) \/ RecoverGet(p) \/ RecoverRem(p)
  <2>1. Unseen /\ dropped' = dropped /\ MishapPossible
    BY <1>2, <1>3, <1>5 DEF RecoverScan, RecoverGet, RecoverRem, GetJobState, Unseen,
       MishapPossible
  <2> QED
    BY <2>1, QuietPromise
<1>6. CASE RecoverSet(p)
  <2>1. /\ UNCHANGED <<submitted, finishedQ, deadQ, dropped, unrecorded, Confirmed>>
        /\ CountFailure(rvideo[p]) /\ MishapPossible /\ rpc[p] = "set"
    BY <1>2, <1>3, <1>6 DEF RecoverSet, SetJobStateFails, MishapPossible
  <2> QED
    BY <1>4, <2>1, FailPromise
<1>7. CASE RecoverPush(p) \/ Crash(p)
  <2>1. /\ Unseen /\ MishapPossible
        /\ \/ dropped' = dropped
           \/ /\ dropped' = dropped \cup {rvideo[p]} /\ rpc[p] = "push"
              /\ faults' + crashes' = faults + crashes + 1
    BY <1>2, <1>3, <1>7 DEF RecoverPush, Crash, Unseen, MishapPossible
  <2> QED
    BY <1>4, <2>1, QuietPromise, LosePromise
<1> QED
  BY <1>5, <1>6, <1>7 DEF RecoveryStep

LEMMA OtherPromise ==
  ASSUME PromiseInv
  PROVE  /\ \A v \in Videos : PublishJob(v) \/ Age(v) \/ Expire(v) => Allowed
         /\ \A s \in Attempts : Timeout(s) => Allowed
         /\ \A s \in Attempts, v \in Videos : ConsumeMessage(s, v) => Allowed
         /\ ConsumeMessageFails => Allowed
         /\ UNCHANGED vars => Allowed
<1> USE DEF redisVars, minioVars, jobVars, recoverVars, historyVars, boundVars, Fault
<1>1. faults \in Nat /\ crashes \in Nat
  BY DEF PromiseInv, LossInv, TypeOK
<1>2. webhooks' = webhooks => Confirmed' = Confirmed
  BY DEF Confirmed
<1>3. ASSUME NEW v \in Videos, PublishJob(v) PROVE Allowed
  BY <1>2, <1>3, SubmitPromise DEF PublishJob, Allowed, PromiseInv
<1>4. ASSUME NEW v \in Videos, Age(v) \/ Expire(v) PROVE Allowed
  <2>1. Unseen /\ dropped' = dropped /\ MishapPossible
    BY <1>1, <1>2, <1>4 DEF Age, Expire, Unseen, MishapPossible
  <2> QED
    BY <2>1, QuietPromise DEF Allowed
<1>5. ASSUME NEW s \in Attempts, Timeout(s) PROVE Allowed
  <2>1. Unseen /\ dropped' = dropped /\ MishapPossible
    BY <1>1, <1>2, <1>5 DEF Timeout, Unseen, MishapPossible
  <2> QED
    BY <2>1, QuietPromise DEF Allowed
<1>6. ASSUME NEW s \in Attempts, NEW v \in Videos, ConsumeMessage(s, v) PROVE Allowed
  <2>1. Unseen /\ dropped' = dropped /\ MishapPossible
    BY <1>1, <1>2, <1>6 DEF ConsumeMessage, Unseen, MishapPossible
  <2> QED
    BY <2>1, QuietPromise DEF Allowed
<1>7. CASE ConsumeMessageFails
  <2>1. Unseen /\ dropped' = dropped /\ MishapPossible
    BY <1>1, <1>2, <1>7 DEF ConsumeMessageFails, Unseen, MishapPossible
  <2> QED
    BY <2>1, QuietPromise DEF Allowed
<1>8. CASE UNCHANGED vars
  <2>1. Unseen /\ dropped' = dropped /\ MishapPossible
    BY <1>1, <1>2, <1>8 DEF vars, Unseen, MishapPossible
  <2> QED
    BY <2>1, QuietPromise DEF Allowed
<1> QED
  BY <1>3, <1>4, <1>5, <1>6, <1>7, <1>8

LEMMA InitPromise == Init => PromiseInv /\ Promise!Init
<1> SUFFICES ASSUME Init PROVE PromiseInv /\ Promise!Init
  OBVIOUS
<1>1. PromiseInv
  BY InitPublished, InitRetry, InitLoss, InitOnly DEF PromiseInv
<1>2. JobFates = [v \in Videos |-> "none"] /\ Confirmed = {}
  BY DEF Init, JobFates, Fate, Confirmed
<1> QED
  BY <1>1, <1>2 DEF Init, Promise!Init

\* The queues, the goroutines, the recovery loops, their failures and their crashes together do
\* to a job only what Delivery allows.
THEOREM WorkerKeepsPromise == Spec => KeepsPromise
<1>1. PromiseInv /\ NoSilentLoss /\ NoSilentLoss' /\ [Next]_vars => [Promise!Next]_Promise!vars
  <2> SUFFICES ASSUME PromiseInv, NoSilentLoss, NoSilentLoss', [Next]_vars
               PROVE  [Promise!Next]_Promise!vars
    OBVIOUS
  <2>1. DoneImpliesPublished'
    BY StepPublished DEF PromiseInv, PublishedInv
  <2>2. Allowed
    BY <2>1, JobPromise, RecoveryPromise, OtherPromise DEF Next
  <2> QED
    BY <2>2 DEF Allowed
<1> QED
  BY InitPromise, StepPromiseInv, NoJobLostSilently, <1>1, PTL DEF Spec, KeepsPromise, Promise!Spec

-----------------------------------------------------------------------------
\* Losses

Lost == {v \in Videos : JobFates[v] = "lost"}

Mishaps == faults + crashes

LossesInv == IsFiniteSet(Lost) /\ Cardinality(Lost) <= Mishaps

\* A step of Delivery loses at most one job, and that in a mishap.
LEMMA LossStep ==
  ASSUME [Promise!Next]_Promise!vars, Mishaps \in Nat
  PROVE  \/ Lost' \subseteq Lost /\ Mishaps' \in {Mishaps, Mishaps + 1}
         \/ \E v : Lost' \subseteq Lost \cup {v} /\ Mishaps' = Mishaps + 1
<1> USE DEF Lost, Mishaps
<1>0. \A v, fate : JobFates' = [JobFates EXCEPT ![v] = fate] =>
        \A w \in Videos \ {v} : JobFates'[w] = JobFates[w]
  BY DEF JobFates
<1>1. \A fate : \A v \in Videos : JobFates' = [JobFates EXCEPT ![v] = fate] => JobFates'[v] = fate
  BY DEF JobFates
<1> HIDE DEF JobFates
<1>2. ASSUME NEW v \in Videos, Promise!Submit(v) PROVE Lost' \subseteq Lost /\ Mishaps' = Mishaps
  BY <1>0, <1>1, <1>2 DEF Promise!Submit, Promise!Become
<1>3. ASSUME NEW v \in Videos, Promise!Finish(v) \/ Promise!GiveUp(v)
      PROVE  Lost' \subseteq Lost /\ Mishaps' \in {Mishaps, Mishaps + 1}
  BY <1>0, <1>1, <1>3 DEF Promise!Finish, Promise!GiveUp, Promise!Become, Promise!MaybeMishap
<1>4. ASSUME NEW v \in Videos, Promise!Fail(v) \/ Promise!Confirm(v)
      PROVE  Lost' \subseteq Lost /\ Mishaps' \in {Mishaps, Mishaps + 1}
  BY <1>4 DEF Promise!Fail, Promise!Confirm, Promise!MaybeMishap, Promise!Mishap
<1>5. ASSUME Promise!Suffer
      PROVE  \/ Lost' \subseteq Lost /\ Mishaps' = Mishaps + 1
             \/ \E v : Lost' \subseteq Lost \cup {v} /\ Mishaps' = Mishaps + 1
  <2>1. Mishaps' = Mishaps + 1
    BY <1>5 DEF Promise!Suffer, Promise!Mishap
  <2>2. CASE UNCHANGED JobFates
    BY <2>1, <2>2
  <2>3. ASSUME NEW v \in Videos, Promise!Become(v, "lost") PROVE Lost' \subseteq Lost \cup {v}
    BY <1>0, <2>3 DEF Promise!Become
  <2> QED
    BY <1>5, <2>1, <2>2, <2>3 DEF Promise!Suffer
<1>6. CASE UNCHANGED Promise!vars
  BY <1>6 DEF Promise!vars
<1> QED
  BY <1>2, <1>3, <1>4, <1>5, <1>6 DEF Promise!Next

LEMMA StepLosses ==
  ASSUME LossesInv, Mishaps \in Nat, [Promise!Next]_Promise!vars
  PROVE  LossesInv'
<1> USE DEF LossesInv
<1>1. IsFiniteSet(Lost) /\ Cardinality(Lost) \in Nat
  BY FS_CardinalityType
<1>2. CASE Lost' \subseteq Lost /\ Mishaps' \in {Mishaps, Mishaps + 1}
  <2>1. IsFiniteSet(Lost') /\ Cardinality(Lost') <= Cardinality(Lost) /\ Cardinality(Lost') \in Nat
    BY <1>1, <1>2, FS_Subset, FS_CardinalityType
  <2> QED
    BY <1>1, <1>2, <2>1
<1>3. ASSUME NEW v, Lost' \subseteq Lost \cup {v}, Mishaps' = Mishaps + 1 PROVE LossesInv'
  <2>1. /\ IsFiniteSet(Lost \cup {v}) /\ Cardinality(Lost \cup {v}) \in Nat
        /\ Cardinality(Lost \cup {v}) <= Cardinality(Lost) + 1
    <3>1. IsFiniteSet(Lost \cup {v})
      BY <1>1, FS_AddElement
    <3>2. Cardinality(Lost \cup {v}) \in {Cardinality(Lost), Cardinality(Lost) + 1}
      BY <1>1, FS_AddElement, Zenon
    <3> QED
      BY <1>1, <3>1, <3>2
  <2>2. /\ IsFiniteSet(Lost') /\ Cardinality(Lost') <= Cardinality(Lost \cup {v})
        /\ Cardinality(Lost') \in Nat
    BY <1>3, <2>1, FS_Subset, FS_CardinalityType
  <2> QED
    BY <1>1, <1>3, <2>1, <2>2
<1> QED
  BY <1>2, <1>3, LossStep

\* A failed command or a crash loses one job at most, however many wait, are retried or are being
\* recovered: there are never more lost jobs than there were mishaps, and none without a mishap.
THEOREM OneLossPerMishap == Spec => [](Cardinality(Lost) <= faults + crashes)
<1>1. Init => LossesInv
  <2>1. Init => Lost = {} /\ Mishaps = 0
    BY DEF Init, Lost, JobFates, Fate, Mishaps
  <2> QED
    BY <2>1, FS_EmptySet DEF LossesInv
<1>2. TypeOK => Mishaps \in Nat
  BY DEF TypeOK, Mishaps
<1>3. LossesInv => Cardinality(Lost) <= faults + crashes
  BY DEF LossesInv, Mishaps
<1> QED
  BY <1>1, <1>2, <1>3, StepLosses, TypeCorrect, WorkerKeepsPromise, PTL
     DEF Spec, KeepsPromise, Promise!Spec

=============================================================================
