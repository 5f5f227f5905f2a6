------------------------------ MODULE JobQueue ------------------------------
(***************************************************************************)
(* The job protocol of the video worker: the Redis lists and job states    *)
(* of queue/client.go and queue/job.go, the job goroutine that             *)
(* processNextMessage (main.go) starts for each message, and the orphan    *)
(* recovery loop, run by several instances of the program against one      *)
(* Redis and one bucket.                                                   *)
(*                                                                         *)
(* Every Redis or MinIO command is one action, because the commands of     *)
(* other goroutines and of other instances run between any two of them.    *)
(* A job state is read with GET and written back with SET: nothing makes   *)
(* the pair atomic, so the copy that is written back may be stale.         *)
(*                                                                         *)
(* A Redis command may fail (at most MaxFaults times): its error is        *)
(* handled as the code handles it, and the server may or may not have      *)
(* executed the command.  An instance may crash (at most MaxCrashes        *)
(* times): its goroutines vanish between two commands.  A job's context    *)
(* may expire (at most MaxTimeouts times): the worker then moves on while  *)
(* the job goroutine keeps running.                                        *)
(***************************************************************************)
EXTENDS Naturals, FiniteSets

CONSTANTS
  Videos,         \* video IDs, which are also the messages of the queue
  Procs,          \* instances of the program
  WithCallback,   \* those submitted with a callback URL
  NoVideo,        \* what an idle goroutine works on
  WorkerCount,    \* workers of an instance (WORKER_COUNT)
  Slots,          \* bound: job goroutines alive at once in an instance
  MaxJobRetries,  \* queue.MaxJobRetries
  MaxFaults,      \* bound: failed Redis commands and expired keys
  MaxCrashes,     \* bound: crashes of instances
  MaxTimeouts     \* bound: job contexts that expire

ASSUME ConstantsAssumption ==
  /\ IsFiniteSet(Procs)
  /\ WithCallback \subseteq Videos
  /\ NoVideo \notin Videos
  /\ WorkerCount \in Nat \ {0}
  /\ IsFiniteSet(Slots)
  /\ MaxJobRetries \in Nat
  /\ MaxFaults \in Nat
  /\ MaxCrashes \in Nat
  /\ MaxTimeouts \in Nat

VARIABLES
  \* Redis
  requestQ,     \* copies of each video in the request queue
  processingQ,  \* copies of each video in <request queue>:processing
  deadQ,        \* videos pushed to <request queue>:dead
  finishedQ,    \* videos pushed to the finished queue
  jobState,     \* the value of key job:<video>
  aged,         \* videos whose UpdatedAt is older than the recovery threshold
  \* MinIO
  raw, archived, processed,
  \* job goroutines
  pc,           \* the command each one executes next, "free" when it does not run
  video,        \* its videoID
  copy,         \* the JobState it read last, or returned by SetJobFailed
  ctx,          \* its processCtx
  \* recovery loops
  rpc,          \* the command each instance's recovery loop executes next
  todo,         \* videos of its LRANGE snapshot it has not looked at yet
  rvideo,       \* the orphan it is re-queuing
  rcopy,        \* the JobState it is about to write
  \* callbacks
  webhooks,     \* <<video, success>> of the notifications started
  \* history
  submitted,    \* videos the producer has published
  requeued,     \* goroutines that pushed their video back and have not acknowledged
  dropped,      \* videos one of whose hand-overs was lost
  failures,     \* failed attempts and orphan recoveries per video, up to MaxJobRetries + 1
  unrecorded,   \* videos that had a failure whose recording failed
  faults, crashes, timeouts

redisVars   == <<requestQ, processingQ, deadQ, finishedQ, jobState, aged>>
minioVars   == <<raw, archived, processed>>
jobVars     == <<pc, video, copy, ctx>>
recoverVars == <<rpc, todo, rvideo, rcopy>>
historyVars == <<submitted, requeued, dropped, failures, unrecorded>>
boundVars   == <<faults, crashes, timeouts>>

vars == <<redisVars, minioVars, jobVars, recoverVars, webhooks, historyVars, boundVars>>

-----------------------------------------------------------------------------
Attempts == Procs \X Slots

\* The instance a job goroutine runs in.
Instance(s) == s[1]

Statuses == {"none", "pending", "processing", "done", "failed"}

JobStates == [status : Statuses, retry : Nat, callback : BOOLEAN]

\* GetJobState returns nil; also the zero JobState the setters start from then.
NoState == [status |-> "none", retry |-> 0, callback |-> FALSE]

\* The commands processNextMessage executes while its worker waits for them...
WorkerSteps == {"procGet", "procSet", "download", "process", "upload", "archiveCopy",
                "archiveRemove", "publish", "doneGet", "doneSet", "hookGet"}
\* ...and those of the deferred function, run after the result was sent on done.
DeferredSteps == {"failGet", "failSet", "reqGet", "reqSet", "reqPush", "dlqPush", "ack"}

JobSteps == {"free"} \cup WorkerSteps \cup DeferredSteps

\* "none": processCtx does not exist yet; "stamped": running, SetJobProcessing has written
\* UpdatedAt just before it started; "unstamped": running, and that write failed;
\* "expired": the job budget has run out.
Contexts == {"none", "stamped", "unstamped", "expired"}

\* "scan": between two orphans, or waiting for the next tick.
RecoverySteps == {"scan", "set", "rem", "push"}

-----------------------------------------------------------------------------
\* Redis commands

LPush(list, v) == [list EXCEPT ![v] = @ + 1]

\* LREM with count 0 removes every copy.
LRemAll(list, v) == [list EXCEPT ![v] = 0]

\* LREM list 1 v: removes one copy if there is one, whoever put it there.
LRem(list, v) == [list EXCEPT ![v] = IF @ = 0 THEN 0 ELSE @ - 1]

\* One Redis command fails.
Fault ==
  /\ faults < MaxFaults
  /\ faults' = faults + 1
  /\ UNCHANGED <<crashes, timeouts>>

\* setJobState: SET with a new UpdatedAt and TTL.
SetJobState(v, state) ==
  /\ jobState' = [jobState EXCEPT ![v] = state]
  /\ aged' = aged \ {v}

\* setJobState returns an error: the request or its reply was lost.
SetJobStateFails(v, state) ==
  /\ Fault
  /\ SetJobState(v, state) \/ UNCHANGED <<jobState, aged>>

\* What GetJobState(v) may return. A failed GET and a missing key both give nil.
GetJobState(v, state) ==
  \/ state = jobState[v] /\ UNCHANGED boundVars
  \/ state = NoState /\ Fault

-----------------------------------------------------------------------------
\* Job goroutines

Goto(s, step) == pc' = [pc EXCEPT ![s] = step]

\* One more attempt on v has failed or was found dead. Races may reset RetryCount for ever, so
\* the count stops where it makes no further difference.
CountFailure(v) ==
  failures' = [failures EXCEPT ![v] = IF @ > MaxJobRetries THEN @ ELSE @ + 1]

\* The state a setter holds between its GET and its SET, or SetJobFailed returned.
Keep(s, state) == copy' = [copy EXCEPT ![s] = state]

\* The worker that started s still waits for it.
Busy(s) == pc[s] \in WorkerSteps /\ ctx[s] # "expired"

BusyWorkers(p) == {s \in Attempts : Instance(s) = p /\ Busy(s)}

Init ==
  /\ requestQ = [v \in Videos |-> 0]
  /\ processingQ = [v \in Videos |-> 0]
  /\ deadQ = {}
  /\ finishedQ = {}
  /\ jobState = [v \in Videos |-> NoState]
  /\ aged = {}
  /\ raw = Videos
  /\ archived = {}
  /\ processed = {}
  /\ pc = [s \in Attempts |-> "free"]
  /\ video = [s \in Attempts |-> NoVideo]
  /\ copy = [s \in Attempts |-> NoState]
  /\ ctx = [s \in Attempts |-> "none"]
  /\ rpc = [p \in Procs |-> "scan"]
  /\ todo = [p \in Procs |-> {}]
  /\ rvideo = [p \in Procs |-> NoVideo]
  /\ rcopy = [p \in Procs |-> NoState]
  /\ webhooks = {}
  /\ submitted = {}
  /\ requeued = {}
  /\ dropped = {}
  /\ failures = [v \in Videos |-> 0]
  /\ unrecorded = {}
  /\ faults = 0
  /\ crashes = 0
  /\ timeouts = 0

-----------------------------------------------------------------------------
\* The producer and the request queue

\* PublishJob. Nobody can touch job:v before the LPUSH, so the SET and the LPUSH are one step.
PublishJob(v) ==
  /\ v \notin submitted
  /\ SetJobState(v, [status |-> "pending", retry |-> 0, callback |-> v \in WithCallback])
  /\ requestQ' = LPush(requestQ, v)
  /\ submitted' = submitted \cup {v}
  /\ UNCHANGED <<processingQ, deadQ, finishedQ, minioVars, jobVars, recoverVars, webhooks,
                 requeued, dropped, failures, unrecorded, boundVars>>

\* A pop that does not wait for a message.
PopUnchecked(v) ==
  /\ requestQ' = [requestQ EXCEPT ![v] = @ - 1]
  /\ processingQ' = LPush(processingQ, v)

\* BRPOPLPUSH moves a message of the request queue to the processing queue.
BRPopLPush(v) ==
  /\ requestQ[v] > 0
  /\ requestQ' = [requestQ EXCEPT ![v] = @ - 1]
  /\ processingQ' = LPush(processingQ, v)

\* A worker that waits for no job consumes a message and starts its goroutine.
ConsumeMessage(s, v) ==
  /\ pc[s] = "free"
  /\ Cardinality(BusyWorkers(Instance(s))) < WorkerCount
  /\ BRPopLPush(v)
  /\ video' = [video EXCEPT ![s] = v]
  /\ Goto(s, "procGet")
  /\ UNCHANGED <<deadQ, finishedQ, jobState, aged, minioVars, copy, ctx, recoverVars, webhooks,
                 historyVars, boundVars>>

\* The reply of BRPOPLPUSH is lost: the message has moved, and ConsumeMessage returns an error.
ConsumeMessageFails ==
  /\ \E v \in Videos : BRPopLPush(v)
  /\ Fault
  /\ UNCHANGED <<deadQ, finishedQ, jobState, aged, minioVars, jobVars, recoverVars, webhooks,
                 historyVars>>

\* redis.Nil cannot occur (the timeout of BRPOPLPUSH is 0).

-----------------------------------------------------------------------------
\* SetJobProcessing, SetJobDone, SetJobFailed and RequeueJob begin with a GET.

SetterGet(s, from, to) ==
  /\ pc[s] = from
  /\ \E state \in {jobState[video[s]], NoState} :
       /\ GetJobState(video[s], state)
       /\ Keep(s, state)
  /\ Goto(s, to)
  /\ UNCHANGED <<redisVars, minioVars, video, ctx, recoverVars, webhooks, historyVars>>

SetJobProcessingGet(s) == SetterGet(s, "procGet", "procSet")
SetJobDoneGet(s)       == SetterGet(s, "doneGet", "doneSet")
SetJobFailedGet(s)     == SetterGet(s, "failGet", "failSet")

\* RequeueJob leaves the state alone when there is none.
RequeueJobGet(s) ==
  /\ pc[s] = "reqGet"
  /\ \E state \in {jobState[video[s]], NoState} :
       /\ GetJobState(video[s], state)
       /\ Keep(s, state)
       /\ Goto(s, IF state = NoState THEN "reqPush" ELSE "reqSet")
  /\ UNCHANGED <<redisVars, minioVars, video, ctx, recoverVars, webhooks, historyVars>>

\* SetJobProcessing; its error is only logged. processCtx starts here.
SetJobProcessing(s) ==
  /\ pc[s] = "procSet"
  /\ \/ /\ SetJobState(video[s], [copy[s] EXCEPT !.status = "processing"])
        /\ ctx' = [ctx EXCEPT ![s] = "stamped"]
        /\ UNCHANGED boundVars \/ Fault
     \/ /\ Fault
        /\ ctx' = [ctx EXCEPT ![s] = "unstamped"]
        /\ UNCHANGED <<jobState, aged>>
  /\ Goto(s, "download")
  /\ Keep(s, NoState)
  /\ UNCHANGED <<requestQ, processingQ, deadQ, finishedQ, minioVars, video, recoverVars, webhooks,
                 historyVars>>

\* jobErr is set and sent on done: the deferred function runs next.
Fail(s) == Goto(s, "failGet")

\* DownloadVideo has no deadline: it may outlive processCtx.
Download(s) ==
  /\ pc[s] = "download"
  /\ \/ video[s] \in raw /\ Goto(s, "process")
     \/ Fail(s)
  /\ UNCHANGED <<redisVars, minioVars, video, copy, ctx, recoverVars, webhooks, historyVars,
                 boundVars>>

\* The critical steps of ProcessVideo: they fail once processCtx has expired. The other steps
\* cannot fail the job and run before the upload.
Process(s) ==
  /\ pc[s] = "process"
  /\ \/ ctx[s] # "expired" /\ Goto(s, "upload")
     \/ Fail(s)
  /\ UNCHANGED <<redisVars, minioVars, video, copy, ctx, recoverVars, webhooks, historyVars,
                 boundVars>>

\* An upload whose error is only logged.
UploadUnchecked(s) ==
  /\ pc[s] = "upload"
  /\ processed' = processed \cup {video[s]} \/ UNCHANGED processed
  /\ Goto(s, "archiveCopy")
  /\ UNCHANGED <<redisVars, raw, archived, video, copy, ctx, recoverVars, webhooks, historyVars,
                 boundVars>>

\* The main upload, UploadVideo.
Upload(s) ==
  /\ pc[s] = "upload"
  /\ \/ processed' = processed \cup {video[s]} /\ Goto(s, "archiveCopy")
     \/ Fail(s) /\ UNCHANGED processed
  /\ UNCHANGED <<redisVars, raw, archived, video, copy, ctx, recoverVars, webhooks, historyVars,
                 boundVars>>

\* A copy whose error does not keep the source.
ArchiveCopyUnchecked(s) ==
  /\ pc[s] = "archiveCopy"
  /\ archived' = archived \cup {video[s]} \/ UNCHANGED archived
  /\ Goto(s, "archiveRemove")
  /\ UNCHANGED <<redisVars, raw, processed, video, copy, ctx, recoverVars, webhooks, historyVars,
                 boundVars>>

\* ArchiveRawVideo: a server-side copy, then the removal of the source. Its error is logged.
ArchiveCopy(s) ==
  /\ pc[s] = "archiveCopy"
  /\ \/ /\ video[s] \in raw
        /\ archived' = archived \cup {video[s]}
        /\ Goto(s, "archiveRemove")
     \/ Goto(s, "publish") /\ UNCHANGED archived
  /\ UNCHANGED <<redisVars, raw, processed, video, copy, ctx, recoverVars, webhooks, historyVars,
                 boundVars>>

ArchiveRemove(s) ==
  /\ pc[s] = "archiveRemove"
  /\ raw' = raw \ {video[s]} \/ UNCHANGED raw
  /\ Goto(s, "publish")
  /\ UNCHANGED <<redisVars, archived, processed, video, copy, ctx, recoverVars, webhooks,
                 historyVars, boundVars>>

\* PublishSuccessMessage. An error fails the job, whether or not the LPUSH was executed.
PublishSuccessMessage(s) ==
  /\ pc[s] = "publish"
  /\ \/ /\ finishedQ' = finishedQ \cup {video[s]}
        /\ Goto(s, "doneGet")
        /\ UNCHANGED boundVars
     \/ /\ finishedQ' = finishedQ \cup {video[s]} \/ UNCHANGED finishedQ
        /\ Fault
        /\ Fail(s)
  /\ UNCHANGED <<requestQ, processingQ, deadQ, jobState, aged, minioVars, video, copy, ctx,
                 recoverVars, webhooks, historyVars>>

\* SetJobDone; its error is only logged.
SetJobDone(s) ==
  /\ pc[s] = "doneSet"
  /\ LET state == [copy[s] EXCEPT !.status = "done"]
     IN  \/ SetJobState(video[s], state) /\ UNCHANGED boundVars
         \/ SetJobStateFails(video[s], state)
  /\ Goto(s, "hookGet")
  /\ Keep(s, NoState)
  /\ UNCHANGED <<requestQ, processingQ, deadQ, finishedQ, minioVars, video, ctx, recoverVars,
                 webhooks, historyVars>>

\* A callback for successes only.
NotifyIfDone(v, state) ==
  webhooks' = IF state.callback /\ state.status = "done" THEN webhooks \cup {<<v, TRUE>>}
              ELSE webhooks

\* notifyWebhook: the payload says success when the state it was given is done.
Notify(v, state) ==
  webhooks' = IF state.callback THEN webhooks \cup {<<v, state.status = "done">>} ELSE webhooks

\* The state is read again for the success callback.
NotifySuccess(s) ==
  /\ pc[s] = "hookGet"
  /\ \E state \in {jobState[video[s]], NoState} :
       /\ GetJobState(video[s], state)
       /\ Notify(video[s], state)
  /\ Goto(s, "ack")
  /\ UNCHANGED <<redisVars, minioVars, video, copy, ctx, recoverVars, historyVars>>

-----------------------------------------------------------------------------
\* The deferred function: retry or dead letter queue, then acknowledgement

\* A failure that is not counted.
FailedUncounted(state) == [state EXCEPT !.status = "failed"]

FailedState(state) == [state EXCEPT !.status = "failed", !.retry = state.retry + 1]

\* The limit of the state machine in the documentation, which counts attempts.
RetryBelow(state) == state.retry < MaxJobRetries

MayRetry(state) == state.retry <= MaxJobRetries

\* SetJobFailed counts the failure. On an error the caller has no state and gives up.
SetJobFailed(s) ==
  /\ pc[s] = "failSet"
  /\ LET v == video[s]
         state == FailedState(copy[s])
     IN  /\ CountFailure(v)
         /\ \/ /\ SetJobState(v, state)
               /\ Keep(s, state)
               /\ Goto(s, IF MayRetry(state) THEN "reqGet" ELSE "dlqPush")
               /\ UNCHANGED <<unrecorded, boundVars>>
            \/ /\ SetJobStateFails(v, state)
               /\ Keep(s, NoState)
               /\ Goto(s, "dlqPush")
               /\ unrecorded' = unrecorded \cup {v}
  /\ UNCHANGED <<requestQ, processingQ, deadQ, finishedQ, minioVars, video, ctx, recoverVars,
                 webhooks, submitted, requeued, dropped>>

\* RequeueJob returns before its LPUSH when the SET fails: the job is not handed over.
RequeueJobSet(s) ==
  /\ pc[s] = "reqSet"
  /\ LET state == [copy[s] EXCEPT !.status = "pending"]
     IN  \/ /\ SetJobState(video[s], state)
            /\ Goto(s, "reqPush")
            /\ UNCHANGED <<dropped, boundVars>>
         \/ /\ SetJobStateFails(video[s], state)
            /\ Goto(s, "ack")
            /\ dropped' = dropped \cup {video[s]}
  /\ Keep(s, NoState)
  /\ UNCHANGED <<requestQ, processingQ, deadQ, finishedQ, minioVars, video, ctx, recoverVars,
                 webhooks, submitted, requeued, failures, unrecorded>>

RequeueJobPush(s) ==
  /\ pc[s] = "reqPush"
  /\ \/ /\ requestQ' = LPush(requestQ, video[s])
        /\ requeued' = requeued \cup {s}
        /\ UNCHANGED dropped
        /\ UNCHANGED boundVars \/ Fault
     \/ /\ Fault
        /\ dropped' = dropped \cup {video[s]}
        /\ UNCHANGED <<requestQ, requeued>>
  /\ Goto(s, "ack")
  /\ UNCHANGED <<processingQ, deadQ, finishedQ, jobState, aged, minioVars, video, copy, ctx,
                 recoverVars, webhooks, submitted, failures, unrecorded>>

\* The failure callback is sent only when the LPUSH succeeded and the state is known.
MoveToDLQ(s) ==
  /\ pc[s] = "dlqPush"
  /\ \/ /\ deadQ' = deadQ \cup {video[s]}
        /\ Notify(video[s], copy[s])
        /\ UNCHANGED <<dropped, boundVars>>
     \/ /\ deadQ' = deadQ \cup {video[s]}
        /\ Fault
        /\ UNCHANGED <<webhooks, dropped>>
     \/ /\ Fault
        /\ dropped' = dropped \cup {video[s]}
        /\ UNCHANGED <<deadQ, webhooks>>
  /\ Goto(s, "ack")
  /\ Keep(s, NoState)
  /\ UNCHANGED <<requestQ, processingQ, finishedQ, jobState, aged, minioVars, video, ctx,
                 recoverVars, submitted, requeued, failures, unrecorded>>

\* AcknowledgeMessage, after which the goroutine ends.
AcknowledgeMessage(s) ==
  /\ pc[s] = "ack"
  /\ \/ processingQ' = LRem(processingQ, video[s]) /\ UNCHANGED boundVars
     \/ Fault /\ UNCHANGED processingQ
  /\ Goto(s, "free")
  /\ video' = [video EXCEPT ![s] = NoVideo]
  /\ ctx' = [ctx EXCEPT ![s] = "none"]
  /\ Keep(s, NoState)
  /\ requeued' = requeued \ {s}
  /\ UNCHANGED <<requestQ, deadQ, finishedQ, jobState, aged, minioVars, recoverVars, webhooks,
                 submitted, dropped, failures, unrecorded>>

-----------------------------------------------------------------------------
\* The recovery loop of instance p (recoverStuckJobs)

\* LRANGE. The order of the list and repeated copies make no difference: a second copy is
\* skipped, because the first one has made the state pending.
RecoverScan(p) ==
  /\ rpc[p] = "scan" /\ todo[p] = {}
  /\ todo' = [todo EXCEPT ![p] = {v \in Videos : processingQ[v] > 0}]
  /\ UNCHANGED <<redisVars, minioVars, jobVars, rpc, rvideo, rcopy, webhooks, historyVars,
                 boundVars>>

\* Only a state that says processing and is older than the threshold marks an orphan.
Orphan(v, state) == state.status = "processing" /\ v \in aged

\* p has read the state of v and prepares the state to write.
Examine(p, v, state) ==
  IF Orphan(v, state)
  THEN /\ rpc' = [rpc EXCEPT ![p] = "set"]
       /\ rvideo' = [rvideo EXCEPT ![p] = v]
       /\ rcopy' = [rcopy EXCEPT ![p] =
                      [state EXCEPT !.status = "pending", !.retry = state.retry + 1]]
  ELSE UNCHANGED <<rpc, rvideo, rcopy>>

RecoverGet(p) ==
  /\ rpc[p] = "scan"
  /\ \E v \in todo[p] : \E state \in {jobState[v], NoState} :
       /\ GetJobState(v, state)
       /\ todo' = [todo EXCEPT ![p] = @ \ {v}]
       /\ Examine(p, v, state)
  /\ UNCHANGED <<redisVars, minioVars, jobVars, webhooks, historyVars>>

\* The orphan is dealt with, or given up until the next scan.
RecoverNext(p) ==
  /\ rpc' = [rpc EXCEPT ![p] = "scan"]
  /\ rvideo' = [rvideo EXCEPT ![p] = NoVideo]

RecoverSet(p) ==
  /\ rpc[p] = "set"
  /\ \/ /\ SetJobState(rvideo[p], rcopy[p])
        /\ rpc' = [rpc EXCEPT ![p] = "rem"]
        /\ UNCHANGED <<rvideo, boundVars>>
     \/ /\ SetJobStateFails(rvideo[p], rcopy[p])
        /\ RecoverNext(p)
  /\ rcopy' = [rcopy EXCEPT ![p] = NoState]
  /\ CountFailure(rvideo[p])
  /\ UNCHANGED <<requestQ, processingQ, deadQ, finishedQ, minioVars, jobVars, todo, webhooks,
                 submitted, requeued, dropped, unrecorded>>

\* The errors of LREM and LPUSH are ignored.
RecoverRem(p) ==
  /\ rpc[p] = "rem"
  /\ \/ processingQ' = LRem(processingQ, rvideo[p]) /\ UNCHANGED boundVars
     \/ Fault /\ UNCHANGED processingQ
  /\ rpc' = [rpc EXCEPT ![p] = "push"]
  /\ UNCHANGED <<requestQ, deadQ, finishedQ, jobState, aged, minioVars, jobVars, todo, rvideo,
                 rcopy, webhooks, historyVars>>

\* A recovery that forgets the LPUSH.
RecoverPushMissing(p) ==
  /\ rpc[p] = "push"
  /\ RecoverNext(p)
  /\ UNCHANGED <<redisVars, minioVars, jobVars, todo, rcopy, webhooks, historyVars, boundVars>>

\* A crash before this step, or its failure, loses the job.
RecoverPush(p) ==
  /\ rpc[p] = "push"
  /\ \/ requestQ' = LPush(requestQ, rvideo[p]) /\ UNCHANGED <<dropped, boundVars>>
     \/ /\ Fault
        /\ dropped' = dropped \cup {rvideo[p]}
        /\ UNCHANGED requestQ
  /\ RecoverNext(p)
  /\ UNCHANGED <<processingQ, deadQ, finishedQ, jobState, aged, minioVars, jobVars, todo, rcopy,
                 webhooks, submitted, requeued, failures, unrecorded>>

-----------------------------------------------------------------------------
\* Time and crashes

\* The job budget of s runs out: its worker goes on, the goroutine does too.
Timeout(s) ==
  /\ ctx[s] \in {"stamped", "unstamped"}
  /\ timeouts < MaxTimeouts
  /\ ctx' = [ctx EXCEPT ![s] = "expired"]
  /\ timeouts' = timeouts + 1
  /\ UNCHANGED <<redisVars, minioVars, pc, video, copy, recoverVars, webhooks, historyVars,
                 faults, crashes>>

\* A threshold below the job budget.
BudgetIgnored(v) == TRUE

\* The budget of every goroutine that wrote UpdatedAt of v is over.
BudgetOver(v) == \A s \in Attempts : video[s] = v => ctx[s] # "stamped"

\* The UpdatedAt of a processing job gets older than the recovery threshold, which exceeds the
\* job budget.
Age(v) ==
  /\ v \notin aged
  /\ jobState[v].status = "processing"
  /\ BudgetOver(v)
  /\ aged' = aged \cup {v}
  /\ UNCHANGED <<requestQ, processingQ, deadQ, finishedQ, jobState, minioVars, jobVars,
                 recoverVars, webhooks, historyVars, boundVars>>

\* The TTL of job:v runs out, or Redis loses the key.
Expire(v) ==
  /\ jobState[v] # NoState
  /\ jobState' = [jobState EXCEPT ![v] = NoState]
  /\ aged' = aged \ {v}
  /\ Fault
  /\ UNCHANGED <<requestQ, processingQ, deadQ, finishedQ, minioVars, jobVars, recoverVars,
                 webhooks, historyVars>>

\* Instance p dies (or is shut down: main returns without waiting for the job goroutines) and
\* starts again. Its message between LREM and LPUSH is gone.
Crash(p) ==
  /\ crashes < MaxCrashes
  /\ crashes' = crashes + 1
  /\ pc' = [s \in Attempts |-> IF Instance(s) = p THEN "free" ELSE pc[s]]
  /\ video' = [s \in Attempts |-> IF Instance(s) = p THEN NoVideo ELSE video[s]]
  /\ copy' = [s \in Attempts |-> IF Instance(s) = p THEN NoState ELSE copy[s]]
  /\ ctx' = [s \in Attempts |-> IF Instance(s) = p THEN "none" ELSE ctx[s]]
  /\ requeued' = {s \in requeued : Instance(s) # p}
  /\ dropped' = IF rpc[p] = "push" THEN dropped \cup {rvideo[p]} ELSE dropped
  /\ rpc' = [rpc EXCEPT ![p] = "scan"]
  /\ todo' = [todo EXCEPT ![p] = {}]
  /\ rvideo' = [rvideo EXCEPT ![p] = NoVideo]
  /\ rcopy' = [rcopy EXCEPT ![p] = NoState]
  /\ UNCHANGED <<redisVars, minioVars, webhooks, submitted, failures, unrecorded, faults,
                 timeouts>>

-----------------------------------------------------------------------------
\* One command of job goroutine s.
JobStep(s) ==
  \/ SetJobProcessingGet(s) \/ SetJobProcessing(s)
  \/ Download(s) \/ Process(s) \/ Upload(s) \/ ArchiveCopy(s) \/ ArchiveRemove(s)
  \/ PublishSuccessMessage(s) \/ SetJobDoneGet(s) \/ SetJobDone(s) \/ NotifySuccess(s)
  \/ SetJobFailedGet(s) \/ SetJobFailed(s)
  \/ RequeueJobGet(s) \/ RequeueJobSet(s) \/ RequeueJobPush(s) \/ MoveToDLQ(s)
  \/ AcknowledgeMessage(s)

RecoveryStep(p) ==
  RecoverScan(p) \/ RecoverGet(p) \/ RecoverSet(p) \/ RecoverRem(p) \/ RecoverPush(p)

Next ==
  \/ \E v \in Videos : PublishJob(v) \/ Age(v) \/ Expire(v)
  \/ \E s \in Attempts : JobStep(s) \/ Timeout(s) \/ \E v \in Videos : ConsumeMessage(s, v)
  \/ ConsumeMessageFails
  \/ \E p \in Procs : RecoveryStep(p) \/ Crash(p)

Spec == Init /\ [][Next]_vars

\* Goroutines run and the commands they wait for return; the recovery ticker fires; time passes.
\* BRPOPLPUSH takes the oldest message, so a worker that keeps consuming gets to each of them.
\* Nothing has to fail, crash or time out, and nobody has to submit a video.
Fairness ==
  /\ \A s \in Attempts : WF_vars(JobStep(s))
  /\ \A p \in Procs : WF_vars(RecoveryStep(p))
  /\ \A v \in Videos : WF_vars(Age(v)) /\ SF_vars(\E s \in Attempts : ConsumeMessage(s, v))

FairSpec == Spec /\ Fairness

-----------------------------------------------------------------------------
\* Properties

\* Every variable has its type, and a goroutine or a recovery loop that works on something
\* works on a video.
TypeOK ==
  /\ requestQ \in [Videos -> Nat] /\ processingQ \in [Videos -> Nat]
  /\ deadQ \subseteq Videos /\ finishedQ \subseteq Videos
  /\ jobState \in [Videos -> JobStates] /\ aged \subseteq Videos
  /\ raw \subseteq Videos /\ archived \subseteq Videos /\ processed \subseteq Videos
  /\ pc \in [Attempts -> JobSteps]
  /\ video \in [Attempts -> Videos \cup {NoVideo}]
  /\ copy \in [Attempts -> JobStates]
  /\ ctx \in [Attempts -> Contexts]
  /\ rpc \in [Procs -> RecoverySteps]
  /\ todo \in [Procs -> SUBSET Videos]
  /\ rvideo \in [Procs -> Videos \cup {NoVideo}]
  /\ rcopy \in [Procs -> JobStates]
  /\ webhooks \subseteq Videos \X BOOLEAN
  /\ submitted \subseteq Videos /\ requeued \subseteq Attempts
  /\ dropped \subseteq Videos /\ unrecorded \subseteq Videos
  /\ failures \in [Videos -> Nat]
  /\ faults \in Nat /\ crashes \in Nat /\ timeouts \in Nat
  /\ \A s \in Attempts : pc[s] # "free" => video[s] \in Videos
  /\ \A p \in Procs : rpc[p] # "scan" => rvideo[p] \in Videos

Settled(v) == v \in finishedQ \cup deadQ

\* The recovery loops that hold v between the LREM and the LPUSH.
Carriers(v) == {p \in Procs : rpc[p] = "push" /\ rvideo[p] = v}

\* The goroutines that have pushed v back and will still remove one copy of it.
Returners(v) == {s \in requeued : video[s] = v}

\* Copies of v that a worker can still get, or that keep a crashed worker's job.
Copies(v) == requestQ[v] + processingQ[v] + Cardinality(Carriers(v))

\* Acknowledgements remove one copy, no matter whose (LREM 1), and retries, recoveries and
\* crashes interleave freely; still a job that is neither finished nor dead keeps a copy in a
\* queue, unless one of its hand-overs failed or died between LREM and LPUSH.
NoSilentLoss ==
  \A v \in submitted : Settled(v) \/ v \in dropped \/ Copies(v) > 0

\* Why no copy is lost: each pending removal of a retried job is matched by a copy of its own,
\* and one more copy stands for the job itself.
CopiesCounted ==
  \A v \in Videos :
    \/ Settled(v) \/ v \in dropped
    \/ Cardinality(Returners(v)) + (IF v \in submitted THEN 1 ELSE 0) <= Copies(v)

\* Concurrent attempts overwrite each other's retry counters, and RequeueJob and recovery write
\* stale ones; still no job reaches the dead letter queue before it has really failed more than
\* MaxJobRetries times, unless a failure could not be recorded.  That is the limit of the code and
\* of the comment on MaxJobRetries (retries after the initial attempt); the documentation has one
\* attempt less, see GivenUpAfterMaxFailures.
DeadLetterJustified ==
  \A v \in deadQ : failures[v] > MaxJobRetries \/ v \in unrecorded

\* A job that says done, or was reported as a success, has its processed video in MinIO and its
\* message in the finished queue.
DoneImpliesPublished ==
  \A v \in Videos :
    jobState[v].status = "done" \/ <<v, TRUE>> \in webhooks => v \in finishedQ /\ v \in processed

\* At any moment, whatever two attempts on one video do, its source is in raw/ or in
\* raw-archived/, and it has left raw/ only if the processed video exists.
SourceKept ==
  \A v \in Videos : /\ v \in raw \cup archived
                    /\ v \in raw \cup processed

\* The attempts on v that have not acknowledged yet.
Running(v) == {s \in Attempts : video[s] = v}

\* Without faults and timeouts, and with crashes only of a single instance, each running attempt
\* has a copy of its own in the processing queue, which a restart needs to find the job, and no
\* two attempts process the same video.
Undisturbed == faults = 0 /\ timeouts = 0 /\ (crashes = 0 \/ Cardinality(Procs) = 1)

ExclusiveProcessing ==
  Undisturbed =>
    \A v \in Videos :
      /\ Cardinality(Running(v)) <= processingQ[v]
      /\ Cardinality({s \in Running(v) : s \notin requeued}) + requestQ[v] <= 1

\* Each setter writes back a counter that it has read before, and recovery does too; still, as
\* long as nothing fails or times out, no failed attempt and no recovery is forgotten.
NoFailureForgotten ==
  Undisturbed => \A v \in Videos : failures[v] <= jobState[v].retry

-----------------------------------------------------------------------------
\* Liveness

\* An orphan the recovery loop does not recognise: nobody works on it and its state does not
\* say processing.
Stranded(v) ==
  /\ processingQ[v] > 0 /\ requestQ[v] = 0
  /\ Running(v) = {} /\ \A p \in Procs : rvideo[p] # v
  /\ jobState[v].status # "processing"

\* Whatever happened to its attempts, every submitted job is finished or dead in the end, unless
\* a crash leaves it stranded or loses it.
JobSettles ==
  \A v \in Videos : v \in submitted ~> Settled(v) \/ v \in dropped \/ Stranded(v)

\* Retries come to an end: from some point on no attempt on v runs or waits, and the processing
\* queue keeps nothing of it but a stranded copy.
RetriesEnd ==
  \A v \in Videos :
    <>[](requestQ[v] = 0 /\ Running(v) = {} /\ (processingQ[v] = 0 \/ Stranded(v)))

\* Once the job of a producer that asked for a callback is over, a goroutine is started that sends
\* its notification, unless a crash leaves the job stranded: a crash just before NotifySuccess reads
\* a state that says done.  What becomes of the goroutine and of its requests is Webhook's subject.
NotificationStarted ==
  \A v \in WithCallback :
    v \in submitted ~> (\E ok \in BOOLEAN : <<v, ok>> \in webhooks) \/ v \in dropped \/ Stranded(v)

-----------------------------------------------------------------------------
\* Statements of the documentation and of comments that the code does not keep

\* "Background recovery loop re-queues anything stuck in :processing beyond the job budget."
OrphansRequeued ==
  \A v \in Videos :
    processingQ[v] > 0 /\ Running(v) = {} ~>
      requestQ[v] > 0 \/ Running(v) # {} \/ processingQ[v] = 0

\* Processing is "idempotent per videoID": doing a finished job again leaves it finished.
FinishedStaysFinished ==
  \A v \in finishedQ : v \notin deadQ

\* "Jobs land here after MaxJobRetries = 3 failed attempts": no further attempt is made at a job
\* that has failed MaxJobRetries times.
GivenUpAfterMaxFailures ==
  [][\A s \in Attempts :
       pc[s] = "free" /\ pc'[s] # "free" => failures[video'[s]] < MaxJobRetries]_vars

=============================================================================
