---------------------- MODULE JobQueueExclusionProofs ----------------------
(***************************************************************************)
(* No two attempts process one video, each has a copy of its own, and no   *)
(* failure is missing from the counter of its job, as long as nothing      *)
(* fails or times out and at most a single instance crashes: proofs for    *)
(* all videos, goroutines, retries and crashes.                            *)
(*                                                                         *)
(* The argument is that of a token.  A video has one, in the request       *)
(* queue, with an attempt that has not handed it over, or with a recovery  *)
(* loop; and the status in its job state tells who may have it, so that    *)
(* the recovery takes it from nobody.  Who has the token is the only one   *)
(* to write the job state, so what it read before is what it still says.   *)
(* Without a crash a job that is over has no token left, and stays over.   *)
(***************************************************************************)
EXTENDS JobQueueProofs

USE ConstantsAssumption

Status(v) == jobState[v].status

\* The attempts on v that have not handed it over.
Working(v) == {s \in Attempts : video[s] = v /\ s \notin requeued}

GoroutineInv ==
  \A s \in Attempts :
    /\ pc[s] = "free" <=> video[s] = NoVideo
    /\ pc[s] \notin {"free", "procGet", "procSet"} => ctx[s] = "stamped"
    /\ s \in requeued => pc[s] = "ack"

SubmittedInv ==
  /\ \A v \in Videos : v \notin submitted => requestQ[v] = 0 /\ Status(v) = "none"
  /\ \A s \in Attempts : video[s] \in submitted \cup {NoVideo}

\* What the job state says while an attempt that has not handed its job over is at a command.
StatusInv ==
  \A s \in Attempts : pc[s] # "free" /\ s \notin requeued =>
    /\ pc[s] \in {"procGet", "procSet", "reqPush"} => Status(video[s]) = "pending"
    /\ pc[s] = "hookGet" => Status(video[s]) = "done"
    /\ pc[s] \in {"reqGet", "reqSet", "dlqPush"} => Status(video[s]) = "failed"
    /\ pc[s] = "ack" => Status(video[s]) \in {"done", "failed"}

\* The token is in the request queue or with one attempt.
TokenInv ==
  \A v \in Videos :
    /\ requestQ[v] \in {0, 1}
    /\ requestQ[v] > 0 => Status(v) = "pending" /\ Working(v) = {}
    /\ \A s, t \in Working(v) : s = t

\* A state that looks like an orphan's is one, and stays so until its recovery is over.
OrphanInv ==
  /\ \A v \in aged : Status(v) = "processing" => Running(v) = {}
  /\ \A p \in Procs : rpc[p] # "scan" =>
       /\ Running(rvideo[p]) = {} /\ requestQ[rvideo[p]] = 0
       /\ rpc[p] = "set" => rcopy[p].status = "pending"
       /\ rpc[p] # "set" => Status(rvideo[p]) = "pending"
       /\ rvideo[p] \in submitted

\* Without a crash every job that is processing has its attempt, and there are no orphans.
UncrashedInv ==
  crashes = 0 =>
    /\ aged = {}
    /\ \A p \in Procs : rpc[p] = "scan"
    /\ \A v \in Videos : Status(v) = "processing" => \E s \in Working(v) : ctx[s] = "stamped"

CopyInv == \A v \in Videos : Cardinality(Running(v)) <= processingQ[v]

\* The parts that do not count.
ControlInv ==
  GoroutineInv /\ SubmittedInv /\ StatusInv /\ TokenInv /\ OrphanInv /\ UncrashedInv

ExclusionInv == TypeOK /\ (Undisturbed => ControlInv /\ CopyInv)

-----------------------------------------------------------------------------
\* What a command of a goroutine does, in the terms of the invariant

\* The parts of the state that most commands leave alone.
TokensStay ==
  UNCHANGED <<requestQ, processingQ, submitted, rpc, rvideo, rcopy, crashes, video, requeued>>

\* The commands whose next one says nothing of the status.
Mute == {"download", "process", "upload", "archiveCopy", "archiveRemove", "publish", "doneGet",
         "doneSet", "failGet", "failSet"}

\* s goes on and leaves the job state alone.
Moves(s) ==
  /\ TokensStay
  /\ UNCHANGED <<jobState, aged, ctx>>
  /\ \E next \in JobSteps :
       /\ Goto(s, next)
       /\ \/ pc[s] = "procGet" /\ next = "procSet"
          \/ pc[s] \notin {"free", "procGet", "procSet", "ack"} /\ next \in Mute
          \/ pc[s] = "reqGet" /\ next = "reqSet"
          \/ pc[s] \in {"hookGet", "dlqPush"} /\ next = "ack"

StatusBecomes(v, status) ==
  /\ \A w \in Videos : Status(w)' = IF w = v THEN status ELSE Status(w)
  /\ aged' = aged \ {v}

\* s writes the job state and goes on.
Writes(s) ==
  /\ TokensStay
  /\ \E next \in JobSteps, status \in Statuses :
       /\ Goto(s, next)
       /\ StatusBecomes(video[s], status)
       /\ \/ /\ pc[s] = "procSet" /\ next = "download" /\ status = "processing"
             /\ ctx' = [ctx EXCEPT ![s] = "stamped"]
          \/ /\ UNCHANGED ctx
             /\ \/ pc[s] = "doneSet" /\ next = "hookGet" /\ status = "done"
                \/ pc[s] = "failSet" /\ next \in {"reqGet", "dlqPush"} /\ status = "failed"
                \/ pc[s] = "reqSet" /\ next = "reqPush" /\ status = "pending"

\* Nothing fails in a step after which nothing has failed.
LEMMA Unfailing ==
  ASSUME TypeOK, Undisturbed'
  PROVE  ~Fault
BY DEF TypeOK, Undisturbed, Fault

\* What a step disturbs stays disturbed.
LEMMA UndisturbedBefore ==
  ASSUME TypeOK, [Next]_vars, Undisturbed'
  PROVE  Undisturbed /\ faults' = faults /\ timeouts' = timeouts
<1> USE DEF TypeOK, redisVars, minioVars, jobVars, recoverVars, historyVars, boundVars, Fault,
            Undisturbed
<1>1. ASSUME NEW s \in Attempts, JobStep(s)
      PROVE  faults' \in {faults, faults + 1} /\ crashes' = crashes /\ timeouts' = timeouts
  BY <1>1 DEF JobStep, SetJobProcessingGet, SetJobDoneGet, SetJobFailedGet, SetterGet, GetJobState,
     SetJobProcessing, Download, Process, Upload, ArchiveCopy, ArchiveRemove,
     PublishSuccessMessage, SetJobDone, SetJobStateFails, NotifySuccess, SetJobFailed,
     RequeueJobGet, RequeueJobSet, RequeueJobPush, MoveToDLQ, AcknowledgeMessage
<1>2. ASSUME NEW p \in Procs, RecoveryStep(p)
      PROVE  faults' \in {faults, faults + 1} /\ crashes' = crashes /\ timeouts' = timeouts
  BY <1>2 DEF RecoveryStep, RecoverScan, RecoverGet, GetJobState, RecoverSet, SetJobStateFails,
     RecoverRem, RecoverPush
<1>3. ASSUME NEW p \in Procs, Crash(p)
      PROVE  faults' = faults /\ crashes' = crashes + 1 /\ timeouts' = timeouts
  BY <1>3 DEF Crash
<1>4. ASSUME NEW v \in Videos, PublishJob(v) \/ Age(v) \/ Expire(v)
      PROVE  faults' \in {faults, faults + 1} /\ crashes' = crashes /\ timeouts' = timeouts
  BY <1>4 DEF PublishJob, Age, Expire
<1>5. ASSUME NEW s \in Attempts, Timeout(s)
      PROVE  timeouts' = timeouts + 1
  BY <1>5 DEF Timeout
<1>6. ASSUME NEW s \in Attempts, NEW v \in Videos, ConsumeMessage(s, v)
      PROVE  faults' = faults /\ crashes' = crashes /\ timeouts' = timeouts
  BY <1>6 DEF ConsumeMessage
<1>7. CASE ConsumeMessageFails
  BY <1>7 DEF ConsumeMessageFails
<1>8. CASE UNCHANGED vars
  BY <1>8 DEF vars
<1> QED BY <1>1, <1>2, <1>3, <1>4, <1>5, <1>6, <1>7, <1>8 DEF Next

\* The status that a written state has.
LEMMA StatusWritten ==
  ASSUME TypeOK, NEW v \in Videos, NEW state \in JobStates, SetJobState(v, state)
  PROVE  StatusBecomes(v, state.status)
BY DEF TypeOK, SetJobState, StatusBecomes, Status

\* Every command of a goroutine, when nothing fails.
LEMMA JobEffect ==
  ASSUME TypeOK, StatusInv, GoroutineInv, ~Fault, NEW s \in Attempts, JobStep(s)
  PROVE  Moves(s) \/ Writes(s) \/ RequeueJobPush(s) \/ AcknowledgeMessage(s)
<1> USE DEF redisVars, minioVars, recoverVars, historyVars, boundVars
<1>0. /\ video[s] \in Videos \cup {NoVideo} /\ copy[s] \in JobStates
      /\ pc[s] # "free" => video[s] \in Videos
  BY DEF TypeOK
<1>1. CASE SetJobProcessingGet(s) \/ SetJobDoneGet(s) \/ SetJobFailedGet(s)
  <2>1. TokensStay /\ UNCHANGED <<jobState, aged, ctx>>
    BY <1>1 DEF SetJobProcessingGet, SetJobDoneGet, SetJobFailedGet, SetterGet, GetJobState,
       TokensStay
  <2>2. \/ pc[s] = "procGet" /\ Goto(s, "procSet")
        \/ pc[s] = "doneGet" /\ Goto(s, "doneSet")
        \/ pc[s] = "failGet" /\ Goto(s, "failSet")
    BY <1>1 DEF SetJobProcessingGet, SetJobDoneGet, SetJobFailedGet, SetterGet
  <2> QED BY <2>1, <2>2 DEF Moves, Mute, JobSteps, WorkerSteps, DeferredSteps
<1>2. CASE SetJobProcessing(s)
  <2> DEFINE state == [copy[s] EXCEPT !.status = "processing"]
  <2>1. state \in JobStates /\ state.status = "processing"
    BY <1>0, StateType, StateFields
  <2> HIDE DEF state
  <2>2. /\ SetJobState(video[s], state) /\ Goto(s, "download") /\ pc[s] = "procSet"
        /\ ctx' = [ctx EXCEPT ![s] = "stamped"] /\ TokensStay
    BY <1>2 DEF SetJobProcessing, TokensStay, state
  <2>3. StatusBecomes(video[s], "processing")
    BY <1>0, <2>1, <2>2, StatusWritten
  <2> QED BY <2>2, <2>3 DEF Writes, JobSteps, WorkerSteps, Statuses
<1>3. CASE Download(s) \/ Process(s) \/ Upload(s) \/ ArchiveCopy(s) \/ ArchiveRemove(s)
           \/ PublishSuccessMessage(s)
  BY <1>3 DEF Download, Process, Upload, ArchiveCopy, ArchiveRemove, PublishSuccessMessage, Fail,
     Goto, Moves, TokensStay, Mute, JobSteps, WorkerSteps, DeferredSteps
<1>4. CASE SetJobDone(s)
  <2> DEFINE state == [copy[s] EXCEPT !.status = "done"]
  <2>1. state \in JobStates /\ state.status = "done"
    BY <1>0, StateType, StateFields
  <2> HIDE DEF state
  <2>2. /\ SetJobState(video[s], state) /\ Goto(s, "hookGet") /\ pc[s] = "doneSet"
        /\ ctx' = ctx /\ TokensStay
    BY <1>4 DEF SetJobDone, SetJobStateFails, TokensStay, state
  <2>3. StatusBecomes(video[s], "done")
    BY <1>0, <2>1, <2>2, StatusWritten
  <2> QED BY <2>2, <2>3 DEF Writes, JobSteps, WorkerSteps, Statuses
<1>5. CASE NotifySuccess(s) \/ MoveToDLQ(s)
  <2>1. TokensStay /\ UNCHANGED <<jobState, aged, ctx>>
    BY <1>5 DEF NotifySuccess, MoveToDLQ, GetJobState, TokensStay
  <2>2. pc[s] \in {"hookGet", "dlqPush"} /\ Goto(s, "ack")
    BY <1>5 DEF NotifySuccess, MoveToDLQ
  <2> QED BY <2>1, <2>2 DEF Moves, JobSteps, DeferredSteps
<1>6. CASE SetJobFailed(s)
  <2> DEFINE state == FailedState(copy[s])
  <2>1. state \in JobStates /\ state.status = "failed"
    BY <1>0, FailedType, StateFields
  <2> HIDE DEF state
  <2>2. /\ SetJobState(video[s], state) /\ pc[s] = "failSet"
        /\ Goto(s, "reqGet") \/ Goto(s, "dlqPush")
        /\ ctx' = ctx /\ TokensStay
    BY <1>6 DEF SetJobFailed, SetJobStateFails, TokensStay, state
  <2>3. StatusBecomes(video[s], "failed")
    BY <1>0, <2>1, <2>2, StatusWritten
  <2> QED BY <2>2, <2>3 DEF Writes, JobSteps, DeferredSteps, Statuses
<1>7. CASE RequeueJobGet(s)
  <2>1. jobState[video[s]] # NoState
    <3>1. pc[s] = "reqGet" /\ s \notin requeued
      BY <1>7 DEF RequeueJobGet, GoroutineInv
    <3>2. Status(video[s]) = "failed"
      BY <3>1 DEF StatusInv
    <3> QED BY <3>2 DEF Status, NoState
  <2>2. pc[s] = "reqGet" /\ Goto(s, "reqSet")
    BY <1>7, <2>1 DEF RequeueJobGet, GetJobState
  <2>3. TokensStay /\ UNCHANGED <<jobState, aged, ctx>>
    BY <1>7 DEF RequeueJobGet, GetJobState, TokensStay
  <2> QED BY <2>2, <2>3 DEF Moves, JobSteps, DeferredSteps
<1>8. CASE RequeueJobSet(s)
  <2> DEFINE state == [copy[s] EXCEPT !.status = "pending"]
  <2>1. state \in JobStates /\ state.status = "pending"
    BY <1>0, StateType, StateFields
  <2> HIDE DEF state
  <2>2. /\ SetJobState(video[s], state) /\ Goto(s, "reqPush") /\ pc[s] = "reqSet"
        /\ ctx' = ctx /\ TokensStay
    BY <1>8 DEF RequeueJobSet, SetJobStateFails, TokensStay, state
  <2>3. StatusBecomes(video[s], "pending")
    BY <1>0, <2>1, <2>2, StatusWritten
  <2> QED BY <2>2, <2>3 DEF Writes, JobSteps, DeferredSteps, Statuses
<1> QED
  BY <1>1, <1>2, <1>3, <1>4, <1>5, <1>6, <1>7, <1>8 DEF JobStep

-----------------------------------------------------------------------------
\* The control part survives every step.

\* A step that leaves the attempts' videos and their hand-overs alone leaves these sets alone.
LEMMA SameAttempts ==
  ASSUME UNCHANGED <<video, requeued>>, NEW v
  PROVE  Working(v)' = Working(v) /\ Running(v)' = Running(v)
BY DEF Working, Running

LEMMA MovesControl ==
  ASSUME TypeOK, ControlInv, NEW s \in Attempts, Moves(s)
  PROVE  ControlInv'
<1>1. TokensStay /\ UNCHANGED <<jobState, aged, ctx>>
  BY DEF Moves
<1>2. \A v : Status(v)' = Status(v) /\ Working(v)' = Working(v) /\ Running(v)' = Running(v)
  BY <1>1, SameAttempts DEF TokensStay, Status
<1>3. PICK next \in JobSteps :
        /\ pc' = [pc EXCEPT ![s] = next]
        /\ \/ pc[s] = "procGet" /\ next = "procSet"
           \/ pc[s] \notin {"free", "procGet", "procSet", "ack"} /\ next \in Mute
           \/ pc[s] = "reqGet" /\ next = "reqSet"
           \/ pc[s] \in {"hookGet", "dlqPush"} /\ next = "ack"
  BY DEF Moves, Goto
<1>4. \A t \in Attempts : pc'[t] = IF t = s THEN next ELSE pc[t]
  BY <1>3 DEF TypeOK
<1>5. GoroutineInv' /\ SubmittedInv'
  BY <1>1, <1>2, <1>3, <1>4 DEF ControlInv, GoroutineInv, SubmittedInv, TokensStay, Mute
<1>6. StatusInv'
  BY <1>1, <1>2, <1>3, <1>4 DEF ControlInv, StatusInv, GoroutineInv, TokensStay, Mute
<1>7. TokenInv'
  BY <1>1, <1>2 DEF ControlInv, TokenInv, TokensStay
<1>8. OrphanInv'
  BY <1>1, <1>2 DEF ControlInv, OrphanInv, TokensStay
<1>9. UncrashedInv'
  BY <1>1, <1>2 DEF ControlInv, UncrashedInv, TokensStay
<1> QED BY <1>5, <1>6, <1>7, <1>8, <1>9 DEF ControlInv

\* The attempt that writes is the one that has the token.
LEMMA WritesControl ==
  ASSUME TypeOK, ControlInv, NEW s \in Attempts, Writes(s)
  PROVE  ControlInv'
<1> DEFINE v == video[s]
<1>1. TokensStay
  BY DEF Writes
<1>2. PICK next \in JobSteps, status \in Statuses :
        /\ pc' = [pc EXCEPT ![s] = next]
        /\ StatusBecomes(v, status)
        /\ \/ /\ pc[s] = "procSet" /\ next = "download" /\ status = "processing"
              /\ ctx' = [ctx EXCEPT ![s] = "stamped"]
           \/ /\ UNCHANGED ctx
              /\ \/ pc[s] = "doneSet" /\ next = "hookGet" /\ status = "done"
                 \/ pc[s] = "failSet" /\ next \in {"reqGet", "dlqPush"} /\ status = "failed"
                 \/ pc[s] = "reqSet" /\ next = "reqPush" /\ status = "pending"
  BY DEF Writes, Goto
<1>3. /\ v \in Videos /\ v # NoVideo /\ s \notin requeued /\ pc[s] # "free"
      /\ s \in Working(v) /\ s \in Running(v) /\ v \in submitted
  BY <1>2 DEF TypeOK, ControlInv, GoroutineInv, SubmittedInv, Working, Running
<1>4. /\ \A t \in Attempts : pc'[t] = IF t = s THEN next ELSE pc[t]
      /\ \A t \in Attempts \ {s} : ctx'[t] = ctx[t]
      /\ ctx'[s] = "stamped"
  BY <1>2 DEF TypeOK, ControlInv, GoroutineInv
<1>5. \A w : Working(w)' = Working(w) /\ Running(w)' = Running(w)
  BY <1>1, SameAttempts DEF TokensStay
<1>6. /\ \A w \in Videos : Status(w)' = IF w = v THEN status ELSE Status(w)
      /\ aged' = aged \ {v}
  BY <1>2 DEF StatusBecomes
<1>7. \A t \in Attempts : t # s /\ t \notin requeued /\ pc[t] # "free" => video[t] # v
  BY <1>3 DEF ControlInv, TokenInv, Working
<1> HIDE DEF v
<1>8. GoroutineInv' /\ SubmittedInv'
  BY <1>1, <1>2, <1>3, <1>4, <1>6 DEF ControlInv, GoroutineInv, SubmittedInv, TokensStay
<1>9. StatusInv'
  <2> SUFFICES ASSUME NEW t \in Attempts, pc'[t] # "free", t \notin requeued
               PROVE  /\ pc'[t] \in {"procGet", "procSet", "reqPush"} => (Status(video[t]) = "pending")'
                      /\ pc'[t] = "hookGet" => (Status(video[t]) = "done")'
                      /\ pc'[t] \in {"reqGet", "reqSet", "dlqPush"} => (Status(video[t]) = "failed")'
                      /\ pc'[t] = "ack" => (Status(video[t]) \in {"done", "failed"})'
    BY <1>1 DEF StatusInv, TokensStay
  <2>1. video'[t] = video[t]
    BY <1>1 DEF TokensStay
  <2>2. CASE t = s
    BY <1>2, <1>3, <1>4, <1>6, <2>1, <2>2 DEF v, Status
  <2>3. CASE t # s
    <3>1. pc'[t] = pc[t] /\ video[t] # v /\ video[t] \in Videos
      BY <1>4, <1>7, <2>3 DEF TypeOK
    <3>2. Status(video[t])' = Status(video[t])
      BY <1>6, <2>1, <3>1 DEF Status
    <3> QED BY <2>1, <3>1, <3>2 DEF ControlInv, StatusInv
  <2> QED BY <2>2, <2>3
<1>10. TokenInv'
  BY <1>1, <1>3, <1>5, <1>6 DEF ControlInv, TokenInv, TokensStay
<1>11. OrphanInv'
  BY <1>1, <1>3, <1>5, <1>6 DEF ControlInv, OrphanInv, TokensStay, TypeOK
<1>12. UncrashedInv'
  BY <1>1, <1>2, <1>3, <1>4, <1>5, <1>6 DEF ControlInv, UncrashedInv, TokensStay, Working
<1> QED BY <1>8, <1>9, <1>10, <1>11, <1>12 DEF ControlInv

\* The token goes from the attempt to the request queue.
LEMMA PushControl ==
  ASSUME TypeOK, ControlInv, ~Fault, NEW s \in Attempts, RequeueJobPush(s)
  PROVE  ControlInv'
<1>0. PICK v : v = video[s]
  OBVIOUS
<1>1. /\ pc[s] = "reqPush" /\ pc' = [pc EXCEPT ![s] = "ack"]
      /\ requestQ' = [requestQ EXCEPT ![v] = @ + 1]
      /\ requeued' = requeued \cup {s}
      /\ UNCHANGED <<processingQ, jobState, aged, video, ctx, rpc, rvideo, rcopy, submitted, crashes>>
  BY <1>0 DEF RequeueJobPush, Goto, LPush, recoverVars, boundVars
<1>2. /\ v \in Videos /\ s \notin requeued /\ s \in Working(v) /\ s \in Running(v)
      /\ v \in submitted /\ Status(v) = "pending"
  BY <1>0, <1>1 DEF TypeOK, ControlInv, GoroutineInv, SubmittedInv, StatusInv, Working, Running
<1>3. requestQ[v] = 0 /\ requestQ'[v] = 1
  BY <1>1, <1>2 DEF TypeOK, ControlInv, TokenInv
<1>4. /\ \A w \in Videos \ {v} : requestQ'[w] = requestQ[w]
      /\ \A t \in Attempts : pc'[t] = IF t = s THEN "ack" ELSE pc[t]
  BY <1>1 DEF TypeOK
<1>5. \A w : Status(w)' = Status(w) /\ Running(w)' = Running(w)
             /\ Working(w)' = Working(w) \ {s}
  BY <1>1 DEF Status, Running, Working
<1>6. Working(v)' = {} /\ \A w : w # v => Working(w)' = Working(w)
  <2>1. Working(v) = {s}
    BY <1>2 DEF ControlInv, TokenInv
  <2>2. \A w : w # v => s \notin Working(w)
    BY <1>0 DEF Working
  <2>3. Working(v)' = {}
    BY <1>5, <2>1
  <2>4. ASSUME NEW w, w # v PROVE Working(w)' = Working(w)
    BY <1>5, <2>2, <2>4
  <2> QED BY <2>3, <2>4
<1>7. GoroutineInv'
  BY <1>1, <1>4 DEF ControlInv, GoroutineInv
<1>8. SubmittedInv'
  BY <1>1, <1>2, <1>4, <1>5 DEF ControlInv, SubmittedInv
<1>9. StatusInv'
  BY <1>1, <1>4, <1>5 DEF ControlInv, StatusInv
<1>10. TokenInv'
  BY <1>2, <1>3, <1>4, <1>5, <1>6 DEF ControlInv, TokenInv
<1>11. OrphanInv'
  BY <1>1, <1>2, <1>4, <1>5 DEF ControlInv, OrphanInv, TypeOK
<1>12. UncrashedInv'
  BY <1>1, <1>2, <1>5, <1>6 DEF ControlInv, UncrashedInv
<1> QED BY <1>7, <1>8, <1>9, <1>10, <1>11, <1>12 DEF ControlInv

\* An attempt that acknowledges has no token any more, and its job is not processing.
LEMMA AckControl ==
  ASSUME TypeOK, ControlInv, NEW s \in Attempts, AcknowledgeMessage(s)
  PROVE  ControlInv'
<1>1. /\ pc[s] = "ack" /\ pc' = [pc EXCEPT ![s] = "free"]
      /\ video' = [video EXCEPT ![s] = NoVideo]
      /\ ctx' = [ctx EXCEPT ![s] = "none"]
      /\ requeued' = requeued \ {s}
      /\ UNCHANGED <<requestQ, jobState, aged, rpc, rvideo, rcopy, submitted, crashes>>
  BY DEF AcknowledgeMessage, Goto, recoverVars, boundVars, Fault
<1>2. \A t \in Attempts :
        /\ pc'[t] = IF t = s THEN "free" ELSE pc[t]
        /\ video'[t] = IF t = s THEN NoVideo ELSE video[t]
        /\ ctx'[t] = IF t = s THEN "none" ELSE ctx[t]
  BY <1>1 DEF TypeOK
<1>3. \A w \in Videos : /\ Status(w)' = Status(w)
                        /\ Running(w)' = Running(w) \ {s}
                        /\ Working(w)' = Working(w) \ {s}
  BY <1>1, <1>2 DEF Status, Running, Working
<1>4. \A w \in Videos : s \in Working(w) => Status(w) # "processing"
  BY <1>1 DEF ControlInv, StatusInv, Working
<1>5. GoroutineInv'
  BY <1>1, <1>2 DEF ControlInv, GoroutineInv
<1>6. SubmittedInv'
  BY <1>1, <1>2, <1>3 DEF ControlInv, SubmittedInv
<1>7. StatusInv'
  <2> SUFFICES ASSUME NEW t \in Attempts, t # s, pc[t] # "free", t \notin requeued
               PROVE  /\ pc'[t] \in {"procGet", "procSet", "reqPush"} => (Status(video[t]) = "pending")'
                      /\ pc'[t] = "hookGet" => (Status(video[t]) = "done")'
                      /\ pc'[t] \in {"reqGet", "reqSet", "dlqPush"} => (Status(video[t]) = "failed")'
                      /\ pc'[t] = "ack" => (Status(video[t]) \in {"done", "failed"})'
    BY <1>1, <1>2 DEF StatusInv
  <2>1. pc'[t] = pc[t] /\ Status(video[t])' = Status(video[t])
    BY <1>1, <1>2 DEF Status
  <2> QED BY <2>1 DEF ControlInv, StatusInv
<1>8. TokenInv'
  BY <1>1, <1>3 DEF ControlInv, TokenInv
<1>9. OrphanInv'
  <2>1. \A v \in aged : v \in Videos
    BY DEF TypeOK
  <2>2. \A p \in Procs : rpc[p] # "scan" => rvideo[p] \in Videos
    BY DEF TypeOK
  <2> QED BY <1>1, <1>3, <2>1, <2>2 DEF ControlInv, OrphanInv, Status
<1>10. UncrashedInv'
  <2> SUFFICES ASSUME crashes = 0, NEW v \in Videos, Status(v) = "processing"
               PROVE  \E t \in Working(v)' : ctx'[t] = "stamped"
    BY <1>1, <1>3 DEF ControlInv, UncrashedInv
  <2>1. PICK t \in Working(v) : ctx[t] = "stamped"
    BY DEF ControlInv, UncrashedInv
  <2>2. t # s /\ t \in Attempts
    BY <1>4, <2>1 DEF Working
  <2> QED BY <1>2, <1>3, <2>1, <2>2
<1> QED BY <1>5, <1>6, <1>7, <1>8, <1>9, <1>10 DEF ControlInv

\* The token goes from the request queue to an attempt.
LEMMA ConsumeControl ==
  ASSUME TypeOK, ControlInv, NEW s \in Attempts, NEW v \in Videos, ConsumeMessage(s, v)
  PROVE  ControlInv'
<1>1. /\ pc[s] = "free" /\ pc' = [pc EXCEPT ![s] = "procGet"]
      /\ video' = [video EXCEPT ![s] = v]
      /\ requestQ[v] > 0 /\ requestQ' = [requestQ EXCEPT ![v] = @ - 1]
      /\ UNCHANGED <<jobState, aged, ctx, rpc, rvideo, rcopy, submitted, requeued, crashes>>
  BY DEF ConsumeMessage, BRPopLPush, Goto, recoverVars, historyVars, boundVars
<1>2. /\ requestQ[v] = 1 /\ requestQ'[v] = 0 /\ Status(v) = "pending" /\ Working(v) = {}
      /\ \A w \in Videos \ {v} : requestQ'[w] = requestQ[w]
      /\ v \in submitted /\ v # NoVideo
      /\ video[s] = NoVideo /\ s \notin requeued
  BY <1>1 DEF TypeOK, ControlInv, TokenInv, SubmittedInv, GoroutineInv
<1>3. \A t \in Attempts :
        /\ pc'[t] = IF t = s THEN "procGet" ELSE pc[t]
        /\ video'[t] = IF t = s THEN v ELSE video[t]
  BY <1>1 DEF TypeOK
<1>4. \A w \in Videos : /\ Status(w)' = Status(w)
                        /\ Running(w)' = IF w = v THEN Running(w) \cup {s} ELSE Running(w)
                        /\ Working(w)' = IF w = v THEN {s} ELSE Working(w)
  <2>1. \A w \in Videos : Status(w)' = Status(w)
    BY <1>1 DEF Status
  <2>2. \A w \in Videos : Running(w)' = IF w = v THEN Running(w) \cup {s} ELSE Running(w)
    BY <1>2, <1>3 DEF Running
  <2>3. \A w \in Videos : Working(w)' = IF w = v THEN Working(w) \cup {s} ELSE Working(w)
    BY <1>1, <1>2, <1>3 DEF Working
  <2> QED BY <1>2, <2>1, <2>2, <2>3
<1>5. GoroutineInv'
  BY <1>1, <1>2, <1>3 DEF ControlInv, GoroutineInv
<1>6. SubmittedInv'
  BY <1>1, <1>2, <1>3, <1>4 DEF ControlInv, SubmittedInv
<1>7. StatusInv'
  BY <1>1, <1>2, <1>3, <1>4 DEF ControlInv, StatusInv, TypeOK
<1>8. TokenInv'
  BY <1>2, <1>4 DEF ControlInv, TokenInv
<1>9. OrphanInv'
  BY <1>1, <1>2, <1>4 DEF ControlInv, OrphanInv, TypeOK
<1>10. UncrashedInv'
  BY <1>1, <1>2, <1>4 DEF ControlInv, UncrashedInv
<1> QED BY <1>5, <1>6, <1>7, <1>8, <1>9, <1>10 DEF ControlInv

\* The producer makes a token for a video that has none.
LEMMA PublishControl ==
  ASSUME TypeOK, ControlInv, NEW v \in Videos, PublishJob(v)
  PROVE  ControlInv'
<1>1. /\ v \notin submitted /\ submitted' = submitted \cup {v}
      /\ requestQ' = [requestQ EXCEPT ![v] = @ + 1]
      /\ aged' = aged \ {v}
      /\ UNCHANGED <<pc, video, ctx, rpc, rvideo, rcopy, requeued, crashes>>
  BY DEF PublishJob, LPush, SetJobState, jobVars, recoverVars, boundVars
<1>2. \A w \in Videos : Status(w)' = IF w = v THEN "pending" ELSE Status(w)
  BY DEF PublishJob, SetJobState, Status, TypeOK
<1>3. \A w : Working(w)' = Working(w) /\ Running(w)' = Running(w)
  BY <1>1, SameAttempts
<1>4. /\ requestQ[v] = 0 /\ requestQ'[v] = 1
      /\ \A w \in Videos \ {v} : requestQ'[w] = requestQ[w]
      /\ \A s \in Attempts : video[s] # v
      /\ Working(v) = {} /\ Running(v) = {}
  BY <1>1 DEF TypeOK, ControlInv, SubmittedInv, Working, Running
<1>5. GoroutineInv'
  BY <1>1 DEF ControlInv, GoroutineInv
<1>6. SubmittedInv'
  BY <1>1, <1>2, <1>4 DEF ControlInv, SubmittedInv
<1>7. StatusInv'
  <2>1. \A s \in Attempts : pc[s] # "free" => Status(video[s])' = Status(video[s])
    BY <1>1, <1>2, <1>4 DEF TypeOK, Status
  <2> QED BY <1>1, <2>1 DEF ControlInv, StatusInv
<1>8. TokenInv'
  BY <1>2, <1>3, <1>4 DEF ControlInv, TokenInv
<1>9. OrphanInv'
  <2>1. \A p \in Procs : rpc[p] # "scan" => rvideo[p] # v /\ rvideo[p] \in Videos
    BY <1>1 DEF TypeOK, ControlInv, OrphanInv
  <2>2. \A p \in Procs : rpc[p] # "scan" => Status(rvideo[p])' = Status(rvideo[p])
    BY <1>1, <1>2, <2>1 DEF Status
  <2>3. \A w \in aged' : Status(w)' = Status(w)
    BY <1>1, <1>2 DEF TypeOK
  <2> QED BY <1>1, <1>3, <1>4, <2>1, <2>2, <2>3 DEF ControlInv, OrphanInv
<1>10. UncrashedInv'
  BY <1>1, <1>2, <1>3, <1>4 DEF ControlInv, UncrashedInv
<1> QED BY <1>5, <1>6, <1>7, <1>8, <1>9, <1>10 DEF ControlInv

\* Only an orphan's state gets old.
LEMMA AgeControl ==
  ASSUME TypeOK, ControlInv, NEW v \in Videos, Age(v)
  PROVE  ControlInv'
<1>1. /\ Status(v) = "processing" /\ BudgetOver(v) /\ aged' = aged \cup {v}
      /\ UNCHANGED <<requestQ, jobState, pc, video, ctx, rpc, rvideo, rcopy, submitted, requeued, crashes>>
  BY DEF Age, Status, jobVars, recoverVars, historyVars, boundVars
<1>2. \A w : Status(w)' = Status(w) /\ Working(w)' = Working(w) /\ Running(w)' = Running(w)
  BY <1>1, SameAttempts DEF Status
<1>3. ASSUME NEW s \in Running(v) PROVE FALSE
  <2>1. s \in Attempts /\ video[s] = v /\ ctx[s] # "stamped" /\ pc[s] # "free"
    BY <1>1 DEF Running, BudgetOver, ControlInv, GoroutineInv
  <2>2. pc[s] \in {"procGet", "procSet"} /\ s \notin requeued
    BY <2>1 DEF ControlInv, GoroutineInv
  <2> QED BY <1>1, <2>1, <2>2 DEF ControlInv, StatusInv
<1>4. crashes # 0
  <2> SUFFICES ASSUME crashes = 0 PROVE FALSE
    OBVIOUS
  <2>1. PICK s \in Working(v) : ctx[s] = "stamped"
    BY <1>1 DEF ControlInv, UncrashedInv
  <2> QED BY <1>3, <2>1 DEF Working, Running
<1>5. GoroutineInv' /\ SubmittedInv'
  BY <1>1, <1>2 DEF ControlInv, GoroutineInv, SubmittedInv
<1>6. StatusInv'
  BY <1>1, <1>2 DEF ControlInv, StatusInv
<1>7. TokenInv'
  BY <1>1, <1>2 DEF ControlInv, TokenInv
<1>8. OrphanInv'
  BY <1>1, <1>2, <1>3 DEF ControlInv, OrphanInv
<1>9. UncrashedInv'
  BY <1>1, <1>4 DEF UncrashedInv
<1> QED BY <1>5, <1>6, <1>7, <1>8, <1>9 DEF ControlInv

\* Where an instance has crashed there is no other one.
LEMMA OneInstance ==
  ASSUME Undisturbed, crashes # 0, NEW p \in Procs, NEW q \in Procs
  PROVE  p = q
<1>1. IsFiniteSet(Procs) /\ Cardinality(Procs) = 1
  BY DEF Undisturbed
<1>2. PICK r : Procs = {r}
  BY <1>1, FS_Singleton
<1> QED BY <1>2

\* The recovery loops leave the attempts alone.
AttemptsStay == UNCHANGED <<pc, video, ctx, requeued, submitted, crashes>>

\* A recovery loop that reads an orphan's state takes a token nobody has.
LEMMA ScanControl ==
  ASSUME TypeOK, ControlInv, ~Fault, NEW p \in Procs, RecoverScan(p) \/ RecoverGet(p)
  PROVE  ControlInv'
<1>1. AttemptsStay /\ UNCHANGED <<requestQ, jobState, aged>>
  BY DEF RecoverScan, RecoverGet, GetJobState, AttemptsStay, redisVars, jobVars, historyVars, boundVars
<1>2. \A w : Status(w)' = Status(w) /\ Working(w)' = Working(w) /\ Running(w)' = Running(w)
  BY <1>1, SameAttempts DEF Status, AttemptsStay
<1>3. GoroutineInv' /\ SubmittedInv'
  BY <1>1, <1>2 DEF ControlInv, GoroutineInv, SubmittedInv, AttemptsStay
<1>4. StatusInv'
  BY <1>1, <1>2 DEF ControlInv, StatusInv, AttemptsStay
<1>5. TokenInv'
  BY <1>1, <1>2 DEF ControlInv, TokenInv
<1>6. CASE UNCHANGED <<rpc, rvideo, rcopy>>
  <2>1. OrphanInv' /\ UncrashedInv'
    BY <1>1, <1>2, <1>6 DEF ControlInv, OrphanInv, UncrashedInv, AttemptsStay
  <2> QED BY <1>3, <1>4, <1>5, <2>1 DEF ControlInv
<1>7. CASE ~UNCHANGED <<rpc, rvideo, rcopy>>
  <2>1. PICK v \in todo[p] :
          /\ Orphan(v, jobState[v])
          /\ rpc' = [rpc EXCEPT ![p] = "set"]
          /\ rvideo' = [rvideo EXCEPT ![p] = v]
          /\ rcopy' = [rcopy EXCEPT ![p] =
                         [jobState[v] EXCEPT !.status = "pending", !.retry = jobState[v].retry + 1]]
    BY <1>7 DEF RecoverScan, RecoverGet, GetJobState, Examine
  <2>2. v \in Videos /\ v \in aged /\ Status(v) = "processing" /\ jobState[v] \in JobStates
    BY <2>1 DEF Orphan, Status, TypeOK
  <2>3. Running(v) = {} /\ requestQ[v] = 0 /\ v \in submitted /\ crashes # 0
    BY <2>2 DEF TypeOK, ControlInv, OrphanInv, TokenInv, SubmittedInv, UncrashedInv
  <2>4. /\ rpc'[p] = "set" /\ rvideo'[p] = v
        /\ rcopy'[p].status = "pending"
        /\ \A q \in Procs \ {p} : rpc'[q] = rpc[q] /\ rvideo'[q] = rvideo[q] /\ rcopy'[q] = rcopy[q]
    <3>1. [jobState[v] EXCEPT !.status = "pending", !.retry = jobState[v].retry + 1].status = "pending"
      BY <2>2 DEF JobStates
    <3> QED BY <2>1, <3>1 DEF TypeOK
  <2>5. OrphanInv'
    <3>1. \A w \in aged' : Status(w)' = "processing" => Running(w)' = {}
      BY <1>1, <1>2 DEF ControlInv, OrphanInv
    <3>2. ASSUME NEW q \in Procs, rpc'[q] # "scan"
          PROVE  /\ Running(rvideo[q])' = {} /\ requestQ'[rvideo'[q]] = 0
                 /\ rpc'[q] = "set" => rcopy'[q].status = "pending"
                 /\ rpc'[q] # "set" => Status(rvideo[q])' = "pending"
                 /\ rvideo'[q] \in submitted'
      <4>1. CASE q = p
        BY <1>1, <1>2, <2>3, <2>4, <4>1 DEF AttemptsStay
      <4>2. CASE q # p
        BY <1>1, <1>2, <2>4, <3>2, <4>2 DEF AttemptsStay, ControlInv, OrphanInv
      <4> QED BY <4>1, <4>2
    <3> QED BY <3>1, <3>2 DEF OrphanInv
  <2>6. UncrashedInv'
    BY <1>1, <2>3 DEF UncrashedInv, AttemptsStay
  <2> QED BY <1>3, <1>4, <1>5, <2>5, <2>6 DEF ControlInv
<1> QED BY <1>6, <1>7

\* It keeps the token until it has pushed the video back.
LEMMA SetControl ==
  ASSUME TypeOK, ControlInv, ~Fault, NEW p \in Procs, RecoverSet(p)
  PROVE  ControlInv'
<1>0. PICK v : v = rvideo[p]
  OBVIOUS
<1>1. /\ rpc[p] = "set" /\ rpc' = [rpc EXCEPT ![p] = "rem"]
      /\ SetJobState(v, rcopy[p])
      /\ AttemptsStay /\ UNCHANGED <<requestQ, rvideo>>
  BY <1>0 DEF RecoverSet, SetJobStateFails, AttemptsStay, jobVars, boundVars, CountFailure
<1>2. /\ v \in Videos /\ Running(v) = {} /\ requestQ[v] = 0 /\ rcopy[p].status = "pending"
      /\ v \in submitted /\ crashes # 0
  BY <1>0, <1>1 DEF TypeOK, ControlInv, OrphanInv, UncrashedInv
<1>3. StatusBecomes(v, "pending")
  BY <1>1, <1>2, StatusWritten DEF TypeOK
<1>4. \A w \in Videos : Status(w)' = IF w = v THEN "pending" ELSE Status(w)
  BY <1>3 DEF StatusBecomes
<1>5. aged' = aged \ {v}
  BY <1>3 DEF StatusBecomes
<1>6. \A w : Working(w)' = Working(w) /\ Running(w)' = Running(w)
  BY <1>1, SameAttempts DEF AttemptsStay
<1>7. \A q \in Procs \ {p} : rpc'[q] = rpc[q] /\ rcopy'[q] = rcopy[q]
  BY <1>1 DEF RecoverSet, TypeOK
<1>8. GoroutineInv' /\ SubmittedInv'
  BY <1>1, <1>2, <1>4 DEF ControlInv, GoroutineInv, SubmittedInv, AttemptsStay
<1>9. StatusInv'
  <2>1. ASSUME NEW s \in Attempts, pc[s] # "free"
        PROVE  Status(video[s])' = Status(video[s])
    <3>1. video[s] \in Videos /\ video[s] # v
      BY <1>2, <2>1 DEF Running, TypeOK
    <3> QED BY <1>1, <1>4, <3>1 DEF AttemptsStay
  <2> QED BY <1>1, <2>1 DEF ControlInv, StatusInv, AttemptsStay
<1>10. TokenInv'
  BY <1>1, <1>4, <1>6 DEF ControlInv, TokenInv
<1>11. OrphanInv'
  <2>1. \A w \in aged' : Status(w)' = "processing" => Running(w)' = {}
    BY <1>4, <1>5, <1>6 DEF ControlInv, OrphanInv, TypeOK
  <2>2. ASSUME NEW q \in Procs, rpc'[q] # "scan"
        PROVE  /\ Running(rvideo[q])' = {} /\ requestQ'[rvideo'[q]] = 0
               /\ rpc'[q] = "set" => rcopy'[q].status = "pending"
               /\ rpc'[q] # "set" => Status(rvideo[q])' = "pending"
               /\ rvideo'[q] \in submitted'
    <3>1. CASE q = p
      <4>1. rpc'[q] = "rem" /\ rvideo'[q] = v
        BY <1>0, <1>1, <3>1 DEF TypeOK
      <4> QED BY <1>1, <1>2, <1>4, <1>6, <4>1 DEF AttemptsStay
    <3>2. CASE q # p
      <4>1. rpc'[q] = rpc[q] /\ rcopy'[q] = rcopy[q] /\ rpc[q] # "scan" /\ rvideo[q] \in Videos
        BY <1>7, <2>2, <3>2 DEF TypeOK
      <4> QED BY <1>1, <1>4, <1>6, <4>1 DEF AttemptsStay, ControlInv, OrphanInv
    <3> QED BY <3>1, <3>2
  <2> QED BY <2>1, <2>2 DEF OrphanInv
<1>12. UncrashedInv'
  BY <1>1, <1>2 DEF UncrashedInv, AttemptsStay
<1> QED BY <1>8, <1>9, <1>10, <1>11, <1>12 DEF ControlInv

LEMMA RemControl ==
  ASSUME TypeOK, ControlInv, NEW p \in Procs, RecoverRem(p)
  PROVE  ControlInv'
<1>1. /\ rpc[p] = "rem" /\ rpc' = [rpc EXCEPT ![p] = "push"]
      /\ AttemptsStay /\ UNCHANGED <<requestQ, jobState, aged, rvideo, rcopy>>
  BY DEF RecoverRem, AttemptsStay, jobVars, historyVars, boundVars, Fault
<1>2. \A w : Status(w)' = Status(w) /\ Working(w)' = Working(w) /\ Running(w)' = Running(w)
  BY <1>1, SameAttempts DEF Status, AttemptsStay
<1>3. \A q \in Procs : rpc'[q] = IF q = p THEN "push" ELSE rpc[q]
  BY <1>1 DEF TypeOK
<1>4. GoroutineInv' /\ SubmittedInv'
  BY <1>1, <1>2 DEF ControlInv, GoroutineInv, SubmittedInv, AttemptsStay
<1>5. StatusInv'
  BY <1>1, <1>2 DEF ControlInv, StatusInv, AttemptsStay
<1>6. TokenInv'
  BY <1>1, <1>2 DEF ControlInv, TokenInv
<1>7. OrphanInv'
  BY <1>1, <1>2, <1>3 DEF ControlInv, OrphanInv, AttemptsStay
<1>8. UncrashedInv'
  BY <1>1 DEF ControlInv, UncrashedInv, AttemptsStay
<1> QED BY <1>4, <1>5, <1>6, <1>7, <1>8 DEF ControlInv

\* No other recovery loop waits to push the video, because there is none.
LEMMA RecoverPushControl ==
  ASSUME TypeOK, Undisturbed, ControlInv, ~Fault, NEW p \in Procs, RecoverPush(p)
  PROVE  ControlInv'
<1>0. PICK v : v = rvideo[p]
  OBVIOUS
<1>1. /\ rpc[p] = "push" /\ rpc' = [rpc EXCEPT ![p] = "scan"]
      /\ requestQ' = [requestQ EXCEPT ![v] = @ + 1]
      /\ AttemptsStay /\ UNCHANGED <<jobState, aged, rcopy>>
  BY <1>0 DEF RecoverPush, RecoverNext, LPush, AttemptsStay, jobVars, boundVars
<1>2. /\ v \in Videos /\ Running(v) = {} /\ requestQ[v] = 0 /\ Status(v) = "pending"
      /\ v \in submitted /\ crashes # 0
  BY <1>0, <1>1 DEF TypeOK, ControlInv, OrphanInv, UncrashedInv
<1>3. requestQ'[v] = 1 /\ \A w \in Videos \ {v} : requestQ'[w] = requestQ[w]
  BY <1>1, <1>2 DEF TypeOK
<1>4. \A w : Status(w)' = Status(w) /\ Working(w)' = Working(w) /\ Running(w)' = Running(w)
  BY <1>1, SameAttempts DEF Status, AttemptsStay
<1>5. \A q \in Procs : rpc'[q] = "scan"
  BY <1>1, <1>2, OneInstance DEF TypeOK
<1>6. Working(v) = {}
  BY <1>2 DEF Working, Running
<1>7. GoroutineInv' /\ SubmittedInv'
  BY <1>1, <1>2, <1>3, <1>4 DEF ControlInv, GoroutineInv, SubmittedInv, AttemptsStay
<1>8. StatusInv'
  BY <1>1, <1>4 DEF ControlInv, StatusInv, AttemptsStay
<1>9. TokenInv'
  BY <1>2, <1>3, <1>4, <1>6 DEF ControlInv, TokenInv
<1>10. OrphanInv'
  BY <1>1, <1>4, <1>5 DEF ControlInv, OrphanInv
<1>11. UncrashedInv'
  BY <1>1, <1>2 DEF UncrashedInv, AttemptsStay
<1> QED BY <1>7, <1>8, <1>9, <1>10, <1>11 DEF ControlInv

\* A crash of the only instance leaves the queues and the states.
LEMMA CrashControl ==
  ASSUME TypeOK, Undisturbed', ControlInv, NEW p \in Procs, Crash(p)
  PROVE  ControlInv' /\ \A s \in Attempts : pc'[s] = "free"
<1>1. crashes' = crashes + 1 /\ crashes' # 0
  BY DEF Crash, TypeOK
<1>2. \A q \in Procs : q = p
  <2>1. IsFiniteSet(Procs) /\ Cardinality(Procs) = 1
    BY <1>1 DEF Undisturbed
  <2> QED BY <2>1, FS_Singleton
<1>3. \A s \in Attempts : Instance(s) = p
  BY <1>2 DEF Attempts, Instance
<1>4. \A s \in Attempts : pc'[s] = "free" /\ video'[s] = NoVideo
  BY <1>3 DEF Crash
<1>5. /\ requeued' = {} /\ \A q \in Procs : rpc'[q] = "scan"
      /\ UNCHANGED <<requestQ, jobState, aged, submitted>>
  BY <1>2, <1>3 DEF Crash, redisVars, TypeOK
<1>6. \A w \in Videos : Status(w)' = Status(w) /\ Working(w)' = {} /\ Running(w)' = {}
  BY <1>4, <1>5 DEF Status, Working, Running
<1>7. GoroutineInv' /\ SubmittedInv' /\ StatusInv'
  BY <1>4, <1>5, <1>6 DEF ControlInv, GoroutineInv, SubmittedInv, StatusInv
<1>8. TokenInv'
  BY <1>5, <1>6 DEF ControlInv, TokenInv
<1>9. OrphanInv' /\ UncrashedInv'
  BY <1>1, <1>5, <1>6 DEF OrphanInv, UncrashedInv, TypeOK
<1> QED BY <1>4, <1>7, <1>8, <1>9 DEF ControlInv

\* Every step of the protocol keeps the control part while nothing fails.
LEMMA StepControl ==
  ASSUME TypeOK, Undisturbed, Undisturbed', ControlInv, [Next]_vars
  PROVE  ControlInv'
<1>0. ~Fault /\ timeouts' = timeouts
  BY Unfailing, UndisturbedBefore
<1>1. ASSUME NEW s \in Attempts, JobStep(s) PROVE ControlInv'
  <2>1. Moves(s) \/ Writes(s) \/ RequeueJobPush(s) \/ AcknowledgeMessage(s)
    BY <1>0, <1>1, JobEffect DEF ControlInv
  <2> QED BY <1>0, <2>1, MovesControl, WritesControl, PushControl, AckControl
<1>2. ASSUME NEW s \in Attempts, Timeout(s) PROVE FALSE
  BY <1>0, <1>2 DEF Timeout, TypeOK
<1>3. ASSUME NEW p \in Procs, RecoveryStep(p) PROVE ControlInv'
  BY <1>0, <1>3, ScanControl, SetControl, RemControl, RecoverPushControl DEF RecoveryStep
<1>4. ASSUME NEW v \in Videos, Expire(v) PROVE FALSE
  BY <1>0, <1>4 DEF Expire
<1>5. CASE ConsumeMessageFails
  BY <1>0, <1>5 DEF ConsumeMessageFails
<1>6. CASE UNCHANGED vars
  <2>1. AttemptsStay /\ UNCHANGED <<requestQ, jobState, aged, rpc, rvideo, rcopy>>
    BY <1>6 DEF vars, AttemptsStay, redisVars, jobVars, recoverVars, historyVars, boundVars
  <2>2. \A w : Status(w)' = Status(w) /\ Working(w)' = Working(w) /\ Running(w)' = Running(w)
    BY <2>1, SameAttempts DEF Status, AttemptsStay
  <2>3. GoroutineInv' /\ SubmittedInv' /\ StatusInv'
    BY <2>1, <2>2 DEF ControlInv, GoroutineInv, SubmittedInv, StatusInv, AttemptsStay
  <2>4. TokenInv'
    BY <2>1, <2>2 DEF ControlInv, TokenInv
  <2>5. OrphanInv' /\ UncrashedInv'
    BY <2>1, <2>2 DEF ControlInv, OrphanInv, UncrashedInv, AttemptsStay
  <2> QED BY <2>3, <2>4, <2>5 DEF ControlInv
<1> QED
  BY <1>1, <1>2, <1>3, <1>4, <1>5, <1>6, PublishControl, AgeControl, ConsumeControl, CrashControl
     DEF Next

-----------------------------------------------------------------------------
\* Each attempt has a copy of its own.

LEMMA FiniteRunning ==
  ASSUME NEW v
  PROVE  IsFiniteSet(Running(v)) /\ Cardinality(Running(v)) \in Nat
<1>1. IsFiniteSet(Attempts)
  BY FS_Product DEF Attempts
<1>2. Running(v) \subseteq Attempts
  BY DEF Running
<1> QED BY <1>1, <1>2, FS_Subset, FS_CardinalityType

\* A step that neither starts nor ends an attempt, nor removes a copy.
LEMMA QuietCopies ==
  ASSUME CopyInv, UNCHANGED <<video, processingQ>>
  PROVE  CopyInv'
<1>1. \A w : Running(w)' = Running(w)
  BY DEF Running
<1> QED BY <1>1 DEF CopyInv

LEMMA ConsumeCopies ==
  ASSUME TypeOK, ControlInv, CopyInv, NEW s \in Attempts, NEW v \in Videos, ConsumeMessage(s, v)
  PROVE  CopyInv'
<1>1. /\ video[s] = NoVideo /\ video' = [video EXCEPT ![s] = v]
      /\ processingQ' = [processingQ EXCEPT ![v] = @ + 1]
  BY DEF ConsumeMessage, BRPopLPush, LPush, ControlInv, GoroutineInv
<1>2. ASSUME NEW w \in Videos PROVE Cardinality(Running(w))' <= processingQ'[w]
  <2>1. CASE w = v
    <3>1. Running(w)' = Running(w) \cup {s} /\ s \notin Running(w)
      BY <1>1, <2>1 DEF Running, TypeOK
    <3>2. Cardinality(Running(w))' = Cardinality(Running(w)) + 1
      BY <3>1, FiniteRunning, FS_AddElement
    <3> QED BY <1>1, <2>1, <3>2, FiniteRunning DEF CopyInv, TypeOK
  <2>2. CASE w # v
    <3>1. Running(w)' = Running(w)
      BY <1>1, <2>2 DEF Running, TypeOK
    <3> QED BY <1>1, <2>2, <3>1 DEF CopyInv, TypeOK
  <2> QED BY <2>1, <2>2
<1> QED BY <1>2 DEF CopyInv

LEMMA AckCopies ==
  ASSUME TypeOK, ControlInv, CopyInv, ~Fault, NEW s \in Attempts, AcknowledgeMessage(s)
  PROVE  CopyInv'
<1>0. PICK v : v = video[s]
  OBVIOUS
<1>1. /\ v \in Videos /\ video' = [video EXCEPT ![s] = NoVideo]
      /\ processingQ' = [processingQ EXCEPT ![v] = IF @ = 0 THEN 0 ELSE @ - 1]
  BY <1>0 DEF AcknowledgeMessage, LRem, TypeOK
<1>2. ASSUME NEW w \in Videos PROVE Cardinality(Running(w))' <= processingQ'[w]
  <2>1. CASE w = v
    <3>1. Running(w)' = Running(w) \ {s} /\ s \in Running(w)
      BY <1>0, <1>1, <2>1 DEF Running, TypeOK
    <3>2. Cardinality(Running(w))' = Cardinality(Running(w)) - 1
      BY <3>1, FiniteRunning, FS_RemoveElement
    <3>3. Cardinality(Running(w))' \in Nat
      BY <3>1, FiniteRunning, FS_RemoveElement, FS_CardinalityType
    <3> QED BY <1>1, <2>1, <3>2, <3>3, FiniteRunning DEF CopyInv, TypeOK
  <2>2. CASE w # v
    <3>1. Running(w)' = Running(w)
      BY <1>0, <1>1, <2>2 DEF Running, TypeOK
    <3> QED BY <1>1, <2>2, <3>1 DEF CopyInv, TypeOK
  <2> QED BY <2>1, <2>2
<1> QED BY <1>2 DEF CopyInv

\* The recovery removes a copy of a video on which no attempt runs.
LEMMA RemCopies ==
  ASSUME TypeOK, ControlInv, CopyInv, NEW p \in Procs, RecoverRem(p)
  PROVE  CopyInv'
<1>0. PICK v : v = rvideo[p]
  OBVIOUS
<1>1. /\ v \in Videos /\ Running(v) = {} /\ video' = video
      /\ \/ processingQ' = [processingQ EXCEPT ![v] = IF @ = 0 THEN 0 ELSE @ - 1]
         \/ processingQ' = processingQ
  BY <1>0 DEF RecoverRem, LRem, TypeOK, ControlInv, OrphanInv, jobVars
<1>2. \A w : Running(w)' = Running(w)
  BY <1>1 DEF Running
<1>3. \A w \in Videos \ {v} : processingQ'[w] = processingQ[w]
  BY <1>1 DEF TypeOK
<1>4. processingQ'[v] \in Nat
  BY <1>1 DEF TypeOK
<1>5. Cardinality(Running(v))' = 0
  <2>1. Running(v)' = {}
    BY <1>1, <1>2
  <2> QED BY <2>1, FS_EmptySet
<1>6. ASSUME NEW w \in Videos PROVE Cardinality(Running(w))' <= processingQ'[w]
  <2>1. CASE w = v
    BY <1>4, <1>5, <2>1
  <2>2. CASE w # v
    BY <1>2, <1>3, <2>2 DEF CopyInv
  <2> QED BY <2>1, <2>2
<1> QED BY <1>6 DEF CopyInv

LEMMA StepCopies ==
  ASSUME TypeOK, Undisturbed, Undisturbed', ControlInv, CopyInv, [Next]_vars
  PROVE  CopyInv'
<1>0. ~Fault
  BY Unfailing
<1>1. ASSUME NEW s \in Attempts, JobStep(s) PROVE CopyInv'
  <2>1. CASE Moves(s) \/ Writes(s)
    BY <2>1, QuietCopies DEF Moves, Writes, TokensStay
  <2>2. CASE RequeueJobPush(s)
    BY <2>2, QuietCopies DEF RequeueJobPush
  <2> QED BY <1>0, <1>1, <2>1, <2>2, JobEffect, AckCopies DEF ControlInv
<1>2. ASSUME NEW p \in Procs, RecoveryStep(p) PROVE CopyInv'
  <2>1. CASE RecoverScan(p) \/ RecoverGet(p) \/ RecoverSet(p) \/ RecoverPush(p)
    BY <2>1, QuietCopies DEF RecoverScan, RecoverGet, RecoverSet, RecoverPush, redisVars, jobVars
  <2> QED BY <1>2, <2>1, RemCopies DEF RecoveryStep
<1>3. ASSUME NEW p \in Procs, Crash(p) PROVE CopyInv'
  <2>1. \A s \in Attempts : pc'[s] = "free"
    BY <1>3, CrashControl
  <2>2. TypeOK' /\ GoroutineInv'
    BY <1>3, CrashControl, StepType DEF ControlInv, Next
  <2>3. \A w \in Videos : Running(w)' = {}
    BY <2>1, <2>2 DEF GoroutineInv, Running
  <2>4. \A w \in Videos : Cardinality(Running(w))' = 0
    BY <2>3, FS_EmptySet
  <2> QED BY <2>2, <2>4 DEF CopyInv, TypeOK
<1>4. ASSUME NEW v \in Videos, PublishJob(v) \/ Age(v) \/ Expire(v) PROVE CopyInv'
  BY <1>4, QuietCopies DEF PublishJob, Age, Expire, jobVars
<1>5. ASSUME NEW s \in Attempts, Timeout(s) PROVE CopyInv'
  BY <1>5, QuietCopies DEF Timeout, redisVars
<1>6. CASE ConsumeMessageFails
  BY <1>0, <1>6 DEF ConsumeMessageFails
<1>7. CASE UNCHANGED vars
  BY <1>7, QuietCopies DEF vars, redisVars, jobVars
<1> QED BY <1>1, <1>2, <1>3, <1>4, <1>5, <1>6, <1>7, ConsumeCopies DEF Next

-----------------------------------------------------------------------------
\* The theorem

LEMMA InitExclusion == Init => ExclusionInv
<1> SUFFICES ASSUME Init PROVE ExclusionInv
  OBVIOUS
<1>1. TypeOK
  BY InitType
<1>2. \A w \in Videos : Running(w) = {} /\ Working(w) = {} /\ Status(w) = "none"
  BY DEF Init, Running, Working, Status, NoState
<1>3. GoroutineInv /\ SubmittedInv /\ StatusInv
  BY <1>2 DEF Init, GoroutineInv, SubmittedInv, StatusInv
<1>4. TokenInv /\ OrphanInv /\ UncrashedInv
  BY <1>2 DEF Init, TokenInv, OrphanInv, UncrashedInv
<1>5. CopyInv
  <2>1. \A w \in Videos : Cardinality(Running(w)) = 0
    BY <1>2, FS_EmptySet
  <2> QED BY <2>1 DEF Init, CopyInv
<1> QED BY <1>1, <1>3, <1>4, <1>5 DEF ExclusionInv, ControlInv

LEMMA StepExclusion == ExclusionInv /\ [Next]_vars => ExclusionInv'
<1> SUFFICES ASSUME ExclusionInv, [Next]_vars PROVE ExclusionInv'
  OBVIOUS
<1>1. TypeOK /\ TypeOK'
  BY StepType DEF ExclusionInv
<1>2. ASSUME Undisturbed' PROVE ControlInv' /\ CopyInv'
  <2>1. Undisturbed
    BY <1>1, <1>2, UndisturbedBefore
  <2>2. ControlInv /\ CopyInv
    BY <2>1 DEF ExclusionInv
  <2> QED BY <1>1, <1>2, <2>1, <2>2, StepControl, StepCopies
<1> QED BY <1>1, <1>2 DEF ExclusionInv

\* While no command fails, no context expires and no crash leaves another instance behind, at
\* most one attempt that has not handed its job over works on a video, none does while the video
\* waits in the request queue, and each attempt has its own copy in the processing queue: the
\* retry of processNextMessage and the recovery never take the job of a running attempt.
THEOREM AttemptsAreExclusive == Spec => []ExclusiveProcessing
<1>1. ASSUME ExclusionInv PROVE ExclusiveProcessing
  <2> SUFFICES ASSUME Undisturbed, NEW v \in Videos
               PROVE  /\ Cardinality(Running(v)) <= processingQ[v]
                      /\ Cardinality({s \in Running(v) : s \notin requeued}) + requestQ[v] <= 1
    BY DEF ExclusiveProcessing
  <2>1. ControlInv /\ CopyInv
    BY <1>1 DEF ExclusionInv
  <2>2. {s \in Running(v) : s \notin requeued} = Working(v)
    BY DEF Running, Working
  <2>3. Cardinality(Working(v)) + requestQ[v] <= 1
    <3>1. CASE Working(v) = {}
      BY <2>1, <3>1, FS_EmptySet DEF ControlInv, TokenInv
    <3>2. CASE Working(v) # {}
      <4>1. PICK s : Working(v) = {s}
        BY <2>1, <3>2 DEF ControlInv, TokenInv
      <4>2. Cardinality(Working(v)) = 1
        BY <4>1, FS_Singleton
      <4>3. requestQ[v] = 0
        BY <2>1, <3>2 DEF ControlInv, TokenInv
      <4> QED BY <4>2, <4>3
    <3> QED BY <3>1, <3>2
  <2> QED BY <2>1, <2>2, <2>3 DEF CopyInv
<1> QED BY <1>1, InitExclusion, StepExclusion, PTL DEF Spec

-----------------------------------------------------------------------------
\* No failure is forgotten

SetSteps == {"procSet", "doneSet", "failSet", "reqSet"}

\* Whoever is about to write back a counter has read it since the last failure was counted.
CounterInv ==
  /\ \A v \in Videos : failures[v] <= jobState[v].retry /\ (v \notin submitted => failures[v] = 0)
  /\ \A s \in Attempts : pc[s] \in SetSteps => failures[video[s]] <= copy[s].retry
  /\ \A p \in Procs : rpc[p] = "set" => failures[rvideo[p]] < rcopy[p].retry

RememberInv == ExclusionInv /\ (Undisturbed => CounterInv)

\* s goes on: it leaves the counters alone, or has just read its own, or writes it back as it
\* was, or as one more.
Reads(s) == copy'[s] = jobState[video[s]] /\ UNCHANGED <<jobState, failures>>

Leaves(s) == pc'[s] \notin SetSteps /\ UNCHANGED <<jobState, failures>>

WritesBack(s, state) ==
  /\ pc[s] \in SetSteps /\ pc'[s] \notin SetSteps
  /\ state \in JobStates
  /\ jobState' = [jobState EXCEPT ![video[s]] = state]
  /\ \/ state.retry = copy[s].retry /\ UNCHANGED failures
     \/ state.retry = copy[s].retry + 1 /\ CountFailure(video[s])

LEMMA JobCounts ==
  ASSUME TypeOK, ~Fault, NEW s \in Attempts, JobStep(s)
  PROVE  /\ UNCHANGED <<submitted, rpc, rvideo, rcopy>> /\ pc[s] # "free"
         /\ \A t \in Attempts \ {s} : UNCHANGED <<pc[t], video[t], copy[t]>>
         /\ pc'[s] # "free" => video'[s] = video[s]
         /\ Reads(s) \/ Leaves(s) \/ \E state : WritesBack(s, state)
<1> USE DEF TypeOK, redisVars, minioVars, recoverVars, historyVars, boundVars, Goto, Fail, Keep, SetSteps
<1>0. pc[s] # "free" => video[s] \in Videos
  OBVIOUS
<1>1. CASE SetJobProcessingGet(s) \/ SetJobDoneGet(s) \/ SetJobFailedGet(s) \/ RequeueJobGet(s)
  BY <1>1 DEF SetJobProcessingGet, SetJobDoneGet, SetJobFailedGet, SetterGet, RequeueJobGet,
     GetJobState, Reads
<1>2. CASE Download(s) \/ Process(s) \/ Upload(s) \/ ArchiveCopy(s) \/ ArchiveRemove(s)
  BY <1>2 DEF Download, Process, Upload, ArchiveCopy, ArchiveRemove, Leaves
<1>3. CASE PublishSuccessMessage(s) \/ NotifySuccess(s) \/ RequeueJobPush(s) \/ MoveToDLQ(s)
           \/ AcknowledgeMessage(s)
  BY <1>3 DEF PublishSuccessMessage, NotifySuccess, GetJobState, RequeueJobPush, MoveToDLQ,
     AcknowledgeMessage, Leaves
<1>4. copy[s] \in JobStates
  OBVIOUS
<1>5. CASE SetJobProcessing(s)
  <2> DEFINE state == [copy[s] EXCEPT !.status = "processing"]
  <2>1. state \in JobStates /\ state.retry = copy[s].retry
    BY <1>4, StateType, StateFields
  <2> HIDE DEF state
  <2>2. WritesBack(s, state)
    BY <1>5, <2>1 DEF SetJobProcessing, SetJobState, WritesBack, state
  <2> QED
    BY <1>5, <2>2 DEF SetJobProcessing
<1>6. CASE SetJobDone(s)
  <2> DEFINE state == [copy[s] EXCEPT !.status = "done"]
  <2>1. state \in JobStates /\ state.retry = copy[s].retry
    BY <1>4, StateType, StateFields
  <2> HIDE DEF state
  <2>2. WritesBack(s, state)
    BY <1>6, <2>1 DEF SetJobDone, SetJobState, SetJobStateFails, WritesBack, state
  <2> QED
    BY <1>6, <2>2 DEF SetJobDone
<1>7. CASE RequeueJobSet(s)
  <2> DEFINE state == [copy[s] EXCEPT !.status = "pending"]
  <2>1. state \in JobStates /\ state.retry = copy[s].retry
    BY <1>4, StateType, StateFields
  <2> HIDE DEF state
  <2>2. WritesBack(s, state)
    BY <1>7, <2>1 DEF RequeueJobSet, SetJobState, SetJobStateFails, WritesBack, state
  <2> QED
    BY <1>7, <2>2 DEF RequeueJobSet
<1>8. CASE SetJobFailed(s)
  <2> DEFINE state == FailedState(copy[s])
  <2>1. state \in JobStates /\ state.retry = copy[s].retry + 1
    BY <1>4, FailedType, StateFields
  <2> HIDE DEF state
  <2>2. WritesBack(s, state)
    BY <1>8, <2>1 DEF SetJobFailed, SetJobState, SetJobStateFails, WritesBack, state
  <2> QED
    BY <1>8, <2>2 DEF SetJobFailed
<1> QED
  BY <1>1, <1>2, <1>3, <1>5, <1>6, <1>7, <1>8 DEF JobStep

\* Nobody else has read the counter that a goroutine writes.
LEMMA JobCounter ==
  ASSUME TypeOK, TypeOK', ControlInv, CounterInv, ~Fault, NEW s \in Attempts, JobStep(s)
  PROVE  CounterInv'
<1>0. PICK v : v = video[s]
  OBVIOUS
<1>1. /\ UNCHANGED <<submitted, rpc, rvideo, rcopy>> /\ pc[s] # "free"
      /\ \A t \in Attempts \ {s} : UNCHANGED <<pc[t], video[t], copy[t]>>
      /\ pc'[s] # "free" => video'[s] = v
      /\ Reads(s) \/ Leaves(s) \/ \E state : WritesBack(s, state)
  BY <1>0, JobCounts
<1>2. v \in Videos /\ v \in submitted
  BY <1>0, <1>1 DEF TypeOK, ControlInv, SubmittedInv, GoroutineInv
<1>3. CASE Reads(s)
  BY <1>0, <1>1, <1>2, <1>3 DEF Reads, CounterInv, SetSteps
<1>4. CASE Leaves(s)
  BY <1>1, <1>4 DEF Leaves, CounterInv, SetSteps
<1>5. ASSUME NEW state, WritesBack(s, state) PROVE CounterInv'
  <2>1. /\ jobState'[v].retry = state.retry
        /\ failures'[v] <= state.retry
        /\ \A w \in Videos \ {v} : jobState'[w] = jobState[w] /\ failures'[w] = failures[w]
    <3>1. copy[s].retry \in Nat /\ failures[v] \in Nat /\ failures[v] <= copy[s].retry
      BY <1>0, <1>2, <1>5 DEF WritesBack, CounterInv, TypeOK, JobStates
    <3> QED
      BY <1>0, <1>2, <1>5, <3>1 DEF WritesBack, CountFailure, TypeOK
  <2>2. s \in Working(v) /\ s \in Running(v)
    BY <1>0, <1>5 DEF WritesBack, SetSteps, Working, Running, ControlInv, GoroutineInv
  <2>3. ASSUME NEW t \in Attempts, t # s, pc[t] \in SetSteps PROVE video[t] # v
    <3>1. video[t] = v => t \in Working(v)
      BY <2>3 DEF SetSteps, Working, ControlInv, GoroutineInv
    <3> QED
      BY <1>2, <2>2, <2>3, <3>1 DEF ControlInv, TokenInv
  <2>4. ASSUME NEW p \in Procs, rpc[p] = "set" PROVE rvideo[p] # v
    BY <2>2, <2>4 DEF ControlInv, OrphanInv
  <2>5. \A t \in Attempts : pc'[t] \in SetSteps => failures'[video'[t]] <= copy'[t].retry
    <3> SUFFICES ASSUME NEW t \in Attempts, pc'[t] \in SetSteps
                 PROVE  failures'[video'[t]] <= copy'[t].retry
      OBVIOUS
    <3>1. t # s /\ pc[t] \in SetSteps /\ video'[t] = video[t] /\ copy'[t] = copy[t]
      BY <1>1, <1>5 DEF WritesBack
    <3>2. video[t] \in Videos \ {v}
      BY <2>3, <3>1 DEF TypeOK, SetSteps
    <3> QED
      BY <2>1, <3>1, <3>2 DEF CounterInv
  <2>6. \A p \in Procs : rpc'[p] = "set" => failures'[rvideo'[p]] < rcopy'[p].retry
    BY <1>1, <2>1, <2>4 DEF CounterInv, TypeOK
  <2>7. \A w \in Videos : failures'[w] <= jobState'[w].retry /\ (w \notin submitted' => failures'[w] = 0)
    BY <1>1, <1>2, <2>1 DEF CounterInv
  <2> QED
    BY <2>5, <2>6, <2>7 DEF CounterInv
<1> QED
  BY <1>1, <1>3, <1>4, <1>5

\* A recovery loop counts the failure from the state that it has just read.
LEMMA ScanCounter ==
  ASSUME TypeOK, CounterInv, ~Fault, NEW p \in Procs, RecoverScan(p) \/ RecoverGet(p)
  PROVE  CounterInv'
<1>1. UNCHANGED <<jobState, pc, video, copy, submitted, failures>>
  BY DEF RecoverScan, RecoverGet, redisVars, jobVars, historyVars
<1>2. CASE UNCHANGED <<rpc, rvideo, rcopy>>
  BY <1>1, <1>2 DEF CounterInv
<1>3. CASE ~UNCHANGED <<rpc, rvideo, rcopy>>
  <2>1. PICK v \in todo[p] :
          /\ rpc' = [rpc EXCEPT ![p] = "set"]
          /\ rvideo' = [rvideo EXCEPT ![p] = v]
          /\ rcopy' = [rcopy EXCEPT ![p] =
                         [jobState[v] EXCEPT !.status = "pending", !.retry = jobState[v].retry + 1]]
    BY <1>3 DEF RecoverScan, RecoverGet, GetJobState, Examine
  <2>2. v \in Videos /\ jobState[v] \in JobStates /\ jobState[v].retry \in Nat /\ failures[v] \in Nat
    BY <2>1 DEF TypeOK, JobStates
  <2>3. /\ rvideo'[p] = v /\ rcopy'[p].retry = jobState[v].retry + 1
        /\ \A q \in Procs \ {p} : rpc'[q] = rpc[q] /\ rvideo'[q] = rvideo[q] /\ rcopy'[q] = rcopy[q]
    <3>1. [jobState[v] EXCEPT !.status = "pending", !.retry = jobState[v].retry + 1].retry
            = jobState[v].retry + 1
      BY <2>2, StateFields
    <3> QED
      BY <2>1, <3>1 DEF TypeOK
  <2>4. \A q \in Procs : rpc'[q] = "set" => failures[rvideo'[q]] < rcopy'[q].retry
    BY <2>2, <2>3 DEF CounterInv
  <2> QED
    BY <1>1, <2>4 DEF CounterInv
<1> QED
  BY <1>2, <1>3

\* It writes the counter of a video that no attempt runs on, and of which there is no other
\* recovery.
LEMMA SetCounter ==
  ASSUME TypeOK, Undisturbed, ControlInv, CounterInv, ~Fault, NEW p \in Procs, RecoverSet(p)
  PROVE  CounterInv'
<1>0. PICK v : v = rvideo[p]
  OBVIOUS
<1>1. /\ rpc[p] = "set" /\ rpc' = [rpc EXCEPT ![p] = "rem"]
      /\ jobState' = [jobState EXCEPT ![v] = rcopy[p]]
      /\ CountFailure(v)
      /\ UNCHANGED <<pc, video, copy, submitted>>
  BY <1>0 DEF RecoverSet, SetJobState, SetJobStateFails, jobVars
<1>2. v \in Videos /\ Running(v) = {} /\ v \in submitted /\ crashes # 0
  BY <1>0, <1>1 DEF TypeOK, ControlInv, OrphanInv, UncrashedInv
<1>3. /\ failures'[v] <= jobState'[v].retry
      /\ \A w \in Videos \ {v} : jobState'[w] = jobState[w] /\ failures'[w] = failures[w]
  <2>1. rcopy[p].retry \in Nat /\ failures[v] \in Nat /\ failures[v] < rcopy[p].retry
    BY <1>0, <1>1, <1>2 DEF CounterInv, TypeOK, JobStates
  <2>2. failures'[v] \in {failures[v], failures[v] + 1} /\ jobState'[v] = rcopy[p]
    BY <1>1, <1>2 DEF CountFailure, TypeOK
  <2>3. \A w \in Videos \ {v} : jobState'[w] = jobState[w] /\ failures'[w] = failures[w]
    BY <1>1, <1>2 DEF CountFailure, TypeOK
  <2> QED
    BY <2>1, <2>2, <2>3
<1>4. \A q \in Procs : rpc'[q] # "set"
  BY <1>1, <1>2, OneInstance DEF TypeOK
<1>5. \A s \in Attempts : pc[s] \in SetSteps => video[s] \in Videos \ {v}
  BY <1>2 DEF TypeOK, SetSteps, Running
<1>6. \A w \in Videos : failures'[w] <= jobState'[w].retry /\ (w \notin submitted' => failures'[w] = 0)
  BY <1>1, <1>2, <1>3 DEF CounterInv
<1> QED
  BY <1>1, <1>3, <1>4, <1>5, <1>6 DEF CounterInv

\* The other steps read and write no counter.
LEMMA QuietCounter ==
  ASSUME CounterInv, UNCHANGED <<jobState, submitted, failures>>,
         \A s \in Attempts : pc'[s] \in SetSteps =>
           pc[s] = pc'[s] /\ video'[s] = video[s] /\ copy'[s] = copy[s],
         \A p \in Procs : rpc'[p] = "set" =>
           rpc[p] = "set" /\ rvideo'[p] = rvideo[p] /\ rcopy'[p] = rcopy[p]
  PROVE  CounterInv'
BY DEF CounterInv

\* A new job has had no failure.
LEMMA PublishCounter ==
  ASSUME TypeOK, CounterInv, ControlInv, NEW v \in Videos, PublishJob(v)
  PROVE  CounterInv'
<1>1. /\ v \notin submitted /\ submitted' = submitted \cup {v}
      /\ jobState' = [jobState EXCEPT ![v] = [status |-> "pending", retry |-> 0,
                                              callback |-> v \in WithCallback]]
      /\ UNCHANGED <<pc, video, copy, rpc, rvideo, rcopy, failures>>
  BY DEF PublishJob, SetJobState, jobVars, recoverVars
<1>2. jobState'[v].retry = 0 /\ \A w \in Videos \ {v} : jobState'[w] = jobState[w]
  BY <1>1 DEF TypeOK
<1> QED
  BY <1>1, <1>2 DEF CounterInv

LEMMA StepCounter ==
  ASSUME TypeOK, TypeOK', Undisturbed, Undisturbed', ControlInv, CounterInv, [Next]_vars
  PROVE  CounterInv'
<1>0. ~Fault /\ timeouts' = timeouts
  BY Unfailing, UndisturbedBefore
<1>1. ASSUME NEW s \in Attempts, JobStep(s) PROVE CounterInv'
  BY <1>0, <1>1, JobCounter
<1>2. ASSUME NEW p \in Procs, RecoverRem(p) \/ RecoverPush(p) PROVE CounterInv'
  BY <1>2, QuietCounter DEF RecoverRem, RecoverPush, RecoverNext, TypeOK, redisVars, jobVars, historyVars
<1>3. ASSUME NEW p \in Procs, RecoveryStep(p) PROVE CounterInv'
  BY <1>0, <1>2, <1>3, ScanCounter, SetCounter DEF RecoveryStep
<1>4. ASSUME NEW p \in Procs, Crash(p) PROVE CounterInv'
  BY <1>4, QuietCounter DEF Crash, TypeOK, redisVars, SetSteps
<1>5. ASSUME NEW v \in Videos, Age(v) PROVE CounterInv'
  BY <1>5, QuietCounter DEF Age, jobVars, recoverVars, historyVars
<1>6. ASSUME NEW s \in Attempts, NEW v \in Videos, ConsumeMessage(s, v) PROVE CounterInv'
  BY <1>6, QuietCounter DEF ConsumeMessage, Goto, TypeOK, SetSteps, recoverVars, historyVars
<1>7. CASE UNCHANGED vars
  BY <1>7, QuietCounter DEF vars, redisVars, jobVars, recoverVars, historyVars
<1>8. /\ \A s \in Attempts : ~Timeout(s)
      /\ \A v \in Videos : ~Expire(v)
      /\ ~ConsumeMessageFails
  BY <1>0 DEF Timeout, Expire, ConsumeMessageFails, TypeOK
<1> QED
  BY <1>1, <1>3, <1>4, <1>5, <1>6, <1>7, <1>8, PublishCounter DEF Next

LEMMA InitRemember == Init => RememberInv
<1> SUFFICES ASSUME Init PROVE RememberInv
  OBVIOUS
<1>1. CounterInv
  BY DEF Init, CounterInv, SetSteps, NoState
<1> QED
  BY <1>1, InitExclusion DEF RememberInv

LEMMA StepRemember == RememberInv /\ [Next]_vars => RememberInv'
<1> SUFFICES ASSUME RememberInv, [Next]_vars PROVE RememberInv'
  OBVIOUS
<1>1. ExclusionInv /\ ExclusionInv' /\ TypeOK /\ TypeOK'
  BY StepExclusion DEF RememberInv, ExclusionInv
<1>2. ASSUME Undisturbed' PROVE CounterInv'
  <2>1. Undisturbed
    BY <1>1, <1>2, UndisturbedBefore
  <2>2. ControlInv /\ CounterInv
    BY <1>1, <2>1 DEF RememberInv, ExclusionInv
  <2> QED
    BY <1>1, <1>2, <2>1, <2>2, StepCounter
<1> QED
  BY <1>1, <1>2 DEF RememberInv

\* While no command fails, no context expires and no crash leaves another instance behind, every
\* failed attempt and every recovery is in the counter that decides about the retries: none of
\* the GETs and SETs of the setters and of the recovery overwrites another one's count.
THEOREM NoFailureIsForgotten == Spec => []NoFailureForgotten
<1>1. RememberInv => NoFailureForgotten
  BY DEF RememberInv, CounterInv, NoFailureForgotten
<1> QED
  BY <1>1, InitRemember, StepRemember, PTL DEF Spec

-----------------------------------------------------------------------------
\* Finished jobs

\* Nothing has happened that the program could not help.
Untroubled == Undisturbed /\ crashes = 0

\* The commands after the one that pushes to the finished queue.
Concluding == {"doneGet", "doneSet", "hookGet", "ack"}

\* A job that is finished or dead waits nowhere, and its goroutines only have to say so and to
\* acknowledge.
OverInv ==
  /\ finishedQ \cap deadQ = {}
  /\ \A v \in finishedQ \cup deadQ : v \in submitted /\ requestQ[v] = 0
  /\ \A s \in Attempts : pc[s] # "free" =>
       /\ video[s] \in finishedQ => pc[s] \in Concluding
       /\ video[s] \in deadQ => pc[s] = "ack"

OnceInv == ExclusionInv /\ (Untroubled => OverInv)

\* What a command of a goroutine does to the queues of jobs that are over.
LEMMA JobOver ==
  ASSUME TypeOK, ~Fault, NEW s \in Attempts, JobStep(s)
  PROVE  /\ UNCHANGED submitted /\ pc[s] # "free"
         /\ \A t \in Attempts \ {s} : UNCHANGED <<pc[t], video[t]>>
         /\ pc'[s] # "free" => video'[s] = video[s]
         /\ \/ /\ pc[s] = "publish" /\ pc'[s] = "doneGet"
               /\ finishedQ' = finishedQ \cup {video[s]} /\ UNCHANGED <<deadQ, requestQ>>
            \/ /\ pc[s] = "dlqPush" /\ pc'[s] = "ack"
               /\ deadQ' = deadQ \cup {video[s]} /\ UNCHANGED <<finishedQ, requestQ>>
            \/ /\ pc[s] = "reqPush" /\ pc'[s] = "ack"
               /\ requestQ' = LPush(requestQ, video[s]) /\ UNCHANGED <<finishedQ, deadQ>>
            \/ /\ UNCHANGED <<finishedQ, deadQ, requestQ>>
               /\ pc[s] \in Concluding => pc'[s] \in Concluding \cup {"free"}
               /\ pc[s] = "ack" => pc'[s] = "free"
<1> USE DEF TypeOK, redisVars, minioVars, recoverVars, historyVars, Goto, Fail, Concluding
<1>1. CASE SetJobProcessingGet(s) \/ SetJobDoneGet(s) \/ SetJobFailedGet(s) \/ RequeueJobGet(s)
  BY <1>1 DEF SetJobProcessingGet, SetJobDoneGet, SetJobFailedGet, SetterGet, RequeueJobGet
<1>2. CASE SetJobProcessing(s) \/ SetJobDone(s) \/ SetJobFailed(s) \/ RequeueJobSet(s)
  BY <1>2 DEF SetJobProcessing, SetJobDone, SetJobFailed, RequeueJobSet
<1>3. CASE Download(s) \/ Process(s) \/ Upload(s) \/ ArchiveCopy(s) \/ ArchiveRemove(s)
  BY <1>3 DEF Download, Process, Upload, ArchiveCopy, ArchiveRemove
<1>4. CASE PublishSuccessMessage(s)
  BY <1>4 DEF PublishSuccessMessage
<1>5. CASE NotifySuccess(s)
  BY <1>5 DEF NotifySuccess
<1>6. CASE RequeueJobPush(s)
  BY <1>6 DEF RequeueJobPush
<1>7. CASE MoveToDLQ(s)
  BY <1>7 DEF MoveToDLQ
<1>8. CASE AcknowledgeMessage(s)
  BY <1>8 DEF AcknowledgeMessage
<1> QED
  BY <1>1, <1>2, <1>3, <1>4, <1>5, <1>6, <1>7, <1>8 DEF JobStep

\* The goroutine that announces the end of a job is the only one that has not handed it over.
LEMMA JobOnce ==
  ASSUME TypeOK, ControlInv, OverInv, ~Fault, NEW s \in Attempts, JobStep(s)
  PROVE  OverInv'
<1>0. PICK v : v = video[s]
  OBVIOUS
<1>1. /\ UNCHANGED submitted /\ pc[s] # "free"
      /\ \A t \in Attempts \ {s} : pc'[t] = pc[t] /\ video'[t] = video[t]
      /\ pc'[s] # "free" => video'[s] = v
      /\ \/ /\ pc[s] = "publish" /\ pc'[s] = "doneGet"
            /\ finishedQ' = finishedQ \cup {v} /\ UNCHANGED <<deadQ, requestQ>>
         \/ /\ pc[s] = "dlqPush" /\ pc'[s] = "ack"
            /\ deadQ' = deadQ \cup {v} /\ UNCHANGED <<finishedQ, requestQ>>
         \/ /\ pc[s] = "reqPush" /\ pc'[s] = "ack"
            /\ requestQ' = LPush(requestQ, v) /\ UNCHANGED <<finishedQ, deadQ>>
         \/ /\ UNCHANGED <<finishedQ, deadQ, requestQ>>
            /\ pc[s] \in Concluding => pc'[s] \in Concluding \cup {"free"}
            /\ pc[s] = "ack" => pc'[s] = "free"
  BY <1>0, JobOver
<1>2. v \in Videos /\ v \in submitted
  BY <1>0, <1>1 DEF TypeOK, ControlInv, SubmittedInv, GoroutineInv
<1>3. CASE UNCHANGED <<finishedQ, deadQ, requestQ>>
  <2>1. ASSUME NEW t \in Attempts, pc'[t] # "free"
        PROVE  /\ video'[t] \in finishedQ => pc'[t] \in Concluding
               /\ video'[t] \in deadQ => pc'[t] = "ack"
    BY <1>0, <1>1, <1>2, <1>3, <2>1 DEF OverInv, Concluding, LPush, TypeOK
  <2> QED
    BY <1>1, <1>3, <2>1 DEF OverInv
<1>4. CASE pc[s] = "reqPush"
  <2>1. v \notin finishedQ \cup deadQ
    BY <1>0, <1>1, <1>4 DEF OverInv, Concluding
  <2>2. \A w \in Videos \ {v} : requestQ'[w] = requestQ[w]
    BY <1>1, <1>2, <1>4 DEF Concluding, LPush, TypeOK
  <2>3. \A w \in finishedQ \cup deadQ : requestQ'[w] = 0
    BY <2>1, <2>2 DEF OverInv, TypeOK
  <2> QED
    BY <1>1, <1>4, <2>1, <2>3 DEF OverInv, Concluding
<1>5. CASE pc[s] \in {"publish", "dlqPush"}
  <2>1. v \notin finishedQ \cup deadQ
    BY <1>0, <1>1, <1>5 DEF OverInv, Concluding
  <2>2. s \in Working(v) /\ requestQ[v] = 0
    BY <1>0, <1>2, <1>5 DEF Working, ControlInv, GoroutineInv, TokenInv, TypeOK
  <2>3. ASSUME NEW t \in Attempts, t # s, pc[t] # "free", video[t] = v PROVE pc[t] = "ack"
    <3>1. t \notin requeued => t \in Working(v)
      BY <2>3 DEF Working
    <3> QED
      BY <1>2, <2>2, <2>3, <3>1 DEF ControlInv, TokenInv, GoroutineInv
  <2> QED
    BY <1>1, <1>2, <1>5, <2>1, <2>2, <2>3 DEF OverInv, Concluding
<1> QED
  BY <1>1, <1>3, <1>4, <1>5

\* What is untroubled has been so from the start.
LEMMA UntroubledBefore ==
  ASSUME ExclusionInv, [Next]_vars, Untroubled'
  PROVE  /\ Untroubled /\ Undisturbed /\ Undisturbed' /\ crashes = 0
         /\ ~Fault /\ timeouts' = timeouts /\ \A p \in Procs : ~Crash(p)
<1>0. TypeOK /\ Undisturbed /\ Undisturbed' /\ ~Fault /\ timeouts' = timeouts
  BY Unfailing, UndisturbedBefore DEF Untroubled, ExclusionInv
<1>1. ASSUME NEW p \in Procs PROVE ~Crash(p)
  BY <1>0 DEF Crash, Untroubled, TypeOK
<1>2. crashes = 0
  <2>1. ASSUME NEW s \in Attempts, JobStep(s) PROVE crashes' = crashes
    BY <1>0, <2>1, JobEffect DEF ExclusionInv, ControlInv, Moves, Writes, TokensStay,
       RequeueJobPush, AcknowledgeMessage, boundVars
  <2>2. ASSUME NEW p \in Procs, RecoveryStep(p) PROVE crashes' = crashes
    BY <1>0, <2>2 DEF RecoveryStep, RecoverScan, RecoverGet, GetJobState, RecoverSet,
       SetJobStateFails, RecoverRem, RecoverPush, boundVars
  <2>3. ASSUME NEW v \in Videos, PublishJob(v) \/ Age(v) \/ Expire(v) PROVE crashes' = crashes
    BY <1>0, <2>3 DEF PublishJob, Age, Expire, boundVars
  <2>4. ASSUME NEW s \in Attempts, Timeout(s) \/ \E v \in Videos : ConsumeMessage(s, v)
        PROVE  crashes' = crashes
    BY <2>4 DEF Timeout, ConsumeMessage, boundVars
  <2>5. ~ConsumeMessageFails
    BY <1>0 DEF ConsumeMessageFails
  <2>6. UNCHANGED vars => crashes' = crashes
    BY DEF vars, boundVars
  <2>7. crashes' = crashes
    BY <1>1, <2>1, <2>2, <2>3, <2>4, <2>5, <2>6 DEF Next
  <2> QED
    BY <2>7 DEF Untroubled
<1> QED
  BY <1>0, <1>1, <1>2 DEF Untroubled

LEMMA StepOnce == OnceInv /\ [Next]_vars => OnceInv'
<1> SUFFICES ASSUME OnceInv, [Next]_vars PROVE OnceInv'
  OBVIOUS
<1>1. ExclusionInv /\ ExclusionInv' /\ TypeOK /\ TypeOK'
  BY StepExclusion DEF OnceInv, ExclusionInv
<1> SUFFICES ASSUME Untroubled' PROVE OverInv'
  BY <1>1 DEF OnceInv
<1>2. Undisturbed /\ Undisturbed' /\ ~Fault /\ timeouts' = timeouts
  BY <1>1, UntroubledBefore
<1>3. ASSUME NEW p \in Procs PROVE ~Crash(p)
  BY <1>1, UntroubledBefore
<1>4. crashes = 0
  BY <1>1, UntroubledBefore
<1>5. ControlInv /\ OverInv
  BY <1>1, <1>2, <1>4 DEF OnceInv, ExclusionInv, Untroubled
<1>6. ASSUME NEW s \in Attempts, JobStep(s) PROVE OverInv'
  BY <1>1, <1>2, <1>5, <1>6, JobOnce
<1>7. ASSUME UNCHANGED <<requestQ, finishedQ, deadQ, submitted, pc, video>> PROVE OverInv'
  BY <1>5, <1>7 DEF OverInv
<1>8. ASSUME NEW p \in Procs, RecoveryStep(p) PROVE OverInv'
  <2>1. rpc[p] = "scan"
    BY <1>4, <1>5 DEF ControlInv, UncrashedInv
  <2> QED
    BY <1>7, <1>8, <2>1 DEF RecoveryStep, RecoverScan, RecoverGet, RecoverSet, RecoverRem, RecoverPush,
       redisVars, jobVars, historyVars
<1>9. ASSUME NEW v \in Videos, PublishJob(v) PROVE OverInv'
  <2>1. /\ v \notin finishedQ \cup deadQ /\ submitted' = submitted \cup {v}
        /\ UNCHANGED <<finishedQ, deadQ, pc, video>>
    BY <1>5, <1>9 DEF PublishJob, OverInv, jobVars
  <2>2. \A w \in Videos \ {v} : requestQ'[w] = requestQ[w]
    BY <1>1, <1>9 DEF PublishJob, LPush, TypeOK
  <2> QED
    BY <1>1, <1>5, <2>1, <2>2 DEF OverInv, TypeOK
<1>10. ASSUME NEW s \in Attempts, NEW v \in Videos, ConsumeMessage(s, v) PROVE OverInv'
  <2>1. /\ requestQ[v] > 0 /\ pc' = [pc EXCEPT ![s] = "procGet"] /\ video' = [video EXCEPT ![s] = v]
        /\ UNCHANGED <<finishedQ, deadQ, submitted>>
    BY <1>10 DEF ConsumeMessage, BRPopLPush, Goto, historyVars
  <2>2. v \notin finishedQ \cup deadQ
    BY <1>1, <1>5, <2>1 DEF OverInv, TypeOK
  <2>3. \A w \in Videos \ {v} : requestQ'[w] = requestQ[w]
    BY <1>1, <1>10 DEF ConsumeMessage, BRPopLPush, TypeOK
  <2>4. \A w \in finishedQ \cup deadQ : requestQ'[w] = 0
    BY <1>1, <1>5, <2>2, <2>3 DEF OverInv, TypeOK
  <2>5. \A t \in Attempts : /\ pc'[t] = IF t = s THEN "procGet" ELSE pc[t]
                            /\ video'[t] = IF t = s THEN v ELSE video[t]
    BY <1>1, <2>1 DEF TypeOK
  <2> QED
    BY <1>5, <2>1, <2>2, <2>4, <2>5 DEF OverInv
<1>11. /\ \A s \in Attempts : ~Timeout(s)
       /\ \A v \in Videos : ~Expire(v)
       /\ ~ConsumeMessageFails
  BY <1>1, <1>2 DEF Timeout, Expire, ConsumeMessageFails, TypeOK
<1>12. ASSUME NEW v \in Videos, Age(v) PROVE OverInv'
  BY <1>7, <1>12 DEF Age, jobVars, historyVars
<1>13. CASE UNCHANGED vars
  BY <1>7, <1>13 DEF vars, redisVars, jobVars, historyVars
<1> QED
  BY <1>3, <1>6, <1>8, <1>9, <1>10, <1>11, <1>12, <1>13 DEF Next

\* Processing is "idempotent per videoID" as long as nothing fails, times out or crashes:
\* however many instances, workers and retries there are, a finished job is never done again and
\* so never dead. The run finished_dead shows that one crash is enough to break it.
THEOREM FinishedOnce == Spec => [](Untroubled => FinishedStaysFinished)
<1>1. Init => OnceInv
  <2>1. Init => OverInv
    BY DEF Init, OverInv
  <2> QED
    BY <2>1, InitExclusion DEF OnceInv
<1>2. OnceInv => (Untroubled => FinishedStaysFinished)
  BY DEF OnceInv, OverInv, FinishedStaysFinished
<1> QED
  BY <1>1, <1>2, StepOnce, PTL DEF Spec

-----------------------------------------------------------------------------
\* Orphans

\* The processing queue holds the running attempts and nothing else.
NoOrphans ==
  \A v \in Videos : processingQ[v] = Cardinality(Running(v)) /\ ~Stranded(v)

OwnedInv == \A v \in Videos : processingQ[v] <= Cardinality(Running(v))

NoOrphanInv == ExclusionInv /\ (Untroubled => OwnedInv)

LEMMA ConsumeOwned ==
  ASSUME TypeOK, ControlInv, OwnedInv, NEW s \in Attempts, NEW v \in Videos, ConsumeMessage(s, v)
  PROVE  OwnedInv'
<1>1. /\ video[s] = NoVideo /\ video' = [video EXCEPT ![s] = v]
      /\ processingQ' = [processingQ EXCEPT ![v] = @ + 1]
  BY DEF ConsumeMessage, BRPopLPush, LPush, ControlInv, GoroutineInv
<1>2. ASSUME NEW w \in Videos PROVE processingQ'[w] <= Cardinality(Running(w))'
  <2>1. CASE w = v
    <3>1. Running(w)' = Running(w) \cup {s} /\ s \notin Running(w)
      BY <1>1, <2>1 DEF Running, TypeOK
    <3>2. Cardinality(Running(w))' = Cardinality(Running(w)) + 1
      BY <3>1, FiniteRunning, FS_AddElement
    <3> QED BY <1>1, <2>1, <3>2, FiniteRunning DEF OwnedInv, TypeOK
  <2>2. CASE w # v
    <3>1. Running(w)' = Running(w)
      BY <1>1, <2>2 DEF Running, TypeOK
    <3> QED BY <1>1, <2>2, <3>1 DEF OwnedInv, TypeOK
  <2> QED BY <2>1, <2>2
<1> QED BY <1>2 DEF OwnedInv

LEMMA AckOwned ==
  ASSUME TypeOK, OwnedInv, ~Fault, NEW s \in Attempts, AcknowledgeMessage(s)
  PROVE  OwnedInv'
<1>0. PICK v : v = video[s]
  OBVIOUS
<1>1. /\ v \in Videos /\ video' = [video EXCEPT ![s] = NoVideo]
      /\ processingQ' = [processingQ EXCEPT ![v] = IF @ = 0 THEN 0 ELSE @ - 1]
  BY <1>0 DEF AcknowledgeMessage, LRem, TypeOK
<1>2. ASSUME NEW w \in Videos PROVE processingQ'[w] <= Cardinality(Running(w))'
  <2>1. CASE w = v
    <3>1. Running(w)' = Running(w) \ {s} /\ s \in Running(w)
      BY <1>0, <1>1, <2>1 DEF Running, TypeOK
    <3>2. Cardinality(Running(w))' = Cardinality(Running(w)) - 1
      BY <3>1, FiniteRunning, FS_RemoveElement
    <3>3. Cardinality(Running(w))' \in Nat
      BY <3>1, FiniteRunning, FS_RemoveElement, FS_CardinalityType
    <3> QED BY <1>1, <2>1, <3>2, <3>3, FiniteRunning DEF OwnedInv, TypeOK
  <2>2. CASE w # v
    <3>1. Running(w)' = Running(w)
      BY <1>0, <1>1, <2>2 DEF Running, TypeOK
    <3> QED BY <1>1, <2>2, <3>1 DEF OwnedInv, TypeOK
  <2> QED BY <2>1, <2>2
<1> QED BY <1>2 DEF OwnedInv

LEMMA StepOrphan == NoOrphanInv /\ [Next]_vars => NoOrphanInv'
<1> SUFFICES ASSUME NoOrphanInv, [Next]_vars, Untroubled' PROVE OwnedInv'
  BY StepExclusion DEF NoOrphanInv
<1>1. /\ TypeOK /\ ControlInv /\ OwnedInv /\ crashes = 0 /\ ~Fault
      /\ \A p \in Procs : ~Crash(p)
  BY UntroubledBefore DEF NoOrphanInv, ExclusionInv
<1>2. ASSUME UNCHANGED <<video, processingQ>> PROVE OwnedInv'
  <2>1. \A w : Running(w)' = Running(w)
    BY <1>2 DEF Running
  <2> QED BY <1>1, <1>2, <2>1 DEF OwnedInv
<1>3. ASSUME NEW s \in Attempts, JobStep(s) PROVE OwnedInv'
  <2>1. CASE Moves(s) \/ Writes(s)
    BY <1>2, <2>1 DEF Moves, Writes, TokensStay
  <2>2. CASE RequeueJobPush(s)
    BY <1>2, <2>2 DEF RequeueJobPush
  <2> QED BY <1>1, <1>3, <2>1, <2>2, JobEffect, AckOwned DEF ControlInv
<1>4. ASSUME NEW p \in Procs, RecoveryStep(p) PROVE OwnedInv'
  <2>1. rpc[p] = "scan"
    BY <1>1 DEF ControlInv, UncrashedInv
  <2> QED
    BY <1>2, <1>4, <2>1 DEF RecoveryStep, RecoverScan, RecoverGet, RecoverSet, RecoverRem, RecoverPush,
       redisVars, jobVars
<1>5. ASSUME NEW v \in Videos, PublishJob(v) \/ Age(v) \/ Expire(v) PROVE OwnedInv'
  BY <1>2, <1>5 DEF PublishJob, Age, Expire, jobVars
<1>6. ASSUME NEW s \in Attempts, Timeout(s) PROVE OwnedInv'
  BY <1>2, <1>6 DEF Timeout, redisVars
<1>7. CASE ConsumeMessageFails
  BY <1>1, <1>7 DEF ConsumeMessageFails
<1>8. CASE UNCHANGED vars
  BY <1>2, <1>8 DEF vars, redisVars, jobVars
<1>9. ASSUME NEW s \in Attempts, NEW v \in Videos, ConsumeMessage(s, v) PROVE OwnedInv'
  BY <1>1, <1>9, ConsumeOwned
<1> QED BY <1>1, <1>3, <1>4, <1>5, <1>6, <1>7, <1>8, <1>9 DEF Next

\* Only a crash, a failed command or a timeout makes an orphan, one that the recovery misses
\* included (run orphan_stranded): in their absence every copy in the processing queue is that of
\* a running attempt, however many instances and retries there are.
THEOREM OrphansNeedTrouble == Spec => [](Untroubled => NoOrphans)
<1>1. Init => NoOrphanInv
  <2>1. Init => OwnedInv
    <3> SUFFICES ASSUME Init, NEW w \in Videos PROVE processingQ[w] <= Cardinality(Running(w))
      BY DEF OwnedInv
    <3>1. Running(w) = {} /\ processingQ[w] = 0
      BY DEF Init, Running
    <3> QED BY <3>1, FS_EmptySet
  <2> QED
    BY <2>1, InitExclusion DEF NoOrphanInv
<1>2. NoOrphanInv => (Untroubled => NoOrphans)
  <2> SUFFICES ASSUME NoOrphanInv, Untroubled, NEW v \in Videos
               PROVE  processingQ[v] = Cardinality(Running(v)) /\ ~Stranded(v)
    BY DEF NoOrphans
  <2>1. processingQ[v] = Cardinality(Running(v))
    BY FiniteRunning DEF NoOrphanInv, ExclusionInv, OwnedInv, CopyInv, TypeOK, Untroubled
  <2>2. Running(v) = {} => Cardinality(Running(v)) = 0
    BY FS_EmptySet
  <2> QED BY <2>1, <2>2 DEF Stranded
<1> QED
  BY <1>1, <1>2, StepOrphan, PTL DEF Spec

=============================================================================
