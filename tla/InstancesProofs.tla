--------------------------- MODULE InstancesProofs ---------------------------
(***************************************************************************)
(* A shutdown is a crash: Instances implements JobQueue, so what is proved *)
(* about JobQueue holds across shutdowns too.  And the goroutines of an    *)
(* instance do not spoil each other's temporary files.                     *)
(***************************************************************************)
EXTENDS Instances, JobQueueProofs

USE ConstantsAssumption

\* JobQueue and its theorems, with the budgets that the queues see.
Proved == INSTANCE JobQueueTheorems WITH ctx <- Budget

\* A goroutine has a context from SetJobProcessing on, which ends early only in an instance that
\* leaves.
ContextInv ==
  \A s \in Attempts :
    /\ pc[s] \in {"free", "procGet", "procSet"} => ctx[s] = "none"
    /\ ctx[s] = "expired" => Leaving(Instance(s))
    /\ s \in cancelled => ctx[s] = "expired"

\* The workers of p that would wait for a job if its context were running.
Employed(p) == {s \in Attempts : Instance(s) = p /\ pc[s] \in WorkerSteps}

\* A leaving instance takes no more messages than it has workers in BRPOPLPUSH.
CapacityInv ==
  \A p \in Procs :
    /\ Cardinality(Employed(p)) + waiting[p] <= WorkerCount
    /\ ~Leaving(p) => waiting[p] = 0

InstancesInv ==
  /\ TypeOK
  /\ phase \in [Procs -> Phases] /\ waiting \in [Procs -> Nat] /\ cancelled \subseteq Attempts
  /\ ContextInv /\ CapacityInv

-----------------------------------------------------------------------------
\* What a command of a goroutine does to the contexts.
LEMMA JobContext ==
  ASSUME TypeOK, NEW s \in Attempts, JobStep(s)
  PROVE  /\ \A t \in Attempts \ {s} : pc'[t] = pc[t] /\ ctx'[t] = ctx[t]
         /\ pc[s] # "free" /\ (pc'[s] \in WorkerSteps => pc[s] \in WorkerSteps)
         /\ \/ pc[s] = "procSet" /\ pc'[s] = "download" /\ ctx'[s] \in {"stamped", "unstamped"}
            \/ pc[s] = "ack" /\ pc'[s] = "free" /\ ctx'[s] = "none"
            \/ pc[s] = "procGet" /\ pc'[s] = "procSet" /\ ctx' = ctx
            \/ /\ pc[s] \notin {"procGet", "procSet", "ack"}
               /\ pc'[s] \notin {"free", "procGet", "procSet"}
               /\ ctx' = ctx
<1> USE DEF TypeOK, Goto, Fail, WorkerSteps
<1>1. CASE SetJobProcessingGet(s) \/ SetJobDoneGet(s) \/ SetJobFailedGet(s)
  BY <1>1 DEF SetJobProcessingGet, SetJobDoneGet, SetJobFailedGet, SetterGet
<1>2. CASE SetJobProcessing(s)
  BY <1>2 DEF SetJobProcessing
<1>3. CASE Download(s) \/ Process(s) \/ Upload(s) \/ ArchiveCopy(s) \/ ArchiveRemove(s)
           \/ PublishSuccessMessage(s)
  BY <1>3 DEF Download, Process, Upload, ArchiveCopy, ArchiveRemove, PublishSuccessMessage
<1>4. CASE SetJobDone(s) \/ NotifySuccess(s)
  BY <1>4 DEF SetJobDone, NotifySuccess
<1>5. CASE SetJobFailed(s) \/ RequeueJobGet(s)
  BY <1>5 DEF SetJobFailed, RequeueJobGet
<1>6. CASE RequeueJobSet(s) \/ RequeueJobPush(s) \/ MoveToDLQ(s)
  BY <1>6 DEF RequeueJobSet, RequeueJobPush, MoveToDLQ
<1>7. CASE AcknowledgeMessage(s)
  BY <1>7 DEF AcknowledgeMessage
<1> QED
  BY <1>1, <1>2, <1>3, <1>4, <1>5, <1>6, <1>7 DEF JobStep

\* There are finitely many goroutines.
LEMMA FiniteEmployed ==
  \A p : /\ IsFiniteSet(Employed(p)) /\ Cardinality(Employed(p)) \in Nat
         /\ IsFiniteSet(Employed(p)') /\ Cardinality(Employed(p))' \in Nat
<1>1. IsFiniteSet(Attempts)
  BY FS_Product DEF Attempts
<1>2. \A p : Employed(p) \subseteq Attempts /\ Employed(p)' \subseteq Attempts
  BY DEF Employed, Attempts
<1>3. \A p : IsFiniteSet(Employed(p)) /\ IsFiniteSet(Employed(p)')
  BY <1>1, <1>2, FS_Subset
<1> QED
  BY <1>3, FS_CardinalityType

\* An instance whose workers have not taken a message keeps its capacity.
LEMMA CapacityKept ==
  ASSUME CapacityInv, waiting \in [Procs -> Nat], UNCHANGED <<phase, waiting>>,
         \A s \in Attempts : pc'[s] \in WorkerSteps => pc[s] \in WorkerSteps
  PROVE  CapacityInv'
<1> SUFFICES ASSUME NEW p \in Procs
             PROVE  Cardinality(Employed(p))' <= Cardinality(Employed(p))
  BY FiniteEmployed DEF CapacityInv, Leaving
<1>1. Employed(p)' \subseteq Employed(p)
  BY DEF Employed, Attempts, Instance
<1> QED
  BY <1>1, FiniteEmployed, FS_Subset

-----------------------------------------------------------------------------
\* The invariant survives every step.
LEMMA InitInstances == InstancesInit => InstancesInv
<1> SUFFICES ASSUME InstancesInit PROVE InstancesInv
  OBVIOUS
<1>1. TypeOK
  BY InitType DEF InstancesInit
<1>2. ContextInv
  BY DEF InstancesInit, Init, ContextInv
<1>3. CapacityInv
  <2>1. \A p \in Procs : Employed(p) = {}
    BY DEF InstancesInit, Init, Employed, WorkerSteps
  <2>2. \A p \in Procs : Cardinality(Employed(p)) = 0
    BY <2>1, FS_EmptySet
  <2> QED
    BY <2>2 DEF InstancesInit, CapacityInv
<1> QED
  BY <1>1, <1>2, <1>3 DEF InstancesInit, InstancesInv, Phases

LEMMA GoroutineInstances ==
  ASSUME InstancesInv, NEW s \in Attempts, GoroutineStep(s)
  PROVE  InstancesInv'
<1>1. /\ TypeOK /\ JobStep(s) /\ UNCHANGED <<phase, waiting>>
      /\ cancelled' = {t \in cancelled : pc'[t] # "free"}
  BY DEF InstancesInv, GoroutineStep
<1>2. TypeOK'
  BY <1>1, StepType DEF Next
<1>3. ContextInv'
  BY <1>1, JobContext DEF InstancesInv, ContextInv, Leaving
<1>4. CapacityInv'
  BY <1>1, JobContext, CapacityKept DEF InstancesInv
<1> QED
  BY <1>1, <1>2, <1>3, <1>4 DEF InstancesInv

LEMMA CancelInstances ==
  ASSUME InstancesInv, NEW s \in Attempts, Cancel(s)
  PROVE  InstancesInv'
<1> USE DEF InstancesInv, Cancel, redisVars, minioVars, recoverVars, historyVars, boundVars
<1>1. ctx' \in [Attempts -> Contexts]
  BY DEF TypeOK, Contexts
<1>2. TypeOK'
  BY <1>1 DEF TypeOK
<1>3. ContextInv'
  BY DEF ContextInv, Leaving, Doomed, TypeOK
<1>4. CapacityInv'
  BY CapacityKept
<1> QED
  BY <1>2, <1>3, <1>4

LEMMA TakeInstances ==
  ASSUME InstancesInv, NEW s \in Attempts, NEW v \in Videos, TakeMessage(s, v)
  PROVE  InstancesInv'
<1>0. PICK p \in Procs : p = Instance(s)
  BY DEF Attempts, Instance
<1>1. /\ ConsumeMessage(s, v) /\ pc[s] = "free" /\ UNCHANGED <<ctx, phase, cancelled>>
      /\ pc' = [pc EXCEPT ![s] = "procGet"]
      /\ Cardinality(BusyWorkers(p)) < WorkerCount
      /\ Leaving(p) => waiting[p] > 0
      /\ waiting' = [waiting EXCEPT ![p] = IF Leaving(p) THEN @ - 1 ELSE @]
  BY <1>0 DEF TakeMessage, ConsumeMessage, Goto
<1>2. TypeOK'
  BY <1>1, StepType DEF Next, InstancesInv
<1>3. ContextInv'
  BY <1>1 DEF InstancesInv, ContextInv, Leaving, TypeOK
<1>4. \A q \in Procs : /\ q # p => Employed(q)' = Employed(q)
                       /\ Employed(p)' = Employed(p) \cup {s} /\ s \notin Employed(p)
  BY <1>0, <1>1 DEF InstancesInv, TypeOK, Employed, Attempts, Instance, WorkerSteps
<1>5. Cardinality(Employed(p))' = Cardinality(Employed(p)) + 1
  BY <1>4, FiniteEmployed, FS_AddElement
<1>6. ~Leaving(p) => Cardinality(Employed(p)) < WorkerCount
  <2>1. ~Leaving(p) => Employed(p) = BusyWorkers(p)
    BY DEF InstancesInv, ContextInv, Employed, BusyWorkers, Busy
  <2> QED
    BY <1>1, <2>1
<1>7. waiting' \in [Procs -> Nat]
  BY <1>1 DEF InstancesInv
<1>8. CapacityInv'
  <2> SUFFICES ASSUME NEW q \in Procs
               PROVE  /\ Cardinality(Employed(q))' + waiting'[q] <= WorkerCount
                      /\ ~Leaving(q) => waiting'[q] = 0
    BY <1>1 DEF CapacityInv, Leaving
  <2>1. CASE q = p
    BY <1>1, <1>5, <1>6, <2>1, FiniteEmployed DEF InstancesInv, CapacityInv
  <2>2. CASE q # p
    BY <1>1, <1>4, <2>2 DEF InstancesInv, CapacityInv
  <2> QED
    BY <2>1, <2>2
<1> QED
  BY <1>1, <1>2, <1>3, <1>7, <1>8 DEF InstancesInv

\* Only the steps of other parts are left.
LEMMA QuietInstances ==
  ASSUME InstancesInv, TypeOK', UNCHANGED <<pc, ctx, instanceVars>>
  PROVE  InstancesInv'
<1>1. ContextInv'
  BY DEF InstancesInv, ContextInv, Leaving, instanceVars
<1>2. CapacityInv'
  BY CapacityKept DEF InstancesInv, instanceVars
<1> QED
  BY <1>1, <1>2 DEF InstancesInv, instanceVars

\* Before the signal every worker waits for a job or for a message.
LEMMA SignalInstances ==
  ASSUME InstancesInv, NEW p \in Procs, Signal(p)
  PROVE  InstancesInv'
<1> USE DEF Signal, vars, jobVars
<1>1. TypeOK'
  BY StepType DEF InstancesInv
<1>2. ContextInv'
  BY DEF InstancesInv, ContextInv, Leaving
<1>3. \A q : Employed(q)' = Employed(q)
  BY DEF Employed
<1>4. Employed(p) = BusyWorkers(p)
  BY DEF InstancesInv, ContextInv, Employed, BusyWorkers, Busy, Leaving
<1>5. WorkerCount - Cardinality(Employed(p)) \in Nat
  BY FiniteEmployed DEF InstancesInv, CapacityInv
<1>6. CapacityInv'
  BY <1>3, <1>4, <1>5, FiniteEmployed DEF InstancesInv, CapacityInv, Leaving
<1> QED
  BY <1>1, <1>2, <1>4, <1>5, <1>6 DEF InstancesInv, Phases

LEMMA VanishInstances ==
  ASSUME InstancesInv, NEW p \in Procs, Vanish(p)
  PROVE  InstancesInv'
<1> USE DEF Vanish
<1>1. TypeOK'
  BY StepType DEF InstancesInv, Next
<1>2. \A s \in Attempts : /\ pc'[s] = IF Instance(s) = p THEN "free" ELSE pc[s]
                          /\ ctx'[s] = IF Instance(s) = p THEN "none" ELSE ctx[s]
  BY DEF Crash
<1>3. ContextInv'
  BY <1>2 DEF InstancesInv, ContextInv, Leaving, Attempts, Instance
<1>4. Employed(p)' = {} /\ \A q \in Procs \ {p} : Employed(q)' = Employed(q)
  BY <1>2 DEF Employed, WorkerSteps
<1>5. Cardinality(Employed(p)') = 0
  BY <1>4, FS_EmptySet
<1>6. CapacityInv'
  BY <1>4, <1>5 DEF InstancesInv, CapacityInv, Leaving
<1> QED
  BY <1>1, <1>3, <1>6 DEF InstancesInv, Phases

LEMMA StepInstances == InstancesInv /\ [InstancesNext]_allVars => InstancesInv'
<1> SUFFICES ASSUME InstancesInv, [InstancesNext]_allVars PROVE InstancesInv'
  OBVIOUS
<1> USE DEF InstancesInv, instanceVars
<1>1. ASSUME NEW v \in Videos, (PublishJob(v) /\ UNCHANGED instanceVars) \/ TimePasses(v)
      PROVE  InstancesInv'
  <2>1. TypeOK'
    BY <1>1, StepType DEF Next, TimePasses
  <2> QED
    BY <1>1, <2>1, QuietInstances DEF PublishJob, TimePasses, Age, jobVars
<1>2. ASSUME NEW p \in Procs, RecoveryGoesOn(p)
      PROVE  InstancesInv'
  <2>1. TypeOK' /\ RecoveryStep(p) /\ UNCHANGED instanceVars
    BY <1>2, StepType DEF Next, RecoveryGoesOn
  <2> QED
    BY <2>1, QuietInstances DEF RecoveryStep, RecoverScan, RecoverGet, RecoverSet, RecoverRem,
       RecoverPush, jobVars
<1>3. ASSUME NEW p \in Procs, WorkerReturns(p)
      PROVE  InstancesInv'
  <2>1. TypeOK'
    BY <1>3, StepType DEF WorkerReturns
  <2>2. ContextInv'
    BY <1>3 DEF WorkerReturns, ContextInv, Leaving, vars, jobVars
  <2>3. waiting' \in [Procs -> Nat]
    BY <1>3 DEF WorkerReturns
  <2>4. \A q : Employed(q)' = Employed(q)
    BY <1>3 DEF WorkerReturns, Employed, vars, jobVars
  <2>5. CapacityInv'
    BY <1>3, <2>4, FiniteEmployed DEF WorkerReturns, CapacityInv, Leaving
  <2> QED
    BY <1>3, <2>1, <2>2, <2>3, <2>5 DEF WorkerReturns
<1>4. ASSUME NEW p \in Procs, GraceEnds(p)
      PROVE  InstancesInv'
  <2>1. TypeOK'
    BY <1>4, StepType DEF GraceEnds
  <2>2. ContextInv'
    BY <1>4 DEF GraceEnds, ContextInv, Leaving, vars, jobVars
  <2>3. \A q : Employed(q)' = Employed(q)
    BY <1>4 DEF GraceEnds, Employed, vars, jobVars
  <2>4. CapacityInv'
    BY <1>4, <2>3 DEF GraceEnds, CapacityInv, Leaving
  <2> QED
    BY <1>4, <2>1, <2>2, <2>4 DEF GraceEnds, Phases
<1>5. CASE UNCHANGED allVars
  <2>1. TypeOK'
    BY <1>5, StepType DEF allVars
  <2> QED
    BY <1>5, <2>1, QuietInstances DEF allVars, vars, jobVars
<1> QED
  BY <1>1, <1>2, <1>3, <1>4, <1>5, GoroutineInstances, CancelInstances, TakeInstances,
     SignalInstances, VanishInstances DEF InstancesNext, Exit, Killed

LEMMA InstancesInvariant == InstancesSpec => []InstancesInv
BY InitInstances, StepInstances, PTL DEF InstancesSpec

-----------------------------------------------------------------------------
\* What the queues see

LEMMA SameBudget == UNCHANGED <<ctx, cancelled>> => Budget' = Budget
BY DEF Budget

\* The end of a budget that was cut short is not seen.
LEMMA BudgetRuns ==
  ASSUME InstancesInv, NEW s \in Attempts
  PROVE  /\ Budget[s] # "expired" /\ (ctx[s] # "expired" => Budget[s] = ctx[s])
         /\ Budget[s] = "stamped" <=> ctx[s] = "stamped" \/ s \in cancelled
BY DEF InstancesInv, ContextInv, Budget

\* A goroutine keeps its budget until it ends.
LEMMA BudgetStep ==
  ASSUME InstancesInv, NEW s \in Attempts, GoroutineStep(s)
  PROVE  Budget' = IF pc[s] \in {"procSet", "ack"} THEN [Budget EXCEPT ![s] = ctx'[s]] ELSE Budget
<1>1. JobStep(s) /\ TypeOK /\ cancelled' = {t \in cancelled : pc'[t] # "free"}
  BY DEF GoroutineStep, InstancesInv
<1>2. \A t \in cancelled : pc[t] \notin {"free", "procGet", "procSet"} /\ t \in Attempts
  BY DEF InstancesInv, ContextInv
<1>3. CASE pc[s] \notin {"procSet", "ack"}
  <2>1. ctx' = ctx /\ cancelled' = cancelled
    BY <1>1, <1>2, <1>3, JobContext
  <2> QED
    BY <1>3, <2>1, SameBudget
<1>4. CASE pc[s] \in {"procSet", "ack"}
  <2>1. cancelled' = cancelled \ {s} /\ ctx'[s] # "expired"
    BY <1>1, <1>2, <1>4, JobContext
  <2> QED
    BY <1>1, <1>4, <2>1, JobContext DEF Budget
<1> QED
  BY <1>3, <1>4

\* A goroutine executes the same command.
LEMMA JobRefines ==
  ASSUME InstancesInv, NEW s \in Attempts, GoroutineStep(s)
  PROVE  Queue!JobStep(s)
<1> USE DEF GetJobState, Queue!GetJobState, SetJobStateFails, Queue!SetJobStateFails,
            SetJobState, Queue!SetJobState, Fault, Queue!Fault, Goto, Queue!Goto,
            Fail, Queue!Fail, Keep, Queue!Keep, CountFailure, Queue!CountFailure,
            LPush, Queue!LPush, LRem, Queue!LRem, NoState, Queue!NoState, redisVars,
            Queue!redisVars, minioVars, Queue!minioVars, recoverVars,
            Queue!recoverVars, historyVars, Queue!historyVars, boundVars,
            Queue!boundVars
<1>0. JobStep(s)
  BY DEF GoroutineStep
<1>1. CASE SetJobProcessing(s)
  <2>1. \A budget : ctx' = [ctx EXCEPT ![s] = budget] => Budget' = [Budget EXCEPT ![s] = budget]
    BY <1>1, BudgetStep DEF SetJobProcessing, InstancesInv, TypeOK
  <2> QED
    BY <1>1, <2>1 DEF SetJobProcessing, Queue!SetJobProcessing, Queue!JobStep
<1>2. CASE AcknowledgeMessage(s)
  <2>1. Budget' = [Budget EXCEPT ![s] = "none"]
    BY <1>2, BudgetStep DEF AcknowledgeMessage, InstancesInv, TypeOK
  <2> QED
    BY <1>2, <2>1 DEF AcknowledgeMessage, Queue!AcknowledgeMessage, Queue!JobStep
<1>3. CASE ~SetJobProcessing(s) /\ ~AcknowledgeMessage(s)
  <2>0. Budget' = Budget
    <3>1. pc[s] \notin {"procSet", "ack"}
      BY <1>0, <1>3 DEF JobStep, SetJobProcessingGet, SetJobDoneGet, SetJobFailedGet, SetterGet,
         Download, Process, Upload, ArchiveCopy, ArchiveRemove, PublishSuccessMessage, SetJobDone,
         NotifySuccess, SetJobFailed, RequeueJobGet, RequeueJobSet, RequeueJobPush, MoveToDLQ
    <3> QED
      BY <3>1, BudgetStep
  <2>1. CASE SetJobProcessingGet(s) \/ SetJobDoneGet(s) \/ SetJobFailedGet(s)
    BY <2>0, <2>1, BudgetRuns DEF SetJobProcessingGet, Queue!SetJobProcessingGet, SetJobDoneGet,
       Queue!SetJobDoneGet, SetJobFailedGet, Queue!SetJobFailedGet, SetterGet, Queue!SetterGet,
       Queue!JobStep
  <2>2. CASE Download(s) \/ Process(s) \/ Upload(s)
    BY <2>0, <2>2, BudgetRuns DEF Download, Queue!Download, Process, Queue!Process, Upload,
       Queue!Upload, Queue!JobStep
  <2>3. CASE ArchiveCopy(s) \/ ArchiveRemove(s)
    BY <2>0, <2>3, BudgetRuns DEF ArchiveCopy, Queue!ArchiveCopy, ArchiveRemove,
       Queue!ArchiveRemove, Queue!JobStep
  <2>4. CASE PublishSuccessMessage(s) \/ SetJobDone(s) \/ NotifySuccess(s)
    BY <2>0, <2>4, BudgetRuns DEF PublishSuccessMessage, Queue!PublishSuccessMessage,
       SetJobDone, Queue!SetJobDone, NotifySuccess, Queue!NotifySuccess, Notify, Queue!Notify,
       Queue!JobStep
  <2>5. CASE SetJobFailed(s) \/ RequeueJobGet(s)
    BY <2>0, <2>5, BudgetRuns DEF SetJobFailed, Queue!SetJobFailed, RequeueJobGet,
       Queue!RequeueJobGet, FailedState, Queue!FailedState, MayRetry, Queue!MayRetry,
       Queue!JobStep
  <2>6. CASE RequeueJobSet(s) \/ RequeueJobPush(s) \/ MoveToDLQ(s)
    BY <2>0, <2>6, BudgetRuns DEF RequeueJobSet, Queue!RequeueJobSet, RequeueJobPush,
       Queue!RequeueJobPush, MoveToDLQ, Queue!MoveToDLQ, Notify, Queue!Notify, Queue!JobStep
  <2> QED
    BY <1>0, <1>3, <2>1, <2>2, <2>3, <2>4, <2>5, <2>6 DEF JobStep
<1> QED
  BY <1>1, <1>2, <1>3

\* A worker takes a message only as long as fewer are employed than there are, whether or not
\* their contexts are cancelled.
LEMMA TakeRefines ==
  ASSUME InstancesInv, NEW s \in Attempts, NEW v \in Videos, TakeMessage(s, v)
  PROVE  Queue!ConsumeMessage(s, v)
<1>0. PICK p \in Procs : p = Instance(s)
  BY DEF Attempts, Instance
<1>1. /\ ConsumeMessage(s, v) /\ Cardinality(BusyWorkers(p)) < WorkerCount
      /\ Leaving(p) => waiting[p] > 0
      /\ Budget' = Budget
  BY <1>0, SameBudget DEF TakeMessage, ConsumeMessage
<1>2. Queue!BusyWorkers(Queue!Instance(s)) = Employed(p)
  BY <1>0, BudgetRuns DEF Queue!BusyWorkers, Queue!Busy, Queue!WorkerSteps, Queue!Attempts,
     Queue!Instance, Employed, Attempts, Instance, WorkerSteps
<1>3. Cardinality(Employed(p)) < WorkerCount
  <2>1. CASE Leaving(p)
    BY <1>1, <2>1, FiniteEmployed DEF InstancesInv, CapacityInv
  <2>2. CASE ~Leaving(p)
    <3>1. Employed(p) = BusyWorkers(p)
      BY <2>2 DEF InstancesInv, ContextInv, Employed, BusyWorkers, Busy
    <3> QED
      BY <1>1, <3>1
  <2> QED
    BY <2>1, <2>2
<1>4. ASSUME NEW S PROVE Queue!Cardinality(S) = Cardinality(S)
  BY DEF Queue!Cardinality, Cardinality, Queue!IsFiniteSet, IsFiniteSet
<1>5. Queue!Cardinality(Queue!BusyWorkers(Queue!Instance(s))) < WorkerCount
  BY <1>2, <1>3, <1>4
<1> HIDE DEF Queue!BusyWorkers, Queue!Instance, Queue!Cardinality
<1> QED
  BY <1>1, <1>5 DEF ConsumeMessage, Queue!ConsumeMessage, BRPopLPush, Queue!BRPopLPush, LPush,
     Queue!LPush, Goto, Queue!Goto, minioVars, Queue!minioVars, recoverVars, Queue!recoverVars,
     historyVars, Queue!historyVars, boundVars, Queue!boundVars

\* A job whose budget was cut short does not age.
LEMMA AgeRefines ==
  ASSUME InstancesInv, NEW v \in Videos, TimePasses(v)
  PROVE  Queue!Age(v)
<1>1. Age(v) /\ Budget' = Budget /\ \A s \in Attempts : video[s] = v => s \notin cancelled
  BY SameBudget DEF TimePasses, Age, jobVars, instanceVars, InstancesInv
<1>2. Queue!BudgetOver(v)
  BY <1>1, BudgetRuns DEF Age, BudgetOver, Queue!BudgetOver, Queue!Attempts, Attempts
<1> QED
  BY <1>1, <1>2 DEF Age, Queue!Age, minioVars, Queue!minioVars, jobVars, Queue!jobVars,
     recoverVars, Queue!recoverVars, historyVars, Queue!historyVars, boundVars, Queue!boundVars

LEMMA PublishRefines ==
  ASSUME NEW v \in Videos, PublishJob(v), UNCHANGED instanceVars
  PROVE  Queue!PublishJob(v)
<1>1. Budget' = Budget
  BY SameBudget DEF PublishJob, jobVars, instanceVars
<1> QED
  BY <1>1 DEF PublishJob, Queue!PublishJob, SetJobState, Queue!SetJobState, LPush, Queue!LPush,
     minioVars, Queue!minioVars, jobVars, Queue!jobVars, recoverVars, Queue!recoverVars,
     boundVars, Queue!boundVars

LEMMA RecoveryRefines ==
  ASSUME NEW p \in Procs, RecoveryGoesOn(p)
  PROVE  Queue!RecoveryStep(p)
<1> USE DEF GetJobState, Queue!GetJobState, SetJobStateFails, Queue!SetJobStateFails,
            SetJobState, Queue!SetJobState, Fault, Queue!Fault, RecoverNext,
            Queue!RecoverNext, CountFailure, Queue!CountFailure, LPush, Queue!LPush,
            LRem, Queue!LRem, NoState, Queue!NoState, redisVars, Queue!redisVars,
            minioVars, Queue!minioVars, jobVars, Queue!jobVars, historyVars,
            Queue!historyVars, boundVars, Queue!boundVars
<1>1. RecoveryStep(p) /\ UNCHANGED instanceVars
  BY DEF RecoveryGoesOn
<1>2. Budget' = Budget
  BY <1>1, SameBudget DEF RecoveryStep, RecoverScan, RecoverGet, RecoverSet, RecoverRem, RecoverPush,
     instanceVars
<1>3. CASE RecoverScan(p)
  BY <1>2, <1>3 DEF RecoverScan, Queue!RecoverScan, Queue!RecoveryStep
<1>4. CASE RecoverGet(p)
  BY <1>2, <1>4 DEF RecoverGet, Queue!RecoverGet, Examine, Queue!Examine, Orphan, Queue!Orphan,
     Queue!RecoveryStep
<1>5. CASE RecoverSet(p)
  BY <1>2, <1>5 DEF RecoverSet, Queue!RecoverSet, Queue!RecoveryStep
<1>6. CASE RecoverRem(p)
  BY <1>2, <1>6 DEF RecoverRem, Queue!RecoverRem, Queue!RecoveryStep
<1>7. CASE RecoverPush(p)
  BY <1>2, <1>7 DEF RecoverPush, Queue!RecoverPush, Queue!RecoveryStep
<1> QED
  BY <1>1, <1>3, <1>4, <1>5, <1>6, <1>7 DEF RecoveryStep

LEMMA VanishRefines ==
  ASSUME InstancesInv, NEW p \in Procs, Vanish(p)
  PROVE  Queue!Crash(p)
<1>1. Crash(p) /\ cancelled' = {s \in cancelled : Instance(s) # p}
  BY DEF Vanish
<1>2. Budget' = [s \in Attempts |-> IF Instance(s) = p THEN "none" ELSE Budget[s]]
  BY <1>1 DEF Crash, Budget
<1> QED
  BY <1>1, <1>2 DEF Crash, Queue!Crash, Attempts, Queue!Attempts, Instance, Queue!Instance,
     NoState, Queue!NoState, redisVars, Queue!redisVars, minioVars, Queue!minioVars

\* A cancellation is not seen.
LEMMA CancelRefines ==
  ASSUME InstancesInv, NEW s \in Attempts, Cancel(s)
  PROVE  Budget' = Budget
BY DEF Cancel, Doomed, Budget, InstancesInv, ContextInv, TypeOK

LEMMA StepRefines == InstancesInv /\ [InstancesNext]_allVars => [Queue!Next]_Queue!vars
<1> SUFFICES ASSUME InstancesInv, [InstancesNext]_allVars PROVE [Queue!Next]_Queue!vars
  OBVIOUS
<1>1. ASSUME UNCHANGED <<redisVars, minioVars, pc, video, copy, recoverVars, webhooks, historyVars,
                         boundVars>>,
             Budget' = Budget
      PROVE  UNCHANGED Queue!vars
  BY <1>1 DEF Queue!jobVars, Queue!vars, redisVars, Queue!redisVars, minioVars, Queue!minioVars,
     recoverVars, Queue!recoverVars, historyVars, Queue!historyVars, boundVars, Queue!boundVars
<1>2. ASSUME UNCHANGED <<vars, cancelled>>
      PROVE  UNCHANGED Queue!vars
  BY <1>1, <1>2, SameBudget DEF vars, jobVars
<1>3. ASSUME NEW p \in Procs, Signal(p) \/ WorkerReturns(p) \/ GraceEnds(p)
      PROVE  UNCHANGED Queue!vars
  BY <1>2, <1>3 DEF Signal, WorkerReturns, GraceEnds
<1>4. ASSUME NEW s \in Attempts, Cancel(s)
      PROVE  UNCHANGED Queue!vars
  BY <1>1, <1>4, CancelRefines DEF Cancel
<1>5. CASE UNCHANGED allVars
  BY <1>2, <1>5 DEF allVars, instanceVars
<1>6. ASSUME NEW p \in Procs, Exit(p) \/ Killed(p)
      PROVE  Queue!Crash(p)
  BY <1>6, VanishRefines DEF Exit, Killed
<1> QED
  BY <1>3, <1>4, <1>5, <1>6, JobRefines, TakeRefines, AgeRefines, PublishRefines, RecoveryRefines
     DEF InstancesNext, Queue!Next, Queue!Attempts, Attempts

LEMMA InitRefines == InstancesInit => Queue!Init
<1> SUFFICES ASSUME InstancesInit PROVE Queue!Init
  OBVIOUS
<1>1. Budget = [s \in Attempts |-> "none"]
  BY DEF InstancesInit, Init, Budget
<1> QED
  BY <1>1 DEF InstancesInit, Init, Queue!Init, Attempts, Queue!Attempts, NoState, Queue!NoState

\* Signals, cancelled contexts, the grace period and the exit do to the queues what a crash does,
\* for any number of instances, workers and goroutines.
THEOREM ShutdownsAreCrashes == InstancesSpec => ShutdownIsCrash
BY InstancesInvariant, InitRefines, StepRefines, PTL DEF InstancesSpec, ShutdownIsCrash, Queue!Spec

-----------------------------------------------------------------------------
\* What is proved about JobQueue

\* Both instances are the same protocol; the second one brings the theorems along.
LEMMA SameProtocol == Queue!Spec <=> Proved!Spec
<1> USE DEF Queue!SetterGet, Proved!SetterGet, Queue!GetJobState, Proved!GetJobState, Queue!SetJobState,
            Proved!SetJobState, Queue!SetJobStateFails, Proved!SetJobStateFails,
            Queue!RecoverNext, Proved!RecoverNext, Queue!Examine, Proved!Examine, Queue!Orphan,
            Proved!Orphan, Queue!Fault, Proved!Fault, Queue!Goto, Proved!Goto, Queue!Fail,
            Proved!Fail, Queue!Keep, Proved!Keep, Queue!CountFailure, Proved!CountFailure,
            Queue!LPush, Proved!LPush, Queue!LRem, Proved!LRem, Queue!NoState, Proved!NoState,
            Queue!Notify, Proved!Notify, Queue!FailedState, Proved!FailedState, Queue!MayRetry,
            Proved!MayRetry, Queue!redisVars, Proved!redisVars, Queue!minioVars,
            Proved!minioVars, Queue!jobVars, Proved!jobVars, Queue!recoverVars,
            Proved!recoverVars, Queue!historyVars, Proved!historyVars, Queue!boundVars,
            Proved!boundVars, Queue!BudgetOver, Proved!BudgetOver, Queue!Instance,
            Proved!Instance, Queue!Attempts, Proved!Attempts, Queue!BRPopLPush,
            Proved!BRPopLPush
<1>1. ASSUME NEW s
      PROVE  /\ Queue!SetJobProcessingGet(s) <=> Proved!SetJobProcessingGet(s)
             /\ Queue!SetJobDoneGet(s) <=> Proved!SetJobDoneGet(s)
             /\ Queue!SetJobFailedGet(s) <=> Proved!SetJobFailedGet(s)
             /\ Queue!RequeueJobGet(s) <=> Proved!RequeueJobGet(s)
  BY DEF Queue!SetJobProcessingGet, Proved!SetJobProcessingGet, Queue!SetJobDoneGet,
     Proved!SetJobDoneGet, Queue!SetJobFailedGet, Proved!SetJobFailedGet, Queue!RequeueJobGet,
     Proved!RequeueJobGet
<1>2. ASSUME NEW s
      PROVE  /\ Queue!SetJobProcessing(s) <=> Proved!SetJobProcessing(s)
             /\ Queue!SetJobDone(s) <=> Proved!SetJobDone(s)
  BY DEF Queue!SetJobProcessing, Proved!SetJobProcessing, Queue!SetJobDone, Proved!SetJobDone
<1>3. ASSUME NEW s
      PROVE  /\ Queue!SetJobFailed(s) <=> Proved!SetJobFailed(s)
             /\ Queue!RequeueJobSet(s) <=> Proved!RequeueJobSet(s)
  BY DEF Queue!SetJobFailed, Proved!SetJobFailed, Queue!RequeueJobSet, Proved!RequeueJobSet
<1>4. ASSUME NEW s
      PROVE  /\ Queue!Download(s) <=> Proved!Download(s)
             /\ Queue!Process(s) <=> Proved!Process(s)
             /\ Queue!Upload(s) <=> Proved!Upload(s)
             /\ Queue!ArchiveCopy(s) <=> Proved!ArchiveCopy(s)
             /\ Queue!ArchiveRemove(s) <=> Proved!ArchiveRemove(s)
  BY DEF Queue!Download, Proved!Download, Queue!Process, Proved!Process, Queue!Upload,
     Proved!Upload, Queue!ArchiveCopy, Proved!ArchiveCopy, Queue!ArchiveRemove,
     Proved!ArchiveRemove
<1>5. ASSUME NEW s
      PROVE  /\ Queue!PublishSuccessMessage(s) <=> Proved!PublishSuccessMessage(s)
             /\ Queue!NotifySuccess(s) <=> Proved!NotifySuccess(s)
  BY DEF Queue!PublishSuccessMessage, Proved!PublishSuccessMessage, Queue!NotifySuccess,
     Proved!NotifySuccess
<1>6. ASSUME NEW s
      PROVE  /\ Queue!RequeueJobPush(s) <=> Proved!RequeueJobPush(s)
             /\ Queue!MoveToDLQ(s) <=> Proved!MoveToDLQ(s)
             /\ Queue!AcknowledgeMessage(s) <=> Proved!AcknowledgeMessage(s)
  BY DEF Queue!RequeueJobPush, Proved!RequeueJobPush, Queue!MoveToDLQ, Proved!MoveToDLQ,
     Queue!AcknowledgeMessage, Proved!AcknowledgeMessage
<1>7. ASSUME NEW s
      PROVE  Queue!Timeout(s) <=> Proved!Timeout(s)
  BY DEF Queue!Timeout, Proved!Timeout
<1>8. ASSUME NEW s PROVE Queue!JobStep(s) <=> Proved!JobStep(s)
  BY <1>1, <1>2, <1>3, <1>4, <1>5, <1>6 DEF Queue!JobStep, Proved!JobStep
<1>9. ASSUME NEW p
      PROVE  /\ Queue!RecoverScan(p) <=> Proved!RecoverScan(p)
             /\ Queue!RecoverGet(p) <=> Proved!RecoverGet(p)
             /\ Queue!RecoverSet(p) <=> Proved!RecoverSet(p)
             /\ Queue!RecoverRem(p) <=> Proved!RecoverRem(p)
             /\ Queue!RecoverPush(p) <=> Proved!RecoverPush(p)
             /\ Queue!Crash(p) <=> Proved!Crash(p)
  BY DEF Queue!RecoverScan, Proved!RecoverScan, Queue!RecoverGet, Proved!RecoverGet,
     Queue!RecoverSet, Proved!RecoverSet, Queue!RecoverRem, Proved!RecoverRem,
     Queue!RecoverPush, Proved!RecoverPush, Queue!Crash, Proved!Crash
<1>10. ASSUME NEW p PROVE Queue!RecoveryStep(p) <=> Proved!RecoveryStep(p)
  BY <1>9 DEF Queue!RecoveryStep, Proved!RecoveryStep
<1>11. ASSUME NEW v
      PROVE  /\ Queue!PublishJob(v) <=> Proved!PublishJob(v)
             /\ Queue!Age(v) <=> Proved!Age(v)
             /\ Queue!Expire(v) <=> Proved!Expire(v)
  BY DEF Queue!PublishJob, Proved!PublishJob, Queue!Age, Proved!Age, Queue!Expire, Proved!Expire
<1>12. ASSUME NEW s, NEW v PROVE Queue!ConsumeMessage(s, v) <=> Proved!ConsumeMessage(s, v)
  <2>1. Queue!BusyWorkers(s[1]) = Proved!BusyWorkers(s[1])
    BY DEF Queue!BusyWorkers, Proved!BusyWorkers, Queue!Busy, Proved!Busy,
       Queue!WorkerSteps, Proved!WorkerSteps
  <2>2. ASSUME NEW S PROVE Queue!Cardinality(S) = Proved!Cardinality(S)
    BY DEF Queue!Cardinality, Proved!Cardinality, Queue!IsFiniteSet, Proved!IsFiniteSet
  <2> QED
    BY <2>1, <2>2 DEF Queue!ConsumeMessage, Proved!ConsumeMessage
<1>13. Queue!ConsumeMessageFails <=> Proved!ConsumeMessageFails
  BY DEF Queue!ConsumeMessageFails, Proved!ConsumeMessageFails
<1>14. Queue!Next <=> Proved!Next
  BY <1>7, <1>8, <1>9, <1>10, <1>11, <1>12, <1>13, Zenon DEF Queue!Next, Proved!Next
<1>15. [Queue!Next]_Queue!vars <=> [Proved!Next]_Proved!vars
  BY <1>14 DEF Queue!vars, Proved!vars
<1>16. Queue!Init <=> Proved!Init
  BY DEF Queue!Init, Proved!Init
<1> QED
  BY <1>15, <1>16, PTL DEF Queue!Spec, Proved!Spec

\* So every theorem about JobQueue is one about the queues of instances that shut down.
LEMMA ProvedSpec == InstancesSpec => Proved!Spec
BY ShutdownsAreCrashes, SameProtocol DEF ShutdownIsCrash

LEMMA SameCardinality == \A S : Proved!Cardinality(S) = Cardinality(S)
BY DEF Proved!Cardinality, Cardinality, Proved!IsFiniteSet, IsFiniteSet

LEMMA SameUndisturbed == Proved!Undisturbed <=> Undisturbed
BY SameCardinality DEF Proved!Undisturbed, Undisturbed

\* A retried job is handed over while its goroutine runs on, and the goroutines of an instance
\* that leaves run on until it exits; still no two attempts process one video, and the one that
\* exits leaves the copies of its jobs in the processing queue.
THEOREM ShutdownsKeepExclusion == InstancesSpec => []ExclusiveProcessing
<1>1. Proved!Spec => []Proved!ExclusiveProcessing
  BY ConstantsAssumption, Proved!AttemptsAreExclusive DEF Proved!IsFiniteSet, IsFiniteSet
<1>2. Proved!ExclusiveProcessing <=> ExclusiveProcessing
  BY SameCardinality, SameUndisturbed DEF Proved!ExclusiveProcessing, ExclusiveProcessing,
     Proved!Running, Running, Proved!Attempts, Attempts
<1> QED
  BY <1>1, <1>2, ProvedSpec, PTL

\* A single instance that is shut down and started again, any number of times, never makes the
\* retry counter of a job fall behind the failures and recoveries that SetJobFailed and the
\* recovery loop have counted. (An attempt that the exit cuts before either of them is counted
\* when its job is recovered, and not before.)
THEOREM ShutdownsForgetNoFailure ==
  ASSUME Cardinality(Procs) = 1
  PROVE  InstancesSpec =>
           [](faults = 0 /\ timeouts = 0 => \A v \in Videos : failures[v] <= jobState[v].retry)
<1>1. Proved!Spec => []Proved!NoFailureForgotten
  BY ConstantsAssumption, Proved!NoFailureIsForgotten DEF Proved!IsFiniteSet, IsFiniteSet
<1>2. Proved!NoFailureForgotten =>
        (faults = 0 /\ timeouts = 0 => \A v \in Videos : failures[v] <= jobState[v].retry)
  BY SameUndisturbed DEF Proved!NoFailureForgotten, Undisturbed
<1> QED
  BY <1>1, <1>2, ProvedSpec, PTL

\* Whatever a shutdown interrupts, faults and further crashes included: a job is lost only in a
\* hand-over that a fault, a crash or an exit cuts between LREM and LPUSH, each of which costs one
\* job at most; none is dead before it has failed often enough, none says done without its video,
\* and no source is lost.
THEOREM ShutdownsLoseOnlyHandOvers ==
  InstancesSpec => []( /\ NoSilentLoss /\ Cardinality(Proved!Lost) <= faults + crashes
                       /\ DeadLetterJustified /\ DoneImpliesPublished /\ SourceKept)
<1>1. /\ Proved!Spec => []Proved!NoSilentLoss
      /\ Proved!Spec => [](Proved!Cardinality(Proved!Lost) <= faults + crashes)
      /\ Proved!Spec => []Proved!DeadLetterJustified
      /\ Proved!Spec => []Proved!DoneImpliesPublished
      /\ Proved!Spec => []Proved!SourceKept
  BY ConstantsAssumption, Proved!NoJobLostSilently, Proved!OneLossPerMishap,
     Proved!NoEarlyDeadLetter, Proved!DonePublished, Proved!SourceNeverLost
     DEF Proved!IsFiniteSet, IsFiniteSet
<1>2. Proved!NoSilentLoss <=> NoSilentLoss
  BY SameCardinality DEF Proved!NoSilentLoss, NoSilentLoss, Proved!Settled, Settled,
     Proved!Copies, Copies, Proved!Carriers, Carriers
<1>3. /\ Proved!DeadLetterJustified <=> DeadLetterJustified
      /\ Proved!DoneImpliesPublished <=> DoneImpliesPublished
      /\ Proved!SourceKept <=> SourceKept
  BY DEF Proved!DeadLetterJustified, DeadLetterJustified, Proved!DoneImpliesPublished,
     DoneImpliesPublished, Proved!SourceKept, SourceKept
<1>4. Proved!Cardinality(Proved!Lost) = Cardinality(Proved!Lost)
  BY SameCardinality
<1>5. /\ Proved!NoSilentLoss /\ Proved!Cardinality(Proved!Lost) <= faults + crashes
      /\ Proved!DeadLetterJustified /\ Proved!DoneImpliesPublished /\ Proved!SourceKept
      => /\ NoSilentLoss /\ Cardinality(Proved!Lost) <= faults + crashes
         /\ DeadLetterJustified /\ DoneImpliesPublished /\ SourceKept
  BY <1>2, <1>3, <1>4
<1> QED
  BY <1>1, <1>5, ProvedSpec, PTL

\* The promise to the API holds across shutdowns, an exit being a mishap like a crash.
THEOREM ShutdownsKeepPromise == InstancesSpec => Proved!KeepsPromise
<1>1. Proved!Spec => Proved!KeepsPromise
  BY ConstantsAssumption, Proved!WorkerKeepsPromise DEF Proved!IsFiniteSet, IsFiniteSet
<1> QED
  BY <1>1, ProvedSpec

-----------------------------------------------------------------------------
\* Temporary files

\* No other goroutine of the instance uses the files of one that its worker has just waited for.
LEMMA FilesNotShared ==
  ASSUME TypeOK, Proved!ExclusionInv, Undisturbed, NEW s \in Attempts, pc[s] \in WorkerSteps
  PROVE  FileUsers(s) = {}
<1> SUFFICES ASSUME NEW t \in FileUsers(s) PROVE FALSE
  OBVIOUS
<1>1. t \in Attempts /\ t # s /\ video[t] = video[s] /\ pc[t] # "ack"
  BY DEF FileUsers, UsesFiles
<1>2. video[s] \in Videos /\ pc[s] # "ack"
  BY DEF TypeOK, WorkerSteps
<1>3. Proved!GoroutineInv /\ Proved!TokenInv
  BY SameUndisturbed DEF Proved!ExclusionInv, Proved!ControlInv
<1>4. s \notin requeued /\ t \notin requeued
  BY <1>1, <1>2, <1>3 DEF Proved!GoroutineInv, Proved!Attempts, Attempts
<1>5. {s, t} \subseteq Proved!Working(video[s])
  BY <1>1, <1>4 DEF Proved!Working, Proved!Attempts, Attempts
<1> QED
  BY <1>1, <1>2, <1>3, <1>5 DEF Proved!TokenInv

\* The files are created and removed by a goroutine that has not handed its job over: a crash
\* removes none.
LEMMA FilesTouched ==
  ASSUME InstancesInv, [InstancesNext]_allVars, NEW s \in Attempts, WritesFiles(s) \/ RemovesFiles(s)
  PROVE  pc[s] \in WorkerSteps
<1>1. CASE RemovesFiles(s)
  BY <1>1 DEF RemovesFiles
<1>2. CASE WritesFiles(s)
  <2>1. pc[s] # "download" /\ pc'[s] = "download"
    BY <1>2 DEF WritesFiles
  <2>2. ASSUME NEW t \in Attempts, GoroutineStep(t) PROVE pc[s] \in WorkerSteps
    BY <2>1, <2>2, JobContext DEF GoroutineStep, InstancesInv, WorkerSteps
  <2>3. ASSUME NEW t \in Attempts, NEW v \in Videos, TakeMessage(t, v) PROVE FALSE
    BY <2>1, <2>3 DEF TakeMessage, ConsumeMessage, Goto, InstancesInv, TypeOK
  <2>4. ASSUME NEW p \in Procs, Exit(p) \/ Killed(p) PROVE FALSE
    BY <2>1, <2>4 DEF Exit, Killed, Vanish, Crash
  <2>5. CASE UNCHANGED pc
    BY <2>1, <2>5
  <2>6. ASSUME NEW p \in Procs, RecoveryGoesOn(p) PROVE UNCHANGED pc
    BY <2>6 DEF RecoveryGoesOn, RecoveryStep, RecoverScan, RecoverGet, RecoverSet, RecoverRem,
       RecoverPush, jobVars
  <2>7. ASSUME NEW v \in Videos, PublishJob(v) \/ TimePasses(v) PROVE UNCHANGED pc
    BY <2>7 DEF PublishJob, TimePasses, Age, jobVars
  <2>8. ASSUME NEW p \in Procs, Signal(p) \/ WorkerReturns(p) \/ GraceEnds(p) PROVE UNCHANGED pc
    BY <2>8 DEF Signal, WorkerReturns, GraceEnds, vars, jobVars
  <2>9. ASSUME NEW t \in Attempts, Cancel(t) PROVE UNCHANGED pc
    BY <2>9 DEF Cancel
  <2>10. CASE UNCHANGED allVars
    BY <2>5, <2>10 DEF allVars, vars, jobVars
  <2> QED
    BY <2>2, <2>3, <2>4, <2>5, <2>6, <2>7, <2>8, <2>9, <2>10 DEF InstancesNext
<1> QED
  BY <1>1, <1>2

\* Two goroutines of an instance hold the same video only while the first has handed it over and
\* is about to end, when its files are gone: none empties or removes the input file, the output
\* file or the directory of the other one.
THEOREM FilesAreOwn == InstancesSpec => OwnFiles
<1>1. /\ Proved!Init => Proved!ExclusionInv
      /\ Proved!ExclusionInv /\ [Proved!Next]_Proved!vars => Proved!ExclusionInv'
  BY ConstantsAssumption, Proved!InitExclusion, Proved!StepExclusion
     DEF Proved!IsFiniteSet, IsFiniteSet
<1>2. ASSUME InstancesInv, Proved!ExclusionInv, [InstancesNext]_allVars,
             NEW s \in Attempts, Undisturbed, WritesFiles(s) \/ RemovesFiles(s)
      PROVE  FileUsers(s) = {}
  BY <1>2, FilesTouched, FilesNotShared DEF InstancesInv
<1>3. Proved!Spec => []Proved!ExclusionInv
  BY <1>1, PTL DEF Proved!Spec
<1>4. InstancesInv /\ Proved!ExclusionInv /\ [InstancesNext]_allVars =>
        [\A s \in Attempts : /\ Undisturbed /\ Undisturbed'
                             /\ WritesFiles(s) \/ RemovesFiles(s)
                             => FileUsers(s) = {}]_allVars
  BY <1>2
<1> QED
  BY <1>3, <1>4, ProvedSpec, InstancesInvariant, PTL DEF InstancesSpec, OwnFiles

=============================================================================
