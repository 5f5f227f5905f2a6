------------------------------ MODULE Instances ------------------------------
(***************************************************************************)
(* The life of the instances that run JobQueue: the shutdown of main       *)
(* (main.go), with its two ways to end, and the temporary files that the   *)
(* job goroutines of an instance name after their video and so may share.  *)
(*                                                                         *)
(* JobQueue knows one way to go, Crash.  Here an instance is killed, or    *)
(* its context is cancelled and it leaves when its worker loops have       *)
(* returned or when the grace period is over, whichever is first.  Either  *)
(* way the goroutines that still run vanish as in a crash, so an exit      *)
(* counts as one.  The instance starts again.                              *)
(*                                                                         *)
(* Redis does not fail here, and no job runs out of its budget: JobQueue   *)
(* alone covers that.                                                      *)
(***************************************************************************)
EXTENDS JobQueue

VARIABLES
  phase,      \* "running"; "draining" after the signal; "late" when the grace period is over
  waiting,    \* workers of a draining instance that are still inside BRPOPLPUSH
  cancelled   \* goroutines whose budget was cut short by the shutdown

instanceVars == <<phase, waiting, cancelled>>

allVars == <<vars, instanceVars>>

Phases == {"running", "draining", "late"}

Leaving(p) == phase[p] # "running"

InstancesInit ==
  /\ Init
  /\ phase = [p \in Procs |-> "running"]
  /\ waiting = [p \in Procs |-> 0]
  /\ cancelled = {}

-----------------------------------------------------------------------------
\* Goroutines

\* The root context is cancelled, and s has not been told yet.
Doomed(s) == Leaving(Instance(s)) /\ ctx[s] \in {"stamped", "unstamped"}

\* processCtx descends from the root context: s is cancelled before it does anything else, and
\* its worker stops waiting for it.
Cancel(s) ==
  /\ Doomed(s)
  /\ ctx' = [ctx EXCEPT ![s] = "expired"]
  /\ cancelled' = IF ctx[s] = "stamped" THEN cancelled \cup {s} ELSE cancelled
  /\ UNCHANGED <<redisVars, minioVars, pc, video, copy, recoverVars, webhooks, historyVars,
                 boundVars, phase, waiting>>

GoroutineStep(s) ==
  /\ ~Doomed(s)
  /\ JobStep(s)
  /\ cancelled' = {t \in cancelled : pc'[t] # "free"}
  /\ UNCHANGED <<phase, waiting>>

\* A worker checks the root context before BRPOPLPUSH, so one that is inside it when the
\* signal arrives may still get a message, and process it.
TakeMessage(s, v) ==
  LET p == Instance(s)
  IN  /\ ConsumeMessage(s, v)
      /\ Leaving(p) => waiting[p] > 0
      /\ waiting' = [waiting EXCEPT ![p] = IF Leaving(p) THEN @ - 1 ELSE @]
      /\ UNCHANGED <<phase, cancelled>>

\* StartRecovery ends with the root context, but a scan that has begun does not look at it.
RecoveryGoesOn(p) ==
  /\ Leaving(p) => rpc[p] # "scan" \/ todo[p] # {}
  /\ RecoveryStep(p)
  /\ UNCHANGED instanceVars

\* A grace period that outlasts the minute below.
TimePassesAnyway(v) == Age(v) /\ UNCHANGED instanceVars

\* An instance that leaves is gone before the minute is over by which the recovery threshold
\* exceeds the job budget, so a job whose budget it cut short does not age while it lives.
TimePasses(v) ==
  /\ \A s \in cancelled : video[s] # v
  /\ Age(v)
  /\ UNCHANGED instanceVars

-----------------------------------------------------------------------------
\* Shutdown

\* Exits to come: they count as crashes.
Exits == Cardinality({p \in Procs : Leaving(p)})

\* SIGTERM or SIGINT: main cancels the root context and waits for the worker loops.
Signal(p) ==
  /\ phase[p] = "running"
  /\ crashes + Exits < MaxCrashes
  /\ phase' = [phase EXCEPT ![p] = "draining"]
  /\ waiting' = [waiting EXCEPT ![p] = WorkerCount - Cardinality(BusyWorkers(p))]
  /\ UNCHANGED <<vars, cancelled>>

\* BRPOPLPUSH of a worker is interrupted, which the client may do or not.
WorkerReturns(p) ==
  /\ Leaving(p) /\ waiting[p] > 0
  /\ waiting' = [waiting EXCEPT ![p] = @ - 1]
  /\ UNCHANGED <<vars, phase, cancelled>>

\* The 30 seconds are over.
GraceEnds(p) ==
  /\ phase[p] = "draining"
  /\ phase' = [phase EXCEPT ![p] = "late"]
  /\ UNCHANGED <<vars, waiting, cancelled>>

\* wg.Wait returns. It knows the worker loops, not the job goroutines.
WorkersReturned(p) == waiting[p] = 0 /\ BusyWorkers(p) = {}

MayExit(p) == WorkersReturned(p) \/ phase[p] = "late"

\* The instance goes, with what is left of it, and another one takes its place.
Vanish(p) ==
  /\ Crash(p)
  /\ phase' = [phase EXCEPT ![p] = "running"]
  /\ waiting' = [waiting EXCEPT ![p] = 0]
  /\ cancelled' = {s \in cancelled : Instance(s) # p}

Exit(p) == Leaving(p) /\ MayExit(p) /\ Vanish(p)

\* A crash. In an instance that leaves it is an early end of the grace period.
Killed(p) ==
  /\ ~Leaving(p)
  /\ crashes + Exits < MaxCrashes
  /\ Vanish(p)

InstancesNext ==
  \/ \E v \in Videos : PublishJob(v) /\ UNCHANGED instanceVars
  \/ \E v \in Videos : TimePasses(v)
  \/ \E s \in Attempts : GoroutineStep(s) \/ Cancel(s)
  \/ \E s \in Attempts, v \in Videos : TakeMessage(s, v)
  \/ \E p \in Procs : RecoveryGoesOn(p)
  \/ \E p \in Procs : Signal(p) \/ WorkerReturns(p) \/ GraceEnds(p) \/ Exit(p) \/ Killed(p)

\* As in JobQueue; and a cancelled context is noticed, and the timer and main run. Nothing has
\* to interrupt a BRPOPLPUSH.
InstancesFairness ==
  /\ \A s \in Attempts : WF_allVars(GoroutineStep(s)) /\ WF_allVars(Cancel(s))
  /\ \A p \in Procs : WF_allVars(RecoveryGoesOn(p)) /\ WF_allVars(GraceEnds(p)) /\ WF_allVars(Exit(p))
  /\ \A v \in Videos :
       /\ WF_allVars(TimePasses(v))
       /\ SF_allVars(\E s \in Attempts : TakeMessage(s, v))

InstancesSpec == InstancesInit /\ [][InstancesNext]_allVars /\ InstancesFairness

-----------------------------------------------------------------------------
\* Temporary files

\* /tmp/<video>_input.mp4, _output.mp4 and the directory of the pipeline are needed from the
\* download until the last artifact is uploaded, just before the publication.
UsesFiles(s) ==
  pc[s] \in {"download", "process", "upload", "archiveCopy", "archiveRemove", "publish"}

\* The files removed when the goroutine ends.
RemovesFilesLast(s) == pc[s] \in DeferredSteps /\ pc'[s] = "free"

\* The deferred functions run in reverse order, so the files go before the job is handed over.
RemovesFiles(s) == pc[s] \in WorkerSteps /\ pc'[s] \in DeferredSteps

\* The download begins with os.Create, which empties the input file.
WritesFiles(s) == pc[s] # "download" /\ pc'[s] = "download"

\* Other goroutines that use the same files.
FileUsers(s) ==
  {t \in Attempts \ {s} : Instance(t) = Instance(s) /\ video[t] = video[s] /\ UsesFiles(t)}

-----------------------------------------------------------------------------
\* What the queues see of a shutdown

\* A cancelled budget counts as running on: nobody sees its end before the goroutine is gone.
Budget ==
  [s \in Attempts |->
     IF s \in cancelled THEN "stamped" ELSE IF ctx[s] = "expired" THEN "unstamped" ELSE ctx[s]]

Queue == INSTANCE JobQueue WITH ctx <- Budget

-----------------------------------------------------------------------------
\* Properties

\* To the queues a shutdown is nothing but a crash. A cancelled goroutine goes on to its deferred
\* functions, and its worker may take one more message; still the instance does nothing that
\* JobQueue does not allow one whose job contexts are running, until all of it vanishes at once.
ShutdownIsCrash == Queue!Spec

\* A retried job is handed over while its goroutine still runs, so two goroutines of an instance
\* hold the same video and, since main.go names the files after it, the same files; still none
\* writes or removes the files while another one uses them.
OwnFiles ==
  [][\A s \in Attempts :
       /\ Undisturbed /\ Undisturbed'
       /\ WritesFiles(s) \/ RemovesFiles(s)
       => FileUsers(s) = {}]_allVars

\* A shutdown ends, also when a worker sits in a BRPOPLPUSH that nothing interrupts or has just
\* got one more message.
ShutdownEnds == \A p \in Procs : Leaving(p) ~> ~Leaving(p)

\* "Workers finish current job or killed after 30s grace": an instance that leaves before the
\* grace period is over has finished its jobs.
CurrentJobFinishes ==
  [][\A s \in Attempts :
       LET p == Instance(s)
       IN  phase[p] = "draining" /\ phase'[p] = "running" => pc[s] = "free"]_allVars

=============================================================================
