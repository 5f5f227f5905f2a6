------------------------------ MODULE Pipeline ------------------------------
(***************************************************************************)
(* One attempt on a video, from its download to the artifacts it reports:  *)
(* the goroutine of processNextMessage (main.go) and ProcessVideo          *)
(* (internal/processor/processor.go), with the step timeouts, the job      *)
(* context and the goroutines of the optional steps.                       *)
(*                                                                         *)
(* Time is counted in units and passes while a step or a transfer runs;    *)
(* the code between them takes none.  What a step does is abstracted to    *)
(* whether it succeeds.                                                    *)
(***************************************************************************)
EXTENDS Integers, FiniteSets

CONSTANTS
  ValidateTimeout, AnalyzeTimeout, TranscodeTimeout,
  ThumbnailsTimeout, AudioTimeout, PreviewTimeout, StreamingTimeout,
  TransferSlack,
  \* settings tried: PROCESSING_TIMEOUT_SCALE, JOB_TIMEOUT, MAX_PARALLEL_POST_TRANSCODE_STEPS
  Scales, JobTimeouts, MaxParallels,
  MaxTransfer        \* bound: units of time that the transfers take

ASSUME DurationsAssumption ==
  /\ ValidateTimeout \in Nat /\ AnalyzeTimeout \in Nat /\ TranscodeTimeout \in Nat
  /\ ThumbnailsTimeout \in Nat /\ AudioTimeout \in Nat /\ PreviewTimeout \in Nat
  /\ StreamingTimeout \in Nat /\ TransferSlack \in Nat
  /\ Scales \subseteq Int /\ JobTimeouts \subseteq Nat /\ MaxParallels \subseteq Int

VARIABLES
  settings,  \* the configuration of the program, which never changes
  stage,     \* where the goroutine is
  step,      \* what has become of each step
  spent,     \* how long each running step has run
  clock,     \* time since the job context was created, up to its deadline
  transfer,  \* time that transfers have taken
  result,    \* fields of the ProcessingResult that are set
  pending,   \* artifacts still to be uploaded
  stored     \* what has been uploaded

vars == <<settings, stage, step, spent, clock, transfer, result, pending, stored>>

-----------------------------------------------------------------------------
\* Steps and timeouts

CriticalSteps == {"validate", "transcode"}
OptionalSteps == {"thumbnails", "audio", "preview", "streaming"}
Steps == CriticalSteps \cup {"analyze"} \cup OptionalSteps

StepTimeout ==
  [validate |-> ValidateTimeout, analyze |-> AnalyzeTimeout, transcode |-> TranscodeTimeout,
   thumbnails |-> ThumbnailsTimeout, audio |-> AudioTimeout, preview |-> PreviewTimeout,
   streaming |-> StreamingTimeout]

\* The steps that come before s in a sequential run.
Before(s) ==
  CASE s = "validate"   -> {}
    [] s = "analyze"    -> {"validate"}
    [] s = "transcode"  -> {"validate", "analyze"}
    [] s = "thumbnails" -> {"validate", "analyze", "transcode"}
    [] s = "audio"      -> {"validate", "analyze", "transcode", "thumbnails"}
    [] s = "preview"    -> Steps \ {"preview", "streaming"}
    [] s = "streaming"  -> Steps \ {"streaming"}

\* The scale is a float in the code; whole numbers do here.
ScaleTimeout(d, scale) == d * (IF scale <= 0 THEN 1 ELSE scale)

\* A budget for steps that all run in parallel after the transcoding.
ParallelBudget(scale) ==
  ScaleTimeout(ValidateTimeout + AnalyzeTimeout + TranscodeTimeout + StreamingTimeout
               + TransferSlack, scale)

JobBudget(scale) ==
  ScaleTimeout(ValidateTimeout + AnalyzeTimeout + TranscodeTimeout
               + ThumbnailsTimeout + AudioTimeout + PreviewTimeout + StreamingTimeout
               + TransferSlack, scale)

\* The timeout of a step at the configured scale.
StepLimit(s) == ScaleTimeout(StepTimeout[s], settings.scale)

\* jobTimeout of main.go
JobTimeout ==
  IF settings.jobTimeout > 0 THEN settings.jobTimeout ELSE JobBudget(settings.scale)

Expired == clock >= JobTimeout

Running == {s \in Steps : step[s] = "running"}
Ended(s) == step[s] \in {"succeeded", "failed"}

\* A semaphore without its lower bound.
SemaphoreUnclamped == IF settings.maxParallel > 4 THEN 4 ELSE settings.maxParallel

Semaphore ==
  IF settings.maxParallel < 1 THEN 1
  ELSE IF settings.maxParallel > 4 THEN 4
  ELSE settings.maxParallel

-----------------------------------------------------------------------------
Init ==
  /\ settings \in [parallel : BOOLEAN, scale : Scales, jobTimeout : JobTimeouts,
                   maxParallel : MaxParallels]
  /\ stage = "download"
  /\ step = [s \in Steps |-> "waiting"]
  /\ spent = [s \in Steps |-> 0]
  /\ clock = 0
  /\ transfer = 0
  /\ result = {}
  /\ pending = {}
  /\ stored = {}

\* DownloadVideo returns; it runs without the job context.
DownloadEnds(ok) ==
  /\ stage = "download"
  /\ stage' = IF ok THEN "pipeline" ELSE "failed"
  /\ UNCHANGED <<settings, step, spent, clock, transfer, result, pending, stored>>

\* A step starts after those before it; a parallel one when its goroutine gets the semaphore.
StepStarts(s) ==
  /\ stage \notin {"download", "failed"}
  /\ step[s] = "waiting"
  /\ IF settings.parallel /\ s \in OptionalSteps
     THEN Ended("transcode") /\ Cardinality(Running) < Semaphore
     ELSE \A t \in Before(s) : Ended(t)
  /\ step' = [step EXCEPT ![s] = "running"]
  /\ UNCHANGED <<settings, stage, spent, clock, transfer, result, pending, stored>>

\* A job that fails with any of its steps.
FailedStage(s) == "failed"

\* Where the goroutine is after step s has failed.
AfterFailure(s) == IF s \in CriticalSteps THEN "failed" ELSE stage

\* A step ends. FFmpeg does not start with a context that is over. A success of a step other than
\* the critical ones sets its field of the result, under the mutex if the steps are parallel.
StepEnds(s, ok) ==
  /\ step[s] = "running"
  /\ ok => ~Expired \/ spent[s] > 0
  /\ step' = [step EXCEPT ![s] = IF ok THEN "succeeded" ELSE "failed"]
  /\ result' = IF ok THEN result \cup ({s} \ CriticalSteps) ELSE result
  /\ spent' = [spent EXCEPT ![s] = 0]
  /\ stage' = IF ok THEN stage ELSE AfterFailure(s)
  /\ UNCHANGED <<settings, clock, transfer, pending, stored>>

\* A wait for the goroutines to have started.
AllStarted == \A s \in Steps : step[s] # "waiting"

\* wg.Wait in a parallel run, the end of the last step in a sequential one.
AllEnded == \A s \in Steps : Ended(s)

ProcessVideoReturns ==
  /\ stage = "pipeline"
  /\ AllEnded
  /\ stage' = "upload"
  /\ UNCHANGED <<settings, step, spent, clock, transfer, result, pending, stored>>

\* Every field of the result.
EveryField == result

\* The fields of the result that are files.
Artifacts == result \cap OptionalSteps

\* UploadVideo returns; it runs without the job context as well. (ArchiveRawVideo, which comes
\* before the artifacts and whose error is only logged, is in JobQueue.)
UploadEnds(ok) ==
  /\ stage = "upload"
  /\ stage' = IF ok THEN "artifacts" ELSE "failed"
  /\ stored' = IF ok THEN {"video"} ELSE {}
  /\ pending' = Artifacts
  /\ UNCHANGED <<settings, step, spent, clock, transfer, result>>

\* The upload of an artifact returns; its error is only logged.
ArtifactUploadEnds(a, ok) ==
  /\ stage = "artifacts"
  /\ a \in pending
  /\ Before(a) \cap pending = {}
  /\ pending' = pending \ {a}
  /\ stored' = IF ok THEN stored \cup {a} ELSE stored
  /\ UNCHANGED <<settings, stage, step, spent, clock, transfer, result>>

\* buildJobArtifacts: what SetJobDone records.
JobArtifacts == {"video"} \cup Artifacts

\* The artifacts and the metadata go into the job state.
Report ==
  /\ stage = "artifacts"
  /\ pending = {}
  /\ stage' = "done"
  /\ UNCHANGED <<settings, step, spent, clock, transfer, result, pending, stored>>

-----------------------------------------------------------------------------
\* Time

Transferring == stage \in {"download", "upload", "artifacts"}

\* A unit of time passes. No step outlives its timeout or the job context: FFmpeg is killed.
Tick ==
  /\ Running # {} \/ Transferring
  /\ Transferring => transfer < MaxTransfer
  /\ \A s \in Running : ~Expired /\ spent[s] < StepLimit(s)
  /\ clock' = IF Expired THEN clock ELSE clock + 1
  /\ spent' = [s \in Steps |-> IF s \in Running THEN spent[s] + 1 ELSE spent[s]]
  /\ transfer' = IF Transferring THEN transfer + 1 ELSE transfer
  /\ UNCHANGED <<settings, stage, step, result, pending, stored>>

Next ==
  \/ \E ok \in BOOLEAN : DownloadEnds(ok) \/ UploadEnds(ok)
  \/ \E s \in Steps : StepStarts(s) \/ \E ok \in BOOLEAN : StepEnds(s, ok)
  \/ ProcessVideoReturns
  \/ \E a \in OptionalSteps, ok \in BOOLEAN : ArtifactUploadEnds(a, ok)
  \/ Report
  \/ Tick

Spec == Init /\ [][Next]_vars

\* Goroutines run, and every step and every transfer ends.
Fairness ==
  /\ WF_vars(\E ok \in BOOLEAN : DownloadEnds(ok) \/ UploadEnds(ok))
  /\ \A s \in Steps : WF_vars(StepStarts(s)) /\ WF_vars(\E ok \in BOOLEAN : StepEnds(s, ok))
  /\ \A a \in OptionalSteps : WF_vars(\E ok \in BOOLEAN : ArtifactUploadEnds(a, ok))
  /\ WF_vars(ProcessVideoReturns) /\ WF_vars(Report)

FairSpec == Spec /\ Fairness

-----------------------------------------------------------------------------
\* Properties

\* Every variable has its type.
TypeOK ==
  /\ settings \in [parallel : BOOLEAN, scale : Scales, jobTimeout : JobTimeouts,
                   maxParallel : MaxParallels]
  /\ stage \in {"download", "pipeline", "upload", "artifacts", "done", "failed"}
  /\ step \in [Steps -> {"waiting", "running", "succeeded", "failed"}]
  /\ spent \in [Steps -> Nat]
  /\ clock \in Nat /\ transfer \in Nat
  /\ result \subseteq Steps \ CriticalSteps
  /\ pending \subseteq OptionalSteps
  /\ stored \subseteq OptionalSteps \cup {"video"}

\* With the budget that main.go derives, the job context expires only if the transfers have taken
\* the time that JobBudget grants them: steps that keep to their timeouts never exhaust it,
\* whether they run one by one or in parallel behind any semaphore, at any scale.
BudgetSuffices ==
  Expired /\ settings.jobTimeout = 0 =>
    transfer >= ScaleTimeout(TransferSlack, settings.scale)

\* From the moment ProcessVideo returns, the result is final: it names exactly the steps that
\* succeeded, and no goroutine that could still write it is left. What was uploaded is reported.
ResultFinal ==
  stage \in {"upload", "artifacts", "done"} =>
    /\ Running = {}
    /\ result = {s \in Steps \ CriticalSteps : step[s] = "succeeded"}
    /\ stage = "done" => stored \subseteq JobArtifacts

\* Once the transcoding has succeeded, the video reaches its upload: neither a job context that
\* expires, nor optional steps that fail or run into their timeouts, nor the wait for the semaphore
\* keep ProcessVideo from returning it.
TranscodedIsUploaded == (stage = "pipeline" /\ step["transcode"] = "succeeded") ~> (stage = "upload")

\* Every attempt ends, for every value of MAX_PARALLEL_POST_TRANSCODE_STEPS.
AttemptEnds == <>(stage \in {"done", "failed"})

=============================================================================
