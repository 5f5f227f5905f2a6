--------------------------- MODULE PipelineProofs ---------------------------
(***************************************************************************)
(* The job budget covers the pipeline, the result is final, and the        *)
(* callback tells it truthfully and at most three times: proofs for all    *)
(* durations, scales and degrees of parallelism, any number of failed      *)
(* requests and lost answers, and an exit at any time.                     *)
(***************************************************************************)
EXTENDS Webhook, TLAPS

\* The time that s may account for: none before it starts, its whole timeout once it has ended.
Share(s) ==
  IF step[s] = "waiting" THEN 0
  ELSE IF step[s] = "running" THEN spent[s]
  ELSE StepLimit(s)

Shares ==
  Share("validate") + Share("analyze") + Share("transcode")
  + Share("thumbnails") + Share("audio") + Share("preview") + Share("streaming")

\* No step outlives its timeout, and every unit of time is accounted for by a transfer or by a
\* step that was running. Parallel steps account for some units more than once.
BudgetInv ==
  /\ TypeOK
  /\ \A s \in Steps : spent[s] <= StepLimit(s)
  /\ \A s \in Steps : step[s] # "running" => spent[s] = 0
  /\ clock <= transfer + Shares

-----------------------------------------------------------------------------
\* Multiplication distributes over the sum of JobBudget.
LEMMA Distribution ==
  ASSUME NEW k \in Int, NEW a \in Nat, NEW b \in Nat, NEW c \in Nat, NEW d \in Nat,
         NEW e \in Nat, NEW f \in Nat, NEW g \in Nat, NEW h \in Nat
  PROVE  (a + b + c + d + e + f + g + h) * k
           = a * k + b * k + c * k + d * k + e * k + f * k + g * k + h * k
  BY SMT

LEMMA ScaledNat ==
  ASSUME NEW d \in Nat, NEW scale \in Int
  PROVE  ScaleTimeout(d, scale) \in Nat
  BY SMT DEF ScaleTimeout

\* The timeouts are natural numbers at every scale.
LEMMA LimitNat ==
  ASSUME TypeOK
  PROVE  /\ settings.scale \in Int
         /\ \A s \in Steps : StepLimit(s) \in Nat
<1>1. settings.scale \in Int
  BY DurationsAssumption DEF TypeOK
<1>2. ASSUME NEW s \in Steps PROVE StepTimeout[s] \in Nat
  BY DurationsAssumption DEF Steps, CriticalSteps, OptionalSteps, StepTimeout
<1> QED BY <1>1, <1>2, ScaledNat DEF StepLimit

\* The timeouts and the slack add up to the budget.
LEMMA BudgetIsSum ==
  ASSUME TypeOK
  PROVE  JobBudget(settings.scale) =
           StepLimit("validate") + StepLimit("analyze") + StepLimit("transcode")
           + StepLimit("thumbnails") + StepLimit("audio") + StepLimit("preview")
           + StepLimit("streaming") + ScaleTimeout(TransferSlack, settings.scale)
<1> DEFINE k == IF settings.scale <= 0 THEN 1 ELSE settings.scale
<1>1. k \in Int
  BY LimitNat
<1>2. \A d : ScaleTimeout(d, settings.scale) = d * k
  BY DEF ScaleTimeout
<1> HIDE DEF k
<1>3. JobBudget(settings.scale) =
        (ValidateTimeout + AnalyzeTimeout + TranscodeTimeout + ThumbnailsTimeout
         + AudioTimeout + PreviewTimeout + StreamingTimeout + TransferSlack) * k
  BY <1>2 DEF JobBudget
<1>4. @ = ValidateTimeout * k + AnalyzeTimeout * k + TranscodeTimeout * k
          + ThumbnailsTimeout * k + AudioTimeout * k + PreviewTimeout * k
          + StreamingTimeout * k + TransferSlack * k
  BY <1>1, Distribution, DurationsAssumption
<1> QED BY <1>2, <1>3, <1>4 DEF StepLimit, StepTimeout

-----------------------------------------------------------------------------
\* Every step of the attempt keeps the types.
LEMMA TypeStep ==
  ASSUME TypeOK, [Next]_vars
  PROVE  TypeOK'
<1>1. CASE \E ok \in BOOLEAN : DownloadEnds(ok) \/ UploadEnds(ok)
  BY <1>1 DEF TypeOK, DownloadEnds, UploadEnds, Artifacts
<1>2. ASSUME NEW s \in Steps, StepStarts(s) PROVE TypeOK'
  BY <1>2 DEF TypeOK, StepStarts
<1>3. ASSUME NEW s \in Steps, NEW ok \in BOOLEAN, StepEnds(s, ok) PROVE TypeOK'
  BY <1>3 DEF TypeOK, StepEnds, AfterFailure
<1>4. CASE ProcessVideoReturns \/ Report
  BY <1>4 DEF TypeOK, ProcessVideoReturns, Report
<1>5. CASE \E a \in OptionalSteps, ok \in BOOLEAN : ArtifactUploadEnds(a, ok)
  BY <1>5 DEF TypeOK, ArtifactUploadEnds
<1>6. CASE Tick
  BY <1>6 DEF TypeOK, Tick
<1>7. CASE UNCHANGED vars
  BY <1>7 DEF TypeOK, vars
<1> QED BY <1>1, <1>2, <1>3, <1>4, <1>5, <1>6, <1>7 DEF Next

LEMMA SharesNat ==
  ASSUME BudgetInv
  PROVE  \A s \in Steps : Share(s) \in Nat /\ Share(s) <= StepLimit(s)
  BY LimitNat DEF BudgetInv, TypeOK, Share

\* If no share gets smaller, their sum does not.
LEMMA SharesGrow ==
  ASSUME BudgetInv, \A s \in Steps : Share(s)' \in Nat /\ Share(s) <= Share(s)'
  PROVE  /\ Shares \in Nat /\ Shares' \in Nat
         /\ Shares <= Shares'
         /\ (\E s \in Steps : Share(s) < Share(s)') => Shares + 1 <= Shares'
  BY SharesNat DEF Shares, Steps, CriticalSteps, OptionalSteps

\* The settings never change, so neither do the limits.
LEMMA LimitsFixed ==
  ASSUME [Next]_vars
  PROVE  settings' = settings /\ \A s \in Steps : StepLimit(s)' = StepLimit(s)
<1>1. settings' = settings
  BY DEF Next, vars, DownloadEnds, UploadEnds, StepStarts, StepEnds, ProcessVideoReturns,
         ArtifactUploadEnds, Report, Tick
<1> QED BY <1>1 DEF StepLimit

\* What every step does to the time of one pipeline step: nothing outlives its timeout, and no
\* share gets smaller.
LEMMA StepTimes ==
  ASSUME BudgetInv, [Next]_vars, NEW s \in Steps
  PROVE  /\ spent'[s] <= StepLimit(s)'
         /\ step'[s] # "running" => spent'[s] = 0
         /\ Share(s)' \in Nat /\ Share(s) <= Share(s)'
<1> USE LimitNat, LimitsFixed
<1>1. spent[s] \in Nat /\ StepLimit(s) \in Nat /\ StepLimit(s)' = StepLimit(s)
  BY DEF BudgetInv, TypeOK
<1>2. CASE step' = step /\ spent' = spent
  BY <1>1, <1>2, SharesNat DEF Share, BudgetInv
<1>3. ASSUME NEW t \in Steps, StepStarts(t)
      PROVE  /\ spent'[s] = spent[s]
             /\ step'[s] = step[s] \/ (step[s] = "waiting" /\ step'[s] = "running")
  BY <1>3 DEF StepStarts, BudgetInv, TypeOK
<1>4. ASSUME NEW t \in Steps, NEW ok \in BOOLEAN, StepEnds(t, ok)
      PROVE  \/ step'[s] = step[s] /\ spent'[s] = spent[s]
             \/ step[s] = "running" /\ step'[s] \in {"succeeded", "failed"} /\ spent'[s] = 0
  BY <1>4 DEF StepEnds, BudgetInv, TypeOK
<1>5. ASSUME Tick
      PROVE  /\ step'[s] = step[s]
             /\ \/ step[s] = "running" /\ spent[s] < StepLimit(s) /\ spent'[s] = spent[s] + 1
                \/ step[s] # "running" /\ spent'[s] = spent[s]
  BY <1>5 DEF Tick, Running
<1>6. CASE \E t \in Steps : StepStarts(t)
  BY <1>1, <1>3, <1>6 DEF Share, BudgetInv
<1>7. CASE \E t \in Steps, ok \in BOOLEAN : StepEnds(t, ok)
  BY <1>1, <1>4, <1>7 DEF Share, BudgetInv
<1>8. CASE Tick
  BY <1>1, <1>5, <1>8 DEF Share, BudgetInv
<1> QED
  BY <1>2, <1>6, <1>7, <1>8
  DEF Next, vars, DownloadEnds, UploadEnds, ProcessVideoReturns, ArtifactUploadEnds, Report

\* A unit of time goes to a transfer or to a running step; nothing else moves the clock.
LEMMA ClockStep ==
  ASSUME BudgetInv, [Next]_vars
  PROVE  clock' <= transfer' + Shares'
<1>1. PICK sum \in Nat : sum = Shares
  BY StepTimes, SharesGrow
<1>2. PICK newSum \in Nat : newSum = Shares'
  BY StepTimes, SharesGrow
<1>3. /\ sum <= newSum
      /\ (\E s \in Steps : Share(s) < Share(s)') => sum + 1 <= newSum
  BY StepTimes, SharesGrow, <1>1, <1>2
<1>4. clock \in Nat /\ transfer \in Nat /\ clock <= transfer + sum
  BY <1>1 DEF BudgetInv, TypeOK
<1>5. CASE clock' = clock /\ transfer' = transfer
  <2>1. clock' <= transfer' + newSum
    BY <1>3, <1>4, <1>5
  <2> QED BY <2>1, <1>2
<1>6. CASE Tick
  <2>1. clock' \in {clock, clock + 1} /\ transfer' \in {transfer, transfer + 1}
    BY <1>6 DEF Tick
  <2>2. ASSUME Transferring PROVE clock' <= transfer' + newSum
    <3>1. transfer' = transfer + 1
      BY <1>6, <2>2 DEF Tick
    <3> QED BY <1>3, <1>4, <2>1, <3>1
  <2>3. ASSUME ~Transferring PROVE clock' <= transfer' + newSum
    <3>1. PICK s \in Steps : step[s] = "running"
      BY <1>6, <2>3 DEF Tick, Running
    <3>2. step'[s] = "running" /\ spent'[s] = spent[s] + 1 /\ spent[s] \in Nat
      BY <1>6, <3>1 DEF Tick, Running, BudgetInv, TypeOK
    <3>3. Share(s) < Share(s)'
      BY <3>1, <3>2 DEF Share
    <3>4. sum + 1 <= newSum
      BY <1>3, <3>3
    <3>5. transfer' = transfer
      BY <1>6, <2>3 DEF Tick
    <3> QED BY <1>4, <2>1, <3>4, <3>5
  <2> QED BY <2>2, <2>3, <1>2
<1> QED
  BY <1>5, <1>6
  DEF Next, vars, DownloadEnds, UploadEnds, StepStarts, StepEnds, ProcessVideoReturns,
      ArtifactUploadEnds, Report

LEMMA BudgetStep ==
  ASSUME BudgetInv, [Next]_vars
  PROVE  BudgetInv'
<1>1. TypeOK'
  BY TypeStep DEF BudgetInv
<1> QED BY <1>1, StepTimes, ClockStep DEF BudgetInv

LEMMA BudgetInit ==
  ASSUME Init
  PROVE  BudgetInv
<1>1. TypeOK
  BY DEF Init, TypeOK
<1>2. \A s \in Steps : step[s] = "waiting" /\ spent[s] = 0 /\ Share(s) = 0
  BY DEF Init, Share
<1>3. Shares = 0 /\ clock = 0 /\ transfer = 0
  BY <1>2 DEF Init, Shares, Steps, CriticalSteps, OptionalSteps
<1>4. \A s \in Steps : StepLimit(s) \in Nat
  BY <1>1, LimitNat
<1> QED BY <1>1, <1>2, <1>3, <1>4 DEF BudgetInv

LEMMA BudgetImplies ==
  ASSUME BudgetInv
  PROVE  BudgetSuffices
<1> SUFFICES ASSUME Expired, settings.jobTimeout = 0
             PROVE  transfer >= ScaleTimeout(TransferSlack, settings.scale)
  BY DEF BudgetSuffices
<1> DEFINE slack == ScaleTimeout(TransferSlack, settings.scale)
<1> DEFINE limits == StepLimit("validate") + StepLimit("analyze") + StepLimit("transcode")
                     + StepLimit("thumbnails") + StepLimit("audio") + StepLimit("preview")
                     + StepLimit("streaming")
<1>1. slack \in Nat /\ clock \in Nat /\ transfer \in Nat
  BY ScaledNat, LimitNat, DurationsAssumption DEF BudgetInv, TypeOK
<1>2. limits \in Nat /\ Shares \in Nat /\ Shares <= limits
  BY SharesNat, LimitNat DEF BudgetInv, Shares, Steps, CriticalSteps, OptionalSteps
<1>3. clock >= limits + slack
  BY BudgetIsSum DEF BudgetInv, Expired, JobTimeout
<1> HIDE DEF slack, limits
<1>4. transfer >= slack
  BY <1>1, <1>2, <1>3 DEF BudgetInv
<1> QED BY <1>4 DEF slack

-----------------------------------------------------------------------------
\* The result names the steps that have succeeded so far; once ProcessVideo has returned all of
\* them have ended, and what is uploaded comes from the result.
ResultInv ==
  /\ TypeOK
  /\ result = {s \in Steps \ CriticalSteps : step[s] = "succeeded"}
  /\ stage \in {"upload", "artifacts", "done"} => AllEnded
  /\ pending \subseteq Artifacts
  /\ stored \subseteq JobArtifacts

LEMMA ResultStep ==
  ASSUME ResultInv, [Next]_vars
  PROVE  ResultInv'
<1> USE DEF ResultInv
<1>1. TypeOK'
  BY TypeStep
<1>2. CASE \E ok \in BOOLEAN : DownloadEnds(ok) \/ UploadEnds(ok)
  BY <1>1, <1>2 DEF DownloadEnds, UploadEnds, AllEnded, Ended, Artifacts, JobArtifacts
<1>3. ASSUME NEW s \in Steps, StepStarts(s) PROVE ResultInv'
  <2>1. step[s] = "waiting" /\ step' = [step EXCEPT ![s] = "running"] /\ ~AllEnded
    BY <1>3 DEF StepStarts, AllEnded, Ended
  <2>2. /\ result' = result /\ stage' = stage /\ pending' = pending /\ stored' = stored
        /\ stage \notin {"upload", "artifacts", "done"}
    BY <1>3, <2>1 DEF StepStarts
  <2> QED BY <1>1, <2>1, <2>2 DEF TypeOK, Artifacts, JobArtifacts
<1>4. ASSUME NEW s \in Steps, NEW ok \in BOOLEAN, StepEnds(s, ok) PROVE ResultInv'
  <2>1. step[s] = "running" /\ ~AllEnded
    BY <1>4 DEF StepEnds, AllEnded, Ended
  <2>2. /\ stage' \in {stage, "failed"} /\ pending' = pending /\ stored' = stored
        /\ result \subseteq result'
    BY <1>4 DEF StepEnds, AfterFailure
  <2>3. result' = {t \in Steps \ CriticalSteps : step'[t] = "succeeded"}
    BY <1>4, <2>1 DEF StepEnds, TypeOK
  <2> QED BY <1>1, <2>1, <2>2, <2>3 DEF Artifacts, JobArtifacts
<1>5. CASE ProcessVideoReturns \/ Report
  BY <1>1, <1>5 DEF ProcessVideoReturns, Report, AllEnded, Ended, Artifacts, JobArtifacts
<1>6. ASSUME NEW a \in OptionalSteps, NEW ok \in BOOLEAN, ArtifactUploadEnds(a, ok)
      PROVE  ResultInv'
  <2>1. a \in Artifacts /\ pending' = pending \ {a} /\ stored' \subseteq stored \cup {a}
    BY <1>6 DEF ArtifactUploadEnds
  <2>2. stage' = stage /\ step' = step /\ result' = result
    BY <1>6 DEF ArtifactUploadEnds
  <2> QED BY <1>1, <2>1, <2>2 DEF AllEnded, Ended, Artifacts, JobArtifacts
<1>7. CASE Tick \/ UNCHANGED vars
  BY <1>1, <1>7 DEF Tick, vars, AllEnded, Ended, Artifacts, JobArtifacts
<1> QED BY <1>2, <1>3, <1>4, <1>5, <1>6, <1>7 DEF Next

-----------------------------------------------------------------------------
\* The callback

\* Once the job is done, the video is in the bucket.
VideoStored == stage \in {"artifacts", "done"} => "video" \in stored

\* Each request of Notify is counted before it is sent, and handled once at most.
RequestsCounted ==
  /\ hook \in Waiting \cup {"unasked", "delivered", "undelivered", "killed"}
  /\ tries \in Nat /\ received \in Nat
  /\ tries <= MaxTries /\ received <= tries
  /\ hook = "idle" => received = 0
  /\ hook = "sending" => received < tries
  /\ hook = "sleeping" => tries < MaxTries

\* The payload is built when the attempt is over, and nothing that it says changes afterwards.
PayloadFixed ==
  /\ hook # "idle" => stage \in {"done", "failed"}
  /\ \/ payload = NoPayload
     \/ stage = "done" /\ payload = [success |-> TRUE, paths |-> JobArtifacts]

WebhookInv == ResultInv /\ VideoStored /\ RequestsCounted /\ PayloadFixed

LEMMA WebhookInvInit == WebhookInit => WebhookInv
<1> SUFFICES ASSUME WebhookInit PROVE WebhookInv
  OBVIOUS
<1>1. ResultInv /\ VideoStored
  BY DEF WebhookInit, Init, ResultInv, TypeOK, Artifacts, JobArtifacts, VideoStored
<1>2. RequestsCounted /\ PayloadFixed
  BY DEF WebhookInit, RequestsCounted, PayloadFixed, Waiting, MaxTries
<1> QED BY <1>1, <1>2 DEF WebhookInv

\* An attempt that is over changes no more; in one that has failed, steps may still end.
LEMMA OverStaysOver ==
  ASSUME ResultInv, [Next]_vars
  PROVE  /\ stage = "done" => stage' = "done" /\ result' = result
         /\ stage = "failed" => stage' = "failed"
<1>1. ASSUME stage = "done", NEW s \in Steps, NEW ok \in BOOLEAN, StepEnds(s, ok) PROVE FALSE
  BY <1>1 DEF ResultInv, AllEnded, Ended, StepEnds
<1>2. ASSUME stage = "failed", NEW s \in Steps, NEW ok \in BOOLEAN, StepEnds(s, ok)
      PROVE  stage' = "failed"
  BY <1>2 DEF StepEnds, AfterFailure
<1> QED
  BY <1>1, <1>2 DEF Next, vars, DownloadEnds, UploadEnds, StepStarts, ProcessVideoReturns,
                    ArtifactUploadEnds, Report, Tick

\* Whatever is stored stays so.
LEMMA VideoStays ==
  ASSUME ResultInv, VideoStored, [Next]_vars
  PROVE  VideoStored'
<1>1. ASSUME NEW s \in Steps, NEW ok \in BOOLEAN, StepEnds(s, ok) PROVE VideoStored'
  BY <1>1 DEF StepEnds, AfterFailure, VideoStored
<1>2. CASE \E ok \in BOOLEAN : DownloadEnds(ok) \/ UploadEnds(ok)
  BY <1>2 DEF DownloadEnds, UploadEnds, VideoStored
<1>3. CASE \E a \in OptionalSteps, ok \in BOOLEAN : ArtifactUploadEnds(a, ok)
  BY <1>3 DEF ArtifactUploadEnds, VideoStored
<1>4. CASE (\E s \in Steps : StepStarts(s)) \/ ProcessVideoReturns \/ Report \/ Tick \/ UNCHANGED vars
  BY <1>4 DEF StepStarts, ProcessVideoReturns, Report, Tick, vars, VideoStored
<1> QED BY <1>1, <1>2, <1>3, <1>4 DEF Next

\* A step of the attempt
LEMMA AttemptStep ==
  ASSUME WebhookInv, Next, UNCHANGED hookVars
  PROVE  WebhookInv'
<1>1. ResultInv' /\ VideoStored'
  BY ResultStep, VideoStays DEF WebhookInv
<1>2. RequestsCounted'
  BY DEF WebhookInv, RequestsCounted, hookVars
<1>3. PayloadFixed'
  BY OverStaysOver DEF WebhookInv, PayloadFixed, hookVars, JobArtifacts, Artifacts
<1> QED BY <1>1, <1>2, <1>3 DEF WebhookInv

\* Nothing that the goroutine of the callback does touches the attempt.
LEMMA SameAttempt ==
  ASSUME WebhookInv, UNCHANGED vars
  PROVE  ResultInv' /\ VideoStored' /\ JobArtifacts' = JobArtifacts
<1>1. ResultInv' /\ VideoStored'
  BY ResultStep, VideoStays DEF WebhookInv
<1> QED BY <1>1 DEF vars, JobArtifacts, Artifacts

\* A step of the goroutine of the callback, or the end of the program
LEMMA CallbackStep ==
  ASSUME WebhookInv, HookStep \/ ProgramEnds
  PROVE  WebhookInv'
<1> USE DEF RequestsCounted, Waiting, MaxTries
<1>1. UNCHANGED vars
  BY DEF HookStep, ProgramEnds, NotifyDone, NotifyFailed, Answered, Refused, Unheard, SleepEnds
<1>2. ResultInv' /\ VideoStored' /\ JobArtifacts' = JobArtifacts
  BY <1>1, SameAttempt
<1>3. stage' = stage
  BY <1>1 DEF vars
<1>4. CASE NotifyDone
  <2>1. RequestsCounted'
    BY <1>4 DEF WebhookInv, NotifyDone, Start, NoCallback
  <2>2. PayloadFixed'
    BY <1>2, <1>3, <1>4 DEF WebhookInv, PayloadFixed, NotifyDone, Start, NoCallback, NoPayload, Paths
  <2> QED BY <1>2, <2>1, <2>2 DEF WebhookInv
<1>5. CASE NotifyFailed
  <2>1. RequestsCounted'
    BY <1>5 DEF WebhookInv, NotifyFailed, Start, NoCallback
  <2>2. PayloadFixed'
    BY <1>2, <1>3, <1>5 DEF WebhookInv, PayloadFixed, NotifyFailed, Start, NoCallback, NoPayload
  <2> QED BY <1>2, <2>1, <2>2 DEF WebhookInv
<1>6. CASE Answered \/ Refused \/ Unheard \/ SleepEnds \/ ProgramEnds
  <2>1. RequestsCounted'
    BY <1>6 DEF WebhookInv, Answered, Refused, Unheard, SleepEnds, ProgramEnds, AfterError
  <2>2. hook # "idle" /\ payload' = payload
    BY <1>6 DEF Answered, Refused, Unheard, SleepEnds, ProgramEnds
  <2>3. PayloadFixed'
    BY <1>2, <1>3, <2>2 DEF WebhookInv, PayloadFixed
  <2> QED BY <1>2, <2>1, <2>3 DEF WebhookInv
<1> QED BY <1>4, <1>5, <1>6 DEF HookStep

LEMMA WebhookInvStep ==
  ASSUME WebhookInv, [WebhookNext]_webhookVars
  PROVE  WebhookInv'
<1>1. CASE UNCHANGED webhookVars
  <2>1. ResultInv' /\ VideoStored' /\ JobArtifacts' = JobArtifacts
    BY <1>1, SameAttempt DEF webhookVars
  <2>2. RequestsCounted' /\ PayloadFixed'
    BY <1>1, <2>1 DEF WebhookInv, RequestsCounted, PayloadFixed, webhookVars, hookVars, vars
  <2> QED BY <2>1, <2>2 DEF WebhookInv
<1> QED BY <1>1, AttemptStep, CallbackStep DEF WebhookNext

LEMMA WebhookInvHolds == WebhookSpec => []WebhookInv
BY WebhookInvInit, WebhookInvStep, PTL DEF WebhookSpec

-----------------------------------------------------------------------------
\* Every variable of the attempt keeps its type.
THEOREM PipelineTypes == Spec => []TypeOK
<1>1. Init => TypeOK
  BY DEF Init, TypeOK
<1> QED BY <1>1, TypeStep, PTL DEF Spec

\* The context of a job expires only when the transfers have used up their slack: JobBudget
\* covers the steps in sequence and in parallel, for all timeouts and every scale.
THEOREM BudgetCoversPipeline == Spec => []BudgetSuffices
<1> QED BY BudgetInit, BudgetStep, BudgetImplies, PTL DEF Spec

\* After ProcessVideo has returned, no goroutine writes the result any more, and the result names
\* the steps that succeeded.
THEOREM ResultIsFinal == Spec => []ResultFinal
<1>1. Init => ResultInv
  BY DEF Init, ResultInv, TypeOK, Artifacts, JobArtifacts
<1>2. ResultInv => ResultFinal
  BY DEF ResultInv, ResultFinal, AllEnded, Ended, Running
<1> QED BY <1>1, <1>2, ResultStep, PTL DEF Spec

\* The API handles a callback at most as often as Notify (internal/webhook/webhook.go) has sent
\* it, and that three times at most, whichever requests and answers are lost.
THEOREM CallbackIsBounded == WebhookSpec => []CallbackBounded
<1>1. WebhookInv => CallbackBounded
  BY DEF WebhookInv, RequestsCounted, CallbackBounded
<1> QED BY <1>1, WebhookInvHolds, PTL

\* A callback that says success names the video and exactly the artifacts the pipeline made, at
\* least those in the bucket; one that says failure names nothing (notifyWebhook in main.go).
THEOREM CallbackIsTruthful == WebhookSpec => []CallbackTruthful
<1>1. ASSUME WebhookInv PROVE CallbackTruthful
  <2>1. CASE payload = NoPayload
    BY <2>1 DEF NoPayload, CallbackTruthful
  <2>2. CASE stage = "done" /\ payload = [success |-> TRUE, paths |-> JobArtifacts]
    <3>1. "video" \in stored /\ stored \subseteq payload.paths
      BY <1>1, <2>2 DEF WebhookInv, VideoStored, ResultInv
    <3>2. payload.paths \cap OptionalSteps = result \cap OptionalSteps
      BY <2>2 DEF JobArtifacts, Artifacts, OptionalSteps
    <3>3. result \cap OptionalSteps = {s \in OptionalSteps : step[s] = "succeeded"}
      BY <1>1 DEF WebhookInv, ResultInv, Steps, CriticalSteps, OptionalSteps
    <3> QED BY <2>2, <3>1, <3>2, <3>3 DEF CallbackTruthful
  <2> QED BY <1>1, <2>1, <2>2 DEF WebhookInv, PayloadFixed
<1> QED BY <1>1, WebhookInvHolds, PTL

-----------------------------------------------------------------------------
\* The callback leaves the attempt alone

\* Notify runs beside the job, may be cut off by the end of the program, and reads the job state
\* without writing it: an attempt with a callback is an attempt.
THEOREM CallbackLeavesAttempt == WebhookSpec => Spec
<1>1. WebhookInit => Init
  BY DEF WebhookInit
<1>2. HookStep \/ ProgramEnds \/ UNCHANGED webhookVars => UNCHANGED vars
  BY DEF HookStep, NotifyDone, NotifyFailed, Answered, Refused, Unheard, SleepEnds, ProgramEnds,
         webhookVars
<1>3. [WebhookNext]_webhookVars => [Next]_vars
  BY <1>2 DEF WebhookNext
<1> QED BY <1>1, <1>3, PTL DEF WebhookSpec, Spec

\* So the budget covers the attempt and its result is final, whatever becomes of the requests of
\* the callback.
THEOREM AttemptUnderCallback == WebhookSpec => [](TypeOK /\ BudgetSuffices /\ ResultFinal)
BY CallbackLeavesAttempt, PipelineTypes, BudgetCoversPipeline, ResultIsFinal, PTL

=============================================================================
