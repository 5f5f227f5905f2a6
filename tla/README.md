# Verification of video-processor-go

TLA+ models of the video worker, the TLC runs that check them on small
instances and TLAPS proofs about them. Paths such as `queue/job.go` are
relative to the repository root.

## 1. The system

The program is a stateless worker. Any number of instances share one Redis
and one MinIO bucket; a producer submits video IDs and reads the results.

| Component | Code | State | Operations |
|---|---|---|---|
| Job queue | `queue/client.go` | Redis lists: request queue, `<queue>:processing`, `<queue>:dead`, finished queue | `ConsumeMessage` (BRPOPLPUSH), `AcknowledgeMessage` (LREM 1), `PublishSuccessMessage`, `MoveToDLQ` |
| Job state | `queue/job.go` | key `job:<id>`: status, retry count, callback URL, `UpdatedAt`, TTL 24 h | `PublishJob`, `SetJobProcessing`, `SetJobDone`, `SetJobFailed`, `RequeueJob`, `GetJobState` |
| Orphan recovery | `queue/client.go` | the LRANGE snapshot and the state being rewritten | `recoverStuckJobs` every minute, in each instance |
| Worker and job goroutine | `main.go` | step, video, job context | `processNextMessage`, its deferred retry / dead letter / acknowledge, the job timeout, shutdown |
| Object storage | `minio/client.go` | `raw/`, `raw-archived/`, `processed/`, artifact prefixes | download, uploads, `UploadDirectory`, `ArchiveRawVideo`, lifecycle set-up |
| Pipeline | `internal/processor/processor.go` | the result record, a semaphore, step timeouts | validate, analyze, transcode, then four optional steps in parallel or in sequence |
| FFmpeg steps | `internal/processor/processor-steps/` | files in the temporary directory | transcoding and HLS variants with their encoders and fallbacks; thumbnails, audio, preview, analysis |
| Start and shutdown | `main.go` | root context, wait group of the worker loops | the signal, the grace period of 30 s, resolution of the encoder |
| Callback | `main.go`, `internal/webhook/webhook.go` | none | `notifyWebhook`, `Notify` (three attempts) |
| Circuit breakers | `internal/circuitbreaker/` | closed, open or half-open; failure counts | `Execute` around some Redis and MinIO calls |
| Configuration, metrics, tracing, HTTP | `config/`, `metrics/`, `internal/telemetry/`, `main.go` | none that control flow reads | |

Interactions: a worker pops a message, writes the job state, starts a job
goroutine and waits for its result or for the end of the job context. The
goroutine downloads, processes, uploads, archives, publishes, marks the job
done and starts the callback. If it fails, its deferred function runs *after*
the result was sent to the worker: it counts the failure, pushes the job back
or to the dead letter queue, and acknowledges. The recovery loop looks at the
same list and rewrites the same job state.

What is hard here, and what a test would hardly reach:

* nothing makes the GET and the SET of a job state one step, and two attempts
  on one video can run (a job that outlived its context, a recovery of a
  running job, a retry popped before its predecessor acknowledged);
* LREM removes *a* copy of the video, not the caller's;
* the recovery, the archiving and the retry each take several commands, and a
  crash or a failed command may fall between any two of them;
* a shutdown cancels running jobs and waits for their workers, not for them;
* a retried job is handed over while its goroutine still runs, and the next attempt
  uses the same names of temporary files;
* an encoder that fails, or an attempt that dies, leaves incomplete variants in the
  directory the next one works in and `UploadDirectory` uploads;
* a callback may arrive although its answer is lost;
* errors of the bookkeeping commands are logged and the code goes on.

What makes each component correct: the queue and the recovery lose no job and
hand none out twice without need; the job state says done only if the result
is out, and its counter bounds the retries without giving up early; the store
always keeps the source; the pipeline fails a job only in its critical steps
and reports exactly the artifacts it made; a callback is sent with the right
outcome; a breaker lets a service that has recovered be used again.

## 2. Modules

| Module | Contents |
|---|---|
| `Delivery` | the abstract specification: what the worker promises the API about a job |
| `JobQueue` | producer, queues, job state, job goroutines, recovery loops, timeouts, crashes, failed commands, and their properties |
| `JobQueueDelivery` | the refinement mapping from `JobQueue` to `Delivery` |
| `MCJobQueue` | the instance for TLC, with its symmetry and the bound on mishaps |
| `Instances` | extends `JobQueue` with the shutdown of an instance and the temporary files of its goroutines |
| `CircuitBreaker` | one breaker with the goroutines that call through it, and a service that goes down |
| `StorageRetries` | extends `CircuitBreaker` with the jobs whose transfers go through the MinIO breaker, and their retries |
| `Pipeline` | one attempt: download, the seven steps in sequence or in parallel, uploads, the job context and time |
| `Webhook` | extends `Pipeline` with the callback: its payload and its three requests |
| `Streaming` | inside two steps: transcoding and HLS with every fallback between commands, the directory they leave, and its upload |
| `JobQueueProofs` | type correctness; `DoneImpliesPublished`; `SourceKept` |
| `JobQueueLossProofs` | `DeadLetterJustified`; `CopiesCounted` and `NoSilentLoss` |
| `JobQueueExclusionProofs` | `ExclusiveProcessing`, `NoFailureForgotten`; without trouble, a finished job is not done again and there are no orphans |
| `DeliveryProofs` | `JobQueue` implements `Delivery`; no more jobs are lost than there are mishaps |
| `JobQueueTheorems` | all of these in one module, for `InstancesProofs` to instantiate |
| `InstancesProofs` | `Instances` implements `JobQueue`; the theorems about `JobQueue` across shutdowns; `OwnFiles` |
| `CircuitBreakerProofs` | types, `OpeningJustified`, `ClosedByProbe`, `ServiceSpared`; what the breaker does to the jobs of `StorageRetries` |
| `PipelineProofs` | types, `BudgetSuffices`, `ResultFinal`; `CallbackTruthful` and `CallbackBounded` of `Webhook`, and that the callback leaves the attempt alone |
| `StreamingProofs` | types, `PlayableMaster`, `StoredPlayable`, `FitsSource`, `GivesUpOnlyOnCPU` |

The modules meet at these points. `JobQueue` sees a pipeline that succeeds or fails as
a whole (`Process`), and a context that expires at any time (`Timeout`); `Pipeline` shows
what happens inside and when the context may expire, and `Streaming` what happens inside the
two steps that have fallbacks. `JobQueue` sees a call that a breaker
rejects as a command that failed (`Fault`, and MinIO failures); `CircuitBreaker` shows
when a breaker rejects, and `StorageRetries` what that does to the retries. `JobQueue` says
which callbacks are started, `Webhook` what becomes of one. `Instances` runs the actions of
`JobQueue` unchanged, and only restricts when a leaving instance may take them.

### How JobQueue corresponds to the code

* **One action per command.** A goroutine is a pair of an instance and a
  slot; `pc` names the Redis or MinIO command it executes next. What the code
  does between two commands touches only the goroutine and is part of the
  action of the first one. A setter of `queue/job.go` is two actions, its GET
  and its SET, with the state it holds in between in `copy`.
* **Lists** are counted: `requestQ[v]` is the number of copies of `v`. The order
  of the request queue decides only which video is popped, and the model lets
  any one be popped. The dead letter and finished queues are sets: nothing
  takes from them, and no property counts their entries.
* **Job states** keep the status, the retry counter and whether a callback URL
  is known. `UpdatedAt` is abstracted to `aged`, the videos whose `UpdatedAt` is
  below the recovery threshold: writing a state takes a video out, and `Age`
  puts a processing one in. The threshold exceeds the job budget by a minute,
  so `Age` waits for the budget of every goroutine that wrote `UpdatedAt` itself
  (`ctx = "stamped"`). A goroutine whose write failed does not hold it back.
* **The snapshot** of the recovery (LRANGE) is the set `todo`. A video that
  occurs twice in the list is examined once: after the first examination its
  state is pending, or its write failed and it is left for the next scan, or it
  was not an orphan. In the last two cases the second look of the code is
  what the next scan of the model does.
* **Job contexts.** `Timeout` ends the budget of a goroutine: its worker becomes
  free to consume, the goroutine goes on. Only the critical pipeline steps
  notice (`Process`); download and upload run under `context.Background()`.
* **Failures.** A Redis command may return an error, whether or not the server
  executed it (`Fault`): every caller's error path is taken as written. MinIO calls
  and the pipeline may fail at any time, without a bound. `Expire` removes a key.
* **Crashes.** `Crash` removes the goroutines and the recovery loop of an
  instance between any two commands; the instance starts again at once. To the
  queues a shutdown ends in the same way (`Instances`): `main` does not wait for running job
  goroutines, and they die with the program.
* **History variables** (`submitted`, `requeued`, `dropped`, `failures`,
  `unrecorded`) are read by properties, never by guards, except that a video is
  submitted once. `failures` stops counting at `MaxJobRetries + 1`, where a
  further failure makes no difference to a property.

Left out of this module: the optional artifacts and the metadata (see `Pipeline`), the
temporary files (see `Instances`), the size limit of the download, metrics, the automatic
retries inside the Redis client, the 30-day expiry of `raw-archived/`, and a
producer that submits the same video twice. `PublishJob` is one action although
it is a SET and an LPUSH, because nobody looks at the key before the LPUSH.

### How JobQueue implements Delivery

`Delivery` knows no queue, goroutine or recovery. A submitted job is owed; it is over when it
is finished, or dead after more than `MaxJobRetries` failures; and only a mishap, a failed
command or a crash, may lose it. `JobQueueDelivery` reads what has become of a job off the
queues (`Fate`): it is over if it was announced as finished or dead, lost if one of its
hand-overs was lost, and owed if a queue, or a recovery loop between LREM and LPUSH, has a copy.
A job for which none of this is true has *vanished*, a fate that `Delivery` does not know: the
refinement fails if a step makes one vanish, loses one without a mishap, gives one up
early, or confirms one that is not finished.

### How Instances corresponds to the code

* **The signal** cancels the root context. `Doomed` goroutines have a job context that descends
  from it: they are cancelled (`Cancel`) before they do anything else, since a
  cancellation takes no time, and their workers stop waiting.
* **Workers** check the context before BRPOPLPUSH. Those inside it (`waiting`) may return, may
  still get a message and process it, or may do neither, because the Redis client need not
  interrupt a command that has no deadline.
* **The exit** comes when all worker loops have returned or the grace period is over. It is
  the `Crash` of `JobQueue` and counts as one, so `MaxCrashes` bounds both.
* **Time.** A job whose budget was cut short does not age while its instance is leaving, which
  takes 30 seconds at most: the recovery threshold exceeds the budget by a minute.
* **Temporary files** are named after the video. A goroutine uses them from the download,
  which begins by truncating the input file (`os.Create`), to the last upload. The deferred
  functions run in reverse order, so it removes them when its result is known and
  before its job is handed over (`RemovesFiles`).
* Redis faults and job timeouts are left to `JobQueue`.

### How Instances implements JobQueue

To the queues a shutdown is a crash (`ShutdownIsCrash`), although a cancelled goroutine goes on
for a while: it fails in the pipeline, counts the failure and hands its job over. The mapping
`Budget` is about the job contexts only, everything else maps to itself. A cancelled
context counts as one that runs on until its goroutine is gone, so that a cancellation maps to a
stutter, a pipeline that fails because of it to one that fails, and the exit to `Crash`. What has
to be shown is that nobody else is misled by it: a worker that has stopped waiting takes no
message, and a leaving instance takes no more than it had workers in BRPOPLPUSH (`waiting`); and no job ages
while a cancelled goroutine has it (`TimePasses`).

### How CircuitBreaker and StorageRetries correspond to the code

* gobreaker is a library; its operators (`Current`, `Rejects`, `Admit`, `Succeed`,
  `FailCall`, `AfterRequest`) follow its version 1.0.0, and what the program gives it are
  `FailureThreshold` (`ReadyToTrip`), `MaxRequests` and the two durations.
* **Generations** are not numbered: `breaker.calls` are the running calls of the
  current one, and a new generation has none. The result of any other call is ignored.
* **Time** is the flag `expired`: the interval of the closed state or the timeout of the
  open state has passed. The half-open state has no expiry. The next call acts on
  the flag, as in the library.
* `Blocking` are the workers in BRPOPLPUSH, whose call through the Redis breaker ends only
  when a message arrives or the connection breaks.
* **Errors of the caller.** A call may fail although the service is up (`errors`): an object that
  does not exist or is too large, a local file, a cancelled context are errors inside `Execute`, and
  the breaker cannot tell them from an outage. `MaxErrors` bounds them.
* In `StorageRetries` a goroutine consumes a job and makes its transfers: download, upload,
  archiving, and any number of artifacts. An error of the download or of the upload fails the
  attempt (`FailJob`, the deferred function of `main.go`), one of the `Optional` transfers is logged.
  Redis works and the pipeline succeeds, so every failure comes from MinIO, from the call itself
  or from the breaker.

### How Pipeline corresponds to the code

* **Steps.** `step` says what has become of each of the seven steps. In sequence a step starts
  after those `Before` it. In parallel the four optional steps start when they get the
  semaphore, whose capacity is clamped between 1 and 4; getting it is `StepStarts`,
  setting the result under the mutex and giving it back is `StepEnds`.
* **Time** passes in `Tick`, while a step or a transfer runs. No step lives longer than its
  timeout or the job context, because FFmpeg is killed by `exec.CommandContext`; with a context
  that is over it does not start. Transfers know neither limit.
* **Durations** are constants with the names of the code; only their order and sums matter.
  The scale is a float in the code and a whole number here.
* **Settings** are a variable that no action changes, so that one run covers several.
* Publication and `SetJobDone` are the business of `JobQueue`; `Report` stands for
  the point where the artifacts and the metadata are recorded.

### How Webhook corresponds to the code

* `NotifyDone` and `NotifyFailed` read the job state again. It may be missing, may have no
  callback URL, or may not say done because `SetJobDone` could not write it; the payload
  follows the state. The paths in it are those of `buildJobArtifacts`.
* `Notify` sends a request up to three times, one and four seconds apart. A request that got no 2xx
  answer within ten seconds has arrived (`Unheard`) or not (`Refused`).
* Nobody waits for the goroutine, so the program may end under it (`ProgramEnds`).
* The signature and the metadata are left out: nothing depends on them.

### How Streaming corresponds to the code

* **A command** of FFmpeg or ffprobe is one action with an outcome `ok`. With a context that is over it
  fails. A failed command may have damaged every file that it writes: its variants
  are no longer `whole`, and a master playlist that it writes is there or not.
* **Fallbacks.** `try` is how the next command encodes: CUDA, NVENC without it, CPU. The transcoding
  goes through all three. A variant goes from CUDA to NVENC; then `segmentForStreamingBody` as a whole
  is run again on the CPU (`body`). With `HLS_SINGLE_COMMAND`, one command makes all variants
  and, if so configured, its failure falls back to one command per variant first.
* **The directory** outlives bodies and, after a crash, attempts: `present` are the variants
  that have a directory in it, which `UploadDirectory` uploads whether or not the master
  playlist names them.
* **The upload** goes through the entries in the order of their names, so `master.m3u8` comes after
  the directories. A directory is one step, which fails or is torn by a crash (`Crash`) in the middle.
* **The bucket** outlives all attempts. An attempt that ends removes its directory; the job may be
  run again all the same (`RunAgain`), after a failure, a failed publication, or because its
  instance died later on, and since a failed archiving is only logged it may find its source and
  upload again over what is there. `overwritten` are the variants that have been uploaded or
  torn since the master playlist in the bucket was written.
* Heights are numbers, of which only the order matters. Bit rates and arguments are left out.

## 3. Runs

Bounds: `MaxFaults`, `MaxCrashes`, `MaxTimeouts` count the failed commands, the
crashes and the expired contexts of a behaviour, `MaxOutages` and `MaxErrors` the outages of the service behind
a breaker and the calls that fail without one, `MaxReruns` the further attempts of `Streaming`; `Slots` bounds the goroutines
alive in an instance, which the code does not bound once contexts expire.

| Run | Instance | Shows |
|---|---|---|
| `mishaps` | 2 instances, 1 video; 2 crashes, or a fault with or without a crash, or 1 timeout | `TypeOK`, `NoSilentLoss`, `CopiesCounted`, `DeadLetterJustified`, `DoneImpliesPublished`, `SourceKept` and the refinement `KeepsPromise` when both recovery loops and a job goroutine of each instance meet on one video |
| `liveness` | `Instances`: 1 instance, 2 workers, 2 retries, 2 crashes or shutdowns | `ExclusiveProcessing` and `OwnFiles`: no two attempts meet on a video or on its temporary files as long as nothing times out; `NoFailureForgotten`: nor do they overwrite each other's counters; `ShutdownIsCrash`: all this across shutdowns, which the queues take for crashes; `JobSettles`, `RetriesEnd`, `NotificationStarted`, `ShutdownEnds` |
| `breaker` | 3 callers, threshold 3, 2 outages, 3 errors of the callers | `ServiceSpared`, `OpeningJustified`, `ClosedByProbe`, `Recovers`, when calls of earlier generations answer at any later time |
| `pipeline` | `Webhook`: all settings of `pipeline.cfg`, 2 units of transfer | `BudgetSuffices`, `ResultFinal`, `TranscodedIsUploaded`, `AttemptEnds`, and of the callback that follows `CallbackTruthful`, `CallbackBounded`, `CallbackEnds` |
| `hls` | 3 variants, 3 sources, all encoder and HLS settings, 3 attempts on one bucket | `PlayableMaster`, `StoredPlayable`, `FitsSource`, `GivesUpOnlyOnCPU`, `Ends` |

Two attempts on one video are what it takes to interleave setters, removals
and acknowledgements; two goroutines (in one or in two instances) give them, and
`MaxJobRetries = 1` lets a job be retried and then die. In `mishaps` the second crash hits the recovery from
the first, and a fault is combined with a crash. A goroutine that outlives its job multiplies the
interleavings of two instances by more than ten, so a timeout comes alone there (`FewMishaps`); the
theorems of section 4 cover any number of mishaps of all kinds together. The retry counter matters only
against `MaxJobRetries`, which `liveness` sets to 2 so that it has to pass through a
value strictly between.

Three callers let one failure of an old generation, one probe and one rejected call
coexist; the second outage makes a breaker open again that has closed, and three errors of the callers are as many as
open it without an outage. In `pipeline`,
`maxParallel = 0` is the degenerate setting that the code clamps, 2 makes steps wait
for the semaphore (a capacity of 4 never does), and `jobTimeout = 3` expires in the middle of the
pipeline. The transfers may take longer than their slack, so the derived budget expires
as well. The scale multiplies every duration and is covered by the proof, so one value is
enough here. The three sources of `hls` are smaller than every variant, of the height of one, and between
two; a crash leaves a directory made with another choice of variants, and with three attempts an upload over an
earlier one can itself be torn and followed by one that succeeds. Both systems stop when
the attempt is over, so deadlock is not checked in them.

The other runs check a statement of the documentation or of a comment and
find it violated; `PROJECT.json` quotes the statement of each:

* `fourth_attempt`: the documentation gives a job three attempts (`architecture.md:38` and `:51`,
  `GETTING_STARTED.md:226`), the code three retries after the first, as the comment on `MaxJobRetries`
  says. `DeadLetterJustified` and `Delivery` state the limit of the code.
* `orphan_stranded`: an orphan whose state is not `processing` is never requeued
  (crash after the pop and before `SetJobProcessing`, or after `SetJobFailed`).
* `retries_endless`: after one timeout two goroutines on one video keep
  resetting each other's retry counter.
* `finished_dead`: a crash between the publication and `SetJobDone` lets a finished
  job be tried again without its source and end in the dead letter queue.
* `breaker_idle`: an idle worker takes the only probe of the half-open Redis breaker into
  BRPOPLPUSH; as long as no message comes, the breaker stays half-open and rejects the
  acknowledgements and publications of running jobs, although Redis works.
* `blip`: the MinIO breaker opens, and the retries that it rejects at once bring a job into the
  dead letter queue that MinIO itself has failed only three times.
* `shutdown_cuts`: after the signal the program ends before the grace period does, with a job in
  the middle of its work, which counts as a failed attempt or waits for the recovery.

Further consequences are visible in the models and have no run:

* a goroutine that outlives its context is requeued by the recovery while it runs;
* when `SetJobDone` cannot be written, the callback of a finished job says failure;
* a failed `SetJobFailed` sends a job to the dead letter queue at its first failure, and a failed GET
  resets its counter;
* when archiving has failed, an attempt made again uploads its variants over those of an earlier one. From its
  first directory until its own `master.m3u8` the playlist in the bucket may name variants that are torn or of
  the other attempt, which the documentation excludes ("uploads overwrite", `design-decisions.md:11`).
  `StoredPlayable` says which variants these are, and that a successful upload ends it;
* a source that could not be probed is offered in every height, larger ones than its own included,
  against the "never upscale" of `design-decisions.md:44`; `FitsSource` is about probed sources;
* five missing or oversized videos in a row open the MinIO breaker for all jobs
  (`BreakerHarmsForReason` says that it takes no fewer).

The violations explain the exceptions in the properties that hold. `JobSettles` and
`NotificationStarted` except a job that was `dropped` (a hand-over failed, or an
instance died between LREM and LPUSH) or is `Stranded`. `NotificationStarted` is about the start of the
goroutine that notifies: it dies with the program, and its requests may fail (`Webhook`). `RetriesEnd` holds in
`liveness` because a single instance without timeouts never runs two attempts that
overwrite each other's counters; it fails as soon as two of them do, also with two
recovery loops that requeue the same orphan.

### Fairness

`Fairness` asks three things. Every command a goroutine or a recovery loop has
started returns (weak fairness of `JobStep` and `RecoveryStep`): Redis and MinIO
clients end their calls with an error at the latest, which the model allows as a
result; the exception is a stalled MinIO transfer, which has no deadline, so the
liveness results assume that transfers end. Time passes (`Age`). Each queued
video is consumed if a worker keeps being free (strong fairness per video):
BRPOPLPUSH takes the oldest message, so no video is overtaken for ever. No
fairness is asked of failures, crashes, timeouts or the producer, and none of the
success branches: `JobStep` may always fail.

`Instances` asks the same, and that a cancelled context is noticed, that the timer of the grace period
fires, and that `main` then returns. It does not ask that a BRPOPLPUSH is interrupted, or that a worker
inside it returns.

For the breaker, callers keep calling (the worker loops never stop, and a rejected
`ConsumeMessage` is followed by the next), every call returns unless it is a blocking one on
a working service, and time passes. The service is not asked to come back: `Recovers`
is about the behaviours in which it does. For the pipeline, goroutines run and each
step and transfer ends: a step has a timeout; for a transfer it is the assumption made above.
For the callback each request ends, by its timeout of ten seconds at the latest, and each pause does.
For `Streaming`, commands and uploads end; which way is open.

## 4. Proofs

The theorems about `JobQueue` hold for any set of videos and goroutines, every number of
retries, faults, crashes and timeouts. They assume `ConstantsAssumption`:
instances and slots are finite sets, the bounds are natural numbers, `NoVideo`
is no video. Those about `Pipeline` and `Webhook` hold for all durations, scales, job timeouts and
degrees of parallelism; they assume `DurationsAssumption`, that these are numbers. Those about
the breaker hold for all callers, thresholds, outages and errors, those about `Streaming` for all
ladders of variants, heights and further attempts (`LadderAssumption`: there is a variant, and heights are
positive numbers).

* `TypeCorrect`: `TypeOK` is inductive.
* `DonePublished`, `SourceNeverLost`: `PublishedInv` says of a goroutine at each step
  what it has already done: after the upload the processed video exists, between
  the copy and the removal the archived source exists, after the publication
  the finished queue has the message; and whoever holds or wrote a state that
  says done belongs to a published video. The plain properties are not inductive,
  because they do not mention what a goroutine is about to write.
* `NoEarlyDeadLetter`: `RetryInv` says that every retry counter anywhere (in Redis, in
  a goroutine's copy, in a recovery loop's) is at most `failures[v]`, and that a
  goroutine on its way to the dead letter queue counted enough or failed to record
  one. Lost updates only lower a counter, so the bound survives every race.
  Recovery prepares its increment before it counts, so while it is about to
  write the bound is one weaker.
* `CopiesAreCounted`, `NoJobLostSilently`: `LossInv` is a count of tokens. Each copy
  in a queue, or carried by a recovery loop between LREM and LPUSH, is a token; each
  goroutine that pushed its job back owes the removal of one. A goroutine that
  acknowledges has settled the job, dropped it, or pushed a copy that pays for
  the removal (`AckCovered`), so one token remains for the job.

* `BudgetCoversPipeline`: `BudgetInv` gives each step a share of the clock: none before it
  starts, the time it has run, its whole timeout once it has ended. No share
  exceeds the timeout, and each unit of time that is no transfer raises the share of some step,
  so the clock never passes the transfers plus the timeouts, whichever steps overlap.
* `ResultIsFinal`: the result names the steps that have succeeded so far, and after the return all
  have ended.

* `CallbackIsTruthful`, `CallbackIsBounded`: `WebhookInv` says that the payload is what was known
  when the attempt was over, that nothing it names changes afterwards, and that each request is
  counted before it is sent.

* `AttemptsAreExclusive`: `ExclusionInv` follows a token. It is in the request queue, or with the one
  attempt that has not handed its job over, or with a recovery loop. The recovery takes
  it only if the state says processing and is old; the status of the state is tied to the
  command each attempt is at (`StatusInv`), so such a state belongs to no attempt, and without a
  crash none exists (`UncrashedInv`). The two sides of `ExclusiveProcessing` then
  follow from the token and from counting the copies of the running attempts.

* `NoFailureIsForgotten`: with `ExclusionInv`, `CounterInv` says that whoever is about to write
  back a counter has read it since the last failure was counted: the one that has the token is the
  only one to write the state. `retries_endless` shows that one timeout is enough to break it.
* `FinishedOnce`: while nothing fails, times out or crashes, `OverInv` says that a job that is
  finished or dead waits in no request queue and its goroutines have only bookkeeping left;
  a second attempt would need a token, of which there is one. This is how much of the
  documented idempotence holds: `finished_dead` shows that one crash breaks it.
* `OrphansNeedTrouble`: under the same conditions the processing queue holds exactly the running
  attempts (`OwnedInv` is the other half of `CopyInv`), so nothing is ever stranded; the orphans of
  `orphan_stranded` come from mishaps only.

* `WorkerKeepsPromise`: the refinement. Each command maps to a step of `Delivery` or to a
  stutter; that no fate becomes vanished is `NoSilentLoss`, that no one is given up early or
  confirmed in vain are the invariants behind `DeadLetterJustified` and `DoneImpliesPublished`,
  and `OnlySubmitted` adds that nothing happens to a job before it is submitted.
* `OneLossPerMishap` uses nothing of `JobQueue` but that it implements `Delivery`, each step
  of which changes one fate at most, to "lost" only in a mishap.

* `ShutdownsAreCrashes`: the refinement of `JobQueue` by `Instances`. `InstancesInv` says which
  contexts have ended (`ContextInv`: only in an instance that leaves) and that a leaving instance
  takes no more messages than it has workers inside BRPOPLPUSH (`CapacityInv`); then each action
  maps to the one of `JobQueue` that it is made of, to `Crash`, or to a stutter.
* `ShutdownsKeepExclusion`, `ShutdownsForgetNoFailure`, `ShutdownsLoseOnlyHandOvers`,
  `ShutdownsKeepPromise` are then the theorems above, taken from the instance `Proved` of
  `JobQueueTheorems`: none of these properties reads a job context. An exit between the LREM and the
  LPUSH of a recovery does lose the job, but no more jobs are lost than there were faults, crashes and
  exits. An attempt that an exit cuts before `SetJobFailed` is counted when the recovery finds it; what
  `ShutdownsForgetNoFailure` says is that nothing that was counted is overwritten.
* `FilesAreOwn`: whoever writes or removes files has not handed its job over (`FilesTouched`);
  if another goroutine of the instance used the same files, there would be two attempts with the
  token of one video (`FilesNotShared`, from `ExclusionInv` of the instance).

* `OpensForReason`, `ClosesByProbe`: `BreakerInv` says that the breaker counts no failure but
  those of calls that began since it was closed (`CountsFounded`), that the half-open state does not
  expire, and that its calls began after the breaker opened (`CallsAreProbes`).
* `ServiceIsSpared` assumes `MaxRequests = 1`, the setting of both breakers: then the
  half-open breaker has admitted nothing, or the one call that reached the service since (`OneProbe`).
* `TransfersAreCalls`: the goroutines of `StorageRetries` are callers of `CircuitBreaker`, so all of
  this holds of the transfers (`RetriesSpareMinIO`). `BreakerHarmsForReason`: a job
  loses an attempt to a rejection only if the breaker is not closed, and then `CountsFounded` has `FailureThreshold`
  failed calls; without an outage each of them is an error of its caller (`ErrorsFounded`).
* `NoVideoMislaid` (which assumes that `NoVideo` is no video and `MaxJobRetries` a number): each
  video is in exactly one place, and every failed attempt is counted, so a video that is
  given up has had all its attempts, though not all of them reached MinIO (run `blip`).

* `CallbackLeavesAttempt`: no step of the callback, and no exit under it, changes a
  variable of `Pipeline`; `AttemptUnderCallback` restates the theorems about `Pipeline` for the
  specification that run `pipeline` checks.

* `MasterIsPlayable`, `StoredIsPlayable`, `VariantsFit`, `CPUIsTried`: `StreamingInv` says of each
  stage which variants are selected, which of them are whole, and which are in the bucket, and
  what is the weakest encoder still to be tried. `VariantsFit` rests on a lemma that a finite ladder has
  a lowest variant, which `Selected` returns when none fits.

Each invariant was checked with TLC on the instances above before it was proved.

Only model-checked: the liveness properties, which are out of the prover's reach, like everything
that depends on fairness (`JobSettles`, `RetriesEnd`, `NotificationStarted`, `ShutdownEnds`, `Recovers`,
`TranscodedIsUploaded`, `AttemptEnds`, `CallbackEnds`, `Ends`). No run refers to `LostForReason`, `OnePlace`, `AttemptsCounted` and
`NoOrphans`: they are stated where they are proved, after TLC had found no violation of them with two goroutines.

## 5. State of the plan

Done: the job protocol with its abstract specification, the breakers and their effect on
retries, the pipeline, the callback, transcoding and HLS, the shutdown and the temporary files.

Left:

1. Job timeouts and Redis faults in `Instances`, where two attempts do share temporary files.

Not modelled:

* reading and rejecting the configuration: what control flow reads of it is a constant
  or a variable `settings` that no action changes;
* metrics and tracing, which no control flow reads, and the HTTP endpoints, which change nothing;
* FFmpeg itself, and the commands of the analysis, thumbnails, audio and preview steps: each of these is one
  command after the other without state or fallback, and to `Pipeline` it succeeds or fails;
* the set-up of the bucket and of its lifecycle rule, and the expiry of `raw-archived/`;
* the size limit of the download, which is one more way to fail;
* the signature and the metadata of the callback.
