--------------------------- MODULE StorageRetries ---------------------------
(***************************************************************************)
(* What the MinIO breaker does to the retries: job goroutines download the *)
(* video, upload it, archive its source and upload artifacts through the   *)
(* breaker, and a failed job goes back to the queue at once (main.go).     *)
(* Redis works; the pipeline succeeds.                                     *)
(***************************************************************************)
EXTENDS CircuitBreaker

CONSTANTS
  Videos,
  NoVideo,
  MaxJobRetries

VARIABLES
  queue,    \* videos in the request queue
  job,      \* the video each goroutine works on
  step,     \* its next transfer
  retries,  \* RetryCount of each video
  dead,     \* videos in the dead letter queue
  finished, \* videos whose job is done
  refused   \* history: attempts on each video that failed in a call, not in the breaker

jobVars == <<queue, job, step, retries, dead, finished, refused>>

StorageInit ==
  /\ Init
  /\ queue = Videos
  /\ job = [c \in Callers |-> NoVideo]
  /\ step = [c \in Callers |-> "download"]
  /\ retries = [v \in Videos |-> 0]
  /\ dead = {}
  /\ finished = {}
  /\ refused = [v \in Videos |-> 0]

\* A worker consumes v.
Consume(c, v) ==
  /\ job[c] = NoVideo
  /\ v \in queue
  /\ queue' = queue \ {v}
  /\ job' = [job EXCEPT ![c] = v]
  /\ step' = [step EXCEPT ![c] = "download"]
  /\ UNCHANGED <<vars, retries, dead, finished, refused>>

\* The deferred function: count the failure, then retry at once or give up.
FailJob(c) ==
  LET v == job[c]
  IN  /\ retries' = [retries EXCEPT ![v] = @ + 1]
      /\ IF retries'[v] <= MaxJobRetries
         THEN queue' = queue \cup {v} /\ UNCHANGED dead
         ELSE dead' = dead \cup {v} /\ UNCHANGED queue
      /\ job' = [job EXCEPT ![c] = NoVideo]
      /\ UNCHANGED <<step, finished>>

\* Transfers whose error is only logged.
Optional == {"archive", "artifact"}

Following ==
  [download |-> "upload", upload |-> "archive", archive |-> "artifact", artifact |-> "artifact"]

\* The transfer succeeded, or did not have to. After the last artifact, of which there may be none,
\* the job is done.
Proceed(c) ==
  /\ \/ /\ step[c] \in Optional
        /\ finished' = finished \cup {job[c]}
        /\ job' = [job EXCEPT ![c] = NoVideo]
        /\ UNCHANGED step
     \/ /\ step' = [step EXCEPT ![c] = Following[@]]
        /\ UNCHANGED <<job, finished>>
  /\ UNCHANGED <<queue, retries, dead>>

\* A transfer that reaches MinIO.
Transfer(c) ==
  /\ job[c] # NoVideo
  /\ \E fails \in BOOLEAN : Call(c, fails)
  /\ UNCHANGED jobVars

\* DownloadVideo, UploadVideo, ArchiveRawVideo or UploadFile returns what the call itself did...
TransferEnds(c) ==
  /\ Return(c)
  /\ IF c \in failing /\ step[c] \notin Optional
     THEN FailJob(c) /\ refused' = [refused EXCEPT ![job[c]] = @ + 1]
     ELSE Proceed(c) /\ UNCHANGED refused

\* ...or the error of the breaker, without having called MinIO.
TransferRejected(c) ==
  /\ job[c] # NoVideo
  /\ Reject(c)
  /\ IF step[c] \in Optional THEN Proceed(c) ELSE FailJob(c)
  /\ UNCHANGED refused

StorageNext ==
  \/ \E c \in Callers :
       \/ \E v \in Videos : Consume(c, v)
       \/ Transfer(c) \/ TransferEnds(c) \/ TransferRejected(c)
  \/ (Expiry \/ Outage \/ Repair) /\ UNCHANGED jobVars

StorageSpec == StorageInit /\ [][StorageNext]_<<vars, jobVars>>

\* An attempt on v fails and no call of its own has failed.
LosesAttempt(v) == retries'[v] # retries[v] /\ refused'[v] = refused[v]

\* A job loses an attempt to the breaker only when FailureThreshold transfers have failed since it
\* was last closed, late answers of older ones not counted; and without an outage only when as
\* many have failed for reasons of their own.
LostForReason ==
  [][\A v \in Videos : LosesAttempt(v) =>
       failed >= FailureThreshold /\ (outages = 0 => errors >= FailureThreshold)]_<<vars, jobVars>>

\* "Transient failures (MinIO blip) should self-heal": no job is given up before MinIO itself
\* failed it more than MaxJobRetries times.
BlipSelfHeals == \A v \in dead : refused[v] > MaxJobRetries

=============================================================================
