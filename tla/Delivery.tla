------------------------------ MODULE Delivery ------------------------------
(***************************************************************************)
(* What the worker promises the API about its jobs, whatever its queues,   *)
(* goroutines and instances do: a job that was submitted is owed until it  *)
(* is over; it ends as finished, or as dead after more than MaxJobRetries  *)
(* failures; and it is lost only in a mishap, that is, when a command      *)
(* fails or an instance dies.                                              *)
(***************************************************************************)
EXTENDS Naturals

CONSTANTS
  Videos,
  MaxJobRetries

VARIABLES
  job,        \* what has become of each job
  finished,   \* jobs announced in the finished queue
  dead,       \* jobs announced in the dead letter queue
  confirmed,  \* jobs whose callback said success
  failures,   \* failed attempts and recoveries of each job, up to MaxJobRetries + 1
  forgotten,  \* jobs one of whose failures could not be recorded
  mishaps     \* failed commands and crashes

vars == <<job, finished, dead, confirmed, failures, forgotten, mishaps>>

Fates == {"none", "owed", "over", "lost"}

Init ==
  /\ job = [v \in Videos |-> "none"]
  /\ finished = {} /\ dead = {} /\ confirmed = {}
  /\ failures = [v \in Videos |-> 0]
  /\ forgotten = {}
  /\ mishaps = 0

\* A step that may be a mishap, and one that is.
MaybeMishap == mishaps' \in {mishaps, mishaps + 1}
Mishap == mishaps' = mishaps + 1

Become(v, fate) == job' = [job EXCEPT ![v] = fate]

Submit(v) ==
  /\ job[v] = "none"
  /\ Become(v, "owed")
  /\ UNCHANGED <<finished, dead, confirmed, failures, forgotten, mishaps>>

\* A lost job may still end: the attempt whose hand-over failed was perhaps not the only one.
Finish(v) ==
  /\ job[v] # "none"
  /\ Become(v, "over")
  /\ finished' = finished \cup {v}
  /\ MaybeMishap
  /\ UNCHANGED <<dead, confirmed, failures, forgotten>>

\* The limit is the code's: MaxJobRetries retries after the initial attempt.
GiveUp(v) ==
  /\ job[v] # "none"
  /\ failures[v] > MaxJobRetries \/ v \in forgotten
  /\ Become(v, "over")
  /\ dead' = dead \cup {v}
  /\ MaybeMishap
  /\ UNCHANGED <<finished, confirmed, failures, forgotten>>

\* A failure is counted; if that cannot be recorded, its job is not held to MaxJobRetries.
Fail(v) ==
  /\ job[v] # "none"
  /\ failures' = [failures EXCEPT ![v] = IF @ > MaxJobRetries THEN @ ELSE @ + 1]
  /\ \/ MaybeMishap /\ UNCHANGED forgotten
     \/ Mishap /\ forgotten' = forgotten \cup {v}
  /\ UNCHANGED <<job, finished, dead, confirmed>>

Confirm(v) ==
  /\ v \in finished
  /\ confirmed' = confirmed \cup {v}
  /\ MaybeMishap
  /\ UNCHANGED <<job, finished, dead, failures, forgotten>>

\* A mishap that makes no difference, or one that loses a job.
Suffer ==
  /\ Mishap
  /\ \/ UNCHANGED job
     \/ \E v \in Videos : job[v] = "owed" /\ Become(v, "lost")
  /\ UNCHANGED <<finished, dead, confirmed, failures, forgotten>>

Next ==
  \/ \E v \in Videos : Submit(v) \/ Finish(v) \/ GiveUp(v) \/ Fail(v) \/ Confirm(v)
  \/ Suffer

Spec == Init /\ [][Next]_vars

=============================================================================
