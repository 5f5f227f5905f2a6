-------------------------- MODULE JobQueueDelivery --------------------------
(***************************************************************************)
(* JobQueue implements Delivery: what the queues hold stands for what is   *)
(* owed.                                                                   *)
(***************************************************************************)
EXTENDS JobQueue

\* What has become of the job of v. A job of which no queue has a copy and that is neither over
\* nor known to be lost has vanished, which Delivery does not allow.
Fate(v) ==
  IF v \notin submitted THEN "none"
  ELSE IF Settled(v) THEN "over"
  ELSE IF v \in dropped THEN "lost"
  ELSE IF Copies(v) > 0 THEN "owed" ELSE "vanished"

JobFates == [v \in Videos |-> Fate(v)]

\* The jobs whose callback said success.
Confirmed == {v \in Videos : <<v, TRUE>> \in webhooks}

Promise == INSTANCE Delivery WITH
  job       <- JobFates,
  finished  <- finishedQ,
  dead      <- deadQ,
  confirmed <- Confirmed,
  failures  <- failures,
  forgotten <- unrecorded,
  mishaps   <- faults + crashes

\* The worker keeps its promise to the API: whatever interleaves, fails or crashes, no job leaves
\* the queues, is finished, confirmed, given up or lost in another way than Delivery allows.
KeepsPromise == Promise!Spec

=============================================================================
