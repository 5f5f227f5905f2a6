------------------------------ MODULE Webhook ------------------------------
(***************************************************************************)
(* The callback of an attempt: notifyWebhook (main.go) builds the payload  *)
(* from the job state, and Notify (internal/webhook/webhook.go) sends it   *)
(* up to three times, in a goroutine that nobody waits for.                *)
(*                                                                         *)
(* A request may be refused; it may arrive and its answer be lost, late or *)
(* an error; and the program may end at any time.                          *)
(***************************************************************************)
EXTENDS Pipeline

VARIABLES
  hook,      \* where the goroutine of the callback is, or how it ended
  tries,     \* requests sent
  payload,   \* what they say: success, and the artifacts they name
  received   \* requests the API has handled

hookVars == <<hook, tries, payload, received>>

\* Requests that Notify sends at most.
MaxTries == 3

Waiting == {"idle", "sending", "sleeping"}

NoPayload == [success |-> FALSE, paths |-> {}]

WebhookInit ==
  /\ Init
  /\ hook = "idle" /\ tries = 0 /\ payload = NoPayload /\ received = 0

\* Notify marshals the payload and makes the first request.
Start(success, paths) ==
  /\ hook' = "sending"
  /\ tries' = 1
  /\ payload' = [success |-> success, paths |-> paths]

\* No callback: no URL, no state, or retries left.
NoCallback == hook' = "unasked" /\ UNCHANGED <<tries, payload>>

\* A payload that names every artifact of the pipeline.
AllPaths == {"video"} \cup OptionalSteps

\* The paths of the job state.
Paths == JobArtifacts

\* The goroutine of the job reads the state again. SetJobDone has written it, or failed to.
NotifyDone ==
  /\ stage = "done" /\ hook = "idle"
  /\ Start(TRUE, Paths) \/ Start(FALSE, {}) \/ NoCallback
  /\ UNCHANGED <<vars, received>>

\* A job that has failed is reported when it is moved to the dead letter queue.
NotifyFailed ==
  /\ stage = "failed" /\ hook = "idle"
  /\ Start(FALSE, {}) \/ NoCallback
  /\ UNCHANGED <<vars, received>>

\* The API answers with a 2xx status within ten seconds.
Answered ==
  /\ hook = "sending"
  /\ hook' = "delivered"
  /\ received' = received + 1
  /\ UNCHANGED <<vars, tries, payload>>

\* A loop that sends until it is heard.
SendAgain == "sleeping"

\* The third request was the last one.
AfterError == IF tries < MaxTries THEN "sleeping" ELSE "undelivered"

\* A refused connection that does not count.
RefusedUncounted ==
  /\ hook = "sending"
  /\ hook' = "sleeping"
  /\ tries' = tries - 1
  /\ UNCHANGED <<vars, payload, received>>

\* The request did not arrive.
Refused ==
  /\ hook = "sending"
  /\ hook' = AfterError
  /\ UNCHANGED <<vars, tries, payload, received>>

\* It did, and Notify does not learn of it.
Unheard ==
  /\ hook = "sending"
  /\ hook' = AfterError
  /\ received' = received + 1
  /\ UNCHANGED <<vars, tries, payload>>

\* After one second, or four.
SleepEnds ==
  /\ hook = "sleeping"
  /\ hook' = "sending"
  /\ tries' = tries + 1
  /\ UNCHANGED <<vars, payload, received>>

\* The program ends without waiting for the goroutine.
ProgramEnds ==
  /\ hook \in {"sending", "sleeping"}
  /\ hook' = "killed"
  /\ UNCHANGED <<vars, tries, payload, received>>

HookStep == NotifyDone \/ NotifyFailed \/ Answered \/ Refused \/ Unheard \/ SleepEnds

WebhookNext == (Next /\ UNCHANGED hookVars) \/ HookStep \/ ProgramEnds

webhookVars == <<vars, hookVars>>

\* Every request ends, if only by its timeout of ten seconds.
WebhookSpec == WebhookInit /\ [][WebhookNext]_webhookVars /\ Fairness /\ WF_webhookVars(HookStep)

-----------------------------------------------------------------------------
\* Properties

\* The artifacts whose upload has failed are reported as well; the others are never left out. A
\* callback that says success comes after the video was uploaded, and one that says failure
\* names nothing.
CallbackTruthful ==
  received > 0 =>
    IF payload.success
    THEN /\ stage = "done" /\ "video" \in stored
         /\ stored \subseteq payload.paths
         /\ payload.paths \cap OptionalSteps = {s \in OptionalSteps : step[s] = "succeeded"}
    ELSE payload.paths = {}

\* The API may handle the same callback several times, but never more often than the three
\* requests.
CallbackBounded == received <= tries /\ tries <= MaxTries

\* The goroutine of the callback ends, however often the API fails.
CallbackEnds == <>(hook \notin Waiting)

=============================================================================
