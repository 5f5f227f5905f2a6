--------------------------- MODULE CircuitBreaker ---------------------------
(***************************************************************************)
(* A circuit breaker of internal/circuitbreaker and the calls made through *)
(* it.  The program has two: Redis, around ConsumeMessage,                 *)
(* AcknowledgeMessage and PublishSuccessMessage, and MinIO, around the     *)
(* transfers.  The breaker itself is gobreaker v1.0.0: its counts belong   *)
(* to a generation, a generation ends when the state changes or the        *)
(* counting interval is over, and the result of a call of an older         *)
(* generation is ignored.                                                  *)
(*                                                                         *)
(* Generations are not numbered: breaker.calls holds the running calls     *)
(* that were admitted in the current one.                                  *)
(***************************************************************************)
EXTENDS Naturals, FiniteSets

CONSTANTS
  Callers,           \* goroutines that call the service
  Blocking,          \* those in BRPOPLPUSH: their call lasts until a message arrives
  FailureThreshold,  \* consecutive failures that open the breaker (5 for MinIO, 3 for Redis)
  MaxRequests,       \* calls admitted in the half-open state (1)
  MaxOutages,        \* bound: outages of the service
  MaxErrors          \* bound: calls that fail although the service works

ASSUME BreakerAssumption ==
  /\ IsFiniteSet(Callers)
  /\ Blocking \subseteq Callers
  /\ FailureThreshold \in Nat \ {0}
  /\ MaxRequests \in Nat \ {0}
  /\ MaxOutages \in Nat /\ MaxErrors \in Nat

VARIABLES
  breaker,   \* state, counts and running calls of the current generation
  expired,   \* its expiry (Interval when closed, Timeout when open) has passed
  inFlight,  \* callers whose call runs
  failing,   \* those whose call will return an error
  up,        \* the service works
  outages,
  errors,
  \* history
  since,     \* callers whose running call began after the breaker had opened
  fresh,     \* callers whose running call began after it last became closed
  failed     \* calls of that kind that returned an error, up to FailureThreshold

breakerVars == <<breaker, expired, inFlight, failing, since, fresh, failed>>
vars == <<breakerVars, up, outages, errors>>

-----------------------------------------------------------------------------
\* gobreaker

NewGeneration(state) ==
  [state |-> state, failures |-> 0, requests |-> 0, successes |-> 0, calls |-> {}]

\* currentState: what every request first makes of the breaker.
Current ==
  IF ~expired THEN breaker
  ELSE NewGeneration(IF breaker.state = "open" THEN "halfOpen" ELSE breaker.state)

\* A half-open state that admits every request.
RejectsOpen(b) == b.state = "open"

\* ErrOpenState, ErrTooManyRequests.
Rejects(b) ==
  \/ b.state = "open"
  \/ b.state = "halfOpen" /\ b.requests >= MaxRequests

\* onRequest. The counts of requests and successes matter in the half-open state only.
Admit(b, c) ==
  [b EXCEPT !.requests = IF b.state = "halfOpen" THEN @ + 1 ELSE @,
            !.calls = @ \cup {c}]

\* A success that leaves the call running.
SucceedKept(b, c) ==
  IF b.state = "halfOpen" /\ b.successes + 1 >= MaxRequests
  THEN NewGeneration("closed")
  ELSE [b EXCEPT !.failures = 0]

\* onSuccess
Succeed(b, c) ==
  IF b.state = "halfOpen" /\ b.successes + 1 >= MaxRequests
  THEN NewGeneration("closed")
  ELSE [b EXCEPT !.failures = 0,
                 !.successes = IF b.state = "halfOpen" THEN @ + 1 ELSE @,
                 !.calls = @ \ {c}]

\* A failed probe that leaves the breaker half-open.
FailClosed(b, c) ==
  IF b.state = "closed" /\ b.failures + 1 >= FailureThreshold
  THEN NewGeneration("open")
  ELSE [b EXCEPT !.failures = @ + 1, !.calls = @ \ {c}]

\* onFailure, with ReadyToTrip of the settings
FailCall(b, c) ==
  IF b.state = "halfOpen" \/ b.failures + 1 >= FailureThreshold
  THEN NewGeneration("open")
  ELSE [b EXCEPT !.failures = @ + 1, !.calls = @ \ {c}]

\* An afterRequest that does not look at the generation.
AfterAnyRequest(b, c, ok) ==
  IF b.state = "open" THEN b ELSE IF ok THEN Succeed(b, c) ELSE FailCall(b, c)

\* afterRequest
AfterRequest(b, c, ok) ==
  IF c \notin b.calls THEN b ELSE IF ok THEN Succeed(b, c) ELSE FailCall(b, c)

\* The breaker becomes b. An expiry that has been acted upon, or that a new generation has set, is
\* in the future again.
Become(b) ==
  /\ breaker' = b
  /\ expired' = FALSE

-----------------------------------------------------------------------------
\* Calls through the breaker

Init ==
  /\ breaker = NewGeneration("closed")
  /\ expired = FALSE
  /\ inFlight = {}
  /\ failing = {}
  /\ up = TRUE
  /\ outages = 0 /\ errors = 0
  /\ since = {} /\ fresh = {}
  /\ failed = 0

\* Execute begins a call. Calls to a service that is down fail; others may fail for a reason of
\* their own (an object that is missing or too large, a local file, a cancelled context), which the
\* breaker cannot tell from an outage.
Call(c, fails) ==
  /\ c \notin inFlight
  /\ ~Rejects(Current)
  /\ Become(Admit(Current, c))
  /\ inFlight' = inFlight \cup {c}
  /\ IF fails THEN failing' = failing \cup {c} ELSE up /\ UNCHANGED failing
  /\ IF fails /\ up THEN errors < MaxErrors /\ errors' = errors + 1 ELSE UNCHANGED errors
  /\ since' = IF Current.state = "closed" THEN since ELSE since \cup {c}
  /\ fresh' = fresh \cup {c}
  /\ UNCHANGED <<failed, up, outages>>

\* Execute returns the error of the breaker: nothing changes, and the caller tries again later.
Reject(c) ==
  /\ c \notin inFlight
  /\ Rejects(Current)
  /\ UNCHANGED vars

\* The call of c returns and Execute reports its result.
Return(c) ==
  /\ c \in inFlight
  /\ LET b == AfterRequest(Current, c, c \notin failing)
     IN  /\ Become(b)
         /\ since' = IF breaker.state = "closed" /\ b.state # "closed" THEN {} ELSE since \ {c}
         /\ IF breaker.state # "closed" /\ b.state = "closed"
            THEN failed' = 0 /\ fresh' = {}
            ELSE /\ failed' = IF c \in failing \cap fresh /\ failed < FailureThreshold
                              THEN failed + 1 ELSE failed
                 /\ fresh' = fresh \ {c}
  /\ inFlight' = inFlight \ {c}
  /\ failing' = failing \ {c}
  /\ UNCHANGED <<up, outages, errors>>

\* Time passes. The half-open state has no expiry.
Expiry ==
  /\ ~expired
  /\ breaker.state # "halfOpen"
  /\ expired' = TRUE
  /\ UNCHANGED <<breaker, inFlight, failing, since, fresh, failed, up, outages, errors>>

\* The service goes down and breaks some of the connections.
Outage ==
  /\ up /\ outages < MaxOutages
  /\ up' = FALSE
  /\ outages' = outages + 1
  /\ \E broken \in SUBSET inFlight : failing' = failing \cup broken
  /\ UNCHANGED <<breaker, expired, inFlight, since, fresh, failed, errors>>

Repair ==
  /\ ~up
  /\ up' = TRUE
  /\ UNCHANGED <<breakerVars, outages, errors>>

Next ==
  \/ \E c \in Callers : (\E fails \in BOOLEAN : Call(c, fails)) \/ Reject(c) \/ Return(c)
  \/ Expiry \/ Outage \/ Repair

Spec == Init /\ [][Next]_vars

\* Callers keep calling, as the worker loops do for ever and job goroutines while there are jobs,
\* and time passes. A call returns, except that BRPOPLPUSH on a working Redis waits for a message,
\* which nobody has to send.
Fairness ==
  /\ \A c \in Callers : WF_vars(\E fails \in BOOLEAN : Call(c, fails))
  /\ \A c \in Callers : WF_vars(c \in failing /\ Return(c))
  /\ \A c \in Callers \ Blocking : WF_vars(Return(c))
  /\ WF_vars(Expiry)

FairSpec == Spec /\ Fairness

-----------------------------------------------------------------------------
\* Properties

\* Every variable has its type, and the calls of the current generation run.
TypeOK ==
  /\ breaker \in [state : {"closed", "open", "halfOpen"}, failures : Nat, requests : Nat,
                  successes : Nat, calls : SUBSET Callers]
  /\ expired \in BOOLEAN /\ up \in BOOLEAN
  /\ inFlight \subseteq Callers /\ failing \subseteq inFlight
  /\ since \subseteq inFlight /\ fresh \subseteq inFlight
  /\ breaker.calls \subseteq inFlight
  /\ outages \in Nat /\ errors \in Nat /\ failed \in Nat

\* From the moment the breaker opens until it closes, the recovering service gets at most
\* MaxRequests new calls at a time, whatever calls of earlier generations end meanwhile. It holds
\* for the MaxRequests = 1 of the program; with more, a probe that is still running when another
\* one fails is not counted when the breaker is half-open again.
ServiceSpared ==
  breaker.state # "closed" => Cardinality(since) <= MaxRequests

\* The breaker opens only after FailureThreshold calls have failed of those that began since it
\* last became closed: neither the failures of an earlier outage nor late ones of calls that it
\* let pass before are held against the service.
OpeningJustified ==
  breaker.state # "closed" => failed >= FailureThreshold

\* Only a call that began after the breaker opened, and succeeded, closes it; the late success of
\* an older call says nothing about the service.
ClosedByProbe ==
  [][breaker.state # "closed" /\ breaker'.state = "closed" =>
       \E c \in since \ failing : c \notin inFlight']_vars

\* Once the service works for good, and calls do not fail for reasons of their own for ever, the
\* breaker closes and stays closed. A probe in BRPOPLPUSH breaks this: no message comes, and the
\* breaker rejects everybody else.
Recovers == <>[]up => <>[](breaker.state = "closed")

=============================================================================
