------------------------ MODULE CircuitBreakerProofs ------------------------
(***************************************************************************)
(* Proofs about the circuit breakers: type correctness, OpeningJustified,  *)
(* ClosedByProbe and, for the one request per half-open state that the     *)
(* program admits, ServiceSpared.  They hold for any callers, blocking or  *)
(* not, every threshold and any number of outages, and so for the          *)
(* transfers of StorageRetries.  What the breaker does to the jobs is      *)
(* bounded too: it costs an attempt only after FailureThreshold failures,  *)
(* and mislays no video.                                                   *)
(***************************************************************************)
EXTENDS StorageRetries, FiniteSetTheorems, TLAPS

Breakers == [state : {"closed", "open", "halfOpen"}, failures : Nat, requests : Nat,
             successes : Nat, calls : SUBSET Callers]

\* The half-open state has no expiry, so its generation lasts until a result ends it.
ProbesWait == breaker.state = "halfOpen" => ~expired

\* The calls of a half-open generation began after the breaker opened.
CallsAreProbes == breaker.state = "halfOpen" => breaker.calls \subseteq since

\* The breaker counts no failure that did not happen since it was closed.
CountsFounded ==
  /\ breaker.state = "closed" =>
       /\ breaker.failures <= failed /\ breaker.failures < FailureThreshold
       /\ breaker.calls \subseteq fresh
  /\ breaker.state # "closed" => failed >= FailureThreshold

BreakerInv == TypeOK /\ ProbesWait /\ CallsAreProbes /\ CountsFounded

\* A generation that admits one probe: nothing has begun since the breaker opened but the probe,
\* which has not succeeded, because that would have closed the breaker.
OneProbe ==
  /\ breaker.state = "open" => since = {}
  /\ breaker.state = "halfOpen" =>
       /\ breaker.successes = 0
       /\ since = breaker.calls
       /\ \/ breaker.requests = 0 /\ since = {}
          \/ breaker.requests = 1 /\ \E c \in Callers : since = {c}

-----------------------------------------------------------------------------
\* The operators of the library

\* currentState returns the breaker, or a new generation that has no calls and no counts.
LEMMA CurrentCases ==
  ASSUME TypeOK, ProbesWait
  PROVE  /\ Current \in Breakers
         /\ \/ Current = breaker /\ ~expired
            \/ /\ expired
               /\ Current = NewGeneration("closed") /\ breaker.state = "closed"
            \/ /\ expired
               /\ Current = NewGeneration("halfOpen") /\ breaker.state = "open"
BY DEF TypeOK, ProbesWait, Current, NewGeneration, Breakers

\* onRequest
LEMMA AdmitFacts ==
  ASSUME NEW b \in Breakers, NEW c \in Callers
  PROVE  /\ Admit(b, c) \in Breakers
         /\ Admit(b, c).state = b.state
         /\ Admit(b, c).failures = b.failures
         /\ Admit(b, c).successes = b.successes
         /\ Admit(b, c).calls = b.calls \cup {c}
         /\ b.state = "halfOpen" => Admit(b, c).requests = b.requests + 1
<1>1. CASE b.state = "halfOpen"
  <2>1. Admit(b, c) = [b EXCEPT !.requests = b.requests + 1, !.calls = b.calls \cup {c}]
    BY <1>1 DEF Admit
  <2>2. b.requests + 1 \in Nat /\ b.calls \cup {c} \in SUBSET Callers
    BY DEF Breakers
  <2> QED BY <2>1, <2>2 DEF Breakers
<1>2. CASE b.state # "halfOpen"
  <2>1. Admit(b, c) = [b EXCEPT !.requests = b.requests, !.calls = b.calls \cup {c}]
    BY <1>2 DEF Admit
  <2>2. b.calls \cup {c} \in SUBSET Callers
    BY DEF Breakers
  <2> QED BY <1>2, <2>1, <2>2 DEF Breakers
<1> QED BY <1>1, <1>2

\* afterRequest ignores the result of an older generation; otherwise it starts a generation or
\* counts the result.
LEMMA AfterRequestFacts ==
  ASSUME NEW b \in Breakers, NEW c \in Callers, NEW ok \in BOOLEAN
  PROVE  /\ AfterRequest(b, c, ok) \in Breakers
         /\ \/ c \notin b.calls /\ AfterRequest(b, c, ok) = b
            \/ /\ c \in b.calls /\ ok
               /\ b.state = "halfOpen" /\ b.successes + 1 >= MaxRequests
               /\ AfterRequest(b, c, ok) = NewGeneration("closed")
            \/ /\ c \in b.calls /\ ok
               /\ ~(b.state = "halfOpen" /\ b.successes + 1 >= MaxRequests)
               /\ AfterRequest(b, c, ok).state = b.state
               /\ AfterRequest(b, c, ok).failures = 0
               /\ AfterRequest(b, c, ok).calls = b.calls \ {c}
            \/ /\ c \in b.calls /\ ~ok
               /\ b.state = "halfOpen" \/ b.failures + 1 >= FailureThreshold
               /\ AfterRequest(b, c, ok) = NewGeneration("open")
            \/ /\ c \in b.calls /\ ~ok
               /\ b.state # "halfOpen" /\ b.failures + 1 < FailureThreshold
               /\ AfterRequest(b, c, ok).state = b.state
               /\ AfterRequest(b, c, ok).failures = b.failures + 1
               /\ AfterRequest(b, c, ok).calls = b.calls \ {c}
<1>1. CASE c \notin b.calls
  BY <1>1 DEF AfterRequest
<1>2. CASE c \in b.calls /\ ok /\ b.state = "halfOpen" /\ b.successes + 1 >= MaxRequests
  BY <1>2 DEF AfterRequest, Succeed, NewGeneration, Breakers
<1>3. CASE c \in b.calls /\ ok /\ b.state = "halfOpen" /\ ~(b.successes + 1 >= MaxRequests)
  <2> DEFINE r == [state |-> b.state, failures |-> 0, requests |-> b.requests,
                   successes |-> b.successes + 1, calls |-> b.calls \ {c}]
  <2>1. AfterRequest(b, c, ok) = r
    BY <1>3 DEF AfterRequest, Succeed, Breakers
  <2>2. /\ b.state \in {"closed", "open", "halfOpen"} /\ b.requests \in Nat
        /\ b.successes + 1 \in Nat /\ b.calls \ {c} \in SUBSET Callers
    BY DEF Breakers
  <2>3. r \in Breakers
    BY <2>2 DEF Breakers
  <2>4. r.state = b.state /\ r.failures = 0 /\ r.calls = b.calls \ {c}
    OBVIOUS
  <2> HIDE DEF r
  <2>5. ~(b.state = "halfOpen" /\ b.successes + 1 >= MaxRequests)
    BY <1>3
  <2> QED BY <1>3, <2>1, <2>3, <2>4, <2>5
<1>4. CASE c \in b.calls /\ ok /\ b.state # "halfOpen"
  <2> DEFINE r == [state |-> b.state, failures |-> 0, requests |-> b.requests,
                   successes |-> b.successes, calls |-> b.calls \ {c}]
  <2>1. AfterRequest(b, c, ok) = r
    BY <1>4 DEF AfterRequest, Succeed, Breakers
  <2>2. /\ b.state \in {"closed", "open", "halfOpen"} /\ b.requests \in Nat
        /\ b.successes \in Nat /\ b.calls \ {c} \in SUBSET Callers
    BY DEF Breakers
  <2>3. r \in Breakers
    BY <2>2 DEF Breakers
  <2>4. r.state = b.state /\ r.failures = 0 /\ r.calls = b.calls \ {c}
    OBVIOUS
  <2> HIDE DEF r
  <2>5. ~(b.state = "halfOpen" /\ b.successes + 1 >= MaxRequests)
    BY <1>4
  <2> QED BY <1>4, <2>1, <2>3, <2>4, <2>5
<1>5. CASE /\ c \in b.calls /\ ~ok
           /\ b.state = "halfOpen" \/ b.failures + 1 >= FailureThreshold
  BY <1>5 DEF AfterRequest, FailCall, NewGeneration, Breakers
<1>6. CASE /\ c \in b.calls /\ ~ok
           /\ ~(b.state = "halfOpen" \/ b.failures + 1 >= FailureThreshold)
  <2>1. AfterRequest(b, c, ok) = [b EXCEPT !.failures = b.failures + 1, !.calls = b.calls \ {c}]
    BY <1>6 DEF AfterRequest, FailCall
  <2>2. b.failures + 1 < FailureThreshold
    BY <1>6, BreakerAssumption DEF Breakers
  <2>3. b.calls \ {c} \in SUBSET Callers /\ b.failures + 1 \in Nat
    BY DEF Breakers
  <2> QED BY <1>6, <2>1, <2>2, <2>3 DEF Breakers
<1> QED BY <1>1, <1>2, <1>3, <1>4, <1>5, <1>6

-----------------------------------------------------------------------------
\* The invariant

LEMMA InitBreakerInv == Init => BreakerInv
<1> SUFFICES ASSUME Init PROVE BreakerInv
  OBVIOUS
<1>1. /\ breaker.state = "closed" /\ breaker.failures = 0
      /\ breaker \in Breakers /\ breaker.calls = {}
  BY DEF Init, NewGeneration, Breakers
<1>2. TypeOK
  BY <1>1 DEF Init, TypeOK, Breakers
<1> QED
  BY <1>1, <1>2, BreakerAssumption
     DEF Init, BreakerInv, ProbesWait, CallsAreProbes, CountsFounded

LEMMA CallStep ==
  ASSUME BreakerInv, NEW c \in Callers, NEW fails \in BOOLEAN, Call(c, fails)
  PROVE  BreakerInv'
<1> USE DEF BreakerInv
<1>1. /\ c \notin inFlight
      /\ ~Rejects(Current)
      /\ breaker' = Admit(Current, c) /\ expired' = FALSE
      /\ inFlight' = inFlight \cup {c}
      /\ failing' = IF fails THEN failing \cup {c} ELSE failing
      /\ since' = IF Current.state = "closed" THEN since ELSE since \cup {c}
      /\ fresh' = fresh \cup {c}
      /\ failed' = failed /\ up' = up /\ outages' = outages /\ errors' \in {errors, errors + 1}
  BY DEF Call, Become
<1>2. /\ Current \in Breakers
      /\ \/ Current = breaker /\ ~expired
         \/ expired /\ Current = NewGeneration("closed") /\ breaker.state = "closed"
         \/ expired /\ Current = NewGeneration("halfOpen") /\ breaker.state = "open"
  BY CurrentCases
<1>3. /\ breaker' \in Breakers
      /\ breaker'.state = Current.state
      /\ breaker'.failures = Current.failures
      /\ breaker'.calls = Current.calls \cup {c}
  BY <1>1, <1>2, AdmitFacts
<1>4. Current.calls \subseteq breaker.calls
  BY <1>2 DEF NewGeneration
<1>5. TypeOK'
  <2>1. breaker' \in Breakers /\ breaker'.calls \subseteq inFlight'
    BY <1>1, <1>3, <1>4 DEF TypeOK
  <2>2. /\ since' \subseteq inFlight' /\ fresh' \subseteq inFlight'
        /\ failing' \subseteq inFlight' /\ inFlight' \subseteq Callers
    BY <1>1 DEF TypeOK
  <2>3. outages' \in Nat /\ errors' \in Nat /\ failed' \in Nat /\ up' \in BOOLEAN
    BY <1>1 DEF TypeOK
  <2> QED BY <1>1, <2>1, <2>2, <2>3 DEF TypeOK, Breakers
<1>6. ProbesWait'
  BY <1>1 DEF ProbesWait
<1>7. CallsAreProbes'
  <2>1. Current.state = "halfOpen" => Current.calls \subseteq since
    BY <1>2 DEF CallsAreProbes, NewGeneration
  <2>2. Current.state = "halfOpen" => since' = since \cup {c}
    BY <1>1
  <2>3. breaker'.state = Current.state /\ breaker'.calls = Current.calls \cup {c}
    BY <1>3
  <2> QED BY <2>1, <2>2, <2>3 DEF CallsAreProbes
<1>8. CountsFounded'
  <2>1. failed' = failed /\ failed \in Nat
    BY <1>1 DEF TypeOK
  <2>2. breaker'.state # "closed" => failed' >= FailureThreshold
    BY <1>2, <1>3, <2>1 DEF CountsFounded, NewGeneration
  <2>3. ASSUME breaker'.state = "closed"
        PROVE  /\ breaker'.failures <= failed' /\ breaker'.failures < FailureThreshold
               /\ breaker'.calls \subseteq fresh'
    <3>1. breaker.state = "closed"
      <4>1. Current.state = "closed"
        BY <1>3, <2>3
      <4>2. Current # NewGeneration("halfOpen")
        BY <4>1 DEF NewGeneration
      <4> QED BY <1>2, <4>1, <4>2
    <3>2. breaker'.failures <= failed' /\ breaker'.failures < FailureThreshold
      <4>1. Current.failures \in {breaker.failures, 0}
        BY <1>2 DEF NewGeneration
      <4>2. breaker'.failures = Current.failures
        BY <1>3
      <4>3. breaker.failures <= failed /\ breaker.failures < FailureThreshold
        BY <3>1 DEF CountsFounded
      <4> QED BY <2>1, <4>1, <4>2, <4>3, BreakerAssumption
    <3>3. breaker'.calls \subseteq fresh'
      BY <1>1, <1>3, <1>4, <3>1 DEF CountsFounded
    <3> QED BY <3>2, <3>3
  <2> QED BY <2>2, <2>3 DEF CountsFounded
<1> QED BY <1>5, <1>6, <1>7, <1>8

LEMMA ReturnStep ==
  ASSUME BreakerInv, NEW c \in Callers, Return(c)
  PROVE  BreakerInv'
<1> USE DEF BreakerInv
<1> DEFINE b == AfterRequest(Current, c, c \notin failing)
<1>1. /\ c \in inFlight
      /\ breaker' = b /\ expired' = FALSE
      /\ since' = IF breaker.state = "closed" /\ b.state # "closed" THEN {} ELSE since \ {c}
      /\ IF breaker.state # "closed" /\ b.state = "closed"
         THEN failed' = 0 /\ fresh' = {}
         ELSE /\ failed' = IF c \in failing \cap fresh /\ failed < FailureThreshold
                           THEN failed + 1 ELSE failed
              /\ fresh' = fresh \ {c}
      /\ inFlight' = inFlight \ {c}
      /\ failing' = failing \ {c}
      /\ up' = up /\ outages' = outages /\ errors' = errors
  BY DEF Return, Become
<1>2. /\ Current \in Breakers
      /\ \/ Current = breaker /\ ~expired
         \/ expired /\ Current = NewGeneration("closed") /\ breaker.state = "closed"
         \/ expired /\ Current = NewGeneration("halfOpen") /\ breaker.state = "open"
  BY CurrentCases
<1>3. /\ b \in Breakers
      /\ \/ c \notin Current.calls /\ b = Current
         \/ /\ c \in Current.calls /\ c \notin failing
            /\ Current.state = "halfOpen"
            /\ b = NewGeneration("closed")
         \/ /\ c \in Current.calls /\ c \notin failing
            /\ b.state = Current.state /\ b.failures = 0 /\ b.calls = Current.calls \ {c}
         \/ /\ c \in Current.calls /\ c \in failing
            /\ Current.state = "halfOpen" \/ Current.failures + 1 >= FailureThreshold
            /\ b = NewGeneration("open")
         \/ /\ c \in Current.calls /\ c \in failing
            /\ Current.failures + 1 < FailureThreshold
            /\ b.state = Current.state /\ b.failures = Current.failures + 1
            /\ b.calls = Current.calls \ {c}
  <2>1. (c \notin failing) \in BOOLEAN
    OBVIOUS
  <2> QED BY <1>2, <2>1, AfterRequestFacts
<1> HIDE DEF b
<1>4. Current.calls \subseteq breaker.calls
  BY <1>2 DEF NewGeneration
<1>5. b.calls \subseteq Current.calls /\ c \notin b.calls
  BY <1>3 DEF NewGeneration
<1>6. TypeOK'
  <2>1. breaker' \in Breakers /\ breaker'.calls \subseteq inFlight'
    BY <1>1, <1>3, <1>4, <1>5 DEF TypeOK
  <2>2. /\ since' \subseteq inFlight' /\ fresh' \subseteq inFlight'
        /\ failing' \subseteq inFlight' /\ inFlight' \subseteq Callers
    BY <1>1 DEF TypeOK
  <2>3. failed' \in Nat
    BY <1>1 DEF TypeOK
  <2> QED BY <1>1, <2>1, <2>2, <2>3 DEF TypeOK, Breakers
<1>7. ProbesWait'
  BY <1>1 DEF ProbesWait
<1>8. CallsAreProbes'
  BY <1>1, <1>2, <1>3, <1>5 DEF CallsAreProbes, NewGeneration
<1>9. CountsFounded'
  <2>1. CASE breaker.state # "closed" /\ b.state = "closed"
    <3>1. b = NewGeneration("closed")
      BY <1>2, <1>3, <2>1 DEF NewGeneration
    <3> QED BY <1>1, <2>1, <3>1, BreakerAssumption DEF CountsFounded, NewGeneration
  <2>2. CASE ~(breaker.state # "closed" /\ b.state = "closed")
    <3>1. /\ failed' = IF c \in failing \cap fresh /\ failed < FailureThreshold
                        THEN failed + 1 ELSE failed
          /\ fresh' = fresh \ {c}
      BY <1>1, <2>2
    <3>2. failed' \in Nat /\ failed <= failed' /\ failed \in Nat
      BY <3>1 DEF TypeOK
    <3>3. CASE breaker.state # "closed"
      BY <1>1, <2>2, <3>2, <3>3, BreakerAssumption DEF CountsFounded
    <3>4. CASE breaker.state = "closed"
      <4>1. Current.state = "closed" /\ Current.calls \subseteq fresh
        BY <1>2, <1>4, <3>4 DEF CountsFounded, NewGeneration
      <4>2. /\ Current.failures \in Nat /\ Current.failures <= failed
            /\ Current.failures < FailureThreshold
        BY <1>2, <3>2, <3>4, BreakerAssumption DEF CountsFounded, NewGeneration, Breakers
      <4>3. c \in Current.calls /\ c \in failing =>
              failed' = IF failed < FailureThreshold THEN failed + 1 ELSE failed
        BY <3>1, <4>1
      <4>4. b.calls \subseteq fresh'
        BY <1>5, <3>1, <4>1
      <4> QED BY <1>1, <1>3, <3>2, <4>1, <4>2, <4>3, <4>4, BreakerAssumption
              DEF CountsFounded, NewGeneration
    <3> QED BY <3>3, <3>4
  <2> QED BY <2>1, <2>2
<1> QED BY <1>6, <1>7, <1>8, <1>9

LEMMA BreakerInvStep == BreakerInv /\ [Next]_vars => BreakerInv'
<1> SUFFICES ASSUME BreakerInv, [Next]_vars PROVE BreakerInv'
  OBVIOUS
<1> USE DEF BreakerInv, TypeOK, ProbesWait, CallsAreProbes, CountsFounded
<1>1. ASSUME NEW c \in Callers, NEW fails \in BOOLEAN, Call(c, fails) PROVE BreakerInv'
  BY <1>1, CallStep
<1>2. ASSUME NEW c \in Callers, Reject(c) PROVE BreakerInv'
  BY <1>2 DEF Reject, vars, breakerVars
<1>3. ASSUME NEW c \in Callers, Return(c) PROVE BreakerInv'
  BY <1>3, ReturnStep
<1>4. ASSUME Expiry PROVE BreakerInv'
  BY <1>4 DEF Expiry
<1>5. ASSUME Outage PROVE BreakerInv'
  <2>1. PICK broken \in SUBSET inFlight : failing' = failing \cup broken
    BY <1>5 DEF Outage
  <2>2. /\ up' = FALSE /\ outages' \in Nat
        /\ UNCHANGED <<breaker, expired, inFlight, since, fresh, failed, errors>>
    BY <1>5 DEF Outage
  <2>3. failing' \subseteq inFlight
    BY <2>1
  <2> QED BY <2>2, <2>3
<1>6. ASSUME Repair PROVE BreakerInv'
  BY <1>6 DEF Repair, breakerVars
<1>7. ASSUME UNCHANGED vars PROVE BreakerInv'
  BY <1>7 DEF vars, breakerVars
<1> QED BY <1>1, <1>2, <1>3, <1>4, <1>5, <1>6, <1>7 DEF Next

LEMMA BreakerInvHolds == Spec => []BreakerInv
BY InitBreakerInv, BreakerInvStep, PTL DEF Spec

\* Every variable of the breaker keeps its type, and what it takes for its calls are running ones.
THEOREM BreakerTypes == Spec => []TypeOK
<1>1. BreakerInv => TypeOK
  BY DEF BreakerInv
<1> QED BY <1>1, BreakerInvHolds, PTL

\* The breaker (internal/circuitbreaker, ReadyToTrip) opens only after FailureThreshold calls have
\* failed since it was last closed.
THEOREM OpensForReason == Spec => []OpeningJustified
<1>1. BreakerInv => OpeningJustified
  BY DEF BreakerInv, CountsFounded, OpeningJustified
<1> QED BY <1>1, BreakerInvHolds, PTL

-----------------------------------------------------------------------------
\* Only a probe closes the breaker

LEMMA ClosingStep ==
  ASSUME BreakerInv, [Next]_vars, breaker.state # "closed", breaker'.state = "closed"
  PROVE  \E c \in since \ failing : c \notin inFlight'
<1> USE DEF BreakerInv
<1>1. PICK c \in Callers : Return(c)
  <2>1. ASSUME NEW c \in Callers, NEW fails \in BOOLEAN, Call(c, fails) PROVE FALSE
    <3>1. breaker' = Admit(Current, c)
      BY <2>1 DEF Call, Become
    <3>2. Current \in Breakers /\ Current.state # "closed"
      BY CurrentCases DEF NewGeneration
    <3> QED BY <3>1, <3>2, AdmitFacts
  <2>2. ASSUME NEW c \in Callers, Reject(c) PROVE FALSE
    BY <2>2 DEF Reject, vars, breakerVars
  <2>3. ~Expiry /\ ~Outage /\ ~Repair /\ ~UNCHANGED vars
    BY DEF Expiry, Outage, Repair, vars, breakerVars
  <2> QED BY <2>1, <2>2, <2>3 DEF Next
<1>2. /\ breaker' = AfterRequest(Current, c, c \notin failing)
      /\ inFlight' = inFlight \ {c}
  BY <1>1 DEF Return, Become
<1>3. /\ Current \in Breakers
      /\ \/ Current = breaker
         \/ Current = NewGeneration("halfOpen")
  BY CurrentCases
<1>4. Current.state # "closed"
  BY <1>3 DEF NewGeneration
<1>5. c \in Current.calls /\ c \notin failing /\ Current.state = "halfOpen"
  <2> DEFINE b == AfterRequest(Current, c, c \notin failing)
  <2>1. (c \notin failing) \in BOOLEAN
    OBVIOUS
  <2>2. \/ b.state = Current.state
        \/ c \in Current.calls /\ c \notin failing /\ Current.state = "halfOpen"
        \/ b = NewGeneration("open")
    BY <1>3, <2>1, AfterRequestFacts
  <2>3. b.state = "closed"
    BY <1>2
  <2> HIDE DEF b
  <2> QED BY <1>4, <2>2, <2>3 DEF NewGeneration
<1>6. Current = breaker
  BY <1>3, <1>5 DEF NewGeneration
<1>7. c \in since
  BY <1>5, <1>6 DEF CallsAreProbes
<1> QED BY <1>2, <1>5, <1>7

\* Whatever calls of older generations answer meanwhile, the breaker closes only when a call that
\* began after it opened succeeds (the generations of gobreaker).
THEOREM ClosesByProbe == Spec => ClosedByProbe
<1>1. BreakerInv /\ [Next]_vars =>
        [breaker.state # "closed" /\ breaker'.state = "closed" =>
           \E c \in since \ failing : c \notin inFlight']_vars
  BY ClosingStep
<1> QED BY <1>1, BreakerInvHolds, PTL DEF Spec, ClosedByProbe

-----------------------------------------------------------------------------
\* The recovering service is spared

LEMMA OneProbeCall ==
  ASSUME MaxRequests = 1, BreakerInv, OneProbe, NEW c \in Callers, NEW fails \in BOOLEAN,
         Call(c, fails)
  PROVE  OneProbe'
<1> USE DEF BreakerInv
<1>1. /\ ~Rejects(Current)
      /\ breaker' = Admit(Current, c)
      /\ since' = IF Current.state = "closed" THEN since ELSE since \cup {c}
  BY DEF Call, Become
<1>2. /\ Current \in Breakers
      /\ \/ Current = breaker
         \/ Current = NewGeneration("closed")
         \/ Current = NewGeneration("halfOpen") /\ breaker.state = "open"
  BY CurrentCases
<1>3. /\ breaker'.state = Current.state
      /\ breaker'.successes = Current.successes
      /\ breaker'.calls = Current.calls \cup {c}
      /\ Current.state = "halfOpen" => breaker'.requests = Current.requests + 1
  BY <1>1, <1>2, AdmitFacts
<1>4. Current.state # "open"
  BY <1>1 DEF Rejects
<1>5. CASE Current.state = "halfOpen"
  <2>1. Current.requests \in Nat /\ ~(Current.requests >= 1)
    BY <1>1, <1>2, <1>5 DEF Rejects, Breakers
  <2>2. Current.requests = 0
    BY <2>1
  <2>3. Current.successes = 0 /\ Current.calls = {} /\ since = {}
    BY <1>2, <1>5, <2>2 DEF OneProbe, NewGeneration
  <2>4. since' = {c} /\ breaker'.calls = {c} /\ breaker'.requests = 1 /\ breaker'.successes = 0
    BY <1>1, <1>3, <1>5, <2>2, <2>3
  <2> QED BY <1>3, <1>5, <2>4 DEF OneProbe
<1>6. CASE Current.state = "closed"
  BY <1>3, <1>6 DEF OneProbe
<1> QED BY <1>2, <1>4, <1>5, <1>6 DEF Breakers

LEMMA OneProbeReturn ==
  ASSUME MaxRequests = 1, BreakerInv, OneProbe, NEW c \in Callers, Return(c)
  PROVE  OneProbe'
<1> USE DEF BreakerInv
<1> DEFINE b == AfterRequest(Current, c, c \notin failing)
<1>1. /\ breaker' = b
      /\ since' = IF breaker.state = "closed" /\ b.state # "closed" THEN {} ELSE since \ {c}
  BY DEF Return, Become
<1>2. /\ Current \in Breakers
      /\ \/ Current = breaker
         \/ Current = NewGeneration("closed") /\ breaker.state = "closed"
         \/ Current = NewGeneration("halfOpen") /\ breaker.state = "open"
  BY CurrentCases
<1>3. \/ c \notin Current.calls /\ b = Current
      \/ b = NewGeneration("closed")
      \/ /\ c \in Current.calls
         /\ ~(Current.state = "halfOpen" /\ Current.successes + 1 >= MaxRequests)
         /\ b.state = Current.state
      \/ /\ c \in Current.calls
         /\ b = NewGeneration("open")
      \/ /\ Current.state # "halfOpen"
         /\ c \in Current.calls
         /\ b.state = Current.state
  <2>1. (c \notin failing) \in BOOLEAN
    OBVIOUS
  <2> QED BY <1>2, <2>1, AfterRequestFacts
<1> HIDE DEF b
<1>4. CASE Current.state = "halfOpen"
  <2>1. /\ Current.successes = 0 /\ since = Current.calls /\ breaker.state # "closed"
        /\ \/ Current.requests = 0 /\ since = {}
           \/ Current.requests = 1 /\ \E d \in Callers : since = {d}
    BY <1>2, <1>4 DEF OneProbe, NewGeneration
  <2>2. Current.successes + 1 >= MaxRequests
    BY <2>1
  <2>3. since' = since \ {c}
    BY <1>1, <2>1
  <2>4. CASE c \notin Current.calls /\ b = Current
    BY <1>1, <1>4, <2>1, <2>3, <2>4 DEF OneProbe
  <2>5. CASE b = NewGeneration("closed")
    BY <1>1, <2>5 DEF OneProbe, NewGeneration
  <2>6. CASE c \in Current.calls /\ b = NewGeneration("open")
    <3>1. since' = {}
      BY <2>1, <2>3, <2>6
    <3> QED BY <1>1, <2>6, <3>1 DEF OneProbe, NewGeneration
  <2> QED BY <1>3, <1>4, <2>2, <2>4, <2>5, <2>6
<1>5. CASE Current.state = "closed"
  <2>1. breaker.state = "closed"
    BY <1>2, <1>5 DEF NewGeneration
  <2>2. b.state \in {"closed", "open"}
    BY <1>3, <1>5 DEF NewGeneration
  <2> QED BY <1>1, <2>1, <2>2 DEF OneProbe
<1>6. CASE Current.state = "open"
  <2>1. Current = breaker /\ since = {}
    BY <1>2, <1>6 DEF OneProbe, NewGeneration
  <2>2. b.state \in {"closed", "open"}
    BY <1>3, <1>6 DEF NewGeneration
  <2>3. since' = {}
    BY <1>1, <2>1
  <2> QED BY <1>1, <2>2, <2>3 DEF OneProbe
<1> QED BY <1>2, <1>4, <1>5, <1>6 DEF Breakers

LEMMA OneProbeStep ==
  ASSUME MaxRequests = 1, BreakerInv, OneProbe, [Next]_vars
  PROVE  OneProbe'
<1>1. ASSUME NEW c \in Callers, NEW fails \in BOOLEAN, Call(c, fails) PROVE OneProbe'
  BY <1>1, OneProbeCall
<1>2. ASSUME NEW c \in Callers, Return(c) PROVE OneProbe'
  BY <1>2, OneProbeReturn
<1>3. ASSUME UNCHANGED <<breaker, since>> PROVE OneProbe'
  BY <1>3 DEF OneProbe
<1>4. (\E c \in Callers : Reject(c)) \/ Expiry \/ Outage \/ Repair \/ UNCHANGED vars
        => UNCHANGED <<breaker, since>>
  BY DEF Reject, Expiry, Outage, Repair, vars, breakerVars
<1> QED BY <1>1, <1>2, <1>3, <1>4 DEF Next

LEMMA OneProbeSpares ==
  ASSUME MaxRequests = 1, BreakerInv, OneProbe
  PROVE  ServiceSpared
<1>1. breaker.state # "closed" => since = {} \/ \E c \in Callers : since = {c}
  BY DEF BreakerInv, TypeOK, OneProbe
<1>2. Cardinality({}) = 0 /\ \A c \in Callers : Cardinality({c}) = 1
  BY FS_EmptySet, FS_Singleton
<1> QED BY <1>1, <1>2 DEF ServiceSpared

\* With the MaxRequests = 1 of the program, from the moment the breaker opens until it closes the
\* service gets one call at a time, however many goroutines wait and whatever older calls do.
THEOREM ServiceIsSpared ==
  ASSUME MaxRequests = 1
  PROVE  Spec => []ServiceSpared
<1>1. Init => OneProbe
  BY DEF Init, OneProbe, NewGeneration
<1>2. BreakerInv /\ OneProbe /\ [Next]_vars => OneProbe'
  BY OneProbeStep
<1>3. BreakerInv /\ OneProbe => ServiceSpared
  BY OneProbeSpares
<1> QED BY <1>1, <1>2, <1>3, BreakerInvHolds, PTL DEF Spec

-----------------------------------------------------------------------------
\* The transfers of the jobs

storageVars == <<vars, jobVars>>

\* To the breaker a transfer is a call like any other.
LEMMA StorageCalls ==
  ASSUME [StorageNext]_storageVars
  PROVE  [Next]_vars
<1> USE DEF storageVars
<1>1. ASSUME NEW c \in Callers, Transfer(c) \/ TransferEnds(c) \/ TransferRejected(c) PROVE Next
  BY <1>1 DEF Transfer, TransferEnds, TransferRejected, Next
<1>2. ASSUME NEW c \in Callers, NEW v \in Videos, Consume(c, v) PROVE UNCHANGED vars
  BY <1>2 DEF Consume
<1>3. CASE (Expiry \/ Outage \/ Repair) /\ UNCHANGED jobVars
  BY <1>3 DEF Next
<1> QED BY <1>1, <1>2, <1>3 DEF StorageNext

\* The job goroutines (main.go) are callers that CircuitBreaker allows: what it promises of any
\* callers holds of downloads, uploads and archiving.
THEOREM TransfersAreCalls == StorageSpec => Spec
<1>1. StorageInit => Init
  BY DEF StorageInit
<1> QED BY <1>1, StorageCalls, PTL DEF StorageSpec, Spec, storageVars

\* A MinIO that comes back gets one transfer at a time until one has succeeded, although the retries
\* of main.go come at once and every waiting job makes one.
THEOREM RetriesSpareMinIO ==
  ASSUME MaxRequests = 1
  PROVE  StorageSpec => [](ServiceSpared /\ OpeningJustified) /\ ClosedByProbe
BY TransfersAreCalls, ServiceIsSpared, OpensForReason, ClosesByProbe, PTL

-----------------------------------------------------------------------------
\* The places of a video

Busy == {c \in Callers : job[c] # NoVideo}

Placed == queue \cup dead \cup finished

\* Every video is in one place: the queue, with a goroutine of its own, in the dead letter queue,
\* or finished.
OnePlace ==
  /\ \A v \in Videos : v \in Placed \/ \E c \in Busy : job[c] = v
  /\ queue \cap dead = {} /\ queue \cap finished = {} /\ dead \cap finished = {}
  /\ \A c \in Busy : job[c] \notin Placed
  /\ \A c, d \in Busy : job[c] = job[d] => c = d

\* Every attempt that fails is counted, and MinIO's own failures among them; the attempts of a
\* video that is given up are used up, those of any other are not.
AttemptsCounted ==
  /\ \A v \in Videos : refused[v] <= retries[v]
  /\ \A v \in Videos : IF v \in dead THEN retries[v] = MaxJobRetries + 1
                       ELSE retries[v] <= MaxJobRetries

StorageTypes ==
  /\ job \in [Callers -> Videos \cup {NoVideo}]
  /\ retries \in [Videos -> Nat] /\ refused \in [Videos -> Nat]
  /\ queue \subseteq Videos /\ dead \subseteq Videos /\ finished \subseteq Videos

\* A call belongs to a goroutine that has a job.
CallsOfJobs == inFlight \subseteq Busy

StorageInv == StorageTypes /\ CallsOfJobs /\ OnePlace /\ AttemptsCounted

LEMMA ConsumePlaces ==
  ASSUME NoVideo \notin Videos, StorageInv, NEW c \in Callers, NEW v \in Videos, Consume(c, v)
  PROVE  StorageInv'
<1> USE DEF StorageInv, StorageTypes
<1>1. /\ job[c] = NoVideo /\ v \in queue
      /\ queue' = queue \ {v} /\ job' = [job EXCEPT ![c] = v]
      /\ UNCHANGED <<inFlight, retries, dead, finished, refused>>
  BY DEF Consume, vars, breakerVars
<1>2. StorageTypes' /\ AttemptsCounted'
  BY <1>1 DEF AttemptsCounted
<1>3. /\ Busy' = Busy \cup {c} /\ c \notin Busy
      /\ job'[c] = v /\ \A d \in Busy : job'[d] = job[d] /\ job[d] # v
  BY <1>1 DEF Busy, OnePlace, Placed
<1>4. OnePlace'
  BY <1>1, <1>3 DEF OnePlace, Placed
<1>5. CallsOfJobs'
  BY <1>1, <1>3 DEF CallsOfJobs
<1> QED BY <1>2, <1>4, <1>5

\* A goroutine leaves its job, which the goroutine has put into one of the three places.
LEMMA LeavePlaces ==
  ASSUME NoVideo \notin Videos, StorageTypes, OnePlace, NEW c \in Busy,
         job' = [job EXCEPT ![c] = NoVideo],
         \/ queue' = queue \cup {job[c]} /\ UNCHANGED <<dead, finished>>
         \/ dead' = dead \cup {job[c]} /\ UNCHANGED <<queue, finished>>
         \/ finished' = finished \cup {job[c]} /\ UNCHANGED <<queue, dead>>
  PROVE  /\ OnePlace' /\ Busy' = Busy \ {c}
         /\ job' \in [Callers -> Videos \cup {NoVideo}] /\ job[c] \in Videos \ dead
<1> USE DEF StorageTypes
<1>1. /\ Busy' = Busy \ {c} /\ job[c] \in Videos \ Placed
      /\ \A d \in Busy \ {c} : job'[d] = job[d] /\ job[d] # job[c]
  BY DEF Busy, OnePlace
<1>2. Placed' = Placed \cup {job[c]}
  BY DEF Placed
<1>3. OnePlace'
  <2>1. \A v \in Videos : v \in Placed' \/ \E d \in Busy' : job'[d] = v
    BY <1>1, <1>2 DEF OnePlace
  <2>2. /\ queue' \cap dead' = {} /\ queue' \cap finished' = {} /\ dead' \cap finished' = {}
    BY <1>1 DEF OnePlace, Placed
  <2>3. /\ \A d \in Busy' : job'[d] \notin Placed'
        /\ \A d, e \in Busy' : job'[d] = job'[e] => d = e
    BY <1>1, <1>2 DEF OnePlace
  <2> QED BY <2>1, <2>2, <2>3 DEF OnePlace
<1> QED BY <1>1, <1>3 DEF Placed

LEMMA FailPlaces ==
  ASSUME NoVideo \notin Videos, MaxJobRetries \in Nat, StorageInv, NEW c \in Busy, FailJob(c),
         refused' \in {refused, [refused EXCEPT ![job[c]] = @ + 1]}
  PROVE  StorageTypes' /\ OnePlace' /\ AttemptsCounted' /\ Busy' = Busy \ {c}
<1> USE DEF StorageInv, StorageTypes
<1> DEFINE v == job[c]
<1>1. /\ retries' = [retries EXCEPT ![v] = @ + 1]
      /\ IF retries'[v] <= MaxJobRetries
         THEN queue' = queue \cup {v} /\ UNCHANGED dead
         ELSE dead' = dead \cup {v} /\ UNCHANGED queue
      /\ job' = [job EXCEPT ![c] = NoVideo] /\ UNCHANGED finished
  BY DEF FailJob
<1>2. /\ OnePlace' /\ Busy' = Busy \ {c}
      /\ job' \in [Callers -> Videos \cup {NoVideo}] /\ v \in Videos \ dead
  BY <1>1, LeavePlaces
<1>3. StorageTypes'
  BY <1>1, <1>2
<1>4. AttemptsCounted'
  <2>1. \A w \in Videos \ {v} : /\ retries'[w] = retries[w] /\ refused'[w] = refused[w]
                                /\ (w \in dead' <=> w \in dead)
    BY <1>1
  <2>2. /\ retries'[v] = retries[v] + 1 /\ refused'[v] \in {refused[v], refused[v] + 1}
        /\ retries[v] \in Nat /\ refused[v] \in Nat
        /\ refused[v] <= retries[v] /\ retries[v] <= MaxJobRetries
    BY <1>1, <1>2 DEF AttemptsCounted
  <2>3. refused'[v] <= retries'[v]
    BY <2>2
  <2>4. IF v \in dead' THEN retries'[v] = MaxJobRetries + 1 ELSE retries'[v] <= MaxJobRetries
    BY <1>1, <1>2, <2>2
  <2> QED BY <2>1, <2>3, <2>4 DEF AttemptsCounted
<1> QED BY <1>2, <1>3, <1>4

LEMMA ProceedPlaces ==
  ASSUME NoVideo \notin Videos, StorageInv, NEW c \in Busy, Proceed(c), UNCHANGED refused
  PROVE  StorageTypes' /\ OnePlace' /\ AttemptsCounted' /\ Busy \ {c} \subseteq Busy'
<1> USE DEF StorageInv, StorageTypes
<1>1. UNCHANGED <<queue, retries, dead, refused>> /\ AttemptsCounted'
  BY DEF Proceed, AttemptsCounted
<1>2. CASE /\ finished' = finished \cup {job[c]}
           /\ job' = [job EXCEPT ![c] = NoVideo]
  <2>1. /\ OnePlace' /\ Busy' = Busy \ {c}
        /\ job' \in [Callers -> Videos \cup {NoVideo}] /\ job[c] \in Videos \ dead
    BY <1>1, <1>2, LeavePlaces
  <2> QED BY <1>1, <1>2, <2>1
<1>3. CASE UNCHANGED <<job, finished>>
  BY <1>1, <1>3 DEF OnePlace, Placed, Busy
<1> QED BY <1>2, <1>3 DEF Proceed

LEMMA PlacesStep ==
  ASSUME NoVideo \notin Videos, MaxJobRetries \in Nat, StorageInv, [StorageNext]_storageVars
  PROVE  StorageInv'
<1> USE DEF StorageInv
<1>1. ASSUME UNCHANGED jobVars, inFlight' \subseteq inFlight \cup Busy PROVE StorageInv'
  BY <1>1 DEF jobVars, StorageTypes, CallsOfJobs, OnePlace, AttemptsCounted, Placed, Busy
<1>2. ASSUME NEW c \in Callers, NEW v \in Videos, Consume(c, v) PROVE StorageInv'
  BY <1>2, ConsumePlaces
<1>3. ASSUME NEW c \in Callers, Transfer(c) PROVE StorageInv'
  BY <1>1, <1>3 DEF Transfer, Call, Busy
<1>4. ASSUME NEW c \in Callers, TransferEnds(c) PROVE StorageInv'
  <2>1. c \in Busy /\ inFlight' = inFlight \ {c} /\ inFlight \subseteq Busy
    BY <1>4 DEF TransferEnds, Return, CallsOfJobs
  <2>2. StorageTypes' /\ OnePlace' /\ AttemptsCounted' /\ Busy \ {c} \subseteq Busy'
    <3>1. CASE FailJob(c) /\ refused' = [refused EXCEPT ![job[c]] = @ + 1]
      BY <2>1, <3>1, FailPlaces
    <3>2. CASE Proceed(c) /\ UNCHANGED refused
      BY <2>1, <3>2, ProceedPlaces
    <3> QED BY <1>4, <3>1, <3>2 DEF TransferEnds
  <2> QED BY <2>1, <2>2 DEF CallsOfJobs
<1>5. ASSUME NEW c \in Callers, TransferRejected(c) PROVE StorageInv'
  <2>1. c \in Busy /\ c \notin inFlight /\ inFlight' = inFlight /\ UNCHANGED refused
    BY <1>5 DEF TransferRejected, Reject, vars, breakerVars, Busy
  <2>2. StorageTypes' /\ OnePlace' /\ AttemptsCounted' /\ Busy \ {c} \subseteq Busy'
    BY <1>5, <2>1, FailPlaces, ProceedPlaces DEF TransferRejected
  <2> QED BY <2>1, <2>2 DEF CallsOfJobs
<1>6. CASE (Expiry \/ Outage \/ Repair) /\ UNCHANGED jobVars
  BY <1>1, <1>6 DEF Expiry, Outage, Repair, breakerVars
<1>7. CASE UNCHANGED storageVars
  BY <1>1, <1>7 DEF storageVars, vars, breakerVars
<1> QED BY <1>2, <1>3, <1>4, <1>5, <1>6, <1>7 DEF StorageNext

\* The breaker may cost a video its attempts, and does (run blip), but never the video: whatever
\* outages, rejections and late answers there are, each video is in exactly one place, and it is
\* given up only after MaxJobRetries + 1 failed attempts.
THEOREM NoVideoMislaid ==
  ASSUME NoVideo \notin Videos, MaxJobRetries \in Nat
  PROVE  StorageSpec => [](OnePlace /\ AttemptsCounted)
<1>1. StorageInit => StorageInv
  BY DEF StorageInit, Init, StorageInv, StorageTypes, CallsOfJobs, OnePlace, AttemptsCounted,
         Placed, Busy
<1>2. StorageInv /\ [StorageNext]_storageVars => StorageInv'
  BY PlacesStep
<1>3. StorageInv => OnePlace /\ AttemptsCounted
  BY DEF StorageInv
<1> QED BY <1>1, <1>2, <1>3, PTL DEF StorageSpec, storageVars

-----------------------------------------------------------------------------
\* What the breaker costs

\* Before the first outage a call fails for a reason of its own, and what the breaker holds against
\* MinIO are those calls.
ErrorsFounded == outages = 0 => up /\ failed + Cardinality(failing) <= errors

LEMMA FailingFinite ==
  ASSUME BreakerInv
  PROVE  IsFiniteSet(failing) /\ Cardinality(failing) \in Nat
<1>1. IsFiniteSet(failing)
  BY BreakerAssumption, FS_Subset DEF BreakerInv, TypeOK
<1> QED BY <1>1, FS_CardinalityType

LEMMA ErrorsCall ==
  ASSUME BreakerInv, ErrorsFounded, NEW c \in Callers, NEW fails \in BOOLEAN, Call(c, fails)
  PROVE  ErrorsFounded'
<1> SUFFICES ASSUME outages = 0 PROVE up' /\ failed' + Cardinality(failing') <= errors'
  BY DEF ErrorsFounded, Call
<1>1. /\ up /\ up' = up /\ failed' = failed /\ c \notin failing
      /\ failed + Cardinality(failing) <= errors
      /\ failed \in Nat /\ errors \in Nat
  BY DEF Call, ErrorsFounded, BreakerInv, TypeOK
<1>2. CASE fails
  <2>1. failing' = failing \cup {c} /\ errors' = errors + 1
    BY <1>1, <1>2 DEF Call
  <2>2. Cardinality(failing') = Cardinality(failing) + 1
    BY <1>1, <2>1, FailingFinite, FS_AddElement
  <2> QED BY <1>1, <2>1, <2>2, FailingFinite
<1>3. CASE ~fails
  BY <1>1, <1>3 DEF Call
<1> QED BY <1>2, <1>3

LEMMA ErrorsReturn ==
  ASSUME BreakerInv, ErrorsFounded, NEW c \in Callers, Return(c)
  PROVE  ErrorsFounded'
<1> SUFFICES ASSUME outages = 0 PROVE up' /\ failed' + Cardinality(failing') <= errors'
  BY DEF ErrorsFounded, Return
<1>1. /\ up /\ up' = up /\ errors' = errors /\ failing' = failing \ {c}
      /\ failed + Cardinality(failing) <= errors
      /\ failed \in Nat /\ errors \in Nat
  BY DEF Return, ErrorsFounded, BreakerInv, TypeOK
<1>2. failed' = 0 \/ failed' = failed \/ (c \in failing /\ failed' = failed + 1)
  BY DEF Return
<1>3. Cardinality(failing') = IF c \in failing THEN Cardinality(failing) - 1 ELSE Cardinality(failing)
  BY <1>1, FailingFinite, FS_RemoveElement
<1>4. Cardinality(failing) \in Nat
  BY FailingFinite
<1> QED BY <1>1, <1>2, <1>3, <1>4

LEMMA ErrorsStep == BreakerInv /\ ErrorsFounded /\ [Next]_vars => ErrorsFounded'
<1> SUFFICES ASSUME BreakerInv, ErrorsFounded, [Next]_vars PROVE ErrorsFounded'
  OBVIOUS
<1>1. ASSUME NEW c \in Callers, NEW fails \in BOOLEAN, Call(c, fails) PROVE ErrorsFounded'
  BY <1>1, ErrorsCall
<1>2. ASSUME NEW c \in Callers, Return(c) PROVE ErrorsFounded'
  BY <1>2, ErrorsReturn
<1>3. ASSUME UNCHANGED <<up, outages, errors, failed, failing>> PROVE ErrorsFounded'
  BY <1>3 DEF ErrorsFounded
<1>4. ASSUME NEW c \in Callers, Reject(c) PROVE ErrorsFounded'
  BY <1>3, <1>4 DEF Reject, vars, breakerVars
<1>5. CASE Expiry \/ UNCHANGED vars
  BY <1>3, <1>5 DEF Expiry, vars, breakerVars
<1>6. CASE Repair
  BY <1>6 DEF Repair, breakerVars, ErrorsFounded
<1>7. CASE Outage
  BY <1>7 DEF Outage, ErrorsFounded, BreakerInv, TypeOK
<1> QED BY <1>1, <1>2, <1>4, <1>5, <1>6, <1>7 DEF Next

LEMMA LostStep ==
  ASSUME BreakerInv, ErrorsFounded, StorageInv, [StorageNext]_storageVars,
         NEW v \in Videos, LosesAttempt(v)
  PROVE  failed >= FailureThreshold /\ (outages = 0 => errors >= FailureThreshold)
<1> USE DEF LosesAttempt
<1>1. ASSUME NEW c \in Callers, TransferEnds(c) PROVE FALSE
  <2>1. c \in Busy /\ job[c] \in Videos
    BY <1>1 DEF TransferEnds, Return, StorageInv, CallsOfJobs, StorageTypes, Busy
  <2>2. FailJob(c) /\ refused' = [refused EXCEPT ![job[c]] = @ + 1]
    BY <1>1 DEF TransferEnds, Proceed
  <2>3. v = job[c]
    BY <2>1, <2>2 DEF FailJob, StorageInv, StorageTypes
  <2>4. refused'[v] = refused[v] + 1 /\ refused[v] \in Nat
    BY <2>2, <2>3 DEF StorageInv, StorageTypes
  <2> QED BY <2>4
<1>2. PICK c \in Callers : TransferRejected(c)
  BY <1>1 DEF StorageNext, Consume, Transfer, storageVars, jobVars
<1>3. breaker.state # "closed"
  <2>1. Rejects(Current)
    BY <1>2 DEF TransferRejected, Reject
  <2>2. breaker.state = "closed" => Current.state = "closed"
    BY DEF Current, NewGeneration
  <2> QED BY <2>1, <2>2 DEF Rejects
<1>4. failed >= FailureThreshold
  BY <1>3 DEF BreakerInv, CountsFounded
<1>5. outages = 0 => failed <= errors
  BY FailingFinite DEF ErrorsFounded, BreakerInv, TypeOK
<1> QED BY <1>4, <1>5, BreakerAssumption DEF BreakerInv, TypeOK

\* A job loses an attempt to the MinIO breaker (main.go counts the breaker's error like any other)
\* only when FailureThreshold transfers have failed since the breaker last closed, and, as long as
\* there was no outage, only when that many have failed for reasons of their own: objects that are
\* missing or too large, errors of local files.
THEOREM BreakerHarmsForReason ==
  ASSUME NoVideo \notin Videos, MaxJobRetries \in Nat
  PROVE  StorageSpec => LostForReason
<1> DEFINE A == \A v \in Videos : LosesAttempt(v) =>
                  failed >= FailureThreshold /\ (outages = 0 => errors >= FailureThreshold)
<1>1. Init => ErrorsFounded
  BY FS_EmptySet DEF Init, ErrorsFounded
<1>2. StorageInit => StorageInv
  BY DEF StorageInit, Init, StorageInv, StorageTypes, CallsOfJobs, OnePlace, AttemptsCounted,
         Placed, Busy
<1>3. StorageInv /\ [StorageNext]_storageVars => StorageInv'
  BY PlacesStep
<1>4. BreakerInv /\ ErrorsFounded /\ StorageInv /\ [StorageNext]_storageVars => [A]_storageVars
  BY LostStep
<1>5. Spec => []ErrorsFounded
  BY <1>1, ErrorsStep, BreakerInvHolds, PTL DEF Spec
<1> HIDE DEF A
<1>6. StorageSpec => [][A]_storageVars
  BY <1>2, <1>3, <1>4, <1>5, TransfersAreCalls, BreakerInvHolds, PTL DEF StorageSpec, storageVars
<1> QED BY <1>6 DEF A, LostForReason, storageVars

=============================================================================
