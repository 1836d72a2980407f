------------------------- MODULE ProvisionerProofs --------------------------
(***************************************************************************)
(* The circuit breaker and the provisioner behind it, for every number of  *)
(* callers, every failure limit, cooldown, timeout, delay and number of    *)
(* operations in a PUT.                                                    *)
(***************************************************************************)
EXTENDS ProfileProvisioner, TLAPS

\* The slot and the probing call belong to each other, and the probe was
\* admitted in the generation the breaker is in.
BreakerInv ==
    /\ TypeOK
    /\ \A c \in Caller : call[c].running /\ call[c].probing <=> probe = c
    /\ probe # None => state = "HALF_OPEN"
    /\ \A c \in Caller : probe = c => call[c].generation = generation
    /\ CountsAreConsistent

\* A fresh breaker satisfies the invariant.
LEMMA BreakerInvInit == Init => BreakerInv
  BY CircuitBreakerAssumption
  DEF Init, BreakerInv, TypeOK, CountsAreConsistent, NoCall, CircuitState

\* Every step of the breaker preserves it.
LEMMA BreakerInvStep == BreakerInv /\ [Next]_vars => BreakerInv'
<1> SUFFICES ASSUME BreakerInv, [Next]_vars PROVE BreakerInv'
  OBVIOUS
<1> USE CircuitBreakerAssumption
<1>0. NoCall \in [running : BOOLEAN, probing : BOOLEAN, generation : Nat]
  BY DEF NoCall
<1>1. ASSUME NEW c \in Caller, Admit(c) PROVE BreakerInv'
  <2>1. CheckedState \in CircuitState
    BY DEF BreakerInv, TypeOK, CheckedState, CircuitState
  <2>2. TypeOK'
    BY <1>1, <2>1 DEF BreakerInv, TypeOK, Admit
  <2>3. CountsAreConsistent'
    BY <1>1 DEF BreakerInv, CountsAreConsistent, Admit, CheckedState, CooledDown, TypeOK, CircuitState
  <2>4. CheckedState # "HALF_OPEN" => probe = None
    BY DEF BreakerInv, CheckedState, CooledDown
  <2>5. CASE CheckedState = "HALF_OPEN"
    <3>1. probe = None /\ probe' = c /\ state' = "HALF_OPEN" /\ generation' = generation
      BY <1>1, <2>5 DEF Admit
    <3>2. call' = [call EXCEPT ![c] = [running |-> TRUE, probing |-> TRUE,
                                       generation |-> generation]]
      BY <1>1, <2>5, Zenon DEF Admit
    <3> QED
      BY <2>2, <2>3, <3>1, <3>2 DEF BreakerInv, TypeOK
  <2>6. CASE CheckedState # "HALF_OPEN"
    <3>1. probe = None /\ probe' = None
      BY <1>1, <2>4, <2>6 DEF Admit
    <3>2. call' = [call EXCEPT ![c] = [running |-> TRUE, probing |-> FALSE,
                                       generation |-> generation]]
      BY <1>1, <2>6, Zenon DEF Admit
    <3> QED
      BY <2>2, <2>3, <3>1, <3>2 DEF BreakerInv, TypeOK
  <2> QED
    BY <2>5, <2>6
<1>2. ASSUME NEW c \in Caller, Refuse(c) PROVE BreakerInv'
  <2>1. CheckedState \in CircuitState
    BY DEF BreakerInv, TypeOK, CheckedState, CircuitState
  <2>2. state = "HALF_OPEN" => CheckedState = "HALF_OPEN"
    BY DEF CheckedState, CooledDown
  <2> QED
    BY <1>2, <2>1, <2>2
    DEF BreakerInv, TypeOK, Refuse, CheckedState, CooledDown, CountsAreConsistent, CircuitState
<1>3. ASSUME NEW c \in Caller, Succeed(c) PROVE BreakerInv'
  BY <1>0, <1>3
  DEF BreakerInv, TypeOK, Succeed, EndCall, HandleSuccess, IsCurrentProbe,
      IsCurrentClosedCall, CountsAreConsistent, NoCall, CircuitState
<1>4. ASSUME NEW c \in Caller, Fail(c) PROVE BreakerInv'
  BY <1>0, <1>4
  DEF BreakerInv, TypeOK, Fail, EndCall, HandleFailure, Trip, IsCurrentProbe, breaker,
      IsCurrentClosedCall, CountsAreConsistent, NoCall, CircuitState
<1>5. ASSUME NEW c \in Caller, Cancel(c) PROVE BreakerInv'
  BY <1>0, <1>5
  DEF BreakerInv, TypeOK, Cancel, EndCall, ReleaseProbe, IsCurrentProbe,
      CountsAreConsistent, NoCall, CircuitState
<1>6. CASE Tick
  BY <1>6 DEF BreakerInv, TypeOK, Tick, breaker, CountsAreConsistent
<1>7. CASE UNCHANGED vars
  BY <1>7 DEF BreakerInv, TypeOK, vars, CountsAreConsistent
<1> QED
  BY <1>1, <1>2, <1>3, <1>4, <1>5, <1>6, <1>7 DEF Next, End

\* Outcomes reported from an earlier generation change nothing.
LEMMA StaleStep ==
    BreakerInv /\ [Next]_vars =>
      \A c \in Caller :
          call[c].running /\ ~call'[c].running /\ call[c].generation # generation
            => UNCHANGED breaker
<1> SUFFICES ASSUME BreakerInv, [Next]_vars, NEW c \in Caller,
                    call[c].running, ~call'[c].running, call[c].generation # generation
             PROVE  UNCHANGED breaker
  OBVIOUS
<1>0. ~IsCurrentProbe(c) /\ ~IsCurrentClosedCall(c)
  BY DEF BreakerInv, IsCurrentProbe, IsCurrentClosedCall
<1>1. ASSUME NEW d \in Caller, Admit(d) PROVE FALSE
  BY <1>1 DEF Admit, BreakerInv, TypeOK
<1>2. ASSUME NEW d \in Caller, Refuse(d) PROVE FALSE
  BY <1>2 DEF Refuse
<1>3. ASSUME NEW d \in Caller, EndCall(d) PROVE d = c
  BY <1>3 DEF EndCall, BreakerInv, TypeOK
<1>4. ASSUME NEW d \in Caller, End(d) PROVE UNCHANGED breaker
  <2>1. d = c
    BY <1>3, <1>4 DEF End, Succeed, Fail, Cancel
  <2> QED
    BY <1>0, <1>4, <2>1
    DEF End, Succeed, Fail, Cancel, HandleSuccess, HandleFailure, ReleaseProbe, breaker
<1>5. CASE Tick
  BY <1>5 DEF Tick
<1>6. CASE UNCHANGED vars
  BY <1>6, ZenonT(30) DEF vars
<1> QED
  BY <1>1, <1>2, <1>4, <1>5, <1>6 DEF Next

\* What create_profile does to the breaker are steps of the breaker.
LEMMA ProvisionerUsesBreaker == [ProvisionerNext]_allVars => [Next]_vars
  BY DEF ProvisionerNext, allVars, CreateProfile, Proceed, CancelJob, PutProfile, PutGoesOn,
         FailFast, PutCreated, PutRejected, PutFailed, RetryPut, CancelPut, CancelSleep, Pass,
         Next, End

\* One holder of the slot means one probe.
LEMMA OneProbeFromInv == BreakerInv => OneProbe
  BY CircuitBreakerAssumption DEF BreakerInv, TypeOK, Probes, OneProbe

\* The breaker under the provisioner lets one probe through at a time, never
\* keeps a slot for a call that has ended, and keeps its counts consistent.
THEOREM BreakerSafety ==
    ProvisionerSpec => [](OneProbe /\ CountsAreConsistent)
<1>1. ProvisionerInit => BreakerInv
  BY BreakerInvInit DEF ProvisionerInit
<1>2. BreakerInv /\ [ProvisionerNext]_allVars => BreakerInv'
  BY BreakerInvStep, ProvisionerUsesBreaker
<1>3. BreakerInv => OneProbe /\ CountsAreConsistent
  BY OneProbeFromInv DEF BreakerInv
<1> QED
  BY <1>1, <1>2, <1>3, PTL DEF ProvisionerSpec

\* Whatever a call from before the last trip or recovery reports is ignored.
THEOREM StaleOutcomesAlwaysIgnored == ProvisionerSpec => StaleOutcomesIgnored
<1>1. ProvisionerInit => BreakerInv
  BY BreakerInvInit DEF ProvisionerInit
<1>2. BreakerInv /\ [ProvisionerNext]_allVars => BreakerInv'
  BY BreakerInvStep, ProvisionerUsesBreaker
<1>3. BreakerInv /\ [ProvisionerNext]_allVars =>
        [\A c \in Caller :
          call[c].running /\ ~call'[c].running /\ call[c].generation # generation
            => UNCHANGED breaker]_vars
  BY StaleStep, ProvisionerUsesBreaker
<1> QED
  BY <1>1, <1>2, <1>3, PTL DEF ProvisionerSpec, StaleOutcomesIgnored
-----------------------------------------------------------------------------
(* create_profile keeps its promise                                        *)

\* What the operations that can follow in a PUT may take.
Rest(left) == left * Timeout

\* Where create_profile can be how long after it began: nobody outlives the
\* timer that ends what it waits for, and the timers add up to the window.
InTime(c) ==
    LET j == job[c]
        first == j.started + LongestPut
        second == first + MaxRetryDelay
    IN  /\ j.pc # "idle" => j.answer = "none" /\ j.started <= now
        /\ j.pc = "try" => IF j.attempt = 0 THEN now <= j.started ELSE now <= second
        /\ j.pc = "put" => /\ now <= j.due
                          /\ j.due + Rest(j.left) <=
                               IF j.attempt = 0 THEN first ELSE second + LongestPut
        /\ j.pc = "sleep" => j.attempt = 0 /\ now <= j.due /\ j.due <= second

ProvisionerInv ==
    /\ now \in Nat
    /\ job \in [Caller -> Job]
    /\ \A c \in Caller : InTime(c)

\* Times are natural numbers, and an operation takes one Timeout of the rest.
LEMMA RestIsTime == ASSUME NEW left \in Nat PROVE Rest(left) \in Nat
  BY ProvisionerAssumption DEF Rest

\* What the next operation of a PUT takes from the rest.
LEMMA RestOfNext ==
    ASSUME NEW left \in Nat \ {0}
    PROVE  left - 1 \in Nat /\ Timeout + Rest(left - 1) = Rest(left)
  BY ProvisionerAssumption DEF Rest

\* The first operation and the rest are the longest PUT.
LEMMA RestOfPut ==
    /\ LongestPut \in Nat /\ Operations - 1 \in Nat
    /\ Timeout + Rest(Operations - 1) = LongestPut
  BY ProvisionerAssumption, RestIsTime, RestOfNext DEF Rest, LongestPut

\* A step of one caller preserves the invariant if its new job is in time.
LEMMA InTimeOfOne ==
    ASSUME ProvisionerInv, NEW c \in Caller, NEW j \in Job,
           now' = now, job' = [job EXCEPT ![c] = j], InTime(c)'
    PROVE  ProvisionerInv'
<1>1. \A d \in Caller : d # c => job'[d] = job[d]
  BY DEF ProvisionerInv
<1>2. \A d \in Caller : InTime(d)'
  BY <1>1 DEF ProvisionerInv, InTime
<1>3. job' \in [Caller -> Job]
  BY DEF ProvisionerInv
<1> QED
  BY <1>2, <1>3 DEF ProvisionerInv

\* An answered job is a well-formed job, and in time.
LEMMA AnswerInTime ==
    ASSUME ProvisionerInv, NEW c \in Caller, now' = now,
           NEW answer \in {"none", "created", "unavailable", "rejected", "raised"},
           Answer(c, answer)
    PROVE  /\ ProvisionerInv'
           /\ job' = [job EXCEPT ![c] = job'[c]]
           /\ job'[c].pc = "idle" /\ job'[c].answer = answer
<1> DEFINE j == [NoJob EXCEPT !.answer = answer]
<1>1. j \in Job /\ j.pc = "idle" /\ j.answer = answer
  BY DEF Job, NoJob
<1>2. job' = [job EXCEPT ![c] = j]
  BY Zenon DEF Answer
<1>3. job'[c] = j
  BY <1>2 DEF ProvisionerInv
<1> HIDE DEF j
<1>4. InTime(c)'
  BY <1>1, <1>3, Zenon DEF InTime
<1> QED
  BY <1>1, <1>2, <1>3, <1>4, InTimeOfOne

\* The refinement mapping.
Began == [c \in Caller |-> IF job[c].pc = "idle" THEN None ELSE job[c].started]

Succeeded == {c \in Caller : job[c].answer = "created"}

\* How the mapping moves with one job.
LEMMA MapJob ==
    ASSUME ProvisionerInv, NEW c \in Caller, job' = [job EXCEPT ![c] = job'[c]]
    PROVE  /\ Began' = [Began EXCEPT ![c] = IF job'[c].pc = "idle" THEN None
                                           ELSE job'[c].started]
           /\ Succeeded' = IF job'[c].answer = "created" THEN Succeeded \cup {c}
                           ELSE Succeeded \ {c}
<1>1. \A d \in Caller : d # c => job'[d] = job[d]
  BY DEF ProvisionerInv
<1> QED
  BY <1>1 DEF Began, Succeeded

\* A job that goes on, having begun when it had, leaves the promise's state alone.
LEMMA MapGoesOn ==
    ASSUME ProvisionerInv, NEW c \in Caller, job' = [job EXCEPT ![c] = job'[c]],
           job[c].pc # "idle", job'[c].pc # "idle",
           job'[c].answer = "none", job'[c].started = job[c].started
    PROVE  Began' = Began /\ Succeeded' = Succeeded
<1>1. job[c].answer = "none"
  BY DEF ProvisionerInv, InTime
<1>2. Began = [Began EXCEPT ![c] = job[c].started]
  BY DEF Began
<1>3. Succeeded \ {c} = Succeeded
  BY <1>1 DEF Succeeded
<1> QED
  BY <1>2, <1>3, MapJob, Zenon

\* A job that has answered is a call that has ended.
LEMMA MapAnswer ==
    ASSUME ProvisionerInv, NEW c \in Caller, job' = [job EXCEPT ![c] = job'[c]],
           job[c].pc # "idle", job'[c].pc = "idle", now' = now,
           profiles' \in {profiles, profiles \cup {c}},
           job'[c].answer = "created" => c \in profiles'
    PROVE  Promise!EndCall(c)
<1>1. /\ Began[c] = job[c].started
      /\ job[c].started \in Nat
      /\ job[c].answer = "none"
  BY DEF Began, ProvisionerInv, InTime, Job
<1>2. /\ Began[c] # None
      /\ Succeeded \ {c} = Succeeded
  BY <1>1, CircuitBreakerAssumption DEF Succeeded
<1>3. Began' = [Began EXCEPT ![c] = None]
  BY MapJob
<1>4. Succeeded' \in {Succeeded} \cup IF c \in profiles' THEN {Succeeded \cup {c}} ELSE {}
  BY <1>2, MapJob, Zenon
<1> QED
  BY <1>2, <1>3, <1>4 DEF Promise!EndCall, Promise!Underway, Began, Succeeded

\* The pause never exceeds its maximum.
LEMMA PauseBounded ==
    ASSUME NEW retryAfter \in RetryAfter
    PROVE  Pause(retryAfter) \in Nat /\ Pause(retryAfter) <= MaxRetryDelay
  BY ProvisionerAssumption DEF Pause

\* A caller that ends its create_profile does what the promise allows.
LEMMA EndStep ==
    ASSUME ProvisionerInv, NEW c \in Caller,
           FailFast(c) \/ PutCreated(c) \/ PutRejected(c) \/ CancelPut(c) \/ CancelSleep(c)
    PROVE  ProvisionerInv' /\ Promise!EndCall(c)
<1>1. now' = now /\ job[c].pc # "idle"
  BY DEF FailFast, PutCreated, PutRejected, CancelPut, CancelSleep, Refuse, Succeed, Cancel,
         vars
<1>2. PICK answer \in {"none", "created", "unavailable", "rejected", "raised"} :
        /\ Answer(c, answer)
        /\ profiles' \in {profiles, profiles \cup {c}}
        /\ answer = "created" => c \in profiles'
  BY DEF FailFast, PutCreated, PutRejected, CancelPut, CancelSleep
<1>3. /\ ProvisionerInv'
      /\ job' = [job EXCEPT ![c] = job'[c]]
      /\ job'[c].pc = "idle" /\ job'[c].answer = answer
  BY <1>1, <1>2, AnswerInTime
<1> QED
  BY <1>1, <1>2, <1>3, MapAnswer

\* A job that tries again is a well-formed job.
LEMMA TryingJob ==
    ASSUME NEW j \in Job, j.attempt = 0
    PROVE  /\ [j EXCEPT !.pc = "try", !.attempt = @ + 1] \in Job
           /\ [j EXCEPT !.pc = "try", !.attempt = @ + 1].pc = "try"
           /\ [j EXCEPT !.pc = "try", !.attempt = @ + 1].attempt = 1
           /\ [j EXCEPT !.pc = "try", !.attempt = @ + 1].answer = j.answer
           /\ [j EXCEPT !.pc = "try", !.attempt = @ + 1].started = j.started
<1>1. j.attempt + 1 = 1
  OBVIOUS
<1> QED
  BY <1>1, Zenon DEF Job

\* A caller that goes on stays in time and changes at most what is known.
LEMMA GoOnStep ==
    ASSUME ProvisionerInv, NEW c \in Caller,
           PutProfile(c) \/ PutGoesOn(c) \/ PutFailed(c) \/ RetryPut(c)
    PROVE  ProvisionerInv' /\ (UNCHANGED Promise!promiseVars \/ Promise!Reach(c) \/ Promise!EndCall(c))
<1> USE CircuitBreakerAssumption, ProvisionerAssumption
<1>0. /\ now \in Nat /\ now' = now
      /\ job[c] \in Job /\ job[c].pc # "idle" /\ InTime(c)
  BY DEF ProvisionerInv, PutProfile, PutGoesOn, PutFailed, RetryPut, Admit, Fail, vars
<1>1. ASSUME NEW j \in Job, job' = [job EXCEPT ![c] = j], j.pc # "idle",
             j.started = job[c].started, InTime(c)',
             profiles' \in {profiles, profiles \cup {c}}
      PROVE  ProvisionerInv' /\ (UNCHANGED Promise!promiseVars \/ Promise!Reach(c))
  <2>1. ProvisionerInv'
    BY <1>0, <1>1, InTimeOfOne
  <2>2. job'[c] = j
    BY <1>1 DEF ProvisionerInv
  <2>3. j.answer = "none"
    BY <1>1, <2>2 DEF InTime
  <2>4. Began' = Began /\ Succeeded' = Succeeded
    BY <1>0, <1>1, <2>2, <2>3, MapGoesOn
  <2>5. Began[c] # None
    BY <1>0 DEF Began, Job
  <2> QED
    BY <1>0, <1>1, <2>1, <2>4, <2>5
    DEF Promise!promiseVars, Promise!Reach, Promise!Underway, Began, Succeeded
<1>2. CASE PutProfile(c)
  <2> DEFINE j == [job[c] EXCEPT !.pc = "put", !.due = now + Timeout, !.left = Operations - 1]
  <2>1. job' = [job EXCEPT ![c] = j]
    BY <1>2 DEF PutProfile
  <2>j. j = [job[c] EXCEPT !.pc = "put", !.due = now + Timeout, !.left = Operations - 1]
    OBVIOUS
  <2> HIDE DEF j
  <2>2. /\ j \in Job /\ j.pc = "put" /\ j.due = now + Timeout /\ j.left = Operations - 1
        /\ j.answer = job[c].answer /\ j.started = job[c].started
        /\ j.attempt = job[c].attempt
    <3>1. job[c] \in Job /\ now + Timeout \in Nat /\ Operations - 1 \in Nat
      BY <1>0
    <3>2. PICK k \in Job, due \in Nat, left \in Nat :
            k = job[c] /\ due = now + Timeout /\ left = Operations - 1
      BY <3>1, Zenon
    <3>3. j = [k EXCEPT !.pc = "put", !.due = due, !.left = left]
      BY <2>j, <3>2, Zenon
    <3>4. /\ j \in Job /\ j.pc = "put" /\ j.due = due /\ j.left = left
          /\ j.answer = k.answer /\ j.started = k.started /\ j.attempt = k.attempt
      BY ONLY <3>3, k \in Job, due \in Nat, left \in Nat, Zenon DEF Job
    <3> QED
      BY <3>2, <3>4, Zenon
  <2>3. job'[c] = j
    BY <2>1 DEF ProvisionerInv
  <2>4. job[c].pc = "try" /\ profiles' = profiles
    BY <1>2 DEF PutProfile
  <2>5. j.due + Rest(j.left) = now + LongestPut /\ now <= j.due
    BY <1>0, <2>2, RestOfPut, RestIsTime
  <2>6. InTime(c)'
    BY <1>0, <2>2, <2>3, <2>4, <2>5, RestOfPut DEF InTime, Job
  <2> QED
    BY <1>1, <2>1, <2>2, <2>4, <2>6
<1>g. CASE PutGoesOn(c)
  <2> DEFINE j == [job[c] EXCEPT !.due = now + Timeout, !.left = @ - 1]
  <2>1. job' = [job EXCEPT ![c] = j]
    BY <1>g DEF PutGoesOn
  <2>j. j = [job[c] EXCEPT !.due = now + Timeout, !.left = job[c].left - 1]
    OBVIOUS
  <2> HIDE DEF j
  <2>2. job[c].pc = "put" /\ job[c].left \in Nat \ {0} /\ profiles' = profiles
    BY <1>0, <1>g DEF PutGoesOn, Job
  <2>3. /\ j \in Job /\ j.pc = "put" /\ j.due = now + Timeout /\ j.left = job[c].left - 1
        /\ j.answer = job[c].answer /\ j.started = job[c].started
        /\ j.attempt = job[c].attempt
    <3>1. job[c] \in Job /\ now + Timeout \in Nat /\ job[c].left - 1 \in Nat
      BY <1>0, <2>2
    <3>2. job[c].pc = "put"
      BY <2>2
    <3>3. PICK k \in Job, due \in Nat, left \in Nat :
            k = job[c] /\ due = now + Timeout /\ left = job[c].left - 1
      BY <3>1, Zenon
    <3>4. j = [k EXCEPT !.due = due, !.left = left]
      BY <2>j, <3>3, Zenon
    <3>5. /\ j \in Job /\ j.pc = k.pc /\ j.due = due /\ j.left = left
          /\ j.answer = k.answer /\ j.started = k.started /\ j.attempt = k.attempt
      BY ONLY <3>4, k \in Job, due \in Nat, left \in Nat, Zenon DEF Job
    <3> QED
      BY <3>2, <3>3, <3>5, Zenon
  <2>4. job'[c] = j
    BY <2>1 DEF ProvisionerInv
  <2>5. j.due + Rest(j.left) = now + Rest(job[c].left) /\ now <= j.due
    BY <1>0, <2>2, <2>3, RestOfNext, RestIsTime
  <2>6. InTime(c)'
    BY <1>0, <2>2, <2>3, <2>4, <2>5, RestOfPut, RestIsTime DEF InTime, Job
  <2> QED
    BY <1>1, <2>1, <2>2, <2>3, <2>6
<1>3. CASE RetryPut(c)
  <2> DEFINE j == [job[c] EXCEPT !.pc = "try", !.attempt = @ + 1]
  <2>1. job' = [job EXCEPT ![c] = j]
    BY <1>3 DEF RetryPut
  <2>2. job[c].pc = "sleep" /\ job[c].attempt = 0 /\ profiles' = profiles
    BY <1>0, <1>3 DEF RetryPut, InTime
  <2>3. /\ j \in Job /\ j.pc = "try" /\ j.answer = job[c].answer
        /\ j.started = job[c].started /\ j.attempt = 1
    BY <1>0, <2>2, TryingJob, Zenon
  <2>4. job'[c] = j
    BY <2>1 DEF ProvisionerInv
  <2> HIDE DEF j
  <2>5. InTime(c)'
    <3>1. job[c].started \in Nat /\ job[c].due \in Nat /\ LongestPut \in Nat
      BY <1>0, RestOfPut DEF Job
    <3> QED
      BY <1>0, <2>2, <2>3, <2>4, <3>1 DEF InTime
  <2> QED
    BY <1>1, <2>1, <2>2, <2>3, <2>5
<1>4. CASE PutFailed(c) /\ Retries(job[c].attempt)
  <2>1. PICK retryAfter \in RetryAfter :
          job' = [job EXCEPT ![c].pc = "sleep", ![c].due = now + Pause(retryAfter),
                             ![c].left = 0]
    BY <1>4 DEF PutFailed
  <2> DEFINE j == [job[c] EXCEPT !.pc = "sleep", !.due = now + Pause(retryAfter), !.left = 0]
  <2>2. job' = [job EXCEPT ![c] = j]
    BY <2>1
  <2>j. j = [job[c] EXCEPT !.pc = "sleep", !.due = now + Pause(retryAfter), !.left = 0]
    OBVIOUS
  <2> HIDE DEF j
  <2>3. /\ job[c].pc = "put" /\ job[c].attempt = 0
        /\ profiles' \in {profiles, profiles \cup {c}}
    <3>1. job[c].attempt \in {0, 1}
      BY <1>0 DEF Job
    <3>2. job[c].attempt < 1
      BY <1>4 DEF Retries
    <3>3. job[c].attempt = 0
      BY <3>1, <3>2
    <3> QED
      BY <1>4, <3>3, Zenon DEF PutFailed
  <2>4. /\ j \in Job /\ j.pc = "sleep" /\ j.answer = job[c].answer
        /\ j.started = job[c].started /\ j.attempt = 0 /\ j.due = now + Pause(retryAfter)
    <3>1. /\ job[c] \in Job /\ job[c].attempt = 0
          /\ now + Pause(retryAfter) \in Nat
      BY <1>0, <2>3, PauseBounded
    <3>2. PICK k \in Job, due \in Nat : k = job[c] /\ due = now + Pause(retryAfter)
      BY <3>1, Zenon
    <3>3. j = [k EXCEPT !.pc = "sleep", !.due = due, !.left = 0] /\ 0 \in Nat
      BY <2>j, <3>2, Zenon
    <3>4. /\ j \in Job /\ j.pc = "sleep" /\ j.due = due
          /\ j.answer = k.answer /\ j.started = k.started /\ j.attempt = k.attempt
      BY ONLY <3>3, k \in Job, due \in Nat, Zenon DEF Job
    <3> QED
      BY <3>1, <3>2, <3>4, Zenon
  <2>5. job'[c] = j
    BY <2>2 DEF ProvisionerInv
  <2>6. InTime(c)'
    <3>1. /\ job[c].started \in Nat /\ job[c].due \in Nat /\ Rest(job[c].left) \in Nat
          /\ LongestPut \in Nat
      BY <1>0, RestIsTime, RestOfPut DEF Job
    <3> QED
      BY <1>0, <2>3, <2>4, <2>5, <3>1, PauseBounded DEF InTime
  <2> QED
    BY <1>1, <2>2, <2>3, <2>4, <2>6
<1>5. CASE PutFailed(c) /\ ~Retries(job[c].attempt)
  <2>1. Answer(c, "unavailable") /\ profiles' \in {profiles, profiles \cup {c}}
    BY <1>5 DEF PutFailed
  <2>2. /\ ProvisionerInv'
        /\ job' = [job EXCEPT ![c] = job'[c]]
        /\ job'[c].pc = "idle" /\ job'[c].answer = "unavailable"
    BY <1>0, <2>1, AnswerInTime
  <2> QED
    BY <1>0, <2>1, <2>2, MapAnswer
<1> QED
  BY <1>2, <1>g, <1>3, <1>4, <1>5, ZenonT(30)

\* A new create_profile is a call that begins.
LEMMA BeginStep ==
    ASSUME ProvisionerInv, NEW c \in Caller, CreateProfile(c)
    PROVE  ProvisionerInv' /\ Promise!BeginCall(c)
<1>0. now \in Nat /\ now' = now /\ profiles' = profiles /\ job[c].pc = "idle"
  BY DEF ProvisionerInv, CreateProfile, vars
<1>1. Began = [Began EXCEPT ![c] = None] /\ Began[c] = None
  BY <1>0 DEF Began
<1>2. CASE Configured
  <2> DEFINE j == [NoJob EXCEPT !.pc = "try", !.started = now]
  <2>1. job' = [job EXCEPT ![c] = j]
    BY <1>2, Zenon DEF CreateProfile
  <2>2. j \in Job /\ j.pc = "try" /\ j.started = now /\ j.attempt = 0 /\ j.answer = "none"
    BY <1>0, Zenon DEF Job, NoJob
  <2>3. job'[c] = j
    BY <2>1 DEF ProvisionerInv
  <2> HIDE DEF j
  <2>4. InTime(c)'
    BY <1>0, <2>2, <2>3 DEF InTime
  <2>5. ProvisionerInv'
    BY <1>0, <2>1, <2>2, <2>4, InTimeOfOne
  <2>6. Began' = [Began EXCEPT ![c] = now] /\ Succeeded' = Succeeded \ {c}
    BY <2>1, <2>2, <2>3, MapJob
  <2> QED
    BY <1>0, <1>1, <2>5, <2>6
    DEF Promise!BeginCall, Promise!Underway, Began, Succeeded
<1>3. CASE ~Configured
  <2>1. Answer(c, "unavailable")
    BY <1>3, Zenon DEF CreateProfile, Answer
  <2>2. /\ ProvisionerInv'
        /\ job' = [job EXCEPT ![c] = job'[c]]
        /\ job'[c].pc = "idle" /\ job'[c].answer = "unavailable"
    BY <1>0, <2>1, AnswerInTime
  <2>3. Began' = Began /\ Succeeded' = Succeeded \ {c}
    BY <1>1, <2>2, MapJob
  <2> QED
    BY <1>0, <1>1, <2>2, <2>3
    DEF Promise!BeginCall, Promise!Underway, Began, Succeeded
<1> QED
  BY <1>2, <1>3

\* Time passes only while every call is within its window.
LEMMA PassStep ==
    ASSUME ProvisionerInv, Pass
    PROVE  ProvisionerInv' /\ Promise!PromiseTick
<1> USE ProvisionerAssumption
<1>0. now \in Nat /\ now' = now + 1 /\ job' = job /\ profiles' = profiles
  BY DEF ProvisionerInv, Pass, Tick
<1>1. ASSUME NEW c \in Caller
      PROVE  /\ InTime(c)'
             /\ job[c].pc # "idle" => now < job[c].started + (2 * LongestPut + MaxRetryDelay)
  <2>1. /\ job[c] \in Job /\ InTime(c) /\ job[c].pc # "try"
        /\ job[c].pc # "idle" => now < job[c].due
    BY DEF ProvisionerInv, Pass
  <2>2. /\ job[c].started \in Nat /\ job[c].due \in Nat /\ Rest(job[c].left) \in Nat
        /\ LongestPut \in Nat
    BY <2>1, RestIsTime, RestOfPut DEF Job
  <2>3. job'[c] = job[c]
    BY <1>0
  <2>4. InTime(c)'
    BY <1>0, <2>1, <2>2, <2>3 DEF InTime
  <2>5. ASSUME job[c].pc # "idle"
        PROVE  now < job[c].started + (2 * LongestPut + MaxRetryDelay)
    <3>1. job[c].pc \in {"put", "sleep"} /\ now < job[c].due
      BY <2>1, <2>5 DEF Job
    <3>2. job[c].due <= job[c].started + (2 * LongestPut + MaxRetryDelay)
      <4>1. PICK s \in Nat, d \in Nat, rest \in Nat, put \in Nat :
              s = job[c].started /\ d = job[c].due /\ rest = Rest(job[c].left) /\ put = LongestPut
        BY <2>2, Zenon
      <4>2. d + rest <= s + put \/ d + rest <= s + put + MaxRetryDelay + put \/ d <= s + put + MaxRetryDelay
        BY <2>1, <3>1, <4>1 DEF InTime
      <4>3. d <= s + (2 * put + MaxRetryDelay)
        BY <4>2
      <4> QED
        BY <4>1, <4>3, Zenon
    <3> QED
      BY <1>0, <2>2, <3>1, <3>2
  <2> QED
    BY <2>4, <2>5
<1>2. ProvisionerInv'
  BY <1>0, <1>1 DEF ProvisionerInv
<1>3. Promise!Within
  BY <1>1 DEF Promise!Within, Promise!Underway
<1> QED
  BY <1>0, <1>2, <1>3 DEF Promise!PromiseTick

\* Both invariants hold from the start,
LEMMA ProvisionerInvInit == ProvisionerInit => BreakerInv /\ ProvisionerInv
<1> SUFFICES ASSUME ProvisionerInit PROVE BreakerInv /\ ProvisionerInv
  OBVIOUS
<1>1. NoJob \in Job
  BY DEF NoJob, Job
<1>2. \A c \in Caller : job[c] = NoJob
  BY DEF ProvisionerInit
<1>3. \A c \in Caller : InTime(c)
  BY <1>2 DEF InTime, NoJob
<1> QED
  BY <1>1, <1>3, BreakerInvInit DEF ProvisionerInit, ProvisionerInv, Init

\* and every step keeps the promise with the invariant.
LEMMA ProvisionerStep ==
    ProvisionerInv /\ [ProvisionerNext]_allVars =>
        ProvisionerInv' /\ [Promise!PromiseNext]_Promise!promiseVars
<1> SUFFICES ASSUME ProvisionerInv, [ProvisionerNext]_allVars
             PROVE  ProvisionerInv' /\ [Promise!PromiseNext]_Promise!promiseVars
  OBVIOUS
<1>1. ASSUME NEW c \in Caller, CreateProfile(c) \/ Proceed(c) \/ CancelJob(c)
      PROVE  ProvisionerInv' /\ [Promise!PromiseNext]_Promise!promiseVars
  BY <1>1, BeginStep, EndStep, GoOnStep, Zenon
  DEF Proceed, CancelJob, Promise!PromiseNext
<1>2. CASE Pass
  BY <1>2, PassStep DEF Promise!PromiseNext
<1>3. CASE UNCHANGED allVars
  BY <1>3 DEF allVars, vars, ProvisionerInv, InTime, Promise!promiseVars
<1> QED
  BY <1>1, <1>2, <1>3 DEF ProvisionerNext

\* The longest create_profile, for every timeout, delay, Retry-After and number of
\* operations in a PUT: it ends within one maximal delay and two PUTs, each as many
\* timeouts long as it has operations, and reports success only of a profile that
\* exists.
THEOREM ProvisionerKeepsPromise == ProvisionerSpec => ImplementsPromise
<1>1. ProvisionerInit => ProvisionerInv /\ Promise!PromiseInit
  BY ProvisionerInvInit DEF ProvisionerInit, Init, NoJob, Promise!PromiseInit
<1> QED
  BY <1>1, ProvisionerStep, PTL DEF ProvisionerSpec, ImplementsPromise, Promise!PromiseSpec

\* Every caller's job, its call and the breaker stay within their types.
THEOREM ProvisionerTypes == ProvisionerSpec => []ProvisionerTypeOK
<1> DEFINE Inv == BreakerInv /\ ProvisionerInv /\ profiles \subseteq Caller
<1>1. ProvisionerInit => Inv
  BY ProvisionerInvInit DEF ProvisionerInit
<1>2. Inv /\ [ProvisionerNext]_allVars => Inv'
  <2>1. profiles \subseteq Caller /\ [ProvisionerNext]_allVars => profiles' \subseteq Caller
    BY ZenonT(60) DEF ProvisionerNext, allVars, CreateProfile, Proceed, CancelJob, PutProfile, PutGoesOn,
           FailFast, PutCreated, PutRejected, PutFailed, RetryPut, CancelPut, CancelSleep, Pass
  <2> QED
    BY <2>1, BreakerInvStep, ProvisionerUsesBreaker, ProvisionerStep, ZenonT(30)
<1>3. Inv => ProvisionerTypeOK
  BY DEF BreakerInv, ProvisionerInv, ProvisionerTypeOK
<1> HIDE DEF Inv
<1> QED
  BY <1>1, <1>2, <1>3, PTL DEF ProvisionerSpec

\* What the step of another caller leaves alone.
LEMMA OtherJob ==
    ASSUME ProvisionerInv, NEW c \in Caller, NEW d \in Caller, d # c,
           CreateProfile(d) \/ Proceed(d) \/ CancelJob(d)
    PROVE  job'[c] = job[c]
<1>1. \/ \E j : job' = [job EXCEPT ![d] = j]
      \/ job' = job
  BY ZenonT(60) DEF CreateProfile, Proceed, CancelJob, PutProfile, PutGoesOn, FailFast, PutCreated,
         PutRejected, PutFailed, RetryPut, CancelPut, CancelSleep, Answer
<1> QED
  BY <1>1 DEF ProvisionerInv

\* A permanent 4xx response never opens the circuit, and closes it when it
\* answers the probe.
THEOREM RejectionNeverEverOpens == ProvisionerSpec => RejectionNeverOpens
<1> DEFINE Harmless ==
      \A c \in Caller : job[c].pc = "put" /\ job'[c].answer = "rejected" =>
          /\ state' = "OPEN" => state = "OPEN"
          /\ call[c].probing => state' = "CLOSED"
<1>1. BreakerInv /\ ProvisionerInv /\ [ProvisionerNext]_allVars => [Harmless]_allVars
  <2> SUFFICES ASSUME BreakerInv, ProvisionerInv, ProvisionerNext, NEW c \in Caller,
                      job[c].pc = "put", job'[c].answer = "rejected"
               PROVE  /\ state' = "OPEN" => state = "OPEN"
                      /\ call[c].probing => state' = "CLOSED"
    BY Zenon
  <2>1. job[c].answer = "none"
    BY DEF ProvisionerInv, InTime
  <2>2. ~Pass
    BY <2>1 DEF Pass
  <2>3. CreateProfile(c) \/ Proceed(c) \/ CancelJob(c)
    BY <2>1, <2>2, OtherJob DEF ProvisionerNext
  <2>4. ~Answer(c, "unavailable") /\ ~Answer(c, "raised") /\ ~Answer(c, "created")
    BY AnswerInTime DEF Answer, NoJob, ProvisionerInv
  <2>5. CASE PutRejected(c)
    <3>1. call[c].running /\ HandleSuccess(c)
      BY <2>5 DEF PutRejected, Succeed, EndCall
    <3>2. call[c].probing => IsCurrentProbe(c)
      BY <3>1, CircuitBreakerAssumption DEF BreakerInv, IsCurrentProbe
    <3> QED
      BY <3>1, <3>2 DEF HandleSuccess
  <2>6. CASE PutFailed(c) /\ Retries(job[c].attempt)
    <3>1. PICK retryAfter \in RetryAfter :
            job' = [job EXCEPT ![c].pc = "sleep", ![c].due = now + Pause(retryAfter),
                               ![c].left = 0]
      BY <2>6 DEF PutFailed
    <3>2. job'[c] = [job[c] EXCEPT !.pc = "sleep", !.due = now + Pause(retryAfter), !.left = 0]
      BY <3>1 DEF ProvisionerInv
    <3>3. job'[c].answer = job[c].answer
      BY <3>2, Zenon DEF ProvisionerInv, Job
    <3> QED
      BY <2>1, <3>3
  <2>7. ~PutGoesOn(c)
    <3>1. PutGoesOn(c) => job'[c] = [job[c] EXCEPT !.due = now + Timeout, !.left = @ - 1]
      BY DEF PutGoesOn, ProvisionerInv
    <3>2. PutGoesOn(c) => job'[c].answer = job[c].answer
      BY <3>1, Zenon DEF ProvisionerInv, Job
    <3> QED
      BY <2>1, <3>2
  <2> QED
    BY <2>3, <2>4, <2>5, <2>6, <2>7
    DEF Proceed, CancelJob, CreateProfile, PutProfile, FailFast, PutCreated, PutFailed,
        RetryPut, CancelPut, CancelSleep
<1>2. BreakerInv /\ [ProvisionerNext]_allVars => BreakerInv'
  BY BreakerInvStep, ProvisionerUsesBreaker
<1> QED
  BY <1>1, <1>2, ProvisionerInvInit, ProvisionerStep, PTL DEF ProvisionerSpec, RejectionNeverOpens
=============================================================================
