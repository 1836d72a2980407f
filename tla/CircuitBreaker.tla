--------------------------- MODULE CircuitBreaker ---------------------------
(***************************************************************************)
(* The generic circuit breaker that guards the Valkey idempotency store    *)
(* and the User Profile service.  Admitting a call and recording its       *)
(* outcome each hold the lock, so each is one step; the guarded call runs  *)
(* in between, concurrently with any other.                                *)
(*                                                                         *)
(* The fresh object() that marks a probe is modelled by its caller, who    *)
(* makes one call at a time.  _probe_in_progress is TRUE exactly while     *)
(* _probe_token is set: both are assigned together everywhere.             *)
(***************************************************************************)
EXTENDS Naturals, FiniteSets

CONSTANTS
    Caller,
    None,
    FailMax,            \* fail_max
    RecoveryTimeout,    \* recovery_timeout, in ticks
    MaxTime,            \* bound: the clock stops here
    FaultHorizon        \* bound: the dependency fails before this time only

ASSUME CircuitBreakerAssumption ==
    /\ None \notin Caller \cup Nat
    /\ FailMax \in Nat \ {0}
    /\ RecoveryTimeout \in Nat \ {0}
    /\ MaxTime \in Nat
    /\ FaultHorizon \in Nat

VARIABLES
    state,          \* _state
    failureCount,   \* _failure_count
    openedAt,       \* _opened_at
    probe,          \* _probe_token
    generation,     \* _generation
    call,           \* what each running call remembers
    now             \* time.monotonic()

breaker == <<state, failureCount, openedAt, probe, generation>>

vars == <<state, failureCount, openedAt, probe, generation, call, now>>

CircuitState == {"CLOSED", "OPEN", "HALF_OPEN"}

NoCall == [running |-> FALSE, probing |-> FALSE, generation |-> 0]

TypeOK ==
    /\ state \in CircuitState
    /\ failureCount \in Nat
    /\ openedAt \in Nat \cup {None}
    /\ probe \in Caller \cup {None}
    /\ generation \in Nat
    /\ call \in [Caller -> [running : BOOLEAN, probing : BOOLEAN, generation : Nat]]
    /\ now \in Nat

Init ==
    /\ state = "CLOSED"
    /\ failureCount = 0
    /\ openedAt = None
    /\ probe = None
    /\ generation = 0
    /\ call = [c \in Caller |-> NoCall]
    /\ now = 0

CanFail == now < FaultHorizon

\* _check_state: what the state is once the cooldown has been looked at
CooledDown == state = "OPEN" /\ openedAt # None /\ now >= openedAt + RecoveryTimeout

CheckedState == IF CooledDown THEN "HALF_OPEN" ELSE state

\* Faulty variant: half open, everybody is let through.
AdmitAll(c) ==
    LET probing == CheckedState = "HALF_OPEN" IN
    /\ ~call[c].running
    /\ CheckedState # "OPEN"
    /\ state' = CheckedState
    /\ probe' = IF probing THEN c ELSE probe
    /\ call' = [call EXCEPT ![c] = [running |-> TRUE, probing |-> probing,
                                    generation |-> generation]]
    /\ UNCHANGED <<failureCount, openedAt, generation, now>>

\* The call is let through, as the probe if the circuit is half open.
Admit(c) ==
    LET probing == CheckedState = "HALF_OPEN" IN
    /\ ~call[c].running
    /\ CheckedState # "OPEN"
    /\ probing => probe = None
    /\ state' = CheckedState
    /\ probe' = IF probing THEN c ELSE probe
    /\ call' = [call EXCEPT ![c] = [running |-> TRUE, probing |-> probing,
                                    generation |-> generation]]
    /\ UNCHANGED <<failureCount, openedAt, generation, now>>

\* CircuitBreakerError: open, or half open with its probe out
Refuse(c) ==
    /\ ~call[c].running
    /\ \/ CheckedState = "OPEN"
       \/ CheckedState = "HALF_OPEN" /\ probe # None
    /\ state' = CheckedState
    /\ UNCHANGED <<failureCount, openedAt, probe, generation, call, now>>

IsCurrentProbe(c) == call[c].probing /\ state = "HALF_OPEN" /\ probe = c

\* Faulty variant: the generation is not compared.
IsCurrentClosedCallStale(c) == ~call[c].probing /\ state = "CLOSED"

IsCurrentClosedCall(c) ==
    /\ ~call[c].probing
    /\ state = "CLOSED"
    /\ generation = call[c].generation

\* _handle_success
HandleSuccess(c) ==
    IF IsCurrentProbe(c)
    THEN /\ state' = "CLOSED"
         /\ failureCount' = 0
         /\ openedAt' = None
         /\ probe' = None
         /\ generation' = generation + 1
    ELSE /\ failureCount' = IF IsCurrentClosedCall(c) THEN 0 ELSE failureCount
         /\ UNCHANGED <<state, openedAt, probe, generation>>

\* _handle_failure, _trip
Trip ==
    /\ state' = "OPEN"
    /\ openedAt' = now
    /\ probe' = None
    /\ generation' = generation + 1

HandleFailure(c) ==
    IF IsCurrentProbe(c) \/ IsCurrentClosedCall(c)
    THEN /\ failureCount' = failureCount + 1
         /\ IF IsCurrentProbe(c) \/ failureCount + 1 >= FailMax
            THEN Trip
            ELSE UNCHANGED <<state, openedAt, probe, generation>>
    ELSE UNCHANGED breaker

EndCall(c) == call[c].running /\ call' = [call EXCEPT ![c] = NoCall]

\* The guarded function returned, or raised what is_failure does not count.
Succeed(c) == EndCall(c) /\ HandleSuccess(c) /\ UNCHANGED now

\* It raised what is_failure counts.
Fail(c) == CanFail /\ EndCall(c) /\ HandleFailure(c) /\ UNCHANGED now

\* Faulty variant: a cancelled probe keeps its slot.
ReleaseProbeNever(c) == UNCHANGED breaker

\* _release_probe
ReleaseProbe(c) ==
    /\ probe' = IF IsCurrentProbe(c) THEN None ELSE probe
    /\ UNCHANGED <<state, failureCount, openedAt, generation>>

\* The call was cancelled, or is_failure itself raised.
Cancel(c) == CanFail /\ EndCall(c) /\ ReleaseProbe(c) /\ UNCHANGED now

Tick ==
    /\ now < MaxTime
    /\ now' = now + 1
    /\ UNCHANGED <<breaker, call>>

End(c) == Succeed(c) \/ Fail(c) \/ Cancel(c)

Next ==
    \/ \E c \in Caller : Admit(c) \/ Refuse(c) \/ End(c)
    \/ Tick

Spec == Init /\ [][Next]_vars
-----------------------------------------------------------------------------
(* Properties                                                              *)

Probes == {c \in Caller : call[c].running /\ call[c].probing}

\* "exactly one probe is let through in HALF_OPEN": the running probes are the
\* holder of the slot, or none if it is free.  Never do two run at a time, not
\* even one left over from an earlier half-open period, and no cancelled or
\* finished call keeps the slot and so the circuit from recovering.
OneProbe ==
    /\ Probes = {probe} \ {None}
    /\ probe # None => state = "HALF_OPEN"

\* A closed circuit has fewer than fail_max failures behind it, and an open or
\* half-open one remembers when it opened (_check_state relies on it).
CountsAreConsistent ==
    /\ state = "CLOSED" => failureCount < FailMax /\ openedAt = None
    /\ state # "CLOSED" => openedAt # None

\* What a call started before the last trip or recovery reports is ignored.
StaleOutcomesIgnored ==
    [][\A c \in Caller :
          call[c].running /\ ~call'[c].running /\ call[c].generation # generation
            => UNCHANGED breaker]_vars
=============================================================================
