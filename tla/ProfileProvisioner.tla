------------------------- MODULE ProfileProvisioner -------------------------
(***************************************************************************)
(* HTTPProfileProvisioner.create_profile: at most two PUTs to the User     *)
(* Profile service, each through the shared ProfileCircuitBreaker, with a  *)
(* bounded pause in between.  Its answers are what the attempts of module  *)
(* Registration see as Provisioned, ProvisionUnavailable and               *)
(* ProvisionRejected.                                                      *)
(*                                                                         *)
(* A caller provisions one user at a time and stands for that user.  Time  *)
(* passes only while some PUT is out or some caller sleeps.  The client's  *)
(* timeout is a plain number, which limits each operation of a PUT by      *)
(* itself: getting a connection from the pool, connecting, writing, every  *)
(* read.  Nothing limits their sum or the number of reads.  Timers and the *)
(* event loop are taken as punctual.                                       *)
(***************************************************************************)
EXTENDS CircuitBreaker

CONSTANTS
    Configured,     \* whether PROFILE_SERVICE_TOKEN is set
    Timeout,        \* PROFILE_SERVICE_TIMEOUT_SECONDS, in ticks
    Operations,     \* bound: operations of the HTTP client in one PUT
    RetryDelay,     \* PROFILE_SERVICE_RETRY_DELAY_SECONDS
    MaxRetryDelay,  \* PROFILE_SERVICE_RETRY_MAX_DELAY_SECONDS
    RetryAfter      \* what a Retry-After header can ask for; 0 when absent

ASSUME ProvisionerAssumption ==
    /\ Configured \in BOOLEAN
    /\ Timeout \in Nat \ {0}
    /\ Operations \in Nat \ {0}
    /\ RetryDelay \in Nat
    /\ MaxRetryDelay \in Nat \ {0}
    /\ RetryDelay <= MaxRetryDelay
    /\ RetryAfter \subseteq Nat

VARIABLES
    job,        \* the create_profile each caller is executing
    profiles    \* users whose profile exists

allVars == <<vars, job, profiles>>

\* due is when the operation of the PUT, or the pause, is over; left is how many
\* operations of the PUT can follow.
Job ==
    [pc : {"idle", "try", "put", "sleep"}, attempt : {0, 1}, started : Nat, due : Nat,
     left : Nat, answer : {"none", "created", "unavailable", "rejected", "raised"}]

NoJob ==
    [pc |-> "idle", attempt |-> 0, started |-> 0, due |-> 0, left |-> 0, answer |-> "none"]

ProvisionerTypeOK ==
    /\ TypeOK
    /\ job \in [Caller -> Job]
    /\ profiles \subseteq Caller

ProvisionerInit ==
    /\ Init
    /\ job = [c \in Caller |-> NoJob]
    /\ profiles = {}

Answer(c, answer) == job' = [job EXCEPT ![c] = [NoJob EXCEPT !.answer = answer]]

CreateProfile(c) ==
    /\ job[c].pc = "idle"
    /\ job' = [job EXCEPT ![c] =
                IF Configured THEN [NoJob EXCEPT !.pc = "try", !.started = now]
                ELSE [NoJob EXCEPT !.answer = "unavailable"]]
    /\ UNCHANGED <<vars, profiles>>

\* The breaker lets the PUT out.
PutProfile(c) ==
    /\ job[c].pc = "try"
    /\ Admit(c)
    /\ job' = [job EXCEPT ![c].pc = "put", ![c].due = now + Timeout,
                          ![c].left = Operations - 1]
    /\ UNCHANGED profiles

\* An operation of the PUT is done, and the next has all of Timeout again.
PutGoesOn(c) ==
    /\ job[c].pc = "put"
    /\ job[c].left > 0
    /\ job' = [job EXCEPT ![c].due = now + Timeout, ![c].left = @ - 1]
    /\ UNCHANGED <<vars, profiles>>

\* Faulty variant: the caller tries again at once.
FailFastRetried(c) ==
    /\ job[c].pc = "try"
    /\ Refuse(c)
    /\ UNCHANGED <<job, profiles>>

\* CircuitBreakerError: no PUT is sent, and none will be.
FailFast(c) ==
    /\ job[c].pc = "try"
    /\ Refuse(c)
    /\ Answer(c, "unavailable")
    /\ UNCHANGED profiles

\* 204
PutCreated(c) ==
    /\ job[c].pc = "put"
    /\ Succeed(c)
    /\ Answer(c, "created")
    /\ profiles' = profiles \cup {c}

\* Faulty variant: every error counts as a failure of the dependency.
PutRejectedCounted(c) ==
    /\ job[c].pc = "put"
    /\ Fail(c)
    /\ Answer(c, "rejected")
    /\ UNCHANGED profiles

\* A response that is not retryable, or an exception that is no
\* _ProfileCallError: the breaker counts neither as a failure.
PutRejected(c) ==
    /\ job[c].pc = "put"
    /\ CanFail
    /\ Succeed(c)
    /\ \/ Answer(c, "rejected") /\ UNCHANGED profiles
       \/ Answer(c, "raised") /\ profiles' \in {profiles, profiles \cup {c}}

\* Faulty variant: Retry-After is obeyed without limit.
PauseUnbounded(retryAfter) == IF retryAfter > RetryDelay THEN retryAfter ELSE RetryDelay

Pause(retryAfter) ==
    LET wanted == IF retryAfter > RetryDelay THEN retryAfter ELSE RetryDelay
    IN  IF wanted > MaxRetryDelay THEN MaxRetryDelay ELSE wanted

\* range(2): whether a failed attempt is followed by another
Retries(attempt) == attempt < 1

\* 423, 429, 5xx or a transport error, after which the profile may exist.
PutFailed(c) ==
    /\ job[c].pc = "put"
    /\ Fail(c)
    /\ IF Retries(job[c].attempt)
       THEN \E retryAfter \in RetryAfter :
              job' = [job EXCEPT ![c].pc = "sleep", ![c].due = now + Pause(retryAfter),
                                 ![c].left = 0]
       ELSE Answer(c, "unavailable")
    /\ profiles' \in {profiles, profiles \cup {c}}

RetryPut(c) ==
    /\ job[c].pc = "sleep"
    /\ now >= job[c].due
    /\ job' = [job EXCEPT ![c].pc = "try", ![c].attempt = @ + 1]
    /\ UNCHANGED <<vars, profiles>>

\* The request behind the call was cancelled.
CancelPut(c) ==
    /\ job[c].pc = "put"
    /\ Cancel(c)
    /\ Answer(c, "raised")
    /\ profiles' \in {profiles, profiles \cup {c}}

CancelSleep(c) ==
    /\ job[c].pc = "sleep"
    /\ CanFail
    /\ Answer(c, "raised")
    /\ UNCHANGED <<vars, profiles>>

Pass ==
    /\ \A c \in Caller : job[c].pc # "try" /\ (job[c].pc # "idle" => now < job[c].due)
    /\ Tick
    /\ UNCHANGED <<job, profiles>>

Proceed(c) ==
    \/ PutProfile(c) \/ PutGoesOn(c) \/ FailFast(c) \/ PutCreated(c)
    \/ PutRejected(c) \/ PutFailed(c) \/ RetryPut(c)

CancelJob(c) == CancelPut(c) \/ CancelSleep(c)

ProvisionerNext ==
    \/ \E c \in Caller : CreateProfile(c) \/ Proceed(c) \/ CancelJob(c)
    \/ Pass

ProvisionerSpec == ProvisionerInit /\ [][ProvisionerNext]_allVars

\* A create_profile that runs is scheduled; nobody is obliged to start one or to
\* cancel one.  Time is strongly fair: Pass is disabled while a caller is between
\* two instants, and clients that start one create_profile after the other do
\* not stop the clock.
ProvisionerFairSpec ==
    /\ ProvisionerSpec
    /\ \A c \in Caller : WF_allVars(Proceed(c))
    /\ SF_allVars(Pass)
-----------------------------------------------------------------------------
(* Properties                                                              *)

LongestPut == Operations * Timeout

Promise == INSTANCE ProvisioningPromise WITH
    UserOf <- [c \in Caller |-> c],
    Window <- 2 * LongestPut + MaxRetryDelay,
    began <- [c \in Caller |-> IF job[c].pc = "idle" THEN None ELSE job[c].started],
    succeeded <- {c \in Caller : job[c].answer = "created"},
    known <- profiles

\* Whatever Retry-After says and the circuit does, create_profile keeps the
\* promise that a registration attempt relies on: it lasts two PUTs and the
\* maximal retry delay at most, where a PUT lasts as long as its operations do,
\* and it reports success only of a profile that exists.
ImplementsPromise == Promise!PromiseSpec

\* README.md: permanent 4xx responses do not open the circuit; one that answers
\* the recovery probe shows that the dependency is up and closes it.
RejectionNeverOpens ==
    [][\A c \in Caller : job[c].pc = "put" /\ job'[c].answer = "rejected" =>
          /\ state' = "OPEN" => state = "OPEN"
          /\ call[c].probing => state' = "CLOSED"]_allVars

\* As long as create_profile keeps being called, and not without end at a single
\* instant, a circuit that failures of the dependency opened closes again once
\* they have stopped: no cancelled probe, stale outcome or refused call leaves it
\* open.
Recovers ==
    /\ <>(now = MaxTime)
    /\ \A c \in Caller : WF_allVars(CreateProfile(c))
    => (state = "OPEN" ~> state = "CLOSED")

\* Every create_profile answers, also behind an open or half-open circuit.
EveryJobAnswers == \A c \in Caller : job[c].pc # "idle" ~> job[c].pc = "idle"
=============================================================================
