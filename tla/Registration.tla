---------------------------- MODULE Registration ----------------------------
(***************************************************************************)
(* User registration: the durable operation that POST /register creates,   *)
(* the attempts that drive it (RegisterUserHandler, RegistrationReconciler *)
(* and the ResumeRegistrationHandler both of them call), the User Profile  *)
(* service it provisions, and the single transaction that turns it into an *)
(* Identity user plus one outbox event.                                    *)
(*                                                                         *)
(* A database transaction is one step.  The clock is read before the       *)
(* transaction that uses it begins, so every transaction may use a reading *)
(* up to MaxStall ticks old (ClockReading).  An owner token is fresh for   *)
(* every attempt; since an owner runs at most one attempt per operation    *)
(* and claiming writes the token, the owner itself stands for it.          *)
(***************************************************************************)
EXTENDS Naturals, FiniteSets

CONSTANTS
    Key,            \* idempotency keys; a key also names its operation and user id
    Email,
    Password,
    Request,        \* the commands clients send
    Handler,        \* concurrent HTTP requests
    Reconciler,     \* registration reconciler processes
    None,           \* SQL NULL
    LegacyEmail,    \* emails of accounts older than registration operations
    LegacyId,       \* stands for the user ids of those accounts
    MaxAttempts,    \* REGISTRATION_MAX_ATTEMPTS
    Lease,          \* REGISTRATION_CLAIM_LEASE_SECONDS, in ticks
    RetryDelay,     \* the delays the retry policy and its jitter can produce
    BatchSize,      \* rows the reconciler claims at once
    MaxTime,        \* bound: the clock stops here
    MaxStall,       \* bound: how old a clock reading can be when it is used
    MaxRedrives,    \* bound: operator redrives per operation
    FaultHorizon    \* bound: crashes and failures happen before this time only

Owner == Handler \cup Reconciler

ASSUME RegistrationAssumption ==
    /\ Request \subseteq [key : Key, email : Email, password : Password]
    /\ None \notin Key \cup Email \cup Password \cup Owner \cup {LegacyId}
    /\ LegacyEmail \subseteq Email
    /\ LegacyId \notin Key
    /\ Handler \cap Reconciler = {}
    /\ MaxAttempts \in Nat \ {0}
    /\ Lease \in Nat \ {0}
    /\ RetryDelay \subseteq Nat \ {0}
    /\ BatchSize \in Nat \ {0}
    /\ {MaxTime, MaxStall, MaxRedrives, FaultHorizon} \subseteq Nat

VARIABLES
    ops,        \* table registration_operations, by key hash
    users,      \* table users, by email
    events,     \* how many UserRegistered rows the outbox holds per user id
    profiles,   \* user ids the User Profile service knows
    handler,    \* the HTTP requests and their last answers
    attempt,    \* attempts in progress, by owner and operation
    now

vars == <<ops, users, events, profiles, handler, attempt, now>>

Status == {"ABSENT", "PENDING", "CLAIMED", "COMPLETED", "BLOCKED"}

RegistrationOperation ==
    [status : Status, email : Email \cup {None}, password : Password \cup {None},
     attempts : Nat, available : Nat, token : Owner \cup {None}, expires : Nat,
     redrives : Nat]

User == [id : Key \cup {LegacyId, None}, password : Password \cup {None}]

\* What an attempt remembers of the row it claimed, and the answer to give
\* once it has blocked the operation.
Attempt ==
    [pc : {"none", "provision", "finalize", "retry", "block"}, attempts : Nat,
     email : Email \cup {None}, password : Password \cup {None},
     answer : {"none", "unavailable", "error"}]

Answer == {"none", "completed", "pending", "unavailable", "conflict", "exists",
           "broken", "error"}

HandlerState ==
    [pc : {"idle", "load", "lookup", "insert", "reload", "claim", "resume"},
     request : Request \cup {None}, answer : Answer]

NoOperation ==
    [status |-> "ABSENT", email |-> None, password |-> None, attempts |-> 0,
     available |-> 0, token |-> None, expires |-> 0, redrives |-> 0]

NoUser == [id |-> None, password |-> None]

\* A legacy account; its password is never looked at by registration.
LegacyUser == [id |-> LegacyId, password |-> None]

NoAttempt ==
    [pc |-> "none", attempts |-> 0, email |-> None, password |-> None,
     answer |-> "none"]

TypeOK ==
    /\ ops \in [Key -> RegistrationOperation]
    /\ users \in [Email -> User]
    /\ events \in [Key -> Nat]
    /\ profiles \subseteq Key
    /\ handler \in [Handler -> HandlerState]
    /\ \A h \in Handler : handler[h].pc # "idle" => handler[h].request \in Request
    /\ attempt \in [Owner -> [Key -> Attempt]]
    /\ now \in Nat

Init ==
    /\ ops = [k \in Key |-> NoOperation]
    /\ users = [e \in Email |-> IF e \in LegacyEmail THEN LegacyUser ELSE NoUser]
    /\ events = [k \in Key |-> 0]
    /\ profiles = {}
    /\ handler = [h \in Handler |->
                    [pc |-> "idle", request |-> None, answer |-> "none"]]
    /\ attempt = [o \in Owner |-> [k \in Key |-> NoAttempt]]
    /\ now = 0

-----------------------------------------------------------------------------
(* The repository: what each statement selects and writes.                 *)

ClockReading == {t \in 0..now : now <= t + MaxStall}

CanFail == now < FaultHorizon

\* Faulty variants: a running claim can be taken over; an expired one cannot.
EligibleWhileClaimed(row, at) ==
    \/ row.status = "PENDING" /\ row.available <= at
    \/ row.status = "CLAIMED"

EligibleOnlyPending(row, at) == row.status = "PENDING" /\ row.available <= at

\* _eligible
Eligible(row, at) ==
    \/ row.status = "PENDING" /\ row.available <= at
    \/ row.status = "CLAIMED" /\ row.expires <= at

\* Faulty variant: no claim token and no lease in the WHERE clause.
OwnedByAnyone(row, o, at) == row.status # "COMPLETED"

\* the WHERE clause that complete, schedule_retry and block share
Owned(row, o, at) ==
    /\ row.status = "CLAIMED"
    /\ row.token = o
    /\ row.expires > at

\* Faulty variant: no unique constraint on email.
CanCreateAnyEmail(k, e) == ops[k].status = "ABSENT"

\* try_create under the unique constraints on key_hash and email
CanCreate(k, e) ==
    /\ ops[k].status = "ABSENT"
    /\ \A other \in Key : ops[other].email # e

\* Faulty variant: the initial claim has no expiry.
CreatedWithoutExpiry(r, o, at) ==
    [NoOperation EXCEPT !.status = "CLAIMED", !.email = r.email,
                        !.password = r.password, !.available = at,
                        !.token = o, !.expires = None]

Created(r, o, at) ==
    [NoOperation EXCEPT !.status = "CLAIMED", !.email = r.email,
                        !.password = r.password, !.available = at,
                        !.token = o, !.expires = at + Lease]

\* _claim
Claimed(row, o, at) ==
    [row EXCEPT !.status = "CLAIMED", !.token = o, !.expires = at + Lease]

\* complete
Completed(row) ==
    [row EXCEPT !.status = "COMPLETED", !.attempts = @ + 1, !.password = None,
                !.token = None, !.expires = 0]

\* schedule_retry
Rescheduled(row, availableAt) ==
    [row EXCEPT !.status = "PENDING", !.attempts = @ + 1, !.token = None,
                !.expires = 0, !.available = availableAt]

\* block
Blocked(row) ==
    [row EXCEPT !.status = "BLOCKED", !.attempts = @ + 1, !.token = None,
                !.expires = 0]

\* redrive_blocked
Redriven(row, at) ==
    [row EXCEPT !.status = "PENDING", !.attempts = 0, !.token = None,
                !.expires = 0, !.available = at, !.redrives = @ + 1]

-----------------------------------------------------------------------------
(* RegisterUserHandler                                                     *)

\* Faulty variant: a resumed attempt takes the profile for granted.
BeginAttemptAtFinalize(row) ==
    [NoAttempt EXCEPT !.pc = "finalize", !.attempts = row.attempts,
                      !.email = row.email, !.password = row.password]

BeginAttempt(row) ==
    [NoAttempt EXCEPT !.pc = "provision", !.attempts = row.attempts,
                      !.email = row.email, !.password = row.password]

Answered(state, answer) == [state EXCEPT !.pc = "idle", !.answer = answer]

\* A client sends a command; the same command may be sent again at any time.
Send(h, r) ==
    /\ handler[h].pc = "idle"
    /\ handler' = [handler EXCEPT ![h] =
                    [pc |-> "load", request |-> r, answer |-> "none"]]
    /\ UNCHANGED <<ops, users, events, profiles, attempt, now>>

\* Faulty variants: any password is accepted; the user is not looked up.
StoredPasswordIgnored(k) == Password

StoredPasswordOfRow(k) == {ops[k].password} \ {None}

\* The password a replayed command is verified against: the operation's own
\* hash, or the user's once completion has scrubbed it.
StoredPassword(k) ==
    IF ops[k].password # None
    THEN {ops[k].password}
    ELSE {users[e].password : e \in {f \in Email : users[f].id = k}}

\* _resume_existing up to the claim
ResumeExisting(state, k) ==
    LET row == ops[k] IN
    IF row.email # state.request.email
    THEN Answered(state, "conflict")
    ELSE IF StoredPassword(k) = {}
    THEN Answered(state, "broken")
    ELSE IF state.request.password \notin StoredPassword(k)
    THEN Answered(state, "conflict")
    ELSE IF row.status = "COMPLETED"
    THEN Answered(state, "completed")
    ELSE IF row.status = "BLOCKED"
    THEN Answered(state, "unavailable")
    ELSE [state EXCEPT !.pc = "claim"]

LoadByKey(h) ==
    LET k == handler[h].request.key IN
    /\ handler[h].pc = "load"
    /\ handler' = [handler EXCEPT ![h] =
                    IF ops[k].status = "ABSENT" THEN [@ EXCEPT !.pc = "lookup"]
                    ELSE ResumeExisting(@, k)]
    /\ UNCHANGED <<ops, users, events, profiles, attempt, now>>

\* users.get_by_email; under READ COMMITTED what it saw may no longer hold
\* when try_create runs, although both are in one transaction.
LookupEmail(h) ==
    /\ handler[h].pc = "lookup"
    /\ handler' = [handler EXCEPT ![h].pc =
                    IF users[handler[h].request.email] = NoUser THEN "insert"
                    ELSE "reload"]
    /\ UNCHANGED <<ops, users, events, profiles, attempt, now>>

TryCreate(h) ==
    LET r == handler[h].request IN
    /\ handler[h].pc = "insert"
    /\ IF CanCreate(r.key, r.email)
       THEN \E at \in ClockReading :
              /\ ops' = [ops EXCEPT ![r.key] = Created(r, h, at)]
              /\ attempt' = [attempt EXCEPT ![h][r.key] =
                               BeginAttempt(Created(r, h, at))]
              /\ handler' = [handler EXCEPT ![h].pc = "resume"]
       ELSE /\ handler' = [handler EXCEPT ![h].pc = "reload"]
            /\ UNCHANGED <<ops, attempt>>
    /\ UNCHANGED <<users, events, profiles, now>>

\* Faulty variant: a lost insert race is always reported as a taken email.
ReloadSkipped(h) ==
    /\ handler[h].pc = "reload"
    /\ handler' = [handler EXCEPT ![h] = Answered(@, "exists")]
    /\ UNCHANGED <<ops, users, events, profiles, attempt, now>>

ReloadByKey(h) ==
    LET k == handler[h].request.key IN
    /\ handler[h].pc = "reload"
    /\ handler' = [handler EXCEPT ![h] =
                    IF ops[k].status = "ABSENT" THEN Answered(@, "exists")
                    ELSE ResumeExisting(@, k)]
    /\ UNCHANGED <<ops, users, events, profiles, attempt, now>>

ClaimByKey(h) ==
    LET k == handler[h].request.key IN
    /\ handler[h].pc = "claim"
    /\ \E at \in ClockReading :
         IF Eligible(ops[k], at)
         THEN /\ ops' = [ops EXCEPT ![k] = Claimed(ops[k], h, at)]
              /\ attempt' = [attempt EXCEPT ![h][k] = BeginAttempt(ops[k])]
              /\ handler' = [handler EXCEPT ![h].pc = "resume"]
         ELSE /\ handler' = [handler EXCEPT ![h] = Answered(@, "pending")]
              /\ UNCHANGED <<ops, attempt>>
    /\ UNCHANGED <<users, events, profiles, now>>

-----------------------------------------------------------------------------
(* RegistrationReconciler.run_once                                         *)

\* Rows another transaction may hold locked at this instant (SKIP LOCKED).
Lockable ==
    {k \in Key :
        \/ \E h \in Handler : handler[h].pc = "claim" /\ handler[h].request.key = k
        \/ \E o \in Owner : attempt[o][k].pc \in {"finalize", "retry", "block"}}

\* claim_batch: the BatchSize first of the candidates, oldest first.
IsBatch(B, candidates) ==
    /\ B \subseteq candidates
    /\ B # {}
    /\ Cardinality(B) <= BatchSize
    /\ B # candidates => Cardinality(B) = BatchSize
    /\ \A b \in B, c \in candidates \ B : ops[b].available <= ops[c].available

RunOnce(r) ==
    /\ \A k \in Key : attempt[r][k].pc = "none"
    /\ \E at \in ClockReading, locked \in SUBSET Lockable, B \in SUBSET Key :
         /\ IsBatch(B, {k \in Key \ locked : Eligible(ops[k], at)})
         /\ ops' = [k \in Key |-> IF k \in B THEN Claimed(ops[k], r, at) ELSE ops[k]]
         /\ attempt' = [attempt EXCEPT ![r] =
                         [k \in Key |-> IF k \in B THEN BeginAttempt(ops[k])
                                        ELSE NoAttempt]]
    /\ UNCHANGED <<users, events, profiles, handler, now>>

-----------------------------------------------------------------------------
(* ResumeRegistrationHandler.execute, for owner o of operation k           *)

Finish(o, k, answer) ==
    /\ attempt' = [attempt EXCEPT ![o][k] = NoAttempt]
    /\ handler' = IF o \in Handler
                  THEN [handler EXCEPT ![o] = Answered(@, answer)]
                  ELSE handler

GoTo(o, k, step) ==
    /\ attempt' = [attempt EXCEPT ![o][k] = step]
    /\ UNCHANGED handler

Blocking(a, answer) == [a EXCEPT !.pc = "block", !.answer = answer]

\* Faulty variant: one attempt too many.
RetryOrBlockLate(a) ==
    IF a.attempts + 1 > MaxAttempts THEN Blocking(a, "unavailable")
    ELSE [a EXCEPT !.pc = "retry"]

\* _retry_or_block up to the transaction
RetryOrBlock(a) ==
    IF a.attempts + 1 >= MaxAttempts THEN Blocking(a, "unavailable")
    ELSE [a EXCEPT !.pc = "retry"]

\* create_profile returned
Provisioned(o, k) ==
    /\ attempt[o][k].pc = "provision"
    /\ profiles' = profiles \cup {k}
    /\ GoTo(o, k, [attempt[o][k] EXCEPT !.pc = "finalize"])
    /\ UNCHANGED <<ops, users, events, now>>

\* create_profile raised Unavailable: the profile may exist all the same.
ProvisionUnavailable(o, k) ==
    /\ attempt[o][k].pc = "provision"
    /\ CanFail
    /\ profiles' \in {profiles, profiles \cup {k}}
    /\ GoTo(o, k, RetryOrBlock(attempt[o][k]))
    /\ UNCHANGED <<ops, users, events, now>>

\* create_profile raised Rejected, or an exception nobody expected; the first
\* of its two calls may have created the profile all the same.
ProvisionRejected(o, k) ==
    /\ attempt[o][k].pc = "provision"
    /\ CanFail
    /\ profiles' \in {profiles, profiles \cup {k}}
    /\ \E answer \in {"unavailable", "error"} :
         GoTo(o, k, Blocking(attempt[o][k], answer))
    /\ UNCHANGED <<ops, users, events, now>>

\* Faulty variant: the event is not written in the transaction.
CommitFinalizeWithoutEvent(a, k) ==
    /\ ops' = [ops EXCEPT ![k] = Completed(ops[k])]
    /\ users' = [users EXCEPT ![a.email] = [id |-> k, password |-> a.password]]
    /\ UNCHANGED events

\* The writes of the _finalize transaction, visible together.
CommitFinalize(a, k) ==
    /\ ops' = [ops EXCEPT ![k] = Completed(ops[k])]
    /\ users' = [users EXCEPT ![a.email] = [id |-> k, password |-> a.password]]
    /\ events' = [events EXCEPT ![k] = @ + 1]

Finalize(o, k) ==
    LET a == attempt[o][k] IN
    /\ a.pc = "finalize"
    /\ \E at \in ClockReading :
         IF ~Owned(ops[k], o, at)                     \* _LostRegistrationClaim
         THEN Finish(o, k, "pending") /\ UNCHANGED <<ops, users, events>>
         ELSE IF users[a.email] = NoUser
         THEN Finish(o, k, "completed") /\ CommitFinalize(a, k)
         ELSE /\ GoTo(o, k, Blocking(a, "unavailable"))  \* finalization conflict
              /\ UNCHANGED <<ops, users, events>>
    /\ UNCHANGED <<profiles, now>>

\* PersistenceUnavailable or TransactionConflict: whether the transaction
\* committed is unknown.
FinalizeUncertain(o, k) ==
    LET a == attempt[o][k] IN
    /\ a.pc = "finalize"
    /\ CanFail
    /\ \/ UNCHANGED <<ops, users, events>>
       \/ /\ \E at \in ClockReading : Owned(ops[k], o, at)
          /\ users[a.email] = NoUser
          /\ CommitFinalize(a, k)
    /\ GoTo(o, k, RetryOrBlock(a))
    /\ UNCHANGED <<profiles, now>>

\* Any other exception out of _finalize, which has rolled back.
FinalizeError(o, k) ==
    /\ attempt[o][k].pc = "finalize"
    /\ CanFail
    /\ GoTo(o, k, Blocking(attempt[o][k], "error"))
    /\ UNCHANGED <<ops, users, events, profiles, now>>

\* The answer of an attempt whose last transaction may commit and still raise.
Outcome(answer) == {answer} \cup IF CanFail THEN {"error"} ELSE {}

\* A claim that was lost in the meantime changes nothing, silently.
ScheduleRetry(o, k) ==
    /\ attempt[o][k].pc = "retry"
    /\ \E at \in ClockReading, delay \in RetryDelay :
         ops' = IF Owned(ops[k], o, at)
                THEN [ops EXCEPT ![k] = Rescheduled(ops[k], at + delay)]
                ELSE ops
    /\ \E answer \in Outcome("pending") : Finish(o, k, answer)
    /\ UNCHANGED <<users, events, profiles, now>>

BlockOperation(o, k) ==
    /\ attempt[o][k].pc = "block"
    /\ \E at \in ClockReading :
         ops' = IF Owned(ops[k], o, at)
                THEN [ops EXCEPT ![k] = Blocked(ops[k])]
                ELSE ops
    /\ \E answer \in Outcome(attempt[o][k].answer) : Finish(o, k, answer)
    /\ UNCHANGED <<users, events, profiles, now>>

\* The transaction of schedule_retry or block raised and rolled back: the
\* attempt ends with that exception and leaves the claim to expire.
AttemptRaises(o, k) ==
    /\ attempt[o][k].pc \in {"retry", "block"}
    /\ CanFail
    /\ Finish(o, k, "error")
    /\ UNCHANGED <<ops, users, events, profiles, now>>

-----------------------------------------------------------------------------
(* Operator, failures, time                                                *)

\* Faulty variant: redrive does not look at the status.
RedriveAny(k) ==
    /\ ops[k].status # "ABSENT"
    /\ ops[k].redrives < MaxRedrives
    /\ \E at \in ClockReading : ops' = [ops EXCEPT ![k] = Redriven(ops[k], at)]
    /\ UNCHANGED <<users, events, profiles, handler, attempt, now>>

Redrive(k) ==
    /\ ops[k].status = "BLOCKED"
    /\ ops[k].redrives < MaxRedrives
    /\ \E at \in ClockReading : ops' = [ops EXCEPT ![k] = Redriven(ops[k], at)]
    /\ UNCHANGED <<users, events, profiles, handler, attempt, now>>

\* A process dies, or a request ends with an exception of one of its own
\* transactions; everything it held in memory is gone.
Crash(o) ==
    /\ CanFail
    /\ \/ o \in Handler /\ handler[o].pc # "idle"
       \/ \E k \in Key : attempt[o][k].pc # "none"
    /\ attempt' = [attempt EXCEPT ![o] = [k \in Key |-> NoAttempt]]
    /\ handler' = IF o \in Handler
                  THEN [handler EXCEPT ![o] = Answered(@, "error")]
                  ELSE handler
    /\ UNCHANGED <<ops, users, events, profiles, now>>

Tick ==
    /\ now < MaxTime
    /\ now' = now + 1
    /\ UNCHANGED <<ops, users, events, profiles, handler, attempt>>

Register(h) ==
    LoadByKey(h) \/ LookupEmail(h) \/ TryCreate(h) \/ ReloadByKey(h) \/ ClaimByKey(h)

Resume(o, k) ==
    \/ Provisioned(o, k) \/ Finalize(o, k)
    \/ ScheduleRetry(o, k) \/ BlockOperation(o, k)

Failure(o, k) ==
    \/ ProvisionUnavailable(o, k) \/ ProvisionRejected(o, k)
    \/ FinalizeUncertain(o, k) \/ FinalizeError(o, k) \/ AttemptRaises(o, k)

Next ==
    \/ \E h \in Handler, r \in Request : Send(h, r)
    \/ \E h \in Handler : Register(h)
    \/ \E r \in Reconciler : RunOnce(r)
    \/ \E o \in Owner, k \in Key : Resume(o, k) \/ Failure(o, k)
    \/ \E k \in Key : Redrive(k)
    \/ \E o \in Owner : Crash(o)
    \/ Tick

Spec == Init /\ [][Next]_vars

\* A request or attempt that is running is scheduled until it answers; the
\* reconciler polls forever; time passes.  Clients, operators and failures
\* owe nothing.
FairSpec ==
    /\ Spec
    /\ \A h \in Handler : WF_vars(Register(h))
    /\ \A o \in Owner, k \in Key : WF_vars(Resume(o, k) \/ Failure(o, k))
    /\ \A r \in Reconciler : WF_vars(RunOnce(r))
    /\ WF_vars(Tick)
-----------------------------------------------------------------------------
(* Properties                                                              *)

Open(k) == ops[k].status \in {"PENDING", "CLAIMED"}

\* _finalize is all or nothing and happens once: an operation is COMPLETED
\* exactly when its user row exists under its email, and exactly then the
\* outbox holds one UserRegistered row for it, never two.
CompletionIsAtomic ==
    \A k \in Key :
        /\ events[k] = IF ops[k].status = "COMPLETED" THEN 1 ELSE 0
        /\ ops[k].status = "COMPLETED" => users[ops[k].email].id = k
        /\ \A e \in Email : users[e].id = k =>
             ops[k].status = "COMPLETED" /\ ops[k].email = e

\* create_profile succeeds before _finalize, whichever owner runs either:
\* no user that registration created lacks a profile.
ProfilePrecedesUser ==
    \A e \in Email : users[e].id \in Key => users[e].id \in profiles

\* The unique email of an operation is never taken by another operation or by
\* another operation's user, so create_if_absent in _finalize never finds it
\* taken (_RegistrationFinalizationConflict).
EmailReserved ==
    \A k \in Key : ops[k].status # "ABSENT" =>
        /\ \A other \in Key \ {k} : ops[other].email # ops[k].email
        /\ ops[k].status # "COMPLETED" => users[ops[k].email] = NoUser

\* RegistrationOperation.validate_lifecycle and the table's check constraint:
\* a row has a claim exactly while CLAIMED, a password exactly until it is
\* COMPLETED, and always an email.
LifecycleValid ==
    \A k \in Key :
        /\ ops[k].status = "CLAIMED" <=> ops[k].token # None
        /\ ops[k].password = None <=> ops[k].status \in {"ABSENT", "COMPLETED"}
        /\ ops[k].email = None <=> ops[k].status = "ABSENT"

\* _retry_or_block decides on the attempts of the row it claimed, not of the
\* row it updates; still an open operation always has an attempt left, and no
\* operation ever counts more than MaxAttempts.
AttemptsWithinBudget ==
    \A k \in Key :
        /\ ops[k].attempts <= MaxAttempts
        /\ Open(k) => ops[k].attempts < MaxAttempts

\* A COMPLETED answer, fresh or replayed by _resume_existing, is only given to
\* a command whose own email and password are those of the registered user.
CompletedAnswerIsTrue ==
    \A h \in Handler : handler[h].answer = "completed" =>
        LET r == handler[h].request IN
        users[r.email] = [id |-> r.key, password |-> r.password]

\* _resume_existing never meets "completed registration has no user".
ReplayFindsUser == \A h \in Handler : handler[h].answer # "broken"

\* The email of a command belongs for good to someone else.
EmailTaken(r) ==
    \/ r.email \in LegacyEmail
    \/ \E k \in Key \ {r.key} : ops[k].email = r.email

\* UserAlreadyExistsError is only raised when the email of the command belongs
\* for good to a legacy account or to another key's operation.
ExistsAnswerIsTrue ==
    \A h \in Handler : handler[h].answer = "exists" => EmailTaken(handler[h].request)

\* What makes the properties above inductive: an attempt remembers the email of
\* its operation, and as long as the row still carries its token, also the
\* row's attempts and password; it finalizes only after the profile exists and
\* retries only with an attempt left.
SnapshotsValid ==
    \A o \in Owner, k \in Key :
        LET a == attempt[o][k] IN a.pc # "none" =>
            /\ ops[k].status # "ABSENT"
            /\ a.email = ops[k].email
            /\ ops[k].token = o =>
                 a.attempts = ops[k].attempts /\ a.password = ops[k].password
            /\ a.pc = "finalize" => k \in profiles
            /\ a.pc = "retry" => a.attempts + 1 < MaxAttempts

RegistrationInv ==
    /\ LifecycleValid
    /\ SnapshotsValid
    /\ CompletionIsAtomic
    /\ ProfilePrecedesUser
    /\ EmailReserved
    /\ AttemptsWithinBudget

\* The lookup that precedes an insert stays good enough: legacy accounts never
\* change and every other account is the user of an operation, so a later
\* account on that email makes try_create conflict.
AccountsHaveOperations ==
    \A e \in Email : IF e \in LegacyEmail THEN users[e] = LegacyUser
                     ELSE users[e] = NoUser \/ users[e].id \in Key

InsertsAreClean ==
    \A h \in Handler :
        handler[h].pc = "insert" => handler[h].request.email \notin LegacyEmail

LookupsStayValid == AccountsHaveOperations /\ InsertsAreClean

\* What makes the answers true: a request that goes on to claim has the email
\* of its operation and, until completion scrubs it, the password too; one that
\* looks again has lost its key or its email; an attempt of a request works for
\* that request alone, on what the request itself said.
RequestsAreVerified ==
    \A h \in Handler :
        LET r == handler[h].request IN
        /\ handler[h].pc = "claim" =>
             /\ ops[r.key].status # "ABSENT"
             /\ ops[r.key].email = r.email
             /\ ops[r.key].password \in {None, r.password}
        /\ handler[h].pc = "reload" => ops[r.key].status # "ABSENT" \/ EmailTaken(r)
        /\ handler[h].answer \in {"completed", "exists"} => r \in Request

AttemptsAreOfRequests ==
    \A h \in Handler, k \in Key :
        LET r == handler[h].request IN attempt[h][k].pc # "none" =>
            /\ handler[h].pc = "resume"
            /\ r.key = k
            /\ attempt[h][k].email = r.email
            /\ attempt[h][k].password = r.password

AnswersInv ==
    /\ RequestsAreVerified
    /\ AttemptsAreOfRequests
    /\ CompletedAnswerIsTrue
    /\ ReplayFindsUser
    /\ ExistsAnswerIsTrue

\* The claim protocol: while a lease runs, only the attempt that took it may
\* change the operation.
LiveClaimIsExclusive ==
    [][\A k \in Key :
          ops[k].status = "CLAIMED" /\ ops[k].expires > now /\ ops'[k] # ops[k]
            => /\ attempt[ops[k].token][k].pc # "none"
               /\ attempt'[ops[k].token][k] # attempt[ops[k].token][k]]_vars

\* Completion is final: late retries, blocks, claims and redrives leave the
\* operation, its user and its event as they are.
CompletedIsFinal ==
    [][\A k \in Key : ops[k].status = "COMPLETED" =>
          /\ ops'[k] = ops[k]
          /\ events'[k] = events[k]
          /\ users'[ops[k].email] = users[ops[k].email]]_vars

\* Once failures have stopped, the leases and the reconciler bring every
\* operation to COMPLETED or BLOCKED, whoever died holding it.
EveryOperationSettles ==
    \A k \in Key : Open(k) ~> ops[k].status \in {"COMPLETED", "BLOCKED"}

\* README.md on POST /register: 202 means that there is no registered Identity
\* user yet.  Stated of the moment the PENDING answer is given.
PendingMeansNoUserYet ==
    [][\A h \in Handler :
          handler[h].answer # "pending" /\ handler'[h].answer = "pending"
            => users'[handler[h].request.email] = NoUser]_vars
=============================================================================
