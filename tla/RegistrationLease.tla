-------------------------- MODULE RegistrationLease --------------------------
(***************************************************************************)
(* Registration attempts composed with the time create_profile takes.      *)
(* Module Registration lets an attempt last as long as it likes, so that   *)
(* claims are lost while their owners work.  Here create_profile keeps the *)
(* promise of module ProvisioningPromise with the window ProfileProvisioner*)
(* implements, transactions take no time, and the settings have been       *)
(* accepted at start-up: the question is whether the lease they demand is  *)
(* long enough.                                                            *)
(***************************************************************************)
EXTENDS Registration

CONSTANTS
    Timeout,        \* PROFILE_SERVICE_TIMEOUT_SECONDS, in ticks
    MaxRetryDelay,  \* PROFILE_SERVICE_RETRY_MAX_DELAY_SECONDS
    Operations      \* bound: operations of the HTTP client in one PUT, each timed

\* maximum_profile_attempt_seconds
MaximumProfileAttempt == 2 * Timeout + MaxRetryDelay

\* Settings are positive (profile_service.py), and the lease exceeds the maximum.
SettingsAccepted ==
    /\ Timeout \in Nat \ {0}
    /\ MaxRetryDelay \in Nat \ {0}
    /\ MaximumProfileAttempt < Lease

VARIABLE began      \* when the attempt of each owner at each operation began, or None

leaseVars == <<vars, began>>

\* The longest create_profile: two PUTs and the pause in between.  The timeout
\* holds for every operation of the HTTP client and not for the PUT they make up.
Window == 2 * Operations * Timeout + MaxRetryDelay

Promise == INSTANCE ProvisioningPromise WITH
    Caller <- Owner \X Key,
    UserOf <- [c \in Owner \X Key |-> c[2]],
    began <- [c \in Owner \X Key |->
                IF attempt[c[1]][c[2]].pc = "provision" THEN began[c] ELSE None],
    succeeded <- {c \in Owner \X Key : attempt[c[1]][c[2]].pc = "finalize"},
    known <- profiles

\* Nothing runs unless the settings were accepted.
LeaseInit ==
    /\ SettingsAccepted
    /\ MaxStall = 0
    /\ Init
    /\ began = [c \in Owner \X Key |-> None]

\* Every attempt begins with create_profile.
Track ==
    began' = [c \in Owner \X Key |->
                IF attempt'[c[1]][c[2]].pc = "none" THEN None
                ELSE IF attempt[c[1]][c[2]].pc # "none" THEN began[c]
                ELSE now]

NoTransaction ==
    \A o \in Owner, k \in Key : attempt[o][k].pc \in {"none", "provision"}

LeaseTick ==
    /\ Tick
    /\ NoTransaction
    /\ UNCHANGED began
    /\ Promise!PromiseTick

LeaseStep ==
    \/ \E h \in Handler, r \in Request : Send(h, r)
    \/ \E h \in Handler : Register(h)
    \/ \E r \in Reconciler : RunOnce(r)
    \/ \E o \in Owner, k \in Key : Resume(o, k) \/ Failure(o, k)
    \/ \E k \in Key : Redrive(k)
    \/ \E o \in Owner : Crash(o)

LeaseNext ==
    \/ LeaseStep /\ Track
    \/ LeaseTick

LeaseSpec == LeaseInit /\ [][LeaseNext]_leaseVars
-----------------------------------------------------------------------------
(* Properties                                                              *)

\* Settings.validate_security_contract: "REGISTRATION_CLAIM_LEASE_SECONDS must
\* exceed the maximum bounded Profile attempt window".  Then an attempt that is
\* not held up would hold its claim from the first PUT to its last transaction,
\* whoever polls meanwhile, and no two owners would ever provision or finalize
\* one operation at a time; the one exception is the attempt that does not know
\* that its own commit succeeded.
PunctualOwnerKeepsClaim ==
    \A o \in Owner, k \in Key : attempt[o][k].pc # "none" =>
        \/ Owned(ops[k], o, now)
        \/ /\ ops[k].status = "COMPLETED"
           /\ attempt[o][k].pc \in {"retry", "block"}
           /\ \A other \in Owner \ {o} : attempt[other][k].pc = "none"

\* What the accepted settings do give: an attempt that has lasted no longer than
\* maximum_profile_attempt_seconds holds its claim, or has committed without
\* learning of it.  A claim is lost by an overrun and in no other way, whatever
\* the requests, the reconcilers and the operator do meanwhile.
ClaimLostOnlyByOverrun ==
    \A o \in Owner, k \in Key :
        /\ attempt[o][k].pc # "none"
        /\ now <= began[<<o, k>>] + MaximumProfileAttempt
        => \/ Owned(ops[k], o, now)
           \/ ops[k].status = "COMPLETED" /\ attempt[o][k].pc \in {"retry", "block"}
=============================================================================
