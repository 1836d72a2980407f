------------------------- MODULE ProvisioningPromise -------------------------
(***************************************************************************)
(* What ProfileProvisionerProtocol.create_profile promises its callers,    *)
(* without circuit, retries or pauses: a call ends within Window; when it  *)
(* reports success the profile exists; a profile comes into being only     *)
(* while a call for its user is under way, also one that then fails.       *)
(***************************************************************************)
EXTENDS Naturals

CONSTANTS
    Caller,
    UserOf,     \* the user each caller provisions
    Window,     \* the longest call, in ticks
    None

VARIABLES
    began,      \* when each caller's call began; None when it has none
    succeeded,  \* the callers whose last call reported success
    known,      \* users whose profile exists
    now

promiseVars == <<began, succeeded, known, now>>

Underway == {c \in Caller : began[c] # None}

PromiseInit ==
    /\ began = [c \in Caller |-> None]
    /\ succeeded = {}
    /\ known = {}
    /\ now = 0

\* A call that is not even sent may begin and fail at one instant.
BeginCall(c) ==
    /\ c \notin Underway
    /\ began' \in {began, [began EXCEPT ![c] = now]}
    /\ succeeded' = succeeded \ {c}
    /\ UNCHANGED <<known, now>>

\* The profile service takes a request in.
Reach(c) ==
    /\ c \in Underway
    /\ known' = known \cup {UserOf[c]}
    /\ UNCHANGED <<began, succeeded, now>>

EndCall(c) ==
    /\ c \in Underway
    /\ began' = [began EXCEPT ![c] = None]
    /\ known' \in {known, known \cup {UserOf[c]}}
    /\ succeeded' \in {succeeded} \cup IF UserOf[c] \in known' THEN {succeeded \cup {c}} ELSE {}
    /\ UNCHANGED now

\* No call outlives its window.
Within == \A c \in Underway : now < began[c] + Window

PromiseTick ==
    /\ Within
    /\ now' = now + 1
    /\ UNCHANGED <<began, succeeded, known>>

PromiseNext ==
    \/ \E c \in Caller : BeginCall(c) \/ Reach(c) \/ EndCall(c)
    \/ PromiseTick

PromiseSpec == PromiseInit /\ [][PromiseNext]_promiseVars
=============================================================================
