------------------------ MODULE RegistrationService -------------------------
(***************************************************************************)
(* What registration promises, without leases, attempts, retries, crashes  *)
(* or the profile service: a command is accepted under a fresh key and a   *)
(* free email, and an accepted registration becomes, in one step, an       *)
(* account that is announced once.  It may be blocked and redriven         *)
(* in between.                                                             *)
(***************************************************************************)
EXTENDS Naturals

CONSTANTS Key, Email, None, LegacyEmail, LegacyId

VARIABLES
    phase,      \* "none", "open", "blocked" or "done" for each key
    reserved,   \* the email each key has reserved
    account,    \* the id of the account each email has
    announced   \* announcements per key

svcVars == <<phase, reserved, account, announced>>

SvcInit ==
    /\ phase = [k \in Key |-> "none"]
    /\ reserved = [k \in Key |-> None]
    /\ account = [e \in Email |-> IF e \in LegacyEmail THEN LegacyId ELSE None]
    /\ announced = [k \in Key |-> 0]

Accept(k, e) ==
    /\ phase[k] = "none"
    /\ account[e] = None
    /\ \A other \in Key : reserved[other] # e
    /\ phase' = [phase EXCEPT ![k] = "open"]
    /\ reserved' = [reserved EXCEPT ![k] = e]
    /\ UNCHANGED <<account, announced>>

Complete(k) ==
    /\ phase[k] = "open"
    /\ account[reserved[k]] = None
    /\ phase' = [phase EXCEPT ![k] = "done"]
    /\ account' = [account EXCEPT ![reserved[k]] = k]
    /\ announced' = [announced EXCEPT ![k] = @ + 1]
    /\ UNCHANGED reserved

Block(k) ==
    /\ phase[k] = "open"
    /\ phase' = [phase EXCEPT ![k] = "blocked"]
    /\ UNCHANGED <<reserved, account, announced>>

Reopen(k) ==
    /\ phase[k] = "blocked"
    /\ phase' = [phase EXCEPT ![k] = "open"]
    /\ UNCHANGED <<reserved, account, announced>>

SvcNext ==
    \E k \in Key :
        \/ \E e \in Email : Accept(k, e)
        \/ Complete(k) \/ Block(k) \/ Reopen(k)

SvcSpec == SvcInit /\ [][SvcNext]_svcVars
=============================================================================
