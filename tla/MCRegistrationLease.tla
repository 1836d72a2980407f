------------------------- MODULE MCRegistrationLease -------------------------
(* Small instances of RegistrationLease.                                   *)
EXTENDS RegistrationLease, TLC

CONSTANTS k1, k2, e1, e2, p1

\* Two independent registrations, which the reconciler claims as one batch.
TwoRequests ==
    {[key |-> k1, email |-> e1, password |-> p1],
     [key |-> k2, email |-> e2, password |-> p1]}

Delays == {1}

\* exchanges the two registrations
Exchange == {k1 :> k2 @@ k2 :> k1 @@ e1 :> e2 @@ e2 :> e1}
=============================================================================
