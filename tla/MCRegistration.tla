--------------------------- MODULE MCRegistration ---------------------------
(* Small instances of Registration.                                        *)
EXTENDS RegistrationRefinement, TLC

CONSTANTS k1, k2, e1, e2, p1, p2

Command(k, e, p) == [key |-> k, email |-> e, password |-> p]

\* A retried command, the same key with another password, another key for the
\* same email, and that key for the email of a legacy account.
ConflictingRequests ==
    {Command(k1, e1, p1), Command(k1, e1, p2), Command(k2, e1, p1),
     Command(k2, e2, p1)}

OneRequest == {Command(k1, e1, p1)}

Delays == {1}

HandlerSymmetry == Permutations(Handler)
=============================================================================
