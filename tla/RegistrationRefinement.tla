----------------------- MODULE RegistrationRefinement -----------------------
(* Registration implements RegistrationService.                            *)
EXTENDS Registration

PhaseOf(status) ==
    CASE status = "ABSENT" -> "none"
      [] status \in {"PENDING", "CLAIMED"} -> "open"
      [] status = "BLOCKED" -> "blocked"
      [] status = "COMPLETED" -> "done"

Service == INSTANCE RegistrationService WITH
    phase <- [k \in Key |-> PhaseOf(ops[k].status)],
    reserved <- [k \in Key |-> ops[k].email],
    account <- [e \in Email |-> users[e].id],
    announced <- events

\* Whatever owners, retries, lost claims, crashes and redrives do, what clients
\* and other services can observe of registration is a behaviour of
\* RegistrationService: the completing step alone creates the account and its
\* announcement, and only for an open operation whose email is free.
ImplementsService == Service!SvcSpec
=============================================================================
