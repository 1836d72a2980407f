---------------------------- MODULE Announcement ----------------------------
(***************************************************************************)
(* From a registration to the topic: RegistrationService, which module     *)
(* Registration is proved to implement, composed with the outbox and its   *)
(* relays.  The two meet in one place only, the transaction of _finalize,  *)
(* which turns the operation into a user and publishes UserRegisteredEvent *)
(* to the outbox.  The event's partition key is the user id, so every      *)
(* message has a key of its own.                                           *)
(***************************************************************************)
EXTENDS Outbox

CONSTANTS Key, Email, LegacyEmail, LegacyId,
    MessageOf       \* the id of the UserRegisteredEvent of each operation

ASSUME AnnouncementAssumption ==
    /\ MessageOf \in [Key -> Message]
    /\ \A k, l \in Key : k # l => KeyOf[MessageOf[k]] # KeyOf[MessageOf[l]]
    /\ None \notin Key

VARIABLES phase, reserved, account, announced

Service == INSTANCE RegistrationService

svcVars == <<phase, reserved, account, announced>>

announcementVars == <<vars, svcVars>>

AnnouncementInit == Init /\ Service!SvcInit

\* Faulty variants: the event is published before the transaction that creates
\* the user; it is not published at all.
FinalizePublishingFirst(k) ==
    \/ phase[k] = "open" /\ Publish(MessageOf[k]) /\ UNCHANGED svcVars
    \/ rows[MessageOf[k]].status # "ABSENT" /\ Service!Complete(k) /\ UNCHANGED vars

FinalizeWithoutEvent(k) == Service!Complete(k) /\ UNCHANGED vars

\* The transaction of _finalize
FinalizeRegistration(k) == Service!Complete(k) /\ Publish(MessageOf[k])

\* What else becomes of an operation
Operate(k) ==
    /\ \/ \E e \in Email : Service!Accept(k, e)
       \/ Service!Block(k)
       \/ Service!Reopen(k)
    /\ UNCHANGED vars

\* Relays, operator and cleanup
Relaying ==
    /\ \/ \E m \in Message : BeginRedrive(m) \/ RedriveQuarantined(m) \/ DeleteTerminal(m)
       \/ \E r \in Relay : RunOnce(r)
       \/ \E r \in Relay, m \in Message : Process(r, m)
       \/ Tick
    /\ UNCHANGED svcVars

AnnouncementNext ==
    \/ \E k \in Key : FinalizeRegistration(k) \/ Operate(k)
    \/ Relaying

AnnouncementSpec == AnnouncementInit /\ [][AnnouncementNext]_announcementVars

\* The fairness of the relays, as in Outbox; registration owes nothing here.
AnnouncementFairSpec ==
    /\ AnnouncementSpec
    /\ \A r \in Relay : WF_announcementVars(RunOnce(r) /\ UNCHANGED svcVars)
    /\ \A r \in Relay, m \in Message :
         WF_announcementVars(Process(r, m) /\ UNCHANGED svcVars)
    /\ WF_announcementVars(Tick /\ UNCHANGED svcVars)
-----------------------------------------------------------------------------
(* Properties                                                              *)

\* Consumers of UserRegistered can rely on the account: an event is in the topic
\* only once the transaction that created its user has committed, whatever
\* relays repeat, lose or redrive.
AnnouncedAccountsExist ==
    \A k \in Key : MessageOf[k] \in delivered =>
        phase[k] = "done" /\ \E e \in Email : account[e] = k

\* Once failures have stopped, every completed registration reaches the topic or
\* its message quarantine, from which only an operator or the retention removes
\* it: the event is as durable as the user.
EveryAccountIsAnnounced ==
    \A k \in Key : phase[k] = "done" ~>
        \/ MessageOf[k] \in delivered
        \/ rows[MessageOf[k]].status \in {"QUARANTINED", "DELETED"}
=============================================================================
