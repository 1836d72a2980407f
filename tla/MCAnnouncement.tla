--------------------------- MODULE MCAnnouncement ---------------------------
(* Small instances of Announcement.                                        *)
EXTENDS Announcement, TLC

CONSTANTS k1, k2

TwoMessages == 1..2
OwnKeys == <<"u1", "u2">>
TwoEvents == k1 :> 1 @@ k2 :> 2

Delays == {1}
=============================================================================
