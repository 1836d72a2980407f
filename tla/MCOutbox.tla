------------------------------ MODULE MCOutbox ------------------------------
(* Small instances of Outbox.                                              *)
EXTENDS Outbox

\* Two messages of one key.
TwoMessages == 1..2
OneKey == <<"a", "a">>

Delays == {1}
=============================================================================
