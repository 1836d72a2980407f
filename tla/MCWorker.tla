------------------------------ MODULE MCWorker ------------------------------
(* Small instances of Worker.                                              *)
EXTENDS Worker

AllKinds == {"relay", "reconciler", "redrive"}

RelayOnly == {"relay"}
=============================================================================
