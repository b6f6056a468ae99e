-------------------------- MODULE MCMediaReconciler --------------------------
(* Small instances of MediaReconciler for TLC.                             *)
EXTENDS MediaReconciler

(* A camera that records with both streams, one that only stopped recording *)
(* and one its owner disabled.                                             *)
Full  == [enabled |-> TRUE,  sub |-> TRUE,  record |-> TRUE]
Quiet == [enabled |-> TRUE,  sub |-> TRUE,  record |-> FALSE]
Off   == [enabled |-> FALSE, sub |-> FALSE, record |-> FALSE]

ThreeReports == {Full, Quiet, Off}
OneReport    == {Full}

AllFaults  == FaultKinds
StuckOrRejected == {"timeout", "drift", "reject"}
MissedOnly == {"crash", "stall", "reject", "timeout", "database"}
=============================================================================
