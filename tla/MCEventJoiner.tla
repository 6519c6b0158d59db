---------------------------- MODULE MCEventJoiner ----------------------------
(* Instances of the event joiner for TLC. *)
EXTENDS EventJoinerProperties

WorkingStore == {"crash", "hangup", "disconnect"}
AnyRunFault == RunFaultKinds

=============================================================================
