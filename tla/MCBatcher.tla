------------------------------ MODULE MCBatcher ------------------------------
(* Instances of the batcher for TLC. *)
EXTENDS BatcherRounds, TLC

AllFaults == FaultKinds
AnsweredFaults == {"add"}
HangupFaults == {"hangup"}

InterchangeableCallers == Permutations(Callers)

=============================================================================
