-------------------------- MODULE MCBatcherHistory --------------------------
(* Instances of the batcher with its history variables for TLC. *)
EXTENDS BatcherHistory

NoFaults == {}

=============================================================================
