---------------------------- MODULE MCSourceTasks ----------------------------
(* Instances of the source tasks for TLC. *)
EXTENDS SourceTasks

Breaks == {"disconnect"}

=============================================================================
