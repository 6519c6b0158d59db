------------------------- MODULE ClientsAndFailures -------------------------
(* The client ids that batchers are created for, and the failures of what  *)
(* surrounds the checkpointer, those its code has a branch for.            *)
CONSTANTS
  Clients,   \* client ids
  Faults     \* the failures the environment may inject

(* "add", "get"     a statement or transaction of the store fails          *)
(* "crash"          the checkpointer process dies and is started again     *)
(* "hangup"         an HTTP client goes away while its request is waiting  *)
(* "disconnect"     the feed connection of an event source breaks          *)
FaultKinds == {"add", "get", "crash", "hangup", "disconnect"}

ASSUME FaultsAssumption == Faults \subseteq FaultKinds

=============================================================================
