--------------------------- MODULE BatcherHistory ---------------------------
(***************************************************************************)
(* The batcher with two history variables, for what the repository says a  *)
(* client may rely on and the code does not deliver.                       *)
(***************************************************************************)
EXTENDS BatcherProperties

VARIABLES
  due,          \* due[c]: the messages emitted while c had a batcher, that is
                \* after a POST /batch for c was answered with Ok
  checkpointed  \* checkpointed[c]: the events that were ever in a row of c

historyVars == <<vars, due, checkpointed>>

HistoryInit ==
  /\ Init
  /\ due = [c \in Clients |-> {}]
  /\ checkpointed = [c \in Clients |-> {}]

HistoryNext ==
  /\ Next
  /\ due' = [c \in Clients |->
               IF c \in streams THEN due[c] \cup (emitted + 1)..emitted' ELSE due[c]]
  /\ checkpointed' = [c \in Clients |-> checkpointed[c] \cup Range(db'[c])]

HistorySpec == HistoryInit /\ [][HistoryNext]_historyVars

(* Every message emitted after POST /batch was answered reaches the        *)
(* batcher: the test of batcher.rs counts on it, it writes to Ceramic as   *)
(* soon as create_batcher returns and expects to be handed all of it.  The *)
(* answer is sent before the source has connected.                         *)
AnsweredMeansSubscribed ==
  \A c \in Clients : link[c] = "open" =>
    \A e \in due[c] : e >= next[c] \/ e \in Range(Trail(c))

(* An event that was checkpointed is not lost before it is handed out: the *)
(* program announces checkpointing.  Each round takes the rows of a client *)
(* whose stream runs out of the store first and writes them back last; a   *)
(* create served in between finds no rows and drops what was taken, as     *)
(* does a crash.                                                           *)
CheckpointsSurvive == \A c \in Clients : checkpointed[c] \subseteq Range(Trail(c))

=============================================================================
