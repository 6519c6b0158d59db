------------------------ MODULE EventJoinerProperties ------------------------
(***************************************************************************)
(* What the event joiner and the checkpointer promise together.            *)
(***************************************************************************)
EXTENDS EventJoiner, BatcherProperties

(* Every variable of the run has its type, and run and handler agree: the  *)
(* run waits for an answer exactly while its handler does, whatever panic, *)
(* restart or kill comes between a request and its answer.                 *)
JoinerTypeOK ==
  /\ run \in {"idle", "create", "ask", "get", "process"}
  /\ batch \in Seq(Messages)
  /\ processed \in Seq(Messages)
  /\ run \in {"create", "get"} <=> caller[Service] = "waiting"
  /\ batch # <<>> => run = "process"

(* What the checkpointer still has for the client, oldest first. *)
InStock ==
  db[ClientId] \o unpersisted[ClientId] \o pending[ClientId] \o chan[ClientId]
    \o Blocked(ClientId)

Ahead == batch \o InStock

(* The points of a holder never go back to those of an older attestation:  *)
(* process_event overwrites them with whatever it is given, and as long as *)
(* the store works it is given events in the order of the feed and none    *)
(* twice, over all runs, failed or killed, and all restarts.               *)
PointsNeverGoBack == Increasing(processed \o Ahead)

(* No event is processed twice, also with a store that fails and events    *)
(* that come out of order: neither by a run that asks again nor by one     *)
(* that begins where another ended.                                        *)
ProcessedOnce == IsInjective(processed \o batch)

(* The run ends and had e: in its batch, or in the answer it did not get.  *)
EndedWith(e) ==
  /\ run # "idle" /\ run' = "idle"
  /\ e \in Range(batch) \cup Range(delivered'[ClientId])

(* A get of a run that is gone, or of another HTTP client, takes e. *)
AskedByAnother(e) ==
  /\ getReq[ClientId] \notin {NoCall, Service} /\ getReq'[ClientId] = NoCall
  /\ e \in Range(pending[ClientId])

(* From the feed to the documents, an event the checkpointer has read for  *)
(* the service is lost with a run that fails, to a get of another under    *)
(* its client id, with a process that dies, with the batcher a create      *)
(* replaces or behind a message that does not parse.  While a run goes on, *)
(* what it is handed it processes.                                         *)
EndToEndLosses ==
  [][\A e \in Range(Ahead) \ Malformed :
       \/ e \in Range(processed' \o Ahead')
       \/ EndedWith(e)
       \/ AskedByAnother(e)
       \/ ProcessDied
       \/ ReplacedBatcher(ClientId, e)
       \/ BehindAnError(ClientId, e)]_joinerVars

(* Every run ends, as long as the loop of the batcher does not panic: no   *)
(* answer is missing, and errors are not asked for again and again.        *)
RunsEnd == run # "idle" ~> run = "idle" \/ phase = "dead"

(* The spell goes on to start runs. *)
SpellLasts == WF_joinerVars(Start)

(* While the spell lasts, the stream of the service comes back after a     *)
(* message that does not parse, a restart of the checkpointer or a kill:   *)
(* the run sees that there is none, or its time is up, and the next run    *)
(* makes a new one.                                                        *)
StreamComesBack ==
  SpellLasts /\ <>[][~Crash]_vars =>
    (ClientId \notin streams ~> ClientId \in streams \/ phase = "dead")

=============================================================================
