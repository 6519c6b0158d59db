----------------------------- MODULE EventJoiner -----------------------------
(***************************************************************************)
(* Runs of the event_joiner service (main.rs of its module, process_events *)
(* and try_process_events), composed with the checkpointer.                *)
(*                                                                         *)
(* A spell starts a run every 60 seconds; one worker executes it, so that  *)
(* one run follows the other.  A run posts a create for its client id and  *)
(* then, until ten seconds are over, gets a batch without a limit and      *)
(* processes its events one by one.  The first error ends the run with     *)
(* what is left of the batch.  The service keeps nothing between two runs. *)
(* Nothing keeps other HTTP clients from using its client id.              *)
(*                                                                         *)
(* A step of the checkpointer that answers the request of the service is   *)
(* one step with what the service makes of the answer: nothing but the     *)
(* run waits for it.                                                       *)
(***************************************************************************)
EXTENDS Batcher

CONSTANTS
  ClientId,   \* the client id in the configuration of the service
  Service,    \* its requests, one at a time
  RunFaults   \* what may go wrong in a run

(* "process"  an event cannot be processed: it does not parse, or a call   *)
(*            to the Ceramic node fails                                    *)
(* "reply"    the response of the checkpointer is lost, or does not parse  *)
RunFaultKinds == {"process", "reply"}

ASSUME ServiceAssumption ==
  ClientId \in Clients /\ Service \in Callers /\ MayRecreate /\ NoLimit \in Limits
ASSUME RunFaultsAssumption == RunFaults \subseteq RunFaultKinds

VARIABLES
  run,       \* "idle", "create" or "get" (waiting for the answer), "ask"
             \* or "process" (between two requests)
  batch,     \* the events of the run's batch that are still to be processed
  processed  \* history: the events that were processed, in order

runVars == <<run, batch, processed>>
joinerVars == <<vars, runVars>>

JoinerInit ==
  /\ Init
  /\ run = "idle"
  /\ batch = <<>>
  /\ processed = <<>>

(* Mutant: the next run finds the batch of the last one. *)
RunEndsKeepingBatch ==
  /\ run' = "idle"
  /\ UNCHANGED <<batch, processed>>

(* The run is over; what it has not processed is gone. *)
RunEnds ==
  /\ run' = "idle"
  /\ batch' = <<>>
  /\ UNCHANGED processed

-----------------------------------------------------------------------------
(* The run *)

(* Mutant: a service that has had events takes its batcher for granted.    *)
StartOnce ==
  /\ run = "idle"
  /\ \/ processed = <<>> /\ CallCreate(Service, ClientId) /\ run' = "create"
     \/ processed # <<>> /\ run' = "ask" /\ UNCHANGED vars
  /\ UNCHANGED <<batch, processed>>

(* POST /batch, whether or not the client has a batcher. *)
Start ==
  /\ run = "idle"
  /\ CallCreate(Service, ClientId)
  /\ run' = "create"
  /\ UNCHANGED <<batch, processed>>

(* Mutant: events are fetched one at a time. *)
AskForOne ==
  /\ run = "ask" \/ (run = "process" /\ batch = <<>>)
  /\ CallGet(Service, ClientId, 1)
  /\ run' = "get"
  /\ UNCHANGED <<batch, processed>>

(* GET /batch/{client_id}, after the create and after each batch. *)
Ask ==
  /\ run = "ask" \/ (run = "process" /\ batch = <<>>)
  /\ CallGet(Service, ClientId, NoLimit)
  /\ run' = "get"
  /\ UNCHANGED <<batch, processed>>

Process ==
  /\ batch # <<>>
  /\ processed' = Append(processed, Head(batch))
  /\ batch' = Tail(batch)
  /\ UNCHANGED <<vars, run>>

ProcessFails ==
  /\ "process" \in RunFaults
  /\ batch # <<>>
  /\ RunEnds
  /\ UNCHANGED vars

(* Ten seconds have passed since the create was answered. *)
TimeIsUp ==
  /\ run = "process"
  /\ batch = <<>>
  /\ RunEnds
  /\ UNCHANGED vars

(* The node that executes the service goes down, and curl with it. *)
Killed ==
  /\ "hangup" \in Faults
  /\ run # "idle"
  /\ RunEnds
  /\ Hangup(Service) \/ (caller[Service] = "idle" /\ UNCHANGED vars)

-----------------------------------------------------------------------------
(* The answers *)

Answered == caller[Service] = "waiting" /\ caller'[Service] = "idle"

(* The answer of the step is 200 OK: the create was served, or the get was *)
(* and found an entry with events or without an error.  A request that is  *)
(* replaced by another, or goes down with the task or the process, fails.  *)
AnsweredOk ==
  \/ creating[ClientId] = Service /\ phase' = "create"
  \/ /\ getReq[ClientId] = Service /\ getReq'[ClientId] = NoCall /\ phase' = "persist"
     /\ known[ClientId]
     /\ pending[ClientId] # <<>> \/ ~failed[ClientId]

(* What the step hands to the handlers of the client. *)
HandedOut == SubSeq(delivered'[ClientId], Len(delivered[ClientId]) + 1,
                    Len(delivered'[ClientId]))

(* What the run makes of a step of the checkpointer. *)
Hears ==
  \/ ~Answered /\ UNCHANGED runVars
  \/ Answered /\ (AnsweredOk => "reply" \in RunFaults) /\ RunEnds
  \/ /\ Answered /\ AnsweredOk
     /\ \/ run = "create" /\ run' = "ask" /\ UNCHANGED batch
        \/ run = "get" /\ run' = "process" /\ batch' = HandedOut
     /\ UNCHANGED processed

(* The other HTTP clients. *)
OtherHttp ==
  \E p \in Callers \ {Service} :
    \/ \E c \in Clients : CallCreate(p, c)
    \/ \E c \in Clients, l \in Limits : CallGet(p, c, l)
    \/ Hangup(p)

RunStep == Ask \/ Process \/ ProcessFails \/ TimeIsUp

JoinerNext ==
  \/ Start
  \/ RunStep
  \/ Killed
  \/ Loop /\ Hears
  \/ Crash /\ Hears
  \/ OtherHttp /\ Hears
  \/ ((\E c \in Clients : SourceTask(c)) \/ Feed) /\ UNCHANGED runVars

JoinerSpec == JoinerInit /\ [][JoinerNext]_joinerVars

(* Every call the run makes returns, and its ten seconds pass: a run       *)
(* cannot ask for batches for ever.  That another one is started is not    *)
(* assumed: the spell lasts half an hour.                                  *)
JoinerFairness ==
  /\ WF_joinerVars(Loop /\ Hears)
  /\ \A c \in Clients : WF_joinerVars(LiveSource(c) /\ UNCHANGED runVars)
  /\ WF_joinerVars(RunStep)
  /\ SF_joinerVars(TimeIsUp)

FairJoinerSpec == JoinerSpec /\ JoinerFairness

=============================================================================
