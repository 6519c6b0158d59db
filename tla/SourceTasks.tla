----------------------------- MODULE SourceTasks -----------------------------
(***************************************************************************)
(* The tasks behind the event sources of one client                        *)
(* (checkpointer/src/event_source.rs), those whose receiver was dropped    *)
(* included.                                                               *)
(*                                                                         *)
(* Every batcher that is created for the client spawns a task.  Nothing    *)
(* tells a task that its batcher is gone: nobody sets its shutdown flag or *)
(* aborts it, and it notices when it has a message to send.  Until then it *)
(* holds a connection to the node.                                         *)
(*                                                                         *)
(* EventSource keeps the task whose receiver is alive and forgets the      *)
(* others.                                                                 *)
(***************************************************************************)
EXTENDS Naturals, Sequences

CONSTANTS
  Tasks,       \* tasks that can run at a time
  NoTask,      \* no task has a receiver
  ChannelCap,  \* capacity of a channel
  MaxEvents,   \* bound: how many messages the feed emits
  Faults       \* "disconnect": connections may break

ASSUME TasksAssumption == NoTask \notin Tasks
ASSUME CapAssumption == ChannelCap \in Nat \ {0} /\ MaxEvents \in Nat

VARIABLES
  emitted,  \* number of messages the feed has emitted
  reader,   \* the task whose receiver the batcher has, or NoTask
  at,       \* at[t]: "ended", "opening" (no connection, or the pause before
            \* the next), "next" (es.inner.next()) or "send" (tx.send())
  place,    \* place[t]: the next message the connection of t will carry
  msg,      \* msg[t]: the message t is sending
  queue,    \* queue[t]: the channel of t
  next      \* history: the place of the task with the receiver, or of the
            \* last one there was

taskVars == <<at, place, msg, queue>>
vars == <<emitted, reader, taskVars, next>>

Init ==
  /\ emitted = 0
  /\ reader = NoTask
  /\ at = [t \in Tasks |-> "ended"]
  /\ place = [t \in Tasks |-> 1]
  /\ msg = [t \in Tasks |-> 0]
  /\ queue = [t \in Tasks |-> <<>>]
  /\ next = 1

Goes(t, stage) == at' = [at EXCEPT ![t] = stage]

-----------------------------------------------------------------------------
(* The task *)

Moves(t, n) ==
  /\ place' = [place EXCEPT ![t] = n]
  /\ next' = IF reader = t THEN n ELSE next

(* SseEvent::Open, of the first connection or of one made after a pause. *)
Open(t) ==
  /\ at[t] = "opening"
  /\ Goes(t, "next")
  /\ Moves(t, emitted + 1)
  /\ UNCHANGED <<emitted, reader, msg, queue>>

(* Mutant: nobody looks whether the send succeeded. *)
SendForgiving(t, m) ==
  \/ /\ reader # t \/ Len(queue[t]) < ChannelCap
     /\ Goes(t, "next")
     /\ msg' = [msg EXCEPT ![t] = 0]
     /\ queue' = [queue EXCEPT ![t] = IF reader = t THEN Append(@, m) ELSE @]
  \/ /\ reader = t
     /\ Len(queue[t]) >= ChannelCap
     /\ Goes(t, "send")
     /\ msg' = [msg EXCEPT ![t] = m]
     /\ UNCHANGED queue

(* Mutant: a full channel is taken for a closed one. *)
SendTries(t, m) ==
  \/ /\ reader # t \/ Len(queue[t]) >= ChannelCap
     /\ Goes(t, "ended")
     /\ msg' = [msg EXCEPT ![t] = 0]
     /\ queue' = [queue EXCEPT ![t] = <<>>]
  \/ /\ reader = t
     /\ Len(queue[t]) < ChannelCap
     /\ Goes(t, "next")
     /\ msg' = [msg EXCEPT ![t] = 0]
     /\ queue' = [queue EXCEPT ![t] = Append(@, m)]

(* tx.send(m).await: it fails when the receiver is gone, and the task      *)
(* returns; it waits while the channel is full.                            *)
SendMsg(t, m) ==
  \/ /\ reader # t
     /\ Goes(t, "ended")
     /\ msg' = [msg EXCEPT ![t] = 0]
     /\ queue' = [queue EXCEPT ![t] = <<>>]
  \/ /\ reader = t
     /\ Len(queue[t]) < ChannelCap
     /\ Goes(t, "next")
     /\ msg' = [msg EXCEPT ![t] = 0]
     /\ queue' = [queue EXCEPT ![t] = Append(@, m)]
  \/ /\ reader = t
     /\ Len(queue[t]) >= ChannelCap
     /\ Goes(t, "send")
     /\ msg' = [msg EXCEPT ![t] = m]
     /\ UNCHANGED queue

(* A message, whether it parses or not, is sent with no await before it. *)
Yield(t) ==
  /\ at[t] = "next"
  /\ place[t] <= emitted
  /\ Moves(t, place[t] + 1)
  /\ SendMsg(t, place[t])
  /\ UNCHANGED <<emitted, reader>>

(* A send that waited goes on. *)
Wake(t) ==
  /\ at[t] = "send"
  /\ reader # t \/ Len(queue[t]) < ChannelCap
  /\ SendMsg(t, msg[t])
  /\ UNCHANGED <<emitted, reader, place, next>>

(* The connection ends or fails; after a second there is a new one.        *)
Fail(t) ==
  /\ "disconnect" \in Faults
  /\ at[t] = "next"
  /\ Goes(t, "opening")
  /\ UNCHANGED <<emitted, reader, place, msg, queue, next>>

-----------------------------------------------------------------------------
(* The batcher and the feed *)

(* A new batcher for the client: the receiver of the old one is dropped.   *)
Run(t) ==
  /\ at[t] = "ended"
  /\ Goes(t, "opening")
  /\ reader' = t
  /\ UNCHANGED <<emitted, place, msg, queue, next>>

(* The stream ended with an error, or the loop with a panic. *)
Drop ==
  /\ reader # NoTask
  /\ reader' = NoTask
  /\ UNCHANGED <<emitted, taskVars, next>>

(* try_recv until there is nothing more. *)
Drain ==
  /\ reader # NoTask
  /\ queue[reader] # <<>>
  /\ queue' = [queue EXCEPT ![reader] = <<>>]
  /\ UNCHANGED <<emitted, reader, at, place, msg, next>>

Emit ==
  /\ emitted < MaxEvents
  /\ emitted' = emitted + 1
  /\ UNCHANGED <<reader, taskVars, next>>

Next ==
  \/ \E t \in Tasks : Open(t) \/ Yield(t) \/ Wake(t) \/ Fail(t) \/ Run(t)
  \/ Drop \/ Drain \/ Emit

Spec == Init /\ [][Next]_vars

FairSpec ==
  Spec /\ \A t \in Tasks : WF_vars(Open(t)) /\ WF_vars(Yield(t)) /\ WF_vars(Wake(t))

-----------------------------------------------------------------------------
(* What the tasks promise *)

Orphan(t) == at[t] # "ended" /\ reader # t

(* A task without a receiver does not outlive the next message of its      *)
(* connection, unless the connection breaks first: it is not kept alive by *)
(* a full channel that nobody empties, and batchers that are replaced on   *)
(* and on leave no tasks and connections behind for longer than that.      *)
OrphansEnd ==
  \A t \in Tasks :
    Orphan(t) /\ (at[t] = "send" \/ (at[t] = "next" /\ place[t] <= emitted))
      ~> at[t] \in {"ended", "opening"}

Client == "client"
ForClient(v) == [c \in {Client} |-> v]

(* What the task with a receiver is to EventSource; without a receiver,    *)
(* "off".                                                                  *)
Link ==
  CASE reader = NoTask -> "off"
    [] reader # NoTask /\ at[reader] = "opening" -> "connecting"
    [] reader # NoTask /\ at[reader] \in {"next", "send"} -> "open"
    [] OTHER -> "ended"

Source == INSTANCE EventSource
  WITH Clients <- {Client}, Malformed <- {},
       link <- ForClient(Link),
       next <- ForClient(next),
       held <- ForClient(IF reader = NoTask THEN 0 ELSE msg[reader]),
       chan <- ForClient(IF reader = NoTask THEN <<>> ELSE queue[reader])

SourceDrained ==
  /\ reader' # NoTask /\ queue'[reader'] = <<>>
  /\ UNCHANGED <<emitted, Link, next, msg[reader]>>

(* One source may stand for all the tasks of a client: the task with the   *)
(* receiver never ends, loses no message and sends none twice, whether it  *)
(* is blocked, reconnected or replaced, and the tasks that were replaced   *)
(* do nothing that the client could notice.                                *)
ImplementsSource ==
  /\ Source!EventSourceInit
  /\ [][\/ Source!Emit
        \/ Source!SourceStep(Client)
        \/ Source!StartSource(Client)
        \/ Source!DropSource(Client)
        \/ SourceDrained]_(Source!sourceVars)

=============================================================================
