----------------------------- MODULE EventSource -----------------------------
(***************************************************************************)
(* The Ceramic feed and the tasks that read it                             *)
(* (checkpointer/src/event_source.rs).                                     *)
(*                                                                         *)
(* The feed is a live stream: its events are numbered 1, 2, ... in the     *)
(* order the node emits them, every open connection receives every event   *)
(* emitted after it was opened, and nothing is replayed to a connection    *)
(* that is opened later.  Each client of the checkpointer has a source of  *)
(* its own, a task that reads the feed and sends what it decodes down a    *)
(* bounded channel.                                                        *)
(*                                                                         *)
(* Only the source whose receiver is alive is modelled.  A source whose    *)
(* receiver was dropped ends at its next send and nobody can observe it    *)
(* until then, so that dropping the receiver switches the source off.      *)
(* SourceTasks has them all, and implements this module.                   *)
(***************************************************************************)
EXTENDS ClientsAndFailures, Naturals, Sequences

CONSTANTS
  ChannelCap,  \* capacity of the channel, 100 in the code
  Malformed,   \* the feed messages that do not parse as an Event
  MaxEvents    \* bound: how many messages the feed emits

ASSUME ChannelCapAssumption == ChannelCap \in Nat \ {0}
ASSUME MaxEventsAssumption == MaxEvents \in Nat

VARIABLES
  emitted,  \* number of messages the feed has emitted
  link,     \* link[c]: "off", "connecting" or "open"
  next,     \* next[c]: the next feed message the connection of c will carry
  held,     \* held[c]: the message a full channel keeps the task of c from
            \* sending, 0 when it is not blocked
  chan      \* chan[c]: the channel from the source of c to the batcher

sourceVars == <<emitted, link, next, held, chan>>

Messages == Nat \ {0}

EventSourceInit ==
  /\ emitted = 0
  /\ link = [c \in Clients |-> "off"]
  /\ next = [c \in Clients |-> 1]
  /\ held = [c \in Clients |-> 0]
  /\ chan = [c \in Clients |-> <<>>]

(* The node appends a message to the feed. *)
Emit ==
  /\ emitted < MaxEvents
  /\ emitted' = emitted + 1
  /\ UNCHANGED <<link, next, held, chan>>

(* Mutant: an index from zero taken for a message number. *)
FirstCarriedFromZero == emitted

(* The first message a connection opened now will carry. *)
FirstCarried == emitted + 1

(* The connection is established some time after run() spawned the task:   *)
(* what the feed emitted before is not on it.                              *)
Connect(c) ==
  /\ link[c] = "connecting"
  /\ link' = [link EXCEPT ![c] = "open"]
  /\ next' = [next EXCEPT ![c] = FirstCarried]
  /\ UNCHANGED <<emitted, held, chan>>

(* es.inner.next() yields a message and tx.send(..).await takes it if the  *)
(* channel has room; the task blocks on it otherwise.                      *)
Receive(c) ==
  /\ link[c] = "open"
  /\ held[c] = 0
  /\ next[c] <= emitted
  /\ next' = [next EXCEPT ![c] = @ + 1]
  /\ \/ /\ Len(chan[c]) < ChannelCap
        /\ chan' = [chan EXCEPT ![c] = Append(@, next[c])]
        /\ UNCHANGED held
     \/ /\ Len(chan[c]) >= ChannelCap
        /\ held' = [held EXCEPT ![c] = next[c]]
        /\ UNCHANGED chan
  /\ UNCHANGED <<emitted, link>>

(* The blocked send completes once the batcher has made room. *)
Send(c) ==
  /\ held[c] # 0
  /\ Len(chan[c]) < ChannelCap
  /\ chan' = [chan EXCEPT ![c] = Append(@, held[c])]
  /\ held' = [held EXCEPT ![c] = 0]
  /\ UNCHANGED <<emitted, link, next>>

(* The stream ends or fails: after a pause the task makes a new connection *)
(* in place of the old one, which does not resume where that one stopped.  *)
Disconnect(c) ==
  /\ "disconnect" \in Faults
  /\ link[c] = "open"
  /\ held[c] = 0
  /\ link' = [link EXCEPT ![c] = "connecting"]
  /\ UNCHANGED <<emitted, next, held, chan>>

(* EventSource::new(..).run(): a new task and an empty channel; the        *)
(* receiver of the previous source of c, if any, is dropped.               *)
StartSource(c) ==
  /\ link' = [link EXCEPT ![c] = "connecting"]
  /\ held' = [held EXCEPT ![c] = 0]
  /\ chan' = [chan EXCEPT ![c] = <<>>]
  /\ UNCHANGED <<emitted, next>>

(* The receiver of the source of c is dropped with what it contains. *)
DropSource(c) ==
  /\ link' = [link EXCEPT ![c] = "off"]
  /\ held' = [held EXCEPT ![c] = 0]
  /\ chan' = [chan EXCEPT ![c] = <<>>]
  /\ UNCHANGED <<emitted, next>>

DropAllSources ==
  /\ link' = [c \in Clients |-> "off"]
  /\ held' = [c \in Clients |-> 0]
  /\ chan' = [c \in Clients |-> <<>>]
  /\ UNCHANGED <<emitted, next>>

(* The steps of the task of c. *)
SourceStep(c) == Connect(c) \/ Receive(c) \/ Send(c) \/ Disconnect(c)

=============================================================================
