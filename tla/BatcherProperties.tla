-------------------------- MODULE BatcherProperties --------------------------
(***************************************************************************)
(* What the batcher promises, and what it does not.                        *)
(***************************************************************************)
EXTENDS Batcher

(* Every variable of the batcher has its type: in particular a request map *)
(* never holds anything but a handler, a dead request or nothing.          *)
TypeOK ==
  /\ emitted \in Nat
  /\ link \in [Clients -> {"off", "connecting", "open"}]
  /\ next \in [Clients -> Messages]
  /\ held \in [Clients -> Nat]
  /\ chan \in [Clients -> Seq(Messages)]
  /\ db \in [Clients -> Seq(Messages)]
  /\ phase \in {"drain", "create", "persist", "dead"}
  /\ todo \in SUBSET Clients
  /\ current \in Clients \cup {NoClient}
  /\ unpersisted \in [Clients -> Seq(Messages)]
  /\ streams \in SUBSET Clients
  /\ known \in [Clients -> BOOLEAN]
  /\ pending \in [Clients -> Seq(Messages)]
  /\ failed \in [Clients -> BOOLEAN]
  /\ createReq \in [Clients -> Slot]
  /\ creating \in [Clients -> Slot]
  /\ getReq \in [Clients -> Slot]
  /\ getLimit \in [Clients -> Limits \cup {NoLimit}]
  /\ caller \in [Callers -> {"idle", "waiting"}]
  /\ delivered \in [Clients -> Seq(Messages)]

-----------------------------------------------------------------------------
(* Where the messages of a client are *)

Blocked(c) == IF held[c] = 0 THEN <<>> ELSE <<held[c]>>

(* Everything the checkpointer still has or has handed out for c, from     *)
(* what was handed out first to what came off the feed last.               *)
Trail(c) ==
  delivered[c] \o db[c] \o unpersisted[c] \o pending[c] \o chan[c] \o Blocked(c)

Increasing(s) == \A i, j \in DOMAIN s : i < j => s[i] < s[j]

(* A feed event is in at most one place for a client and is handed out at  *)
(* most once, whatever is lost, retried, restored or restarted: the read   *)
(* and the removal of rows, the writing of what is pending and the answer  *)
(* to a get always move an event and never copy it.                        *)
AtMostOnce == \A c \in Clients : IsInjective(Trail(c))

(* While the store does not fail and has one client, events are handed out *)
(* in the order of the feed, across restores, restarts and new batchers.   *)
FeedOrder == \A c \in Clients : Increasing(Trail(c))

(* While the store does not fail and has one client, the loop sleeps with  *)
(* nothing unsaved: every event it decoded is in a row or handed out.      *)
SleepsWithNothingUnsaved ==
  phase = "persist" /\ todo = {} => \A c \in Clients : pending[c] = <<>>

-----------------------------------------------------------------------------
(* Streams and their clients *)

(* The loop never forgets that a stream ended: an entry whose stream is    *)
(* gone carries the error that ended it, and one whose stream runs does    *)
(* not, so that an empty batch is never the answer for a dead stream with  *)
(* nothing pending.  A get that finds pending events takes the error away  *)
(* with the entry and does not report it.  Pending events always belong to *)
(* an entry.                                                               *)
DeadStreamsAreFlagged ==
  \A c \in Clients :
    /\ known[c] => (failed[c] <=> c \notin streams)
    /\ ~known[c] => pending[c] = <<>> /\ ~failed[c]

(* A get for a client whose stream runs is never answered with NotFound:   *)
(* the get that removed the entry is always followed by a drain that makes *)
(* a new one before the next get is served, with whatever requests and     *)
(* restarts in between.                                                    *)
LiveClientsAreFound == phase = "create" => \A c \in streams : known[c]

-----------------------------------------------------------------------------
(* Losses *)

Kept(c) == Range(Trail(c)) \ Malformed

ProcessDied == Crash \/ (phase # "dead" /\ phase' = "dead")

(* c was given a new batcher: what its old one had in memory goes. *)
ReplacedBatcher(c, e) ==
  /\ creating[c] # NoCall /\ creating'[c] = NoCall
  /\ e \in Range(pending[c]) \cup Range(chan[c]) \cup {held[c]}

(* A get took the entry of c: what is beyond its limit goes, and all of it *)
(* when the handler that asked is gone.                                    *)
DroppedByGet(c, e) ==
  /\ getReq[c] # NoCall /\ getReq'[c] = NoCall
  /\ \E i \in DOMAIN pending[c] :
       pending[c][i] = e /\ (getReq[c] # Gone => getLimit[c] < i)

(* A message that does not parse ended the stream of c: what is behind it  *)
(* goes.                                                                   *)
BehindAnError(c, e) ==
  /\ c \in streams /\ c \notin streams'
  /\ e \in {held[c]} \cup {chan[c][i] : i \in FirstError(chan[c])..Len(chan[c])}

(* An event the checkpointer has is lost in these ways and in no other.    *)
(* A store that refuses a write or a read never loses an event, nor does   *)
(* a full channel, a broken connection or a request of another client.     *)
OnlyNamedLosses ==
  [][\A c \in Clients : \A e \in Kept(c) :
       \/ e \in Kept(c)'
       \/ ProcessDied
       \/ ReplacedBatcher(c, e)
       \/ DroppedByGet(c, e)
       \/ BehindAnError(c, e)]_vars

-----------------------------------------------------------------------------
(* The mailbox it implements *)

(* What waits for c: in a row, in the hands of the loop, in the channel or *)
(* with the task of the source.                                            *)
Stock(c) ==
  Range(db[c]) \cup Range(unpersisted[c]) \cup Range(pending[c]) \cup Range(chan[c])
    \cup ({held[c]} \ {0})

Mailbox == INSTANCE Delivery
  WITH position <- next, mailbox <- [c \in Clients |-> Stock(c)], handed <- delivered

(* The batcher is a mailbox: whatever the loop, the store, the sources and *)
(* the handlers do with an event in many small steps, seen from outside it *)
(* waits, is lost, or is handed out and gone, and a message that the feed  *)
(* is past is never read again.                                            *)
ImplementsDelivery == Mailbox!Spec

-----------------------------------------------------------------------------
(* Progress *)

(* Every handler that waits gets an answer or an error, as long as the     *)
(* loop does not panic.                                                    *)
HandlersReturn == \A p \in Callers : caller[p] = "waiting" ~> caller[p] = "idle"

(* Every client keeps asking for its batch, without a limit.  A request is *)
(* only possible while a handler is free.                                  *)
Polling ==
  \A c \in Clients : SF_vars(\E p \in Callers : CallGet(p, c, NoLimit))

(* Whatever reached the channel of a client that keeps asking is handed    *)
(* out, even if the store refuses every write, another client holds its    *)
(* row, and the channel is full.                                           *)
PolledEventsArrive ==
  Polling => \A c \in Clients : \A e \in 1..MaxEvents :
    e \in Range(chan[c]) ~> e \in Range(delivered[c])

=============================================================================
