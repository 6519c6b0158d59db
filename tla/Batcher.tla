------------------------------- MODULE Batcher -------------------------------
(***************************************************************************)
(* The batcher of the checkpointer (checkpointer/src/batcher.rs) with its  *)
(* store, its event sources and the HTTP handlers that call it             *)
(* (checkpointer/src/main.rs).                                             *)
(*                                                                         *)
(* One task runs Batcher::run.  Each round of its loop                     *)
(*   "drain"    empties the channel of every stream into the pending       *)
(*              results of its client, behind what the store kept,         *)
(*   "create"   serves the POST /batch requests taken from the shared map  *)
(*              and, when none is left, all GET /batch/{id} requests,      *)
(*   "persist"  writes whatever is still pending to the store.             *)
(* A panic of the task leaves the process alive with phase "dead".         *)
(*                                                                         *)
(* HTTP handlers run on other threads.  A handler puts its request in a    *)
(* map keyed by client id and waits for the answer on a oneshot channel;   *)
(* a request found under the same key is replaced, which closes its        *)
(* channel and fails the handler that waited on it.                        *)
(*                                                                         *)
(* Steps between two awaits of the task are one action: the task shares    *)
(* nothing but the request maps with other threads.  Taking the get        *)
(* requests and answering them all is one action for that reason.  Nothing *)
(* ever enters stream_delete_requests, so that the deletion part of the    *)
(* loop has no effect and no action.                                       *)
(***************************************************************************)
EXTENDS EventSource, Persistence, FiniteSetsExt

CONSTANTS
  Callers,      \* HTTP requests that can be in progress at a time
  NoCall,       \* no request under this key
  Gone,         \* a request whose handler no longer waits for the answer
  Limits,       \* values of ?limit= a get may carry
  NoLimit,      \* the query has no limit
  MayRecreate   \* FALSE: nobody posts /batch for a client that has a batcher

ASSUME CallersAssumption ==
  /\ NoCall \notin Callers
  /\ Gone \notin Callers
  /\ NoCall # Gone

ASSUME LimitsAssumption == Limits \subseteq Nat \cup {NoLimit}

ASSUME MayRecreateAssumption == MayRecreate \in BOOLEAN

NoClient == "none"

ASSUME ClientsAssumption == NoClient \notin Clients

VARIABLES
  phase,       \* where the run loop is
  todo,        \* clients the current phase still has to visit
  current,     \* the client whose events are being written, or NoClient
  unpersisted, \* unpersisted[c]: events of c the store refused this round
  streams,     \* clients with a running event source
  known,       \* known[c]: outstanding_events has an entry for c
  pending,     \* pending[c]: the events of that entry
  failed,      \* failed[c]: the error of that entry is set
  createReq,   \* stream_create_requests
  creating,    \* the create requests the loop has taken and not yet served
  getReq,      \* stream_get_requests
  getLimit,    \* getLimit[c]: the limit of the request in getReq[c]
  caller,      \* caller[p]: "waiting" while handler p awaits its answer
  delivered    \* history: the events handed to handlers, in order

loopVars == <<phase, todo, current, unpersisted, streams, known, pending, failed>>
callVars == <<createReq, creating, getReq, getLimit, caller>>
vars == <<sourceVars, db, loopVars, callVars, delivered>>

Slot == Callers \cup {NoCall, Gone}
NoCalls == [c \in Clients |-> NoCall]
NoLimits == [c \in Clients |-> NoLimit]
Empty == [c \in Clients |-> <<>>]
Nowhere == [c \in Clients |-> FALSE]

Init ==
  /\ EventSourceInit
  /\ PersistenceInit
  /\ phase = "drain"
  /\ todo = {}
  /\ current = NoClient
  /\ unpersisted = Empty
  /\ streams = {}
  /\ known = Nowhere
  /\ pending = Empty
  /\ failed = Nowhere
  /\ createReq = NoCalls
  /\ creating = NoCalls
  /\ getReq = NoCalls
  /\ getLimit = NoLimits
  /\ caller = [p \in Callers |-> "idle"]
  /\ delivered = Empty

-----------------------------------------------------------------------------
(* HTTP handlers *)

(* The handlers after the requests in the slots S were answered, or their  *)
(* channels closed.                                                        *)
Released(S) == [p \in Callers |-> IF p \in S THEN "idle" ELSE caller[p]]

(* Mutant: the sender of a replaced request is kept instead of dropped.    *)
CallerWaitsReplacedToo(p, replaced) == [caller EXCEPT ![p] = "waiting"]

(* Handler p waits, and the handler of the request it replaced no longer.  *)
CallerWaits(p, replaced) == [Released({replaced}) EXCEPT ![p] = "waiting"]

HasBatcher(c) == link[c] # "off" \/ createReq[c] # NoCall \/ creating[c] # NoCall

(* POST /batch *)
CallCreate(p, c) ==
  /\ caller[p] = "idle"
  /\ MayRecreate \/ ~HasBatcher(c)
  /\ createReq' = [createReq EXCEPT ![c] = p]
  /\ caller' = CallerWaits(p, createReq[c])
  /\ UNCHANGED <<sourceVars, db, loopVars, creating, getReq, getLimit, delivered>>

(* GET /batch/{client_id}?limit=l *)
CallGet(p, c, l) ==
  /\ caller[p] = "idle"
  /\ getReq' = [getReq EXCEPT ![c] = p]
  /\ getLimit' = [getLimit EXCEPT ![c] = l]
  /\ caller' = CallerWaits(p, getReq[c])
  /\ UNCHANGED <<sourceVars, db, loopVars, createReq, creating, delivered>>

(* The slots of map with p's oneshot receiver dropped. *)
Abandoned(map, p) == [c \in Clients |-> IF map[c] = p THEN Gone ELSE map[c]]

(* The peer of handler p disconnects and the handler is dropped; the       *)
(* request stays where it is.                                              *)
Hangup(p) ==
  /\ "hangup" \in Faults
  /\ caller[p] = "waiting"
  /\ caller' = [caller EXCEPT ![p] = "idle"]
  /\ createReq' = Abandoned(createReq, p)
  /\ creating' = Abandoned(creating, p)
  /\ getReq' = Abandoned(getReq, p)
  /\ UNCHANGED <<sourceVars, db, loopVars, getLimit, delivered>>

-----------------------------------------------------------------------------
(* The run loop *)

(* Index of the first message of q that does not parse, Len(q) + 1 if all do. *)
FirstError(q) ==
  LET bad == {i \in DOMAIN q : q[i] \in Malformed}
  IN  IF bad = {} THEN Len(q) + 1 ELSE Min(bad)

HasError(q) == FirstError(q) <= Len(q)

(* Mutant: the last event in front of an error, or of the end, is missed.  *)
DecodedButLast(q) == SubSeq(q, 1, FirstError(q) - 2)

(* What try_recv yields of a channel holding q until it fails. *)
Decoded(q) == SubSeq(q, 1, FirstError(q) - 1)

(* Mutant: what the store kept goes behind what the channel brought. *)
GatheredNewestFirst(c, restored) == pending[c] \o Decoded(chan[c]) \o restored

(* The entry of c: what it had, what the store kept, what the channel had. *)
Gathered(c, restored) == pending[c] \o restored \o Decoded(chan[c])

(* Mutant: an entry is only made when there is something to put in it. *)
EnsureEntryIfAny(c) == known' = [known EXCEPT ![c] = @ \/ db[c] # <<>>]

EnsureEntry(c) == known' = [known EXCEPT ![c] = TRUE]

(* Mutant: the stream ends and its error is not kept. *)
EndStreamSilently(c) ==
  /\ streams' = streams \ {c}
  /\ DropSource(c)
  /\ UNCHANGED failed

(* The error is kept in the entry; the receiver is not put back in streams. *)
EndStream(c) ==
  /\ failed' = [failed EXCEPT ![c] = TRUE]
  /\ streams' = streams \ {c}
  /\ DropSource(c)

(* One stream of streams_to_process: restore what the store holds, then    *)
(* try_recv until the channel is empty or yields an error.                 *)
Drain(c) ==
  /\ phase = "drain"
  /\ c \in todo
  /\ \E restored \in {db[c], <<>>} :
       /\ \/ GetEvents(c) /\ restored = db[c]
          \/ GetEventsFails /\ restored = <<>>
       /\ pending' = [pending EXCEPT ![c] = Gathered(c, restored)]
  /\ EnsureEntry(c)
  /\ todo' = todo \ {c}
  /\ \/ HasError(chan[c]) /\ EndStream(c)
     \/ /\ ~HasError(chan[c])
        /\ chan' = [chan EXCEPT ![c] = <<>>]
        /\ UNCHANGED <<failed, streams, emitted, link, next, held>>
  /\ UNCHANGED <<phase, current, unpersisted, callVars, delivered>>

TakeCreates ==
  /\ phase = "drain"
  /\ todo = {}
  /\ phase' = "create"
  /\ creating' = createReq
  /\ createReq' = NoCalls
  /\ UNCHANGED <<sourceVars, db, todo, current, unpersisted, streams, known,
                 pending, failed, getReq, getLimit, caller, delivered>>

(* A new source and the stored events replace whatever c had. *)
ServeCreate(c) ==
  /\ phase = "create"
  /\ creating[c] \in Callers
  /\ StartSource(c)
  /\ GetEvents(c)
  /\ pending' = [pending EXCEPT ![c] = db[c]]
  /\ known' = [known EXCEPT ![c] = TRUE]
  /\ failed' = [failed EXCEPT ![c] = FALSE]
  /\ streams' = streams \cup {c}
  /\ creating' = [creating EXCEPT ![c] = NoCall]
  /\ caller' = Released({creating[c]})
  /\ UNCHANGED <<phase, todo, current, unpersisted, createReq, getReq, getLimit,
                 delivered>>

(* Both unwraps of the create loop: the store fails, or the handler that   *)
(* asked is gone.  The task ends with all it owns; the shared request maps *)
(* outlive it.                                                             *)
CreatePanics(c) ==
  /\ phase = "create"
  /\ creating[c] # NoCall
  /\ \/ GetEventsFails
     \/ creating[c] = Gone /\ GetEvents(c)
  /\ phase' = "dead"
  /\ streams' = {}
  /\ known' = Nowhere
  /\ pending' = Empty
  /\ failed' = Nowhere
  /\ DropAllSources
  /\ creating' = NoCalls
  /\ caller' = Released(Range(creating))
  /\ UNCHANGED <<todo, current, unpersisted, createReq, getReq, getLimit, delivered>>

(* Mutant: the limit is off by one. *)
BatchOneShort(q, l) == IF l = NoLimit THEN q ELSE SubSeq(q, 1, Min({l, Len(q)}) - 1)

(* What a get with limit l hands out of the pending events q. *)
Batch(q, l) == IF l = NoLimit THEN q ELSE SubSeq(q, 1, Min({l, Len(q)}))

(* Every get removes the entry of its client, hands out its first events   *)
(* and drops the others with it; a client without an entry is not found.   *)
ServeGets ==
  /\ phase = "create"
  /\ creating = NoCalls
  /\ delivered' = [c \in Clients |->
       IF getReq[c] \in Callers /\ known[c]
       THEN delivered[c] \o Batch(pending[c], getLimit[c])
       ELSE delivered[c]]
  /\ known' = [c \in Clients |-> known[c] /\ getReq[c] = NoCall]
  /\ pending' = [c \in Clients |-> IF getReq[c] = NoCall THEN pending[c] ELSE <<>>]
  /\ failed' = [c \in Clients |-> failed[c] /\ getReq[c] = NoCall]
  /\ caller' = Released(Range(getReq))
  /\ getReq' = NoCalls
  /\ getLimit' = NoLimits
  /\ phase' = "persist"
  /\ todo' = {c \in Clients : pending'[c] # <<>>}
  /\ UNCHANGED <<sourceVars, db, current, unpersisted, streams, createReq,
                 creating>>

(* The next event of the client being written.  The events the store       *)
(* refuses are all that stays pending after the last one.                  *)
Persist(c) ==
  LET e == Head(pending[c])
      rest == Tail(pending[c])
  IN
  /\ phase = "persist"
  /\ c \in todo
  /\ current \in {NoClient, c}
  /\ \E refused \in {<<>>, <<e>>} :
       /\ \/ AddEvent(c, e) /\ refused = <<>>
          \/ AddEventFails(e) /\ refused = <<e>>
       /\ \/ /\ rest # <<>>
             /\ pending' = [pending EXCEPT ![c] = rest]
             /\ unpersisted' = [unpersisted EXCEPT ![c] = @ \o refused]
             /\ current' = c
             /\ UNCHANGED todo
          \/ /\ rest = <<>>
             /\ pending' = [pending EXCEPT ![c] = unpersisted[c] \o refused]
             /\ unpersisted' = [unpersisted EXCEPT ![c] = <<>>]
             /\ current' = NoClient
             /\ todo' = todo \ {c}
  /\ UNCHANGED <<sourceVars, phase, streams, known, failed, callVars, delivered>>

(* After a pause the next round visits every stream. *)
NextRound ==
  /\ phase = "persist"
  /\ todo = {}
  /\ phase' = "drain"
  /\ todo' = streams
  /\ UNCHANGED <<sourceVars, db, current, unpersisted, streams, known, pending,
                 failed, callVars, delivered>>

-----------------------------------------------------------------------------
(* The process dies; a new one starts with the same store and no streams.  *)
Crash ==
  /\ "crash" \in Faults
  /\ DropAllSources
  /\ phase' = "drain"
  /\ todo' = {}
  /\ current' = NoClient
  /\ unpersisted' = Empty
  /\ streams' = {}
  /\ known' = Nowhere
  /\ pending' = Empty
  /\ failed' = Nowhere
  /\ createReq' = NoCalls
  /\ creating' = NoCalls
  /\ getReq' = NoCalls
  /\ getLimit' = NoLimits
  /\ caller' = [p \in Callers |-> "idle"]
  /\ UNCHANGED <<db, delivered>>

Loop ==
  \/ TakeCreates
  \/ ServeGets
  \/ NextRound
  \/ \E c \in Clients : Drain(c) \/ ServeCreate(c) \/ CreatePanics(c) \/ Persist(c)

SourceTask(c) == SourceStep(c) /\ UNCHANGED <<db, loopVars, callVars, delivered>>

Feed == Emit /\ UNCHANGED <<db, loopVars, callVars, delivered>>

Http ==
  \E p \in Callers :
    \/ \E c \in Clients : CallCreate(p, c)
    \/ \E c \in Clients, l \in Limits : CallGet(p, c, l)
    \/ Hangup(p)

Next ==
  \/ Loop
  \/ \E c \in Clients : SourceTask(c)
  \/ Feed
  \/ Http
  \/ Crash

Spec == Init /\ [][Next]_vars

(* The executor runs a task that is ready: the loop and the sources make   *)
(* progress.  Neither the feed, the HTTP clients nor the faults have to.   *)
LiveSource(c) ==
  (Connect(c) \/ Receive(c) \/ Send(c)) /\ UNCHANGED <<db, loopVars, callVars, delivered>>

Fairness == WF_vars(Loop) /\ \A c \in Clients : WF_vars(LiveSource(c))

FairSpec == Spec /\ Fairness

=============================================================================
