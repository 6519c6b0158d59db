----------------------------- MODULE Calculator -----------------------------
(***************************************************************************)
(* The calculators (calculator/src/calculator.rs) with their caches, run   *)
(* by the checkpointer (checkpointer/src/calculator.rs) and by the         *)
(* event_joiner service (main.rs of its module).                           *)
(*                                                                         *)
(* Every calculator takes events one at a time.  For an attestation it     *)
(* goes through three contexts in turn; in each it gets the points of the  *)
(* holder and then creates or updates a document, with an await in between *)
(* at which the other calculators may run.  The first call that fails ends *)
(* the event with an error.  A calculator of the checkpointer goes on with *)
(* its next event.  A run of the event joiner ends, and the rest of its    *)
(* batch is lost; the next run starts with a new cache.                    *)
(*                                                                         *)
(* The process of the checkpointer may die with all of its calculators     *)
(* wherever they are.  New ones start with empty caches and do not get the *)
(* events that were emitted before they had connected.                     *)
(***************************************************************************)
EXTENDS MaterializationCache, Points

CONSTANTS
  Joiners,  \* the workers that are runs of the event joiner
  Feeds     \* the sequences of events to consider

(* An event is ignored when it is no attestation of the trusted issuer and *)
(* invalid when its metadata or its commit id does not parse.  The time    *)
(* event of an attestation is skipped by the checkpointer only.            *)
Kinds == {"attestation", "time", "ignored", "invalid"}
Events == [kind : Kinds, holder : Holders, data : Seq(Claims)]

ASSUME JoinersAssumption == Joiners \subseteq Workers
ASSUME FeedsAssumption == Feeds \subseteq Seq(Events)

VARIABLES
  feed,      \* the events, in the order every worker takes them
  position,  \* position[w]: how many events w has taken, or lost
  stage,     \* stage[w]: "idle", "get", "write", "failed" or, when its
             \* process has died, "down"
  context    \* context[w]: the context w is at

workerVars == <<feed, position, stage, context>>
vars == <<cacheVars, workerVars>>

Init ==
  /\ CacheInit
  /\ feed \in Feeds
  /\ position = [w \in Workers |-> 0]
  /\ stage = [w \in Workers |-> "idle"]
  /\ context = [w \in Workers |-> "unique-events"]

Event(w) == feed[position[w]]
Holder(w) == Event(w).holder
Data(w) == Event(w).data

(* Mutant: all_events counts like unique_events. *)
ValueCopied(w) ==
  IF context[w] = "first-all-events" THEN CompletedAt(Data(w)) ELSE UniqueEvents(Data(w))

(* The value of the document of the context w is at. *)
Value(w) ==
  CASE context[w] = "unique-events"    -> UniqueEvents(Data(w))
    [] context[w] = "all-events"       -> AllEvents(Data(w))
    [] context[w] = "first-all-events" -> CompletedAt(Data(w))

Stage(w, s) == stage' = [stage EXCEPT ![w] = s] /\ UNCHANGED <<feed, position, context>>

(* w is done with its context: the next one, or the end of the event.      *)
NextContext(w) ==
  LET enter(x) == /\ context' = [context EXCEPT ![w] = x]
                  /\ stage' = [stage EXCEPT ![w] = "get"]
  IN
  /\ CASE context[w] = "unique-events" -> enter("all-events")
       [] context[w] = "all-events" /\ IsComplete(Data(w)) -> enter("first-all-events")
       [] OTHER -> stage' = [stage EXCEPT ![w] = "idle"] /\ UNCHANGED context
  /\ UNCHANGED <<feed, position>>

-----------------------------------------------------------------------------

(* process_event up to the first call of the cache. *)
Take(w) ==
  /\ stage[w] = "idle"
  /\ position[w] < Len(feed)
  /\ position' = [position EXCEPT ![w] = @ + 1]
  /\ LET kind == feed[position[w] + 1].kind
     IN  stage' = [stage EXCEPT ![w] =
           CASE kind = "invalid" -> "failed"
             [] kind = "attestation" \/ (kind = "time" /\ w \in Joiners) -> "get"
             [] OTHER -> "idle"]
  /\ context' = [context EXCEPT ![w] = "unique-events"]
  /\ UNCHANGED <<cacheVars, feed>>

(* Mutant: every context is brought up to date. *)
OnlyCreatesNever(w) == FALSE /\ w \in Workers

(* first_all_events writes nothing when get_points finds a document. *)
OnlyCreates(w) == context[w] = "first-all-events"

Get(w) ==
  /\ stage[w] = "get"
  /\ GetPoints(w, Holder(w), context[w])
  /\ \/ OnlyCreates(w) /\ found'[w] # Nothing /\ NextContext(w)
     \/ (OnlyCreates(w) => found'[w] = Nothing) /\ Stage(w, "write")

GetFails(w) ==
  /\ stage[w] = "get"
  /\ GetPointsFails(w, Holder(w), context[w])
  /\ Stage(w, "failed")

Create(w) ==
  /\ stage[w] = "write"
  /\ found[w] = Nothing
  /\ CreatePoints(w, Holder(w), context[w], Value(w))
  /\ NextContext(w)

Update(w) ==
  /\ stage[w] = "write"
  /\ found[w] # Nothing
  /\ UpdatePoints(w, Value(w))
  /\ NextContext(w)

CreateFails(w) ==
  /\ stage[w] = "write"
  /\ found[w] = Nothing
  /\ WriteFails(Append(docs, Points(Holder(w), context[w], Value(w))))
  /\ Stage(w, "failed")
  /\ UNCHANGED <<reading, cache, found>>

UpdateFails(w) ==
  /\ stage[w] = "write"
  /\ found[w] # Nothing
  /\ WriteFails([docs EXCEPT ![found[w].doc] =
                   [found[w].points EXCEPT !.value = Value(w)]])
  /\ Stage(w, "failed")
  /\ UNCHANGED <<reading, cache, found>>

(* Mutant: an error ends the loop. *)
ContinueStops(w) ==
  /\ w \notin Joiners
  /\ stage[w] = "failed"
  /\ position' = [position EXCEPT ![w] = Len(feed)]
  /\ UNCHANGED <<cacheVars, feed, stage, context>>

(* The error is logged and the loop goes on. *)
Continue(w) ==
  /\ w \notin Joiners
  /\ stage[w] = "failed"
  /\ Stage(w, "idle")
  /\ UNCHANGED cacheVars

(* The events up to an arbitrary one never reach w. *)
LosesEvents(w) ==
  \E lost \in position[w]..Len(feed) : position' = [position EXCEPT ![w] = lost]

(* w starts again with an empty cache. *)
StartsAnew(w) ==
  /\ stage' = [stage EXCEPT ![w] = "idle"]
  /\ cache' = [cache EXCEPT ![w] = EmptyCache]
  /\ UNCHANGED <<reading, docs, found, feed, context>>

(* A run of the joiner is over, with an error or because its time is up,   *)
(* and another one begins.  With an error, the rest of the batch is lost.  *)
EndRun(w) ==
  /\ w \in Joiners
  /\ \/ stage[w] = "idle" /\ "end" \in Failures /\ UNCHANGED position
     \/ stage[w] = "failed" /\ LosesEvents(w)
  /\ StartsAnew(w)

(* The connection of a calculator breaks, or is made late: the source is   *)
(* formed anew and what is emitted until then is missed.                   *)
Miss(w) ==
  /\ "miss" \in Failures
  /\ w \notin Joiners
  /\ stage[w] = "idle"
  /\ position[w] < Len(feed)
  /\ position' = [position EXCEPT ![w] = @ + 1]
  /\ UNCHANGED <<cacheVars, feed, stage, context>>

(* The process of the checkpointer dies. *)
Crash ==
  /\ "crash" \in Failures
  /\ stage' = [w \in Workers |-> IF w \in Joiners THEN stage[w] ELSE "down"]
  /\ UNCHANGED <<cacheVars, feed, position, context>>

(* POST /calculate to the new process. *)
Restart(w) ==
  /\ stage[w] = "down"
  /\ LosesEvents(w)
  /\ StartsAnew(w)

Step(w) ==
  \/ Take(w) \/ Get(w) \/ GetFails(w) \/ Create(w) \/ Update(w)
  \/ CreateFails(w) \/ UpdateFails(w) \/ Continue(w) \/ EndRun(w)

Next ==
  \/ \E w \in Workers : Step(w) \/ Miss(w) \/ Restart(w)
  \/ Crash

Spec == Init /\ [][Next]_vars

FairSpec == Spec /\ \A w \in Workers : WF_vars(Step(w))

=============================================================================
