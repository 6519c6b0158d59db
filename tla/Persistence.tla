----------------------------- MODULE Persistence -----------------------------
(***************************************************************************)
(* The SQLite store of the checkpointer (checkpointer/src/persistence.rs). *)
(*                                                                         *)
(* One table, events(id PRIMARY KEY, client_id, event).  The primary key   *)
(* is the commit id of the event and NOT the pair (client, commit): while  *)
(* one client's row holds an event, no other client can store it.  The     *)
(* table is kept as one sequence of event ids per client, in the order the *)
(* rows were inserted, which is the order a full scan returns them in.     *)
(*                                                                         *)
(* Only the run loop of the batcher uses the store, so that every          *)
(* operation below is a single atomic step of it.                          *)
(***************************************************************************)
EXTENDS ClientsAndFailures, Naturals, Sequences, Functions

VARIABLE db  \* db[c]: the events in the rows of client c, oldest first

PersistenceInit == db = [c \in Clients |-> <<>>]

(* The primary keys in use. *)
StoredIds == UNION {Range(db[c]) : c \in Clients}

(* INSERT INTO events: refused while any row has the same id. *)
AddEvent(c, e) ==
  /\ e \notin StoredIds
  /\ db' = [db EXCEPT ![c] = Append(@, e)]

AddEventFails(e) ==
  /\ e \in StoredIds \/ "add" \in Faults
  /\ UNCHANGED db

(* Mutant: the SELECT without the DELETE. *)
GetEventsKeepsRows(c) == c \in Clients /\ UNCHANGED db

(* Mutant: the DELETE without its WHERE. *)
GetEventsClearsAll(c) == c \in Clients /\ db' = [d \in Clients |-> <<>>]

(* SELECT then DELETE in one transaction: the caller gets db[c] and the    *)
(* rows are gone.  When the transaction fails it is rolled back.           *)
GetEvents(c) == db' = [db EXCEPT ![c] = <<>>]

GetEventsFails ==
  /\ "get" \in Faults
  /\ UNCHANGED db

=============================================================================
