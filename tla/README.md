# Verification of ceramic-fluence

TLA+ models of this repository, model-checked with TLC, and theorems about them
checked with TLAPS. The source is the reference: every definition that stands for
code is listed with its lines in `PROJECT.json` ("map").

## The system

The program awards points on the Ceramic network. A Ceramic node publishes a live
feed of documents. The *checkpointer* is an HTTP server that reads this feed once for
each of its clients, keeps what it read in SQLite and hands it out in batches. The
*calculator* turns point attestations found in the feed into point documents on the
node. It runs as a task of the checkpointer and, as a library, in the *event joiner*,
a Fluence service that a timer starts every minute for half an hour and that fetches
its events from the checkpointer.

| component | state | operations | talks to |
|---|---|---|---|
| batcher (`checkpointer/src/batcher.rs`) | request maps shared with the handlers; streams, outstanding events and errors of the run loop | `create_batcher`, `get_batch`; one round of `run`: drain, create, get, delete, persist | store, event sources, handlers (oneshot channels) |
| store (`checkpointer/src/persistence.rs`) | rows of `events(id PRIMARY KEY, client_id, event)` | `add_event`, `get_events` (select and delete) | called by the run loop only |
| event source (`checkpointer/src/event_source.rs`) | connection, channel of 100, a blocked send | connect, receive and send, reconnect | feed, run loop or calculator |
| HTTP handlers (`checkpointer/src/main.rs`) | `calculate_active` | POST and GET `/batch`, POST `/calculate`; DELETE does nothing | batcher, calculator |
| calculator (`calculator/src/calculator.rs`, `checkpointer/src/calculator.rs`) | its cache | `process_event`: unique-events, all-events, first-all-events | cache |
| materialization cache (`calculator/src/materialization_cache.rs`) | cached documents by subject and context | `get_points`, `create_points`, `update_points` | Ceramic node |
| event joiner (`fluence/src/services/event_joiner`) | none between runs; the rest of its batch in a run | `process_events`: create a batcher, then get and process batches for ten seconds | batcher, calculator |

The rest is listed in `PROJECT.json`: client adapters, data types, error texts, the
tester, tracing and the build.

### What is hard, and what makes each part right

- **Batcher and store.** Handlers on worker threads file requests under a shared key
  while one task serves them round by round; requests replace each other, peers hang
  up, the loop panics, the process is restarted, the store refuses reads and writes,
  streams end with errors, channels fill up. Right means: an event is never handed
  out twice; it is lost only in ways one can name; it is handed out in order; every
  handler gets an answer; an ended stream is noticed; a running one is found.
- **Event source.** Its connection starts somewhere in the feed, breaks and is made
  again, and a full channel blocks it: no event may be sent twice, and none that was
  read may be dropped while somebody receives. Nothing stops the task of a source that
  was replaced: it may disturb nobody, and it has to end.
- **Event joiner.** Each run posts a create, which replaces the batcher of the run
  before, and each error ends it in the middle of a batch. Right means: no event is
  processed twice and none out of order, over all runs; what is lost between the feed
  and the documents is lost in ways one can name; a run ends; a stream that has ended
  comes back.
- **POST /calculate.** A flag read and set in two steps by threads that race, and a
  start that may fail: how many calculators there can be, and when the race is over.
- **Calculator and cache.** Up to six calls to the node for one event, each of which
  may fail or lose its response, between those of other calculators: one document for
  each holder and context, values that some attestation of the holder gives, and a
  cache that agrees with the node, although a calculator misses events between two
  connections and its process may die between two of the writes of one event.
- **Points.** `group_by` groups neighbours only, so that the three contexts count
  differently when a context comes back.

`PROJECT.json` ("hazards") lists the single hazards with their lines and the
properties that are there for them.

## Modules

    ClientsAndFailures
      Persistence             the store
      EventSource             the feed and the tasks that read it
        SourceTasks           all tasks of a client, implements EventSource
          MCSourceTasks
          SourceTasksProofs   the tasks implement EventSource
        Batcher               run loop and HTTP handlers, composed with both
          BatcherProperties   what it promises
            BatcherHistory    history variables for two findings
              MCBatcherHistory
            BatcherRounds     how long handlers wait
              MCBatcher       instances for TLC
              BatcherProofs   types, streams, waiting handlers
                DeliveryProofs  no event twice, Delivery, named losses, order
          EventJoiner         runs of the joiner, composed with the batcher
            EventJoinerProperties
              MCEventJoiner
              EventJoinerProofs  with DeliveryProofs: theorems about both
    Delivery                  abstract: a mailbox for each client
    Calculate                 POST /calculate
      MCCalculate
      CalculateProofs
    Points                    the three values of an attestation
      PointsProofs            lemmas about them
      MCPoints                against a scan
        ScanProofs            for attestations of any length
    MaterializationCache      documents and caches
      Calculator              calculators of both kinds, composed with both
        CalculatorProperties
          MCCalculator
          CalculatorProofs    with PointsProofs

### How the models correspond to the code

**Store.** `db[c]` is the rows of client `c` in insertion order. The primary key is
the commit id alone: `AddEvent` is refused while *any* client's row has it.
`GetEvents` is the transaction of `get_events`; when it fails nothing changes.

**Event source.** Feed messages are the numbers 1, 2, ... in the order the node emits
them, `Malformed` are those that do not parse. A connection carries what is emitted
after it was opened (`next`). `Receive` is one turn of the task's loop: decode and
send, or block with the message in `held`. A source whose receiver was dropped ends at
its next send and nobody can observe it before; dropping the receiver switches it off.

**Source tasks.** `SourceTasks` does not make that simplification: it has every task
that was spawned for one client, with its own connection, channel and blocked message,
and `reader` is the task whose receiver the batcher holds. A task is at `next` or
`send`, its two awaits, or `opening`, which is the first connection as well as the
pause of a second and the one after. `tx.send` fails at once, or while it waits, when
the receiver has gone. The mapping to `EventSource` takes the state of the reader;
`next` is a history variable that remembers the place of the last one.

**Batcher.** `phase` says where `run` is: "drain" (batcher.rs:96-128), "create"
(129-176), "persist" (186-200), or "dead" after a panic. Each action is what lies
between two awaits that others can observe: one `Drain` for each stream, one
`ServeCreate` or `CreatePanics` for each create request, `ServeGets` for all gets,
one `Persist` for each event written. Order among clients is left open, as it is for
a `HashMap`. `Drain` empties the channel in one step although the code receives one
message at a time: the sources are tasks that only append, so that a message that
arrives while the loop drains is one that arrived before, or after. `unpersisted` is
the local list of refused events; `known`, `pending` and `failed` are the fields of
`outstanding_events`. A handler is a member of `Callers`;
its oneshot channel is the slot that holds it, `Gone` is a slot whose handler has
hung up. The code takes the get requests out of their map and answers them without an
await in between, so that both are `ServeGets`. `delivered` is a history variable, and
`waited` of `BatcherRounds` another: how often a round has gone from its creates to its
gets while a handler waited.

Behaviours kept as they are in the code: a get removes its entry, and with it the
events beyond its limit (batcher.rs:152, 163-168: the swap leaves the rest in the
entry that was removed); a stream's error is reported only to a get
that finds no pending events and is dropped otherwise; a create replaces the entry and
the source of its client; both `unwrap`s of the create loop end the task; a stream that
ended is never started again by itself.

**Delivery.** What a client may take the checkpointer for: a message of the feed is
read into its mailbox or skipped for good; what is in the mailbox waits, is lost, or is
handed out and gone. The mapping puts rows, local lists, pending events, the channel
and the blocked message of a client into one set (`Stock`).

**Event joiner.** One run after the other (the service is executed by one worker):
`Start` posts the create, `Ask` a get without a limit, `Process` takes one event of
the batch, and each error (`ProcessFails`, an answer that is not 200, is lost or does not
parse) ends the run with what it has not processed. `TimeIsUp` is the test at the end
of a batch. What `process_event` does to the documents is in `Calculator`; here an
event is processed or fails, either way.
A step of the checkpointer that answers the run's request is one step with what the
run makes of the answer (`Loop /\ Hears`), as nobody else waits at the handler of the run.
`Killed` is the node of the service going down with its `curl`. `OtherHttp` are other
HTTP clients, which may use the client id of the service and so replace its requests
and take its events. `processed` is a history variable.

**Calculate.** One step for each access to the flag. Accesses are taken to be
sequentially consistent, although the code asks for `Relaxed`: there is one flag, and
coherence of a single location gives the races shown. Whether the model ids of the
environment parse is a constant of the process.

**Points.** `GroupStarts` is where `group_by` begins a group. Values are operators on
the sequence of claims.

**Cache and calculator.** A document is its place in `docs`. A worker is one
`Calculator` value with a cache of its own. `Take` is `process_event` up to the first
call of the cache; `Get` and `Create`/`Update` are the two calls made in each context,
and other workers run in between. The `...Fails` actions are the `?` after each of
them, with and without an effect on the node. A calculator of
the checkpointer continues with its next event; a run of the joiner ends, loses the rest
of its batch and is followed by one with an empty cache. `Miss` is an event emitted while
a calculator has no connection. `Crash`
stops the calculators of the checkpointer wherever they are, `Restart` is the next
POST /calculate: an empty cache, and a place further on in the feed.

The query asks for documents whose "subject" is the holder, a field the documents do
not have (theirs is `recipient`). What the node makes of it is not in this repository:
`reading` says whether it takes it for the recipient, finds nothing, or ignores it and
finds the documents of everyone; a node that refuses the query is the failure "query".
Where it finds nothing, a new run of the joiner or a restarted calculator makes new
documents. Where it finds something, the first document is taken whatever its recipient
and context are (materialization_cache.rs:39-51): the value of one context gets into the
document of another, and, with the documents of everyone, that of one holder into the
document of another holder, who may be left without one. No property says otherwise; the
values are right for nodes that find nothing, and for the others it is checked how many
documents there may be and that they stay whose they are. Properties that hold for some
readings only say so.

## Runs

All bounds are in the `.cfg` files. Counters are bounded by guards: `MaxEvents` (feed
messages), `MaxRequests`, `MaxRestarts`, the length of a feed; `waited` stops at
`WaitBound`, one above what is ever reached.

| run | asks | instance |
|---|---|---|
| `batcher_safety` | is an event ever copied or lost, does a handler wait for a whole round, is a dead stream unnoticed, a running client unknown? does the batcher implement `Delivery`? | 1 client, 2 requests, 4 messages (one malformed), channel of 2, limits 0, 1 and none, every failure |
| `batcher_clients` | do clients harm each other through the store, does every handler return, and does what was received reach a client that keeps asking? | 2 clients, 2 requests, 2 messages that both read, channel of 1, failing writes; nobody creates a batcher that is there; no hang-up and no failing read, so that the loop does not panic |
| `event_joiner` | from the feed to the documents: order, named losses; runs end, a dead stream comes back | the joiner and another HTTP client of its client id, 4 messages (one malformed), channel of 2, limits 1 and none, crashes, hang-ups, kills and reconnects, every failure of a run; the store works |
| `source_tasks` | do replaced tasks disturb the one that is read from, and do they end? | 3 tasks of one client, 4 messages, channel of 2, reconnects |
| `calculate` | what does the race for the flag allow? | 3 handlers, 6 requests, 2 restarts |
| `points` | are the three values right, and when does all-events count an event twice? | all attestations up to 5 claims, 3 contexts, 2 times |
| `calculators` | caches and documents of calculators that race | 2 calculators, 2 holders, 6 feeds of two or three events, failing queries and writes, missed events |
| `calculator_joiner` | how many documents are there, whose are they, and can a wrong value get into them? | calculator and joiner, 3 feeds, all three readings of the query, every failure, lost responses, crashes and restarts |

What they show: a batcher moves events and never copies them; it loses them when it
dies, when it is replaced, behind a message that does not parse and beyond the limit of
a get, and in no other way. With the joiner as its client an event is lost, besides,
with the run that fails after it was handed out, or to another HTTP client that asks
under the same client id. While the loop runs, a handler that waits is answered, or
replaced, in the next round at the latest. No run and no restart brings an event back
that was handed out. A stream that has ended comes back with the next run, as the run
either gets its error or runs out of time; this needs the spell, which ends after half
an hour, to go on.

Order holds for one client while the store works. It
does not for two: they share the primary key, an event one of them cannot store stays
in memory while later ones are stored, and the next round gathers them in another
order (batcher.rs:193-198, 106-109); a document then gets the points of an older
attestation (calculator.rs:133). A start that fails leaves `calculate_active` set
and later requests refused (main.rs:99-103); `FlagIsHonest` says that this is the only
way the flag and the calculators come to disagree.

Why the bounds are enough. One client meets every order of its own steps, as others
meet it only in the store's primary key; for that, two clients and two messages
are enough: each can hold the row the other needs. Two requests are enough for one to
replace another; a channel of one or two fills up within three or four messages with
one more blocked behind it. A limit of 0 or 1 is below, at and above what can be
pending. A malformed message in second place has one in front of it and some behind.
In `event_joiner` one other HTTP client is enough to replace a request and to take a batch
or a part of it; runs are not bounded in number. Of three tasks one is read from, and the
other two can be blocked on a full channel and connected at the same time.
Two workers are enough for the race between query and write; the feeds bring a holder
back with fewer and with more groups, after an event that does not parse, after one
that is skipped and after another holder. `TOTAL_EVENTS` is 2 or 3 instead of 9, which
only moves the threshold. In the theorems below all these bounds are parameters of any
size.

### Findings

Four runs show the code do otherwise than the repository says; the lines and
quotations are in `PROJECT.json`.

- `finding_subscription`: POST /batch is answered before the source has connected;
  what the node emits until then is missed. The batcher's own test depends on it.
- `finding_checkpoint`: a round removes the rows first and writes them back last; a
  create served in between, as every run of the joiner posts one, overwrites the entry
  that holds them, and checkpointed events are lost without any failure. A crash in
  between loses them as well.
- `finding_hangup`: a peer that hangs up during POST /batch makes the run loop panic;
  the process lives on and later handlers wait for ever.
- `finding_two_calculators`: two racing requests start two calculators.

## Fairness

`FairSpec` of the batcher assumes that the executor runs a task that is ready: weak
fairness of the run loop as a whole and of each source's connect, receive and send.
Every await of the loop is on the store, a lock that is held for a few instructions,
or a timer. Nothing is assumed of the feed, of HTTP clients, or of failures, and a source
may keep breaking its connection.

`Polling`, the premise of `PolledEventsArrive`, is that the client keeps asking, which is
a property of the client and not of the code: strong fairness of `CallGet` without a
limit. It needs to be strong because the request is only possible when a handler is free.

`FairJoinerSpec` assumes the same of the loop and the sources; that each call a run makes
returns, so that the run takes its next step (weak fairness of `RunStep`); and that its
ten seconds pass: `TimeIsUp` is possible after each batch and cannot be put off for ever
(strong fairness, as it is not possible during a request). `Start` is not fair, as the
spell stops after half an hour; `StreamComesBack` has it as the premise `SpellLasts`,
together with crashes that come to an end.

`FairSpec` of the source tasks is weak fairness of each task's connect, message and send.
A connection may go on to break.

`FairSpec` of the calculators is weak fairness of each worker's steps: every call to
the node returns, with a result or an error.

## What is proved

Every invariant, every action property and every refinement that a passing run checks is
also a theorem; liveness is not. The theorems hold for all sets of clients, callers,
tasks, workers, holders and contexts, all failures, limits and malformed messages, any
capacity of the channel, any feed and any number of messages. They start from the named
assumptions in `ClientsAndFailures`, `EventSource`, `SourceTasks`, `Batcher`, `EventJoiner`,
`Calculate`, `Points`, `MaterializationCache`, `Calculator` and `MCPoints`: capacity and
`TOTAL_EVENTS` positive, readings among the three, failures among those named,
limits and times naturals, the values "no request", "gone" and "no task" different from
each other and from every handler and task, no client called "none", the joiner's client
id and handler among the others, a finite set of requests in progress.

Some theorems have a hypothesis of their own, because what they say is false without it.

- `OneWorkingStore`: one client id, and the store refuses neither writes nor reads.
  An event the store refuses stays in memory while later ones are stored, and it refuses
  one either because it fails or because the row of another client has the same
  primary key; after a read that fails, older rows wait while newer events are handed
  out. The run `event_joiner` is an instance.
- `NoSurprises`: queries for "subject" find nothing, and a call that fails has had no
  effect on the node. A lost response leaves a document that is in no cache. A query that
  finds something finds a document of any context, and two calculators may then hold the
  same one. `NoNewWorkers`: besides, nobody starts over with an empty cache; there are
  finitely many workers. The run `calculators` is an instance of both.

**The checkpointer and the joiner**

| theorem | says | argument |
|---|---|---|
| `TypeCorrect` | `Spec => []TypeOK` | `TypeOK` alone is not inductive: `Persist` takes the head of `pending[c]`. `SomethingToWrite` adds that a client still to be written has events. |
| `DeadStreamsFlagged` | an entry carries an error exactly when its stream has ended | inductive with the types; `todo` within `streams` while draining keeps `Drain` from restarting a dead stream |
| `LiveClientsFound` | a get for a running stream finds its entry | a get removes entries, the next drain makes them again: in phase "drain" every stream without an entry is still in `todo`, so at its end there is none |
| `NobodyWaitsLong` | `RoundsSpec => []NobodyWaitsTwoRounds` | `RoundsInv`: who has waited through the answers of a round had posted a create behind the one the round took, and it is still filed or, from the next round's start, taken; gets are all answered. The history is counted in every step (`BatcherRounds`) |
| `HandedOutAtMostOnce` | `Spec => []AtMostOnce` | stated over one concatenation of six places `AtMostOnce` is hard to use: `DifferentEvents` says the six places have no repetition and are pairwise disjoint, and `BehindTheFeed` that the connection is beyond all events the client has, so what it receives next is new, also after a reconnect or a new source |
| `BatcherImplementsDelivery` | `Spec => ImplementsDelivery` | from the invariant above: each step is, for each client, one of the four steps of its mailbox. What is handed out leaves `Stock` because the six places are disjoint, and a message read is new because the connection is beyond them |
| `LossesAreNamed` | `Spec => OnlyNamedLosses` | `Explained`: action by action, each event of the six places is in one of them after the step, or the step is one of those that are named. What decides are three facts on sequences: what `Decoded` drops is behind a malformed message, what `Batch` drops is beyond the limit, and a head that moves is nowhere missing |
| `EventsKeepTheirOrder`, `NothingStaysUnsaved` | `FeedOrder`, `SleepsWithNothingUnsaved`, for `OneWorkingStore` | `OrderInv`: each of the six places is in order, all of one come before all of the next, and which of them are empty in which phase (`InTurn`). The order alone is not inductive: what is gathered in a drain only comes before the channel because nothing is unsaved then |
| `TasksImplementSource` | `Spec => ImplementsSource` of `SourceTasks` | `TasksInv`: a task has a message in hand only while it waits for room, one that ended has left nothing to the next in its place, and the reader has not ended. A step of the reader is a step of the source; a step of another task changes nothing the mapping reads |
| `JoinerIsAClient` | `JoinerSpec => Spec` | a step of the composition is a step of the batcher or leaves its variables alone; all theorems about the batcher carry over |
| `RunAndHandlerAgree` | `JoinerSpec => []JoinerTypeOK` | one step for each part of the composition; that a handler returns to idle is what `Hears` listens to |
| `EventsProcessedOnce` | `JoinerSpec => []ProcessedOnce`, also for a store that fails, two clients and every other failure; no run checks it, as with a store that works it follows from `PointsNeverGoBack` | `OnlyHandedOut`: what was processed or is in the batch was handed out. What a step hands out now was not before (`HandedOutIsNew`, from `AtMostOnce` after the step), so that it is new to the run as well |
| `PointsOnlyGoForward` | `JoinerSpec => []PointsNeverGoBack`, for `OneWorkingStore` | `RunOrder`: what was processed is in order and comes before the batch, which is in order; what is handed out comes before what is in stock, by `FeedOrder` of the batcher |
| `EndToEndLossesNamed` | `JoinerSpec => EndToEndLosses` | an event of the batch is processed or lost with the run; one in stock has `LossesAreNamed` of the batcher. The two meet in the answer: what a get takes from the stock is in the batch of the run if the get is the run's, which asks for everything (`AsksForAll`), and is counted as asked for by another if not |

**POST /calculate**

| theorem | says | argument |
|---|---|---|
| `CalculateTypeCorrect` | `Spec => []TypeOK` of `Calculate` | inductive; `calculators` is a natural number because no start is taken back |
| `FlagStaysHonest`, `RaceEnds` | `FlagIsHonest`, `NoLateStarter` | `ClearMeansNone`: while the flag is clear no handler has got as far as the start |
| `CalculatorsStayBounded` | `CalculatorsBounded` | by cardinalities: a start takes one handler out of `Starting`, and a read of a clear flag puts one in, when no calculator runs |

**Points and calculators**

| theorem | says | argument |
|---|---|---|
| `CountsAgree` | `CountsAgreeWhenTogether`, for attestations of any length | the contexts of the groups are as many as the groups exactly when no two groups share one (`FS_Surjection`). If an event comes back, its first claim and its first claim after the other event start two groups (`FirstStartsAGroup`); two groups of one event have another's claim between them |
| `UniqueEventsRight`, `CompletedAtRight` | the other two properties of `points`, for attestations of any length | the scan does the induction: one more claim starts a new group or continues the last (`OneMoreClaim`), and `ScanInv` relates what the scan has seen to `GroupStarts` of what it has read. That the last claim with the latest time is found in its group is `PointsProofs` |
| `CalculatorTypeCorrect` | `Spec => []TypeOK` of `Calculator` | `AtAnEvent`: a worker in the middle of an event is at an attestation of the feed, and has got to first-all-events only if it is complete, so that the values it writes are defined |
| `KeysAreKept` | `DocumentsKeepTheirKey`, for every reading of the query | `HolderInv`: what is cached has the recipient and context of its document, whatever it was asked for, and what a worker found before it was interrupted is still in its cache. `DocumentsWritten` says for every step which documents it writes, and with what |
| `RacersStayFew` | `RacersMakeOneEach`, for finitely many workers | `RaceInv`: the documents of a holder and the workers about to create one are together no more than the workers. A worker joins them only when there is no document, and leaves with the one it creates |
| `ValuesStayEarned`, `FirstStaysFinal` | `ValuesAreEarned`, `FirstIsFinal` | where queries find nothing, what is cached for a holder and context is a document of both (`CachedWhereItBelongs`); in first-all-events a worker that has found something is done |
| `CachesAreCurrent` | `CacheIsCurrent`, for `NoSurprises` | `OwnDocuments`: no two workers have cached the same document, so that others only write documents that are not in this cache. That is why a stale cache does no harm with a node that finds nothing, and why it can with one that finds documents |
| `DocumentsAreUpToDate` | `UpToDate`, for `NoSurprises` | `WrittenSoFar`: the contexts a worker has behind it in its event are in its cache with the values of the event; with `CacheIsCurrent` they are in the documents |
| `OneEachAlways` | `OneDocumentPerWorker`, for `NoSurprises` and `NoNewWorkers` | every document is in somebody's cache (`AllCached`) and no two workers have the same one: choosing a worker for each document of one holder and context is an injection into the workers |

The invariants were checked by TLC on the instances before they were proved. Lemmas on
sequences (a concatenation repeats nothing if its parts do not and are
disjoint, is in order if they are and one comes before the other; a prefix repeats
nothing; heads and tails) and on what `Decoded` and `Batch`
return stand in front of the theorems that use them.

Only model-checked is liveness: `HandlersReturn`, `PolledEventsArrive`, `RunsEnd`,
`StreamComesBack`, `OrphansEnd` and `ReachesTheEnd` rest on fairness and enabledness,
which the prover does not handle.

## Not modelled, and why

- `stream_delete_requests` is never written, so its part of the loop is dead code, and
  the DELETE handler changes nothing.
- Texts and codes of responses, HTTP and JSON parsing, tracing, environment variables,
  the database file; the signature check of attestations, which only logs.
- The claims id of a document, which no decision depends on.
- `replace` of the joiner is a GET of the stream and a POST of a commit; it is one step
  here, as what is written does not depend on what was read, and the failure of either
  is the failure of the step. What the node makes of two commits on the same tip is not
  in this repository.
- The period and the end of the spell that starts the joiner; a run of it is `Start`.
- The Ceramic node, its feed and the Fluence platform are not in this repository; they
  appear as the code uses them.
- Command line tester, build, deployment.

## Plan

Everything a passing run checks is proved except liveness. What could still be stated
and proved:

1. How many documents there are where queries find nothing and calculators start over:
   one more for each start or lost response, as an invariant over a count of both.
2. What every client of the mailbox may rely on, as theorems of `Delivery` itself, which
   the refinement carries over to the batcher and the joiner.
