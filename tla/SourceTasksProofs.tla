--------------------------- MODULE SourceTasksProofs ---------------------------
(***************************************************************************)
(* One source may stand for all the tasks of a client: SourceTasks         *)
(* implements EventSource, whatever the number of tasks, the capacity of   *)
(* the channels and the number of messages.                                *)
(***************************************************************************)
EXTENDS SourceTasks, TLAPS

Stages == {"ended", "opening", "next", "send"}

TasksType ==
  /\ emitted \in Nat
  /\ reader \in Tasks \union {NoTask}
  /\ at \in [Tasks -> Stages]
  /\ place \in [Tasks -> Nat \ {0}]
  /\ msg \in [Tasks -> Nat]
  /\ queue \in [Tasks -> Seq(Nat)]
  /\ next \in Nat

(* A task has a message in hand when it waits for room, and then only. *)
InHand == \A t \in Tasks : msg[t] # 0 <=> at[t] = "send"

(* A task that ended has left nothing to the one that takes its place. *)
LeftNothing == \A t \in Tasks : at[t] = "ended" => queue[t] = <<>>

(* The task whose receiver is alive does not end, and next follows it from *)
(* its first connection on.                                                *)
ReaderRuns ==
  reader # NoTask =>
    /\ at[reader] # "ended"
    /\ at[reader] \in {"next", "send"} => next = place[reader]

TasksInv == TasksType /\ InHand /\ LeftNothing /\ ReaderRuns

-----------------------------------------------------------------------------
(* The invariant *)

LEMMA InitEstablishesInv == Init => TasksInv
BY TasksAssumption
   DEF Init, TasksInv, TasksType, InHand, LeftNothing, ReaderRuns, Stages

(* A send ends the task, or leaves it between two messages, or keeps it    *)
(* with the message in hand; no other task notices.                        *)
LEMMA AfterSending ==
  ASSUME TasksInv, NEW t \in Tasks, NEW m \in Nat \ {0},
         SendMsg(t, m),
         UNCHANGED reader,
         \/ at[t] = "next" /\ Moves(t, m + 1)
         \/ at[t] = "send" /\ UNCHANGED <<place, next>>,
         UNCHANGED emitted
  PROVE  TasksInv'
<1> USE DEF TasksInv
<1>1. TasksType'
  <2>1. queue' \in [Tasks -> Seq(Nat)]
    <3>1. queue[t] \in Seq(Nat) /\ queue \in [Tasks -> Seq(Nat)]
      BY DEF TasksType
    <3>2. Append(queue[t], m) \in Seq(Nat) /\ <<>> \in Seq(Nat)
      BY <3>1
    <3>3. \/ queue' = [queue EXCEPT ![t] = <<>>]
          \/ queue' = [queue EXCEPT ![t] = Append(queue[t], m)]
          \/ queue' = queue
      BY DEF SendMsg
    <3> QED
      BY <3>1, <3>2, <3>3
  <2>2. at' \in [Tasks -> Stages] /\ msg' \in [Tasks -> Nat]
    <3>1. \/ msg' = [msg EXCEPT ![t] = 0]
          \/ msg' = [msg EXCEPT ![t] = m]
      BY DEF SendMsg
    <3>2. \E s \in Stages : at' = [at EXCEPT ![t] = s]
      BY DEF SendMsg, Goes, Stages
    <3>3. msg' \in [Tasks -> Nat]
      BY <3>1 DEF TasksType
    <3>4. at' \in [Tasks -> Stages]
      BY <3>2 DEF TasksType
    <3> QED
      BY <3>3, <3>4
  <2>3. place' \in [Tasks -> Nat \ {0}] /\ next' \in Nat
    BY DEF Moves, TasksType
  <2> QED
    BY <2>1, <2>2, <2>3 DEF TasksType
<1>2. InHand'
  BY DEF SendMsg, Goes, InHand, TasksType
<1>3. LeftNothing'
  BY DEF SendMsg, Goes, LeftNothing, TasksType
<1>4. ReaderRuns'
  <2> SUFFICES ASSUME reader # NoTask
               PROVE  /\ at'[reader] # "ended"
                      /\ at'[reader] \in {"next", "send"} => next' = place'[reader]
    BY DEF ReaderRuns
  <2>1. reader \in Tasks
    BY DEF TasksType
  <2>2. CASE reader = t
    BY <2>1, <2>2 DEF SendMsg, Goes, Moves, ReaderRuns, TasksType
  <2>3. CASE reader # t
    <3>1. at'[reader] = at[reader]
      BY <2>1, <2>3 DEF SendMsg, Goes, TasksType
    <3>2. place'[reader] = place[reader] /\ next' = next
      BY <2>1, <2>3 DEF Moves, TasksType
    <3> QED
      BY <3>1, <3>2 DEF ReaderRuns
  <2> QED
    BY <2>2, <2>3
<1> QED
  BY <1>1, <1>2, <1>3, <1>4

LEMMA StepKeepsInv == TasksInv /\ [Next]_vars => TasksInv'
<1> SUFFICES ASSUME TasksInv, [Next]_vars
             PROVE  TasksInv'
  OBVIOUS
<1>1. ASSUME NEW t \in Tasks, Open(t)
      PROVE  TasksInv'
  BY <1>1 DEF Open, Goes, Moves, TasksInv, TasksType, InHand, LeftNothing,
              ReaderRuns, Stages
<1>2. ASSUME NEW t \in Tasks, Yield(t)
      PROVE  TasksInv'
  <2>1. place[t] \in Nat \ {0}
    BY DEF TasksInv, TasksType
  <2> QED
    BY <1>2, <2>1, AfterSending DEF Yield
<1>3. ASSUME NEW t \in Tasks, Wake(t)
      PROVE  TasksInv'
  <2>1. msg[t] \in Nat \ {0}
    BY <1>3 DEF Wake, TasksInv, TasksType, InHand
  <2> QED
    BY <1>3, <2>1, AfterSending DEF Wake
<1>4. ASSUME NEW t \in Tasks, Fail(t)
      PROVE  TasksInv'
  BY <1>4 DEF Fail, Goes, TasksInv, TasksType, InHand, LeftNothing,
              ReaderRuns, Stages
<1>5. ASSUME NEW t \in Tasks, Run(t)
      PROVE  TasksInv'
  BY <1>5 DEF Run, Goes, TasksInv, TasksType, InHand, LeftNothing,
              ReaderRuns, Stages
<1>6. CASE Drop
  BY <1>6 DEF Drop, taskVars, TasksInv, TasksType, InHand, LeftNothing, ReaderRuns
<1>7. CASE Drain
  BY <1>7 DEF Drain, TasksInv, TasksType, InHand, LeftNothing, ReaderRuns
<1>8. CASE Emit
  BY <1>8 DEF Emit, taskVars, TasksInv, TasksType, InHand, LeftNothing, ReaderRuns
<1>9. CASE UNCHANGED vars
  BY <1>9 DEF vars, taskVars, TasksInv, TasksType, InHand, LeftNothing, ReaderRuns
<1> QED
  BY <1>1, <1>2, <1>3, <1>4, <1>5, <1>6, <1>7, <1>8, <1>9 DEF Next

LEMMA TasksInvariant == Spec => []TasksInv
BY InitEstablishesInv, StepKeepsInv, PTL DEF Spec

-----------------------------------------------------------------------------
(* The client's source *)

(* The message the reader is sending, and the channel of the reader. *)
InReaderHand == IF reader = NoTask THEN 0 ELSE msg[reader]
ReaderQueue == IF reader = NoTask THEN <<>> ELSE queue[reader]

(* What a task does that is not the reader, EventSource does not show. *)
LEMMA OthersAreUnseen ==
  ASSUME TasksInv, NEW t \in Tasks, reader # t,
         Open(t) \/ Yield(t) \/ Wake(t) \/ Fail(t)
  PROVE  UNCHANGED Source!sourceVars
<1>1. UNCHANGED <<emitted, reader, next>>
  BY DEF Open, Yield, Wake, Fail, Moves
<1>2. reader # NoTask =>
        at'[reader] = at[reader] /\ msg'[reader] = msg[reader]
          /\ queue'[reader] = queue[reader]
  BY DEF Open, Yield, Wake, Fail, SendMsg, Goes, TasksInv, TasksType
<1>3. UNCHANGED <<Link, InReaderHand, ReaderQueue>>
  BY <1>1, <1>2 DEF Link, InReaderHand, ReaderQueue
<1> QED
  BY <1>1, <1>3 DEF Source!sourceVars, ForClient, InReaderHand, ReaderQueue

(* The reader connects, receives, sends and disconnects as the source. *)
LEMMA ReaderConnects ==
  ASSUME TasksInv, NEW t \in Tasks, reader = t, Open(t)
  PROVE  Source!Connect(Client)
<1>1. Link = "connecting" /\ Link' = "open"
  BY TasksAssumption DEF Open, Goes, Link, TasksInv, TasksType
<1>2. next' = emitted + 1
  BY DEF Open, Moves
<1>3. UNCHANGED <<emitted, reader, msg, queue>>
  BY DEF Open
<1> QED
  BY <1>1, <1>2, <1>3
     DEF Source!Connect, Source!FirstCarried, ForClient, Client

LEMMA ReaderReceives ==
  ASSUME TasksInv, NEW t \in Tasks, reader = t, Yield(t)
  PROVE  Source!Receive(Client)
<1>1. reader # NoTask /\ UNCHANGED <<emitted, reader>>
  BY TasksAssumption DEF Yield
<1>2. at[t] = "next" /\ Link = "open" /\ msg[t] = 0
  BY <1>1 DEF Yield, Link, TasksInv, TasksType, InHand
<1>3. Link' = "open"
  BY <1>1, <1>2 DEF Yield, SendMsg, Goes, Link, TasksInv, TasksType
<1>4. next = place[t] /\ next' = next + 1 /\ next <= emitted
  BY <1>1, <1>2 DEF Yield, Moves, TasksInv, ReaderRuns
<1>5. \/ /\ Len(queue[t]) < ChannelCap
         /\ queue'[t] = Append(queue[t], next) /\ msg'[t] = msg[t]
      \/ /\ Len(queue[t]) >= ChannelCap
         /\ msg'[t] = next /\ queue'[t] = queue[t]
  BY <1>1, <1>2, <1>4 DEF Yield, SendMsg, TasksInv, TasksType
<1> QED
  BY <1>1, <1>2, <1>3, <1>4, <1>5 DEF Source!Receive, ForClient, Client

LEMMA ReaderSends ==
  ASSUME TasksInv, NEW t \in Tasks, reader = t, Wake(t)
  PROVE  Source!Send(Client)
<1>1. reader # NoTask /\ UNCHANGED <<emitted, reader, next>>
  BY TasksAssumption DEF Wake
<1>2. at[t] = "send" /\ Link = "open" /\ msg[t] # 0
  BY <1>1 DEF Wake, Link, TasksInv, TasksType, InHand
<1>3. Link' = "open"
  BY <1>1, <1>2 DEF Wake, SendMsg, Goes, Link, TasksInv, TasksType
<1>4. /\ Len(queue[t]) < ChannelCap
      /\ queue'[t] = Append(queue[t], msg[t])
      /\ msg'[t] = 0
  <2>1. Len(queue[t]) \in Nat /\ ChannelCap \in Nat
    BY CapAssumption DEF TasksInv, TasksType
  <2>2. Len(queue[t]) < ChannelCap
    BY DEF Wake
  <2> QED
    BY <2>1, <2>2 DEF Wake, SendMsg, TasksInv, TasksType
<1> QED
  BY <1>1, <1>2, <1>3, <1>4 DEF Source!Send, ForClient, Client

LEMMA ReaderDisconnects ==
  ASSUME TasksInv, NEW t \in Tasks, reader = t, Fail(t)
  PROVE  Source!Disconnect(Client)
<1>1. reader # NoTask /\ UNCHANGED <<emitted, reader, next, msg, queue>>
  BY TasksAssumption DEF Fail
<1>2. Link = "open" /\ Link' = "connecting" /\ msg[t] = 0
  BY <1>1 DEF Fail, Goes, Link, TasksInv, TasksType, InHand
<1> QED
  BY <1>1, <1>2 DEF Fail, Source!Disconnect, ForClient, Client

(* A new task is a source that starts: whoever ran in its place before it  *)
(* left neither a message nor a queue.                                     *)
LEMMA RunStartsTheSource ==
  ASSUME TasksInv, NEW t \in Tasks, Run(t)
  PROVE  Source!StartSource(Client)
<1>1. reader' = t /\ t # NoTask /\ UNCHANGED <<emitted, next>>
  BY TasksAssumption DEF Run
<1>2. Link' = "connecting"
  BY <1>1 DEF Run, Goes, Link, TasksInv, TasksType
<1>3. msg'[t] = 0 /\ queue'[t] = <<>>
  BY DEF Run, TasksInv, TasksType, InHand, LeftNothing
<1> QED
  BY <1>1, <1>2, <1>3 DEF Source!StartSource, ForClient, Client

LEMMA DropEndsTheSource ==
  ASSUME Drop
  PROVE  Source!DropSource(Client)
BY DEF Drop, Source!DropSource, ForClient, Client, Link

LEMMA DrainEmptiesTheChannel ==
  ASSUME TasksInv, Drain
  PROVE  SourceDrained
<1>1. reader \in Tasks /\ reader' = reader
  BY DEF Drain, TasksInv, TasksType
<1> QED
  BY <1>1 DEF Drain, SourceDrained, Link, TasksInv, TasksType

LEMMA FeedEmits ==
  ASSUME Emit
  PROVE  Source!Emit
<1>1. UNCHANGED <<reader, at, msg, queue, next>>
  BY DEF Emit, taskVars
<1> QED
  BY <1>1 DEF Emit, Source!Emit, ForClient, Link

-----------------------------------------------------------------------------
(* The refinement *)

(* One source stands for all the tasks of a client (ImplementsSource):     *)
(* each step of a task is the step of the source, when its receiver is     *)
(* alive, or changes nothing that the client could notice, when it is not  *)
(* (event_source.rs).  For any number of tasks, at the same time or in     *)
(* turn, any capacity and any number of messages.                          *)
THEOREM TasksImplementSource == Spec => ImplementsSource
<1>1. Init => Source!EventSourceInit
  BY DEF Init, Source!EventSourceInit, ForClient, Link
<1>2. TasksInv /\ [Next]_vars
        => [\/ Source!Emit
            \/ Source!SourceStep(Client)
            \/ Source!StartSource(Client)
            \/ Source!DropSource(Client)
            \/ SourceDrained]_(Source!sourceVars)
  <2> SUFFICES ASSUME TasksInv, [Next]_vars
               PROVE  \/ Source!Emit
                      \/ Source!SourceStep(Client)
                      \/ Source!StartSource(Client)
                      \/ Source!DropSource(Client)
                      \/ SourceDrained
                      \/ UNCHANGED Source!sourceVars
    OBVIOUS
  <2>1. ASSUME NEW t \in Tasks, Open(t) \/ Yield(t) \/ Wake(t) \/ Fail(t)
        PROVE  Source!SourceStep(Client) \/ UNCHANGED Source!sourceVars
    <3>1. CASE reader # t
      BY <2>1, <3>1, OthersAreUnseen
    <3>2. CASE reader = t
      BY <2>1, <3>2, ReaderConnects, ReaderReceives, ReaderSends, ReaderDisconnects
         DEF Source!SourceStep
    <3> QED
      BY <3>1, <3>2
  <2>2. ASSUME NEW t \in Tasks, Run(t)
        PROVE  Source!StartSource(Client)
    BY <2>2, RunStartsTheSource
  <2>3. CASE UNCHANGED vars
    BY <2>3 DEF vars, taskVars, Source!sourceVars, ForClient, Link
  <2> QED
    BY <2>1, <2>2, <2>3, DropEndsTheSource, DrainEmptiesTheChannel, FeedEmits DEF Next
<1> QED
  BY <1>1, <1>2, TasksInvariant, PTL DEF Spec, ImplementsSource

=============================================================================
