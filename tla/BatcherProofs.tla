---------------------------- MODULE BatcherProofs ----------------------------
(***************************************************************************)
(* Invariants of the batcher, for every set of clients, callers, faults,   *)
(* limits and malformed messages and every capacity of the channel.        *)
(***************************************************************************)
EXTENDS BatcherRounds, SequenceTheorems, WellFoundedInduction, TLAPS

-----------------------------------------------------------------------------
(* The operators of the run loop *)

(* A non-empty set of naturals has a least element. *)
LEMMA MinOfNat ==
  ASSUME NEW S \in SUBSET Nat, S # {}
  PROVE  Min(S) \in S /\ \A y \in S : Min(S) <= y
<1> DEFINE R == {ss \in Nat \X Nat : ss[1] < ss[2]}
<1>1. IsWellFoundedOn(R, Nat)
  BY NatLessThanWellFounded DEF OpToRel
<1>2. PICK x \in S : \A y \in S : ~ (<<y, x>> \in R)
  BY <1>1, WFMin, Zenon
<1>3. \A y \in S : x <= y
  <2> TAKE y \in S
  <2>1. x \in Nat /\ y \in Nat
    OBVIOUS
  <2>2. ~ (y < x)
    BY <1>2, <2>1, Zenon
  <2> QED BY <2>1, <2>2
<1> QED BY <1>3 DEF Min

(* The first error is found at a place of the channel or right behind it. *)
LEMMA FirstErrorType ==
  ASSUME NEW q \in Seq(Messages)
  PROVE  FirstError(q) \in 1..(Len(q) + 1)
<1> DEFINE bad == {i \in DOMAIN q : q[i] \in Malformed}
<1>1. Len(q) \in Nat /\ DOMAIN q = 1..Len(q)
  BY LenProperties
<1>2. CASE bad = {}
  BY <1>1, <1>2 DEF FirstError
<1>3. CASE bad # {}
  <2>1. bad \in SUBSET Nat
    BY <1>1
  <2>2. Min(bad) \in bad
    BY <1>3, <2>1, MinOfNat
  <2>3. FirstError(q) = Min(bad)
    BY <1>3 DEF FirstError
  <2> QED BY <1>1, <2>2, <2>3
<1> QED BY <1>2, <1>3

(* What try_recv yields is a prefix of the channel. *)
LEMMA DecodedIsPrefix ==
  ASSUME NEW q \in Seq(Messages)
  PROVE  /\ Decoded(q) \in Seq(Messages)
         /\ Len(Decoded(q)) <= Len(q)
         /\ \A i \in 1..Len(Decoded(q)) : Decoded(q)[i] = q[i]
<1> DEFINE n == FirstError(q) - 1
<1>1. n \in 0..Len(q)
  BY FirstErrorType, LenProperties
<1>2. \A i \in 1..n : q[i] \in Messages
  BY <1>1, ElementOfSeq
<1> HIDE DEF n
<1>3. /\ SubSeq(q, 1, n) \in Seq(Messages)
      /\ Len(SubSeq(q, 1, n)) = n
      /\ \A i \in 1..n : SubSeq(q, 1, n)[i] = q[i]
  BY <1>1, <1>2, SubSeqProperties
<1> QED BY <1>1, <1>3 DEF Decoded, n

(* A batch is a prefix of what is pending. *)
LEMMA BatchIsPrefix ==
  ASSUME NEW q \in Seq(Messages), NEW l \in Limits \cup {NoLimit}
  PROVE  /\ Batch(q, l) \in Seq(Messages)
         /\ Len(Batch(q, l)) <= Len(q)
         /\ \A i \in 1..Len(Batch(q, l)) : Batch(q, l)[i] = q[i]
<1> DEFINE n == Min({l, Len(q)})
<1>1. Len(q) \in Nat
  BY LenProperties
<1>2. CASE l = NoLimit
  BY <1>1, <1>2 DEF Batch
<1>3. CASE l # NoLimit
  <2>1. l \in Nat
    BY <1>3, LimitsAssumption
  <2>2. n \in {l, Len(q)} /\ n <= Len(q)
    BY <1>1, <2>1, MinOfNat
  <2>3. n \in 0..Len(q)
    BY <1>1, <2>1, <2>2
  <2>4. \A i \in 1..n : q[i] \in Messages
    BY <2>3, ElementOfSeq
  <2> HIDE DEF n
  <2>5. /\ SubSeq(q, 1, n) \in Seq(Messages)
        /\ Len(SubSeq(q, 1, n)) = n
        /\ \A i \in 1..n : SubSeq(q, 1, n)[i] = q[i]
    BY <2>3, <2>4, SubSeqProperties
  <2>6. Batch(q, l) = SubSeq(q, 1, n)
    BY <1>3 DEF Batch, n
  <2> QED BY <1>1, <2>3, <2>5, <2>6
<1> QED BY <1>2, <1>3


-----------------------------------------------------------------------------
(* Types *)

(* The sequences of messages are closed under what the actions do to them. *)
LEMMA MessageSeqs ==
  /\ <<>> \in Seq(Messages)
  /\ \A s, t \in Seq(Messages) : s \o t \in Seq(Messages)
  /\ \A s \in Seq(Messages), e \in Messages : Append(s, e) \in Seq(Messages)
  /\ \A e \in Messages : <<e>> \in Seq(Messages)
  /\ \A s \in Seq(Messages) : s # <<>> => Head(s) \in Messages /\ Tail(s) \in Seq(Messages)
<1>1. \A s, t \in Seq(Messages) : s \o t \in Seq(Messages)
  BY ConcatProperties
<1>2. \A s \in Seq(Messages), e \in Messages : Append(s, e) \in Seq(Messages)
  BY AppendProperties
<1>3. \A s \in Seq(Messages) : s # <<>> => Head(s) \in Messages /\ Tail(s) \in Seq(Messages)
  BY HeadTailProperties
<1> QED BY <1>1, <1>2, <1>3

(* The parts of the type invariant that belong to a module each. *)
SourceTypes ==
  /\ emitted \in Nat
  /\ link \in [Clients -> {"off", "connecting", "open"}]
  /\ next \in [Clients -> Messages]
  /\ held \in [Clients -> Nat]
  /\ chan \in [Clients -> Seq(Messages)]

LoopTypes ==
  /\ phase \in {"drain", "create", "persist", "dead"}
  /\ todo \in SUBSET Clients
  /\ current \in Clients \cup {NoClient}
  /\ unpersisted \in [Clients -> Seq(Messages)]
  /\ streams \in SUBSET Clients
  /\ known \in [Clients -> BOOLEAN]
  /\ pending \in [Clients -> Seq(Messages)]
  /\ failed \in [Clients -> BOOLEAN]

CallTypes ==
  /\ createReq \in [Clients -> Slot]
  /\ creating \in [Clients -> Slot]
  /\ getReq \in [Clients -> Slot]
  /\ getLimit \in [Clients -> Limits \cup {NoLimit}]
  /\ caller \in [Callers -> {"idle", "waiting"}]

HistoryTypes ==
  /\ db \in [Clients -> Seq(Messages)]
  /\ delivered \in [Clients -> Seq(Messages)]

LEMMA TypeParts == TypeOK <=> SourceTypes /\ LoopTypes /\ CallTypes /\ HistoryTypes
BY DEF TypeOK, SourceTypes, LoopTypes, CallTypes, HistoryTypes

(* What the types rest on: while the loop writes, every client it still    *)
(* has to visit has an event to write.                                     *)
SomethingToWrite == phase = "persist" => \A c \in todo : pending[c] # <<>>

LEMMA SomethingToWriteStep ==
  TypeOK /\ SomethingToWrite /\ [Next]_vars => SomethingToWrite'
<1> SUFFICES ASSUME TypeOK, SomethingToWrite, [Next]_vars PROVE SomethingToWrite'
  OBVIOUS
<1> USE DEF SomethingToWrite
<1>1. CASE ServeGets
  BY <1>1 DEF ServeGets
<1>2. ASSUME NEW c \in Clients, Persist(c)
      PROVE  SomethingToWrite'
  BY <1>2 DEF Persist, TypeOK
<1>3. CASE NextRound
  BY <1>3 DEF NextRound
<1>4. CASE Crash
  BY <1>4 DEF Crash
<1>5. ASSUME NEW c \in Clients, Drain(c) \/ ServeCreate(c) \/ CreatePanics(c)
      PROVE  SomethingToWrite'
  BY <1>5 DEF Drain, ServeCreate, CreatePanics
<1>6. CASE TakeCreates
  BY <1>6 DEF TakeCreates
<1>7. CASE UNCHANGED loopVars
  BY <1>7 DEF loopVars
<1>8. CASE Http
  BY <1>7, <1>8 DEF Http, CallCreate, CallGet, Hangup
<1>9. CASE UNCHANGED vars \/ Feed \/ \E c \in Clients : SourceTask(c)
  BY <1>7, <1>9 DEF vars, Feed, SourceTask
<1> QED BY <1>1, <1>2, <1>3, <1>4, <1>5, <1>6, <1>8, <1>9 DEF Next, Loop

(* The steps of a source keep its types. *)
LEMMA SourceKeepsTypes ==
  ASSUME SourceTypes, NEW c \in Clients
  PROVE  /\ SourceStep(c) => SourceTypes'
         /\ StartSource(c) => SourceTypes'
         /\ DropSource(c) => SourceTypes'
         /\ DropAllSources => SourceTypes'
         /\ Emit => SourceTypes'
<1> USE MessageSeqs DEF SourceTypes
<1>1. Connect(c) => SourceTypes'
  BY DEF Connect, FirstCarried, Messages
<1>2. Receive(c) => SourceTypes'
  <2> SUFFICES ASSUME Receive(c) PROVE SourceTypes'
    OBVIOUS
  <2>1. next' \in [Clients -> Messages]
    BY DEF Receive, Messages
  <2>2. held' \in [Clients -> Nat] /\ chan' \in [Clients -> Seq(Messages)]
    <3>1. next[c] \in Messages /\ next[c] \in Nat
      BY DEF Messages
    <3>2. Append(chan[c], next[c]) \in Seq(Messages)
      BY <3>1
    <3>3. \/ held' = held /\ chan' = [chan EXCEPT ![c] = Append(chan[c], next[c])]
          \/ held' = [held EXCEPT ![c] = next[c]] /\ chan' = chan
      BY DEF Receive
    <3> QED BY <3>1, <3>2, <3>3
  <2> QED BY <2>1, <2>2 DEF Receive
<1>3. Send(c) => SourceTypes'
  <2> SUFFICES ASSUME Send(c) PROVE SourceTypes'
    OBVIOUS
  <2>1. held[c] \in Messages
    BY DEF Send, Messages
  <2> QED BY <2>1 DEF Send
<1>4. Disconnect(c) => SourceTypes'
  BY DEF Disconnect
<1>5. StartSource(c) => SourceTypes'
  BY DEF StartSource
<1>6. DropSource(c) => SourceTypes'
  BY DEF DropSource
<1>7. DropAllSources => SourceTypes'
  BY DEF DropAllSources
<1>8. Emit => SourceTypes'
  BY DEF Emit
<1> QED BY <1>1, <1>2, <1>3, <1>4, <1>5, <1>6, <1>7, <1>8 DEF SourceStep

(* Every step keeps the types, provided that the loop is only ever writing *)
(* for clients that have something left to write.                          *)
LEMMA TypeStep == TypeOK /\ SomethingToWrite /\ [Next]_vars => TypeOK'
<1> SUFFICES ASSUME TypeOK, SomethingToWrite, [Next]_vars PROVE TypeOK'
  OBVIOUS
<1> USE MessageSeqs
<1>0. SourceTypes /\ LoopTypes /\ CallTypes /\ HistoryTypes
  BY TypeParts
<1> SUFFICES SourceTypes' /\ LoopTypes' /\ CallTypes' /\ HistoryTypes'
  BY TypeParts, PTL
<1>1. ASSUME NEW p \in Callers, NEW c \in Clients, CallCreate(p, c)
      PROVE  SourceTypes' /\ LoopTypes' /\ CallTypes' /\ HistoryTypes'
  <2>1. CallTypes'
    BY <1>0, <1>1 DEF CallCreate, CallTypes, CallerWaits, Released, Slot
  <2> QED BY <1>0, <1>1, <2>1 DEF CallCreate, sourceVars, loopVars, SourceTypes, LoopTypes, HistoryTypes
<1>2. ASSUME NEW p \in Callers, NEW c \in Clients, NEW l \in Limits, CallGet(p, c, l)
      PROVE  SourceTypes' /\ LoopTypes' /\ CallTypes' /\ HistoryTypes'
  <2>1. CallTypes'
    BY <1>0, <1>2 DEF CallGet, CallTypes, CallerWaits, Released, Slot
  <2> QED BY <1>0, <1>2, <2>1 DEF CallGet, sourceVars, loopVars, SourceTypes, LoopTypes, HistoryTypes
<1>3. ASSUME NEW p \in Callers, Hangup(p)
      PROVE  SourceTypes' /\ LoopTypes' /\ CallTypes' /\ HistoryTypes'
  <2>1. CallTypes'
    BY <1>0, <1>3 DEF Hangup, CallTypes, Abandoned, Slot
  <2> QED BY <1>0, <1>3, <2>1 DEF Hangup, sourceVars, loopVars, SourceTypes, LoopTypes, HistoryTypes
<1>4. ASSUME NEW c \in Clients, Drain(c)
      PROVE  SourceTypes' /\ LoopTypes' /\ CallTypes' /\ HistoryTypes'
  <2>1. SourceTypes'
    <3>1. CASE EndStream(c)
      BY <1>0, <3>1, SourceKeepsTypes DEF EndStream
    <3>2. CASE ~EndStream(c)
      BY <1>0, <1>4, <3>2 DEF Drain, SourceTypes
    <3> QED BY <3>1, <3>2
  <2>2. HistoryTypes'
    BY <1>0, <1>4 DEF Drain, GetEvents, GetEventsFails, HistoryTypes
  <2>3. pending' \in [Clients -> Seq(Messages)]
    <3>1. PICK restored \in {db[c], <<>>} : pending' = [pending EXCEPT ![c] = Gathered(c, restored)]
      BY <1>4 DEF Drain
    <3>2. restored \in Seq(Messages)
      BY <1>0 DEF HistoryTypes
    <3>3. Decoded(chan[c]) \in Seq(Messages)
      BY <1>0, DecodedIsPrefix DEF SourceTypes
    <3>4. Gathered(c, restored) \in Seq(Messages)
      BY <1>0, <3>2, <3>3 DEF Gathered, LoopTypes
    <3> QED BY <1>0, <3>1, <3>4 DEF LoopTypes
  <2>4. /\ streams' \in SUBSET Clients
        /\ known' \in [Clients -> BOOLEAN]
        /\ failed' \in [Clients -> BOOLEAN]
    BY <1>0, <1>4 DEF Drain, EnsureEntry, EndStream, LoopTypes
  <2>5. LoopTypes'
    BY <1>0, <1>4, <2>3, <2>4 DEF Drain, LoopTypes
  <2> QED BY <1>0, <1>4, <2>1, <2>2, <2>5 DEF Drain, callVars, CallTypes
<1>5. ASSUME TakeCreates
      PROVE  SourceTypes' /\ LoopTypes' /\ CallTypes' /\ HistoryTypes'
  BY <1>0, <1>5 DEF TakeCreates, NoCalls, Slot, sourceVars, SourceTypes, LoopTypes, CallTypes, HistoryTypes
<1>6. ASSUME NEW c \in Clients, ServeCreate(c)
      PROVE  SourceTypes' /\ LoopTypes' /\ CallTypes' /\ HistoryTypes'
  <2>1. SourceTypes'
    BY <1>0, <1>6, SourceKeepsTypes DEF ServeCreate
  <2>2. LoopTypes'
    BY <1>0, <1>6 DEF ServeCreate, LoopTypes, HistoryTypes
  <2>3. CallTypes'
    BY <1>0, <1>6 DEF ServeCreate, CallTypes, Released, Slot
  <2>4. HistoryTypes'
    BY <1>0, <1>6 DEF ServeCreate, GetEvents, HistoryTypes
  <2> QED BY <2>1, <2>2, <2>3, <2>4
<1>7. ASSUME NEW c \in Clients, CreatePanics(c)
      PROVE  SourceTypes' /\ LoopTypes' /\ CallTypes' /\ HistoryTypes'
  <2>1. SourceTypes'
    BY <1>0, <1>7, SourceKeepsTypes DEF CreatePanics
  <2>2. LoopTypes'
    BY <1>0, <1>7 DEF CreatePanics, LoopTypes, Nowhere, Empty
  <2>3. CallTypes'
    BY <1>0, <1>7 DEF CreatePanics, CallTypes, Released, NoCalls, Slot
  <2>4. HistoryTypes'
    BY <1>0, <1>7 DEF CreatePanics, GetEvents, GetEventsFails, HistoryTypes
  <2> QED BY <2>1, <2>2, <2>3, <2>4
<1>8. ASSUME ServeGets
      PROVE  SourceTypes' /\ LoopTypes' /\ CallTypes' /\ HistoryTypes'
  <2>1. \A c \in Clients : Batch(pending[c], getLimit[c]) \in Seq(Messages)
    BY <1>0, BatchIsPrefix DEF LoopTypes, CallTypes
  <2>2. HistoryTypes'
    BY <1>0, <1>8, <2>1 DEF ServeGets, HistoryTypes
  <2>3. LoopTypes'
    BY <1>0, <1>8 DEF ServeGets, LoopTypes
  <2>4. CallTypes'
    BY <1>0, <1>8 DEF ServeGets, CallTypes, Released, NoCalls, NoLimits, Slot
  <2> QED BY <1>0, <1>8, <2>2, <2>3, <2>4 DEF ServeGets, sourceVars, SourceTypes
<1>9. ASSUME NEW c \in Clients, Persist(c)
      PROVE  SourceTypes' /\ LoopTypes' /\ CallTypes' /\ HistoryTypes'
  <2>1. Head(pending[c]) \in Messages /\ Tail(pending[c]) \in Seq(Messages)
    BY <1>0, <1>9 DEF LoopTypes, SomethingToWrite, Persist
  <2>2. HistoryTypes'
    <3>1. \/ db' = db
          \/ db' = [db EXCEPT ![c] = Append(db[c], Head(pending[c]))]
      BY <1>9 DEF Persist, AddEvent, AddEventFails
    <3>2. Append(db[c], Head(pending[c])) \in Seq(Messages)
      BY <1>0, <2>1 DEF HistoryTypes
    <3>3. db' \in [Clients -> Seq(Messages)]
      BY <1>0, <3>1, <3>2 DEF HistoryTypes
    <3> QED BY <1>0, <1>9, <3>3 DEF Persist, HistoryTypes
  <2>3. /\ pending' \in [Clients -> Seq(Messages)]
        /\ unpersisted' \in [Clients -> Seq(Messages)]
    <3>1. PICK refused \in {<<>>, <<Head(pending[c])>>} :
            \/ /\ pending' = [pending EXCEPT ![c] = Tail(pending[c])]
               /\ unpersisted' = [unpersisted EXCEPT ![c] = @ \o refused]
            \/ /\ pending' = [pending EXCEPT ![c] = unpersisted[c] \o refused]
               /\ unpersisted' = [unpersisted EXCEPT ![c] = <<>>]
      BY <1>9 DEF Persist
    <3>2. refused \in Seq(Messages)
      BY <2>1
    <3>3. unpersisted[c] \o refused \in Seq(Messages)
      BY <1>0, <3>2 DEF LoopTypes
    <3> QED BY <1>0, <2>1, <3>1, <3>3 DEF LoopTypes
  <2>4. LoopTypes'
    BY <1>0, <1>9, <2>3 DEF Persist, LoopTypes
  <2> QED BY <1>0, <1>9, <2>2, <2>4 DEF Persist, sourceVars, callVars, SourceTypes, CallTypes
<1>10. ASSUME NextRound
       PROVE  SourceTypes' /\ LoopTypes' /\ CallTypes' /\ HistoryTypes'
  BY <1>0, <1>10 DEF NextRound, sourceVars, callVars, SourceTypes, LoopTypes, CallTypes, HistoryTypes
<1>11. ASSUME Crash
       PROVE  SourceTypes' /\ LoopTypes' /\ CallTypes' /\ HistoryTypes'
  <2>1. SourceTypes'
    BY <1>0, <1>11 DEF Crash, DropAllSources, SourceTypes
  <2> QED BY <1>0, <1>11, <2>1
          DEF Crash, NoCalls, NoLimits, Nowhere, Empty, Slot, LoopTypes, CallTypes, HistoryTypes
<1>12. ASSUME NEW c \in Clients, SourceTask(c)
       PROVE  SourceTypes' /\ LoopTypes' /\ CallTypes' /\ HistoryTypes'
  <2>1. SourceTypes'
    BY <1>0, <1>12, SourceKeepsTypes DEF SourceTask
  <2> QED BY <1>0, <1>12, <2>1 DEF SourceTask, loopVars, callVars, LoopTypes, CallTypes, HistoryTypes
<1>13. ASSUME Feed
       PROVE  SourceTypes' /\ LoopTypes' /\ CallTypes' /\ HistoryTypes'
  BY <1>0, <1>13 DEF Feed, Emit, loopVars, callVars, SourceTypes, LoopTypes, CallTypes, HistoryTypes
<1>14. CASE UNCHANGED vars
  BY <1>0, <1>14
     DEF vars, sourceVars, loopVars, callVars, SourceTypes, LoopTypes, CallTypes, HistoryTypes
<1> QED BY <1>1, <1>2, <1>3, <1>4, <1>5, <1>6, <1>7, <1>8, <1>9, <1>10, <1>11, <1>12, <1>13, <1>14
        DEF Next, Loop, Http

(* The initial state has the types. *)
LEMMA TypeInit == Init => TypeOK /\ SomethingToWrite
BY DEF Init, EventSourceInit, PersistenceInit, TypeOK, SomethingToWrite, Messages, Empty,
       Nowhere, NoCalls, NoLimits, Slot

LEMMA TypeInvariant == Spec => [](TypeOK /\ SomethingToWrite)
<1>1. TypeOK /\ SomethingToWrite /\ [Next]_vars => TypeOK' /\ SomethingToWrite'
  BY TypeStep, SomethingToWriteStep
<1> QED BY TypeInit, <1>1, PTL DEF Spec

(* Type correctness of the batcher. *)
THEOREM TypeCorrect == Spec => []TypeOK
BY TypeInvariant, PTL

-----------------------------------------------------------------------------
(* Streams and entries *)

(* What DeadStreamsAreFlagged and LiveClientsAreFound rest on: the clients *)
(* a drain has still to visit have a stream, and those it has visited have *)
(* an entry.                                                               *)
DrainVisitsStreams ==
  phase = "drain" => todo \subseteq streams /\ \A c \in streams \ todo : known[c]

StreamInv == DeadStreamsAreFlagged /\ LiveClientsAreFound /\ DrainVisitsStreams

LEMMA StreamStep ==
  TypeOK /\ SomethingToWrite /\ StreamInv /\ [Next]_vars => StreamInv'
<1> SUFFICES ASSUME TypeOK, SomethingToWrite, StreamInv, [Next]_vars PROVE StreamInv'
  OBVIOUS
<1> USE DEF StreamInv, DeadStreamsAreFlagged, LiveClientsAreFound, DrainVisitsStreams
<1>0. LoopTypes
  BY TypeParts
<1>1. ASSUME NEW c \in Clients, Drain(c)
      PROVE  StreamInv'
  <2>1. phase = "drain" /\ phase' = "drain" /\ c \in streams /\ todo' = todo \ {c}
    BY <1>1 DEF Drain
  <2>2. known' = [known EXCEPT ![c] = TRUE]
    BY <1>1 DEF Drain, EnsureEntry
  <2>3. \A d \in Clients \ {c} : pending'[d] = pending[d]
    BY <1>0, <1>1 DEF Drain, LoopTypes
  <2>4. CASE EndStream(c)
    BY <1>0, <2>1, <2>2, <2>3, <2>4 DEF EndStream, LoopTypes
  <2>5. CASE UNCHANGED <<failed, streams>>
    BY <1>0, <2>1, <2>2, <2>3, <2>5 DEF LoopTypes
  <2> QED BY <1>1, <2>4, <2>5 DEF Drain
<1>2. CASE TakeCreates
  BY <1>2 DEF TakeCreates
<1>3. ASSUME NEW c \in Clients, ServeCreate(c)
      PROVE  StreamInv'
  BY <1>0, <1>3 DEF ServeCreate, LoopTypes
<1>4. ASSUME NEW c \in Clients, CreatePanics(c)
      PROVE  StreamInv'
  BY <1>4 DEF CreatePanics, Nowhere, Empty
<1>5. CASE ServeGets
  BY <1>0, <1>5 DEF ServeGets, LoopTypes
<1>6. ASSUME NEW c \in Clients, Persist(c)
      PROVE  StreamInv'
  <2>1. known[c]
    BY <1>6 DEF Persist, SomethingToWrite
  <2>2. \A d \in Clients \ {c} : pending'[d] = pending[d]
    BY <1>0, <1>6 DEF Persist, LoopTypes
  <2>3. phase = "persist" /\ UNCHANGED <<phase, streams, known, failed>>
    BY <1>6 DEF Persist
  <2> QED BY <2>1, <2>2, <2>3
<1>7. CASE NextRound
  BY <1>7 DEF NextRound
<1>8. CASE Crash
  BY <1>8 DEF Crash, Nowhere, Empty
<1>9. CASE UNCHANGED loopVars
  BY <1>9 DEF loopVars
<1>10. CASE Http
  BY <1>9, <1>10 DEF Http, CallCreate, CallGet, Hangup
<1>11. CASE UNCHANGED vars \/ Feed \/ \E c \in Clients : SourceTask(c)
  BY <1>9, <1>11 DEF vars, Feed, SourceTask
<1> QED BY <1>1, <1>2, <1>3, <1>4, <1>5, <1>6, <1>7, <1>8, <1>10, <1>11 DEF Next, Loop

LEMMA StreamInvariant == Spec => []StreamInv
<1>1. Init => StreamInv
  BY DEF Init, StreamInv, DeadStreamsAreFlagged, LiveClientsAreFound, DrainVisitsStreams,
         Nowhere, Empty
<1> QED BY TypeInvariant, StreamStep, <1>1, PTL DEF Spec

(* An entry without a stream carries the error that ended it, and a running *)
(* stream never has an error: the answer of a get tells them apart.         *)
THEOREM DeadStreamsFlagged == Spec => []DeadStreamsAreFlagged
<1>1. StreamInv => DeadStreamsAreFlagged
  BY DEF StreamInv
<1> QED BY StreamInvariant, <1>1, PTL

(* A get is never answered with NotFound for a client whose stream runs. *)
THEOREM LiveClientsFound == Spec => []LiveClientsAreFound
<1>1. StreamInv => LiveClientsAreFound
  BY DEF StreamInv
<1> QED BY StreamInvariant, <1>1, PTL

-----------------------------------------------------------------------------
(* Handlers and the requests they wait for.                                *)

(* p waits exactly while one of the maps holds its request. *)
HeldSomewhere ==
  \A p \in Callers : caller[p] = "waiting" <=>
    \E c \in Clients : createReq[c] = p \/ creating[c] = p \/ getReq[c] = p

(* No handler is in two slots of a map, or in two maps. *)
HeldOnce ==
  \A c, d \in Clients :
    /\ createReq[c] \in Callers /\ createReq[c] = createReq[d] => c = d
    /\ creating[c] \in Callers /\ creating[c] = creating[d] => c = d
    /\ getReq[c] \in Callers /\ getReq[c] = getReq[d] => c = d
    /\ createReq[c] \in Callers => createReq[c] # creating[d] /\ createReq[c] # getReq[d]
    /\ creating[c] \in Callers => creating[c] # getReq[d]

(* The loop has no request of its own outside its create phase. *)
ServedBeforeGets == phase # "create" => creating = NoCalls

RequestInv == HeldSomewhere /\ HeldOnce /\ ServedBeforeGets

LEMMA RequestStep == TypeOK /\ RequestInv /\ [Next]_vars => RequestInv'
<1> SUFFICES ASSUME TypeOK, RequestInv, [Next]_vars PROVE RequestInv'
  OBVIOUS
<1> USE CallersAssumption DEF RequestInv, HeldSomewhere, HeldOnce, ServedBeforeGets
<1>0. CallTypes
  BY TypeParts
<1>1. ASSUME NEW p \in Callers, NEW c \in Clients, CallCreate(p, c)
      PROVE  RequestInv'
  <2>1. /\ createReq' = [createReq EXCEPT ![c] = p]
        /\ UNCHANGED <<phase, creating, getReq>>
        /\ caller[p] = "idle"
    BY <1>1 DEF CallCreate, loopVars
  <2>2. \A q \in Callers : caller'[q] =
          IF q = p THEN "waiting" ELSE IF q = createReq[c] THEN "idle" ELSE caller[q]
    BY <1>1 DEF CallCreate, CallerWaits, Released
  <2>3. HeldSomewhere'
    BY <1>0, <2>1, <2>2 DEF CallTypes
  <2>4. HeldOnce'
    BY <1>0, <2>1 DEF CallTypes
  <2> QED BY <2>1, <2>3, <2>4
<1>2. ASSUME NEW p \in Callers, NEW c \in Clients, NEW l \in Limits, CallGet(p, c, l)
      PROVE  RequestInv'
  <2>1. /\ getReq' = [getReq EXCEPT ![c] = p]
        /\ UNCHANGED <<phase, createReq, creating>>
        /\ caller[p] = "idle"
    BY <1>2 DEF CallGet, loopVars
  <2>2. \A q \in Callers : caller'[q] =
          IF q = p THEN "waiting" ELSE IF q = getReq[c] THEN "idle" ELSE caller[q]
    BY <1>2 DEF CallGet, CallerWaits, Released
  <2>3. HeldSomewhere'
    BY <1>0, <2>1, <2>2 DEF CallTypes
  <2>4. HeldOnce'
    BY <1>0, <2>1 DEF CallTypes
  <2> QED BY <2>1, <2>3, <2>4
<1>3. ASSUME NEW p \in Callers, Hangup(p)
      PROVE  RequestInv'
  <2>1. /\ caller' = [caller EXCEPT ![p] = "idle"]
        /\ createReq' = Abandoned(createReq, p)
        /\ creating' = Abandoned(creating, p)
        /\ getReq' = Abandoned(getReq, p)
        /\ phase' = phase
    BY <1>3 DEF Hangup, loopVars
  <2>2. \A c \in Clients :
          /\ createReq'[c] = IF createReq[c] = p THEN Gone ELSE createReq[c]
          /\ creating'[c] = IF creating[c] = p THEN Gone ELSE creating[c]
          /\ getReq'[c] = IF getReq[c] = p THEN Gone ELSE getReq[c]
    BY <2>1 DEF Abandoned
  <2>3. HeldSomewhere'
    BY <1>0, <2>1, <2>2 DEF CallTypes
  <2>4. HeldOnce'
    BY <2>2
  <2>5. ServedBeforeGets'
    BY <2>1 DEF Abandoned, NoCalls
  <2> QED BY <2>3, <2>4, <2>5
<1>4. CASE TakeCreates
  <2>1. /\ creating = NoCalls /\ creating' = createReq /\ createReq' = NoCalls
        /\ UNCHANGED <<getReq, caller>> /\ phase' = "create"
    BY <1>4 DEF TakeCreates
  <2> QED BY <2>1 DEF NoCalls
<1>5. ASSUME NEW c \in Clients, ServeCreate(c)
      PROVE  RequestInv'
  <2>1. /\ creating' = [creating EXCEPT ![c] = NoCall]
        /\ UNCHANGED <<phase, createReq, getReq>>
        /\ phase = "create"
        /\ creating[c] \in Callers
    BY <1>5 DEF ServeCreate
  <2>2. \A q \in Callers : caller'[q] = IF q = creating[c] THEN "idle" ELSE caller[q]
    BY <1>5 DEF ServeCreate, Released
  <2> QED BY <1>0, <2>1, <2>2 DEF CallTypes
<1>6. ASSUME NEW c \in Clients, CreatePanics(c)
      PROVE  RequestInv'
  <2>1. /\ creating' = NoCalls
        /\ UNCHANGED <<createReq, getReq>>
    BY <1>6 DEF CreatePanics
  <2>2. \A q \in Callers : caller'[q] =
          IF \E d \in Clients : creating[d] = q THEN "idle" ELSE caller[q]
    BY <1>0, <1>6 DEF CreatePanics, Released, Range, CallTypes
  <2> QED BY <1>0, <2>1, <2>2 DEF CallTypes, NoCalls
<1>7. CASE ServeGets
  <2>1. /\ getReq' = NoCalls
        /\ UNCHANGED <<createReq, creating>>
        /\ creating = NoCalls
    BY <1>7 DEF ServeGets
  <2>2. \A q \in Callers : caller'[q] =
          IF \E d \in Clients : getReq[d] = q THEN "idle" ELSE caller[q]
    BY <1>0, <1>7 DEF ServeGets, Released, Range, CallTypes
  <2> QED BY <1>0, <2>1, <2>2 DEF CallTypes, NoCalls
<1>8. CASE Crash
  BY <1>8 DEF Crash, NoCalls
<1>9. ASSUME NEW c \in Clients, Drain(c) \/ Persist(c)
       PROVE  RequestInv'
  BY <1>9 DEF Drain, Persist, callVars
<1>10. CASE NextRound
  BY <1>10 DEF NextRound, callVars
<1>11. CASE UNCHANGED vars \/ Feed \/ \E c \in Clients : SourceTask(c)
  BY <1>11 DEF vars, Feed, SourceTask, callVars, loopVars
<1> QED BY <1>1, <1>2, <1>3, <1>4, <1>5, <1>6, <1>7, <1>8, <1>9, <1>10, <1>11
        DEF Next, Loop, Http

LEMMA RequestInvariant == Spec => []RequestInv
<1>1. Init => RequestInv
  BY CallersAssumption
     DEF Init, RequestInv, HeldSomewhere, HeldOnce, ServedBeforeGets, NoCalls
<1> QED BY TypeInvariant, RequestStep, <1>1, PTL DEF Spec

(* What NobodyWaitsTwoRounds rests on: who has waited through a round had  *)
(* posted a create behind the one the loop took, and is next.              *)
NextToBeServed(p) ==
  \E c \in Clients : creating[c] = p \/ (createReq[c] = p /\ phase # "create")

RoundsInv ==
  /\ waited \in [Callers -> Nat]
  /\ \A p \in Callers : caller[p] = "idle" => waited[p] = 0
  /\ \A p \in Callers : waited[p] # 0 => waited[p] = 1 /\ NextToBeServed(p)

LEMMA RoundsStep ==
  ASSUME TypeOK, RequestInv, RequestInv', RoundsInv, [RoundsNext]_roundVars
  PROVE  RoundsInv'
<1> USE CallersAssumption
<1>0. CallTypes
  BY TypeParts
<1>1. CASE UNCHANGED roundVars
  BY <1>1 DEF roundVars, vars, callVars, loopVars, RoundsInv, NextToBeServed
<1> SUFFICES ASSUME RoundsNext PROVE RoundsInv'
  BY <1>1
<1>2. Counted /\ Next
  BY DEF RoundsNext, Next, Loop, Http
<1>3. /\ waited' \in [Callers -> Nat]
      /\ \A p \in Callers : waited'[p] = IF caller'[p] = "idle" THEN 0
                                         ELSE IF GetsAnswered /\ waited[p] < 2 THEN waited[p] + 1 ELSE waited[p]
  BY <1>2 DEF Counted, RoundsInv, WaitBound
<1> SUFFICES ASSUME NEW p \in Callers, waited'[p] # 0
             PROVE  waited'[p] = 1 /\ NextToBeServed(p)'
  BY <1>3 DEF RoundsInv
<1>4. caller'[p] # "idle" /\ (waited[p] # 0 => waited[p] = 1 /\ NextToBeServed(p))
  BY <1>3 DEF RoundsInv
<1>5. CASE ServeGets
  <2>1. /\ phase = "create" /\ phase' = "persist" /\ creating = NoCalls
        /\ creating' = creating /\ getReq' = NoCalls
        /\ caller' = Released(Range(getReq))
    BY <1>5 DEF ServeGets
  <2>2. waited[p] = 0
    BY <1>4, <2>1 DEF NextToBeServed, NoCalls
  <2>3. caller'[p] = "waiting"
    BY <1>0, <1>4, <2>1 DEF Released, CallTypes
  <2>4. \E c \in Clients : createReq'[c] = p
    BY <2>1, <2>3 DEF RequestInv, HeldSomewhere, NoCalls
  <2> QED
    BY <1>3, <1>4, <2>1, <2>2, <2>4 DEF GetsAnswered, NextToBeServed
<1> SUFFICES ASSUME ~ServeGets PROVE waited'[p] = 1 /\ NextToBeServed(p)'
  BY <1>5
<1>6. ASSUME waited[p] # 0, NextToBeServed(p) => NextToBeServed(p)', ~GetsAnswered
      PROVE  waited'[p] = 1 /\ NextToBeServed(p)'
  BY <1>3, <1>4, <1>6
<1>7. ~GetsAnswered
  BY <1>2 DEF GetsAnswered, Next, Loop, Http, TakeCreates, NextRound, Drain, ServeCreate,
              CreatePanics, Persist, SourceTask, Feed, CallCreate, CallGet, Hangup, Crash, loopVars
<1>8. waited[p] # 0
  BY <1>3, <1>4, <1>7
<1> SUFFICES NextToBeServed(p)'
  BY <1>6, <1>7, <1>8
<1>9. PICK c \in Clients : creating[c] = p \/ (createReq[c] = p /\ phase # "create")
  BY <1>4, <1>8 DEF NextToBeServed
<1>10. phase # "create" => creating[c] # p
  BY DEF RequestInv, ServedBeforeGets, NoCalls
<1>11. CASE TakeCreates
  BY <1>9, <1>10, <1>11 DEF TakeCreates, NextToBeServed
<1>12. ASSUME NEW d \in Clients, ServeCreate(d)
       PROVE  NextToBeServed(p)'
  <2>1. /\ phase = "create" /\ creating' = [creating EXCEPT ![d] = NoCall]
        /\ caller' = Released({creating[d]})
    BY <1>12 DEF ServeCreate
  <2>2. creating[c] = p /\ creating[d] # p
    BY <1>4, <1>9, <2>1 DEF Released
  <2> QED
    BY <1>0, <2>1, <2>2 DEF NextToBeServed, CallTypes
<1>13. ASSUME NEW d \in Clients, CreatePanics(d)
       PROVE  NextToBeServed(p)'
  <2>1. phase = "create" /\ caller' = Released(Range(creating))
    BY <1>13 DEF CreatePanics
  <2>2. p \in Range(creating)
    BY <1>0, <1>9, <2>1 DEF Range, CallTypes
  <2> QED
    BY <1>4, <2>1, <2>2 DEF Released
<1>14. CASE NextRound \/ \E d \in Clients : Drain(d) \/ Persist(d)
  <2>1. phase # "create" /\ phase' # "create" /\ UNCHANGED <<createReq, creating>>
    BY <1>14 DEF NextRound, Drain, Persist, callVars
  <2> QED
    BY <1>9, <2>1 DEF NextToBeServed
<1>15. CASE Feed \/ \E d \in Clients : SourceTask(d)
  BY <1>9, <1>15 DEF Feed, SourceTask, loopVars, callVars, NextToBeServed
<1>16. ASSUME NEW q \in Callers, NEW d \in Clients, CallCreate(q, d)
       PROVE  NextToBeServed(p)'
  <2>1. /\ createReq' = [createReq EXCEPT ![d] = q] /\ creating' = creating /\ phase' = phase
        /\ caller' = CallerWaits(q, createReq[d]) /\ caller[q] = "idle"
    BY <1>16 DEF CallCreate, loopVars
  <2>2. p # q
    BY <1>8, <2>1 DEF RoundsInv
  <2>3. createReq[d] # p
    BY <1>4, <2>1, <2>2 DEF CallerWaits, Released
  <2> QED
    BY <1>0, <1>9, <2>1, <2>3 DEF NextToBeServed, CallTypes
<1>17. ASSUME NEW q \in Callers, NEW d \in Clients, NEW l \in Limits, CallGet(q, d, l)
       PROVE  NextToBeServed(p)'
  BY <1>9, <1>17 DEF CallGet, loopVars, NextToBeServed
<1>18. ASSUME NEW q \in Callers, Hangup(q)
       PROVE  NextToBeServed(p)'
  <2>1. /\ createReq' = Abandoned(createReq, q) /\ creating' = Abandoned(creating, q)
        /\ phase' = phase /\ caller' = [caller EXCEPT ![q] = "idle"]
    BY <1>18 DEF Hangup, loopVars
  <2>2. p # q
    BY <1>0, <1>4, <2>1 DEF CallTypes
  <2> QED
    BY <1>9, <2>1, <2>2 DEF Abandoned, NextToBeServed
<1>19. CASE Crash
  BY <1>4, <1>19 DEF Crash
<1> QED
  BY <1>2, <1>11, <1>12, <1>13, <1>14, <1>15, <1>16, <1>17, <1>18, <1>19 DEF Next, Loop, Http

(* A handler waits through at most one round of the loop that it does not  *)
(* get its answer in, under every failure and whoever replaces whom.       *)
THEOREM NobodyWaitsLong == RoundsSpec => []NobodyWaitsTwoRounds
<1>1. RoundsSpec => Spec
  <2>1. RoundsNext => Next
    BY DEF RoundsNext, Next, Loop, Http
  <2>2. UNCHANGED roundVars => UNCHANGED vars
    BY DEF roundVars
  <2>3. RoundsInit => Init
    BY DEF RoundsInit
  <2>4. [RoundsNext]_roundVars => [Next]_vars
    BY <2>1, <2>2
  <2> QED
    BY <2>3, <2>4, PTL DEF RoundsSpec, Spec
<1>2. RoundsInit => RoundsInv
  BY DEF RoundsInit, RoundsInv
<1>3. TypeOK /\ RequestInv /\ RequestInv' /\ RoundsInv /\ [RoundsNext]_roundVars => RoundsInv'
  BY RoundsStep
<1>4. RoundsInv => NobodyWaitsTwoRounds
  BY DEF RoundsInv, NobodyWaitsTwoRounds
<1> QED
  BY <1>1, <1>2, <1>3, <1>4, TypeInvariant, RequestInvariant, PTL DEF RoundsSpec

=============================================================================
