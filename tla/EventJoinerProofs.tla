-------------------------- MODULE EventJoinerProofs --------------------------
(***************************************************************************)
(* What holds of the event joiner and its batcher for every service,       *)
(* client, fault, limit and capacity: the theorems about the batcher carry *)
(* over, and no event is processed twice.                                  *)
(***************************************************************************)
EXTENDS EventJoinerProperties, DeliveryProofs

-----------------------------------------------------------------------------
(* The batcher in the composition *)

LEMMA JoinerNextIsNext == [JoinerNext]_joinerVars => [Next]_vars
<1> SUFFICES ASSUME [JoinerNext]_joinerVars PROVE [Next]_vars
  OBVIOUS
<1> USE ServiceAssumption
<1>1. CASE Start \/ Ask
  <2>1. Start => CallCreate(Service, ClientId)
    BY DEF Start
  <2>2. Ask => CallGet(Service, ClientId, NoLimit)
    BY DEF Ask
  <2> QED BY <1>1, <2>1, <2>2 DEF Next, Http
<1>2. CASE Process \/ ProcessFails \/ TimeIsUp \/ UNCHANGED joinerVars
  BY <1>2 DEF Process, ProcessFails, TimeIsUp, joinerVars
<1>3. CASE Killed
  BY <1>3 DEF Killed, Next, Http
<1>4. CASE (Loop \/ Crash) /\ Hears
  BY <1>4 DEF Next
<1>5. CASE OtherHttp /\ Hears
  BY <1>5 DEF OtherHttp, Next, Http
<1>6. CASE (\E c \in Clients : SourceTask(c)) \/ Feed
  BY <1>6 DEF Next
<1> QED BY <1>1, <1>2, <1>3, <1>4, <1>5, <1>6 DEF JoinerNext, RunStep

(* Composed with the service, the batcher is still the batcher: whatever   *)
(* holds of it with any HTTP clients holds of it with this one.            *)
THEOREM JoinerIsAClient == JoinerSpec => Spec
BY JoinerNextIsNext, PTL DEF JoinerSpec, JoinerInit, Spec

LEMMA BatcherFacts ==
  JoinerSpec => [](TypeOK /\ SomethingToWrite /\ DeliveryInv)
BY JoinerIsAClient, TypeInvariant, DeliveryInit, DeliveryStep, PTL DEF Spec

-----------------------------------------------------------------------------
(* What a step hands out *)

(* A step leaves what was handed out in its place and adds HandedOut to    *)
(* it, which is new.                                                       *)
LEMMA HandedOutIsNew ==
  ASSUME TypeOK, SomethingToWrite, DeliveryInv, TypeOK', DeliveryInv', [Next]_vars
  PROVE  /\ HandedOut \in Seq(Messages)
         /\ delivered'[ClientId] = delivered[ClientId] \o HandedOut
         /\ IsInjective(HandedOut)
         /\ Apart(delivered[ClientId], HandedOut)
<1> DEFINE d == delivered[ClientId]
<1>1. d \in Seq(Messages) /\ delivered'[ClientId] \in Seq(Messages)
  BY ServiceAssumption DEF TypeOK
<1>2. \/ Mailbox!Reads(ClientId) \/ Mailbox!Skips(ClientId)
      \/ Mailbox!Loses(ClientId) \/ Mailbox!HandsOut(ClientId)
  BY MailboxStep, ServiceAssumption DEF Mailbox!Next
<1>3. HandedOut \in Seq(Messages)
  <2>1. Len(d) \in Nat /\ Len(delivered'[ClientId]) \in Nat
    BY <1>1, LenProperties
  <2>2. \A i \in (Len(d) + 1)..Len(delivered'[ClientId]) : delivered'[ClientId][i] \in Messages
    BY <1>1, <2>1, ElementOfSeq
  <2> QED BY <1>1, <2>1, <2>2, SubSeqProperties DEF HandedOut
<1>4. delivered'[ClientId] = d \o HandedOut
  <2>1. CASE delivered'[ClientId] = d
    <3>1. d \o <<>> = d /\ <<>> \in Seq(Messages)
      BY <1>1, ConcatEmptySeq, EmptyInjective
    <3>2. HandedOut = <<>>
      BY <1>1, <2>1, <3>1, TailOfConcat DEF HandedOut
    <3> QED BY <2>1, <3>1, <3>2
  <2>2. CASE Mailbox!HandsOut(ClientId)
    BY <2>2 DEF Mailbox!HandsOut, Mailbox!Parcel, HandedOut
  <2> QED BY <1>2, <2>1, <2>2 DEF Mailbox!Reads, Mailbox!Skips, Mailbox!Loses
<1>5. IsInjective(delivered'[ClientId])
  BY ServiceAssumption DEF DeliveryInv, DifferentEvents, Scattered
<1> QED BY <1>1, <1>3, <1>4, <1>5, ConcatInjective

-----------------------------------------------------------------------------
(* The run *)

(* The types, and that the run waits exactly while its handler does. *)
LEMMA JoinerTypeStep ==
  ASSUME TypeOK, SomethingToWrite, DeliveryInv, TypeOK', DeliveryInv',
         JoinerTypeOK, [JoinerNext]_joinerVars
  PROVE  JoinerTypeOK'
<1> DEFINE waits == caller[Service] = "waiting"
<1> USE ServiceAssumption DEF JoinerTypeOK
<1>0. caller \in [Callers -> {"idle", "waiting"}]
  BY DEF TypeOK
<1>1. CASE Start \/ Ask
  <2>1. /\ run' \in {"create", "get"} /\ UNCHANGED <<batch, processed>> /\ batch = <<>>
        /\ caller'[Service] = "waiting"
    BY <1>0, <1>1 DEF Start, Ask, CallCreate, CallGet, CallerWaits, Released
  <2> QED BY <2>1
<1>2. CASE Process
  BY <1>2, MessageSeqs DEF Process, vars, callVars
<1>3. ASSUME RunEnds, caller'[Service] = "idle"
      PROVE  JoinerTypeOK'
  BY <1>3, MessageSeqs DEF RunEnds
<1>4. CASE ProcessFails \/ TimeIsUp
  <2>1. caller'[Service] = "idle"
    BY <1>0, <1>4 DEF ProcessFails, TimeIsUp, vars, callVars
  <2> QED BY <1>3, <1>4, <2>1 DEF ProcessFails, TimeIsUp
<1>5. CASE Killed
  <2>1. caller'[Service] = "idle"
    BY <1>0, <1>5 DEF Killed, Hangup, vars, callVars
  <2> QED BY <1>3, <1>5, <2>1 DEF Killed
<1>6. ASSUME Hears, caller'[Service] = "waiting" => caller[Service] = "waiting"
      PROVE  JoinerTypeOK'
  <2>1. CASE ~Answered /\ UNCHANGED runVars
    BY <1>0, <1>6, <2>1 DEF Answered, runVars, TypeOK
  <2>2. CASE Answered /\ RunEnds
    BY <1>3, <2>2 DEF Answered
  <2>3. CASE Answered /\ ~RunEnds
    <3>1. /\ UNCHANGED processed /\ caller'[Service] = "idle" /\ batch = <<>>
          /\ \/ run' = "ask" /\ UNCHANGED batch
             \/ run' = "process" /\ batch' = HandedOut
      BY <1>6, <2>3 DEF Hears, Answered
    <3>2. HandedOut \in Seq(Messages)
      BY JoinerNextIsNext, HandedOutIsNew
    <3> QED BY <3>1, <3>2
  <2> QED BY <1>6, <2>1, <2>2, <2>3 DEF Hears
<1>7. CASE Loop /\ Hears
  <2>1. caller'[Service] = "waiting" => caller[Service] = "waiting"
    BY <1>0, <1>7 DEF Loop, TakeCreates, ServeGets, NextRound, Drain, ServeCreate,
                 CreatePanics, Persist, Released, callVars
  <2> QED BY <1>6, <1>7, <2>1
<1>8. CASE Crash /\ Hears
  BY <1>6, <1>8 DEF Crash
<1>9. CASE OtherHttp /\ Hears
  <2>1. caller'[Service] = "waiting" => caller[Service] = "waiting"
    BY <1>0, <1>9 DEF OtherHttp, CallCreate, CallGet, Hangup, CallerWaits, Released
  <2> QED BY <1>6, <1>9, <2>1
<1>10. CASE UNCHANGED joinerVars
  BY <1>10 DEF joinerVars, runVars, vars, callVars
<1>11. CASE ((\E c \in Clients : SourceTask(c)) \/ Feed) /\ UNCHANGED runVars
  BY <1>11 DEF SourceTask, Feed, callVars, runVars
<1> QED BY <1>1, <1>2, <1>4, <1>5, <1>7, <1>8, <1>9, <1>10, <1>11 DEF JoinerNext, RunStep

LEMMA JoinerTypeInit == JoinerInit => JoinerTypeOK
BY EmptyInjective, ServiceAssumption DEF JoinerInit, JoinerTypeOK, Init

(* The run waits for an answer exactly while its handler does, whatever    *)
(* panics, restarts or replaces its requests, with any number of other     *)
(* clients.                                                                *)
THEOREM RunAndHandlerAgree == JoinerSpec => []JoinerTypeOK
BY BatcherFacts, JoinerTypeInit, JoinerTypeStep, PTL DEF JoinerSpec

-----------------------------------------------------------------------------
(* No event is processed twice *)

(* What ProcessedOnce rests on: an event that is processed, or about to    *)
(* be, was handed out, and so cannot be handed out again.                  *)
OnlyHandedOut ==
  Range(processed) \cup Range(batch) \subseteq Range(delivered[ClientId])

RunInv ==
  /\ IsInjective(processed) /\ IsInjective(batch) /\ Apart(processed, batch)
  /\ OnlyHandedOut

LEMMA RunInvStep ==
  ASSUME TypeOK, SomethingToWrite, DeliveryInv, TypeOK', DeliveryInv',
         JoinerTypeOK, RunInv, [JoinerNext]_joinerVars
  PROVE  RunInv'
<1> USE DEF RunInv, OnlyHandedOut
<1>1. processed \in Seq(Messages) /\ batch \in Seq(Messages)
  BY DEF JoinerTypeOK
<1>2. /\ HandedOut \in Seq(Messages)
      /\ IsInjective(HandedOut) /\ Apart(delivered[ClientId], HandedOut)
      /\ Range(delivered'[ClientId]) = Range(delivered[ClientId]) \cup Range(HandedOut)
  <2>1. /\ HandedOut \in Seq(Messages)
        /\ delivered'[ClientId] = delivered[ClientId] \o HandedOut
        /\ IsInjective(HandedOut) /\ Apart(delivered[ClientId], HandedOut)
    BY JoinerNextIsNext, HandedOutIsNew
  <2> QED BY <2>1, ConcatInjective, ServiceAssumption DEF TypeOK
<1>3. CASE Process
  <2>1. /\ batch # <<>> /\ processed' = Append(processed, Head(batch)) /\ batch' = Tail(batch)
    BY <1>3 DEF Process
  <2>2. /\ Head(batch) \in Messages /\ Tail(batch) \in Seq(Messages)
        /\ Range(batch) = {Head(batch)} \cup Range(Tail(batch))
        /\ IsInjective(Tail(batch)) /\ Head(batch) \notin Range(Tail(batch))
    BY <1>1, <2>1, HeadTailProperties, HeadTailInject
  <2>3. /\ Range(processed') = Range(processed) \cup {Head(batch)}
        /\ IsInjective(processed')
    BY <1>1, <2>1, <2>2, AppendInjects DEF Apart
  <2> QED BY <1>2, <2>1, <2>2, <2>3 DEF Apart
<1>4. CASE RunEnds
  BY <1>2, <1>4, EmptyInjective DEF RunEnds, Apart
<1>5. CASE UNCHANGED <<batch, processed>>
  BY <1>2, <1>5
<1>6. CASE UNCHANGED processed /\ batch' = HandedOut
  BY <1>2, <1>6 DEF Apart
<1>7. Hears => RunEnds \/ UNCHANGED <<batch, processed>> \/ (UNCHANGED processed /\ batch' = HandedOut)
  BY DEF Hears, runVars
<1> QED BY <1>3, <1>4, <1>5, <1>6, <1>7
        DEF JoinerNext, RunStep, Start, Ask, ProcessFails, TimeIsUp, Killed, runVars, joinerVars

LEMMA RunInvInit == JoinerInit => RunInv
<1> SUFFICES ASSUME JoinerInit PROVE RunInv
  OBVIOUS
<1>1. processed = <<>> /\ batch = <<>>
  BY DEF JoinerInit
<1> QED BY <1>1, EmptyInjective DEF RunInv, OnlyHandedOut, Apart

LEMMA RunInvariant == JoinerSpec => []RunInv
<1>1. /\ TypeOK /\ SomethingToWrite /\ DeliveryInv /\ TypeOK' /\ DeliveryInv'
      /\ JoinerTypeOK /\ RunInv /\ [JoinerNext]_joinerVars
      => RunInv'
  BY RunInvStep
<1> QED BY BatcherFacts, RunAndHandlerAgree, RunInvInit, <1>1, PTL DEF JoinerSpec

(* No event is processed twice, by any sequence of runs, whatever fails in *)
(* the store, the service or the checkpointer.                             *)
THEOREM EventsProcessedOnce == JoinerSpec => []ProcessedOnce
<1>1. JoinerTypeOK /\ RunInv => ProcessedOnce
  BY ConcatInjective DEF JoinerTypeOK, RunInv, ProcessedOnce
<1> QED BY RunAndHandlerAgree, RunInvariant, <1>1, PTL

-----------------------------------------------------------------------------
(* The order of what is processed *)

LEMMA StockInSequence ==
  ASSUME TypeOK
  PROVE  InStock \in Seq(Messages) /\ Range(InStock) = Stock(ClientId)
<1> DEFINE b == db[ClientId]
           u == unpersisted[ClientId]
           p == pending[ClientId]
           q == chan[ClientId]
           h == Blocked(ClientId)
<1>1. /\ b \in Seq(Messages) /\ u \in Seq(Messages)
      /\ p \in Seq(Messages) /\ q \in Seq(Messages)
      /\ h \in Seq(Messages) /\ Range(h) = {held[ClientId]} \ {0}
  BY ServiceAssumption, BlockedType DEF TypeOK
<1> HIDE DEF b, u, p, q, h
<1>2. b \o u \in Seq(Messages) /\ Range(b \o u) = Range(b) \cup Range(u)
  BY <1>1, ConcatProperties, ConcatInjective
<1>3. b \o u \o p \in Seq(Messages) /\ Range(b \o u \o p) = Range(b) \cup Range(u) \cup Range(p)
  BY <1>1, <1>2, ConcatProperties, ConcatInjective
<1>4. /\ b \o u \o p \o q \in Seq(Messages)
      /\ Range(b \o u \o p \o q) = Range(b) \cup Range(u) \cup Range(p) \cup Range(q)
  BY <1>1, <1>3, ConcatProperties, ConcatInjective
<1>5. /\ b \o u \o p \o q \o h \in Seq(Messages)
      /\ Range(b \o u \o p \o q \o h) =
           Range(b) \cup Range(u) \cup Range(p) \cup Range(q) \cup Range(h)
  BY <1>1, <1>4, ConcatProperties, ConcatInjective
<1> QED BY <1>1, <1>5 DEF InStock, Stock, b, u, p, q, h

LEMMA AnyGrouping ==
  \A s, t, u \in Seq(Messages) : s \o (t \o u) = (s \o t) \o u
BY ConcatAssociative

(* The trail is what was handed out, followed by what is in stock. *)
LEMMA TrailEndsInStock ==
  ASSUME TypeOK
  PROVE  Trail(ClientId) = delivered[ClientId] \o InStock
<1> DEFINE d == delivered[ClientId]
           b == db[ClientId]
           u == unpersisted[ClientId]
           p == pending[ClientId]
           q == chan[ClientId]
           h == Blocked(ClientId)
<1>1. /\ d \in Seq(Messages) /\ b \in Seq(Messages) /\ u \in Seq(Messages)
      /\ p \in Seq(Messages) /\ q \in Seq(Messages) /\ h \in Seq(Messages)
  BY ServiceAssumption, BlockedType DEF TypeOK
<1> HIDE DEF d, b, u, p, q, h
<1> DEFINE bu == b \o u
           bup == bu \o p
           bupq == bup \o q
<1>2. bu \in Seq(Messages) /\ bup \in Seq(Messages) /\ bupq \in Seq(Messages)
  BY <1>1, ConcatProperties
<1>3. d \o bu = (d \o b) \o u
  BY <1>1, AnyGrouping
<1> HIDE DEF bu
<1>4. d \o bup = (d \o bu) \o p
  BY <1>1, <1>2, AnyGrouping
<1> HIDE DEF bup
<1>5. d \o bupq = (d \o bup) \o q
  <2>1. d \in Seq(Messages) /\ bup \in Seq(Messages) /\ q \in Seq(Messages)
    BY <1>1, <1>2
  <2> QED BY <2>1, AnyGrouping
<1> HIDE DEF bupq
<1>6. d \o (bupq \o h) = (d \o bupq) \o h
  <2>1. d \in Seq(Messages) /\ bupq \in Seq(Messages) /\ h \in Seq(Messages)
    BY <1>1, <1>2
  <2> QED BY <2>1, AnyGrouping
<1> QED
  BY <1>3, <1>4, <1>5, <1>6 DEF Trail, InStock, d, b, u, p, q, h, bu, bup, bupq

StockFollows ==
  /\ InStock \in Seq(Messages) /\ Range(InStock) = Stock(ClientId)
  /\ Trail(ClientId) = delivered[ClientId] \o InStock

LEMMA StockAlwaysFollows == TypeOK => StockFollows
BY StockInSequence, TrailEndsInStock DEF StockFollows

(* What PointsNeverGoBack rests on: what was processed precedes the batch. *)
RunOrder ==
  Increasing(processed) /\ Increasing(batch) /\ Before(Range(processed), Range(batch))

LEMMA RunOrderStep ==
  ASSUME TypeOK, SomethingToWrite, DeliveryInv, TypeOK', DeliveryInv', FeedOrder',
         JoinerTypeOK, RunInv, RunOrder, [JoinerNext]_joinerVars
  PROVE  RunOrder'
<1> USE DEF RunOrder
<1>1. processed \in Seq(Messages) /\ batch \in Seq(Messages)
  BY DEF JoinerTypeOK
<1>2. /\ HandedOut \in Seq(Messages) /\ Increasing(HandedOut)
      /\ Before(Range(processed), Range(HandedOut))
  <2>1. /\ HandedOut \in Seq(Messages)
        /\ delivered'[ClientId] = delivered[ClientId] \o HandedOut
        /\ delivered[ClientId] \in Seq(Messages)
    BY JoinerNextIsNext, HandedOutIsNew, ServiceAssumption DEF TypeOK
  <2>2. delivered'[ClientId] \in Seq(Messages) /\ InStock' \in Seq(Messages)
    <3>1. StockFollows'
      BY StockAlwaysFollows, PTL
    <3> QED BY <3>1, ServiceAssumption DEF StockFollows, TypeOK
  <2>3. Increasing(delivered'[ClientId] \o InStock')
    <3>1. StockFollows'
      BY StockAlwaysFollows, PTL
    <3> QED BY <3>1, ServiceAssumption DEF StockFollows, FeedOrder
  <2>4. Increasing(delivered[ClientId] \o HandedOut)
    BY <2>1, <2>2, <2>3, ConcatIncreasing
  <2>5. Increasing(HandedOut) /\ Before(Range(delivered[ClientId]), Range(HandedOut))
    BY <2>1, <2>4, ConcatIncreasing
  <2> QED BY <2>1, <2>5 DEF RunInv, OnlyHandedOut, Before
<1>3. CASE Process
  <2>1. /\ batch # <<>> /\ processed' = Append(processed, Head(batch)) /\ batch' = Tail(batch)
    BY <1>3 DEF Process
  <2>2. /\ Head(batch) \in Messages /\ Tail(batch) \in Seq(Messages)
        /\ Range(batch) = {Head(batch)} \cup Range(Tail(batch))
        /\ Increasing(Tail(batch)) /\ Before({Head(batch)}, Range(Tail(batch)))
    BY <1>1, <2>1, HeadTailProperties, HeadTailInject, HeadTailIncrease
  <2>3. Sorted(processed', Range(processed) \cup {Head(batch)})
    <3>1. processed' = processed \o <<Head(batch)>>
      BY <1>1, <2>1, <2>2, AppendIsConcat
    <3>2. Sorted(<<Head(batch)>>, {Head(batch)}) /\ Sorted(processed, Range(processed))
      BY <1>1, <2>2, SingletonIncreasing DEF Sorted
    <3>3. Before(Range(processed), {Head(batch)})
      BY <2>2 DEF Before
    <3> QED BY <3>1, <3>2, <3>3, SortedConcat
  <2> QED BY <2>1, <2>2, <2>3 DEF Before, Sorted
<1>4. CASE RunEnds
  BY <1>4, EmptyIncreasing DEF RunEnds, Before
<1>5. CASE UNCHANGED <<batch, processed>>
  BY <1>5
<1>6. CASE UNCHANGED processed /\ batch' = HandedOut
  BY <1>2, <1>6
<1>7. Hears => RunEnds \/ UNCHANGED <<batch, processed>> \/ (UNCHANGED processed /\ batch' = HandedOut)
  BY DEF Hears, runVars
<1> QED BY <1>3, <1>4, <1>5, <1>6, <1>7
        DEF JoinerNext, RunStep, Start, Ask, ProcessFails, TimeIsUp, Killed, runVars, joinerVars

LEMMA RunOrderInit == JoinerInit => RunOrder
<1> SUFFICES ASSUME JoinerInit PROVE RunOrder
  OBVIOUS
<1>1. processed = <<>> /\ batch = <<>>
  BY DEF JoinerInit
<1> QED BY <1>1, EmptyIncreasing DEF RunOrder, Before

LEMMA RunOrderGoesOn ==
  ASSUME TypeOK, JoinerTypeOK, RunInv, RunOrder, FeedOrder
  PROVE  PointsNeverGoBack
<1>1. /\ processed \in Seq(Messages) /\ batch \in Seq(Messages)
      /\ delivered[ClientId] \in Seq(Messages) /\ InStock \in Seq(Messages)
  BY ServiceAssumption, StockInSequence DEF JoinerTypeOK, TypeOK
<1>2. Increasing(delivered[ClientId] \o InStock)
  BY TrailEndsInStock, ServiceAssumption DEF FeedOrder
<1>3. Increasing(InStock) /\ Before(Range(delivered[ClientId]), Range(InStock))
  BY <1>1, <1>2, ConcatIncreasing
<1>4. Sorted(Ahead, Range(batch) \cup Range(InStock))
  BY <1>1, <1>3, SortedConcat DEF Ahead, Sorted, RunOrder, RunInv, OnlyHandedOut, Before
<1>5. Before(Range(processed), Range(batch) \cup Range(InStock))
  BY <1>3 DEF RunOrder, RunInv, OnlyHandedOut, Before
<1>6. Sorted(processed, Range(processed))
  BY <1>1 DEF Sorted, RunOrder
<1> QED BY <1>4, <1>5, <1>6, SortedConcat DEF PointsNeverGoBack, Sorted

(* With one client and a store that works, what is processed never goes    *)
(* back in the feed, over all runs, errors, kills and restarts: the points *)
(* of a holder are never overwritten by those of an older attestation.     *)
THEOREM PointsOnlyGoForward ==
  ASSUME OneWorkingStore
  PROVE  JoinerSpec => []PointsNeverGoBack
<1>1. JoinerSpec => []FeedOrder
  BY JoinerIsAClient, EventsKeepTheirOrder, PTL
<1>2. /\ TypeOK /\ SomethingToWrite /\ DeliveryInv /\ TypeOK' /\ DeliveryInv' /\ FeedOrder'
      /\ JoinerTypeOK /\ RunInv /\ RunOrder /\ [JoinerNext]_joinerVars
      => RunOrder'
  BY RunOrderStep
<1>3. TypeOK /\ JoinerTypeOK /\ RunInv /\ RunOrder /\ FeedOrder => PointsNeverGoBack
  BY RunOrderGoesOn
<1> QED
  BY <1>1, <1>2, <1>3, BatcherFacts, RunAndHandlerAgree, RunInvariant, RunOrderInit, PTL
     DEF JoinerSpec

-----------------------------------------------------------------------------
(* What is lost between the feed and the documents *)

(* A get of the service has no limit, and the run waits for it. *)
AsksForAll ==
  getReq[ClientId] = Service => run = "get" /\ getLimit[ClientId] = NoLimit

LEMMA AsksForAllStep ==
  ASSUME TypeOK, TypeOK', RequestInv', JoinerTypeOK, AsksForAll, [JoinerNext]_joinerVars
  PROVE  AsksForAll'
<1> USE ServiceAssumption, CallersAssumption DEF AsksForAll, JoinerTypeOK
<1>0. /\ getReq \in [Clients -> Slot] /\ getLimit \in [Clients -> Limits \cup {NoLimit}]
      /\ caller \in [Callers -> {"idle", "waiting"}]
  BY DEF TypeOK
<1>1. getReq'[ClientId] = Service => caller'[Service] = "waiting"
  BY DEF RequestInv, HeldSomewhere
<1>2. CASE UNCHANGED <<getReq, getLimit, run>>
  BY <1>2
<1>3. CASE Start
  BY <1>3 DEF Start, CallCreate
<1>4. CASE Ask
  BY <1>0, <1>4 DEF Ask, CallGet
<1>5. CASE Process
  BY <1>2, <1>5 DEF Process, vars, callVars
<1>6. CASE ProcessFails \/ TimeIsUp
  BY <1>6 DEF ProcessFails, TimeIsUp, vars, callVars
<1>7. CASE Killed
  <2>1. CASE Hangup(Service)
    <3>1. getReq'[ClientId] # Service
      BY <2>1 DEF Hangup, Abandoned
    <3> QED BY <3>1
  <2>2. CASE caller[Service] = "idle" /\ UNCHANGED vars
    BY <2>2 DEF vars, callVars
  <2> QED BY <1>7, <2>1, <2>2 DEF Killed
<1>8. ASSUME Hears,
             getReq'[ClientId] = Service =>
               getReq[ClientId] = Service /\ getLimit'[ClientId] = getLimit[ClientId]
      PROVE  AsksForAll'
  BY <1>1, <1>8 DEF Hears, Answered, runVars
<1>9. CASE (Loop \/ Crash) /\ Hears
  <2>1. getReq' = NoCalls \/ UNCHANGED <<getReq, getLimit>>
    BY <1>9 DEF Loop, TakeCreates, ServeGets, NextRound, Drain, ServeCreate,
                CreatePanics, Persist, Crash, callVars
  <2>2. NoCalls[ClientId] # Service
    BY DEF NoCalls
  <2> QED BY <1>8, <1>9, <2>1, <2>2
<1>10. CASE OtherHttp /\ Hears
  <2>1. ASSUME NEW p \in Callers \ {Service}, NEW c \in Clients, NEW l \in Limits, CallGet(p, c, l)
        PROVE  getReq'[ClientId] = Service =>
                 getReq[ClientId] = Service /\ getLimit'[ClientId] = getLimit[ClientId]
    BY <1>0, <2>1 DEF CallGet
  <2>2. ASSUME NEW p \in Callers, Hangup(p)
        PROVE  getReq'[ClientId] = Service =>
                 getReq[ClientId] = Service /\ getLimit'[ClientId] = getLimit[ClientId]
    BY <2>2 DEF Hangup, Abandoned
  <2>3. ASSUME NEW p \in Callers, NEW c \in Clients, CallCreate(p, c)
        PROVE  UNCHANGED <<getReq, getLimit>>
    BY <2>3 DEF CallCreate
  <2> QED BY <1>8, <1>10, <2>1, <2>2, <2>3 DEF OtherHttp
<1>11. CASE ((\E c \in Clients : SourceTask(c)) \/ Feed) /\ UNCHANGED runVars
  BY <1>2, <1>11 DEF SourceTask, Feed, callVars, runVars
<1>12. CASE UNCHANGED joinerVars
  BY <1>2, <1>12 DEF joinerVars, vars, callVars, runVars
<1> QED BY <1>3, <1>4, <1>5, <1>6, <1>7, <1>9, <1>10, <1>11, <1>12 DEF JoinerNext, RunStep

(* What the run has and what is in stock for it, as a set. *)
AheadIsEverything ==
  /\ Range(Ahead) = Range(batch) \cup Stock(ClientId)
  /\ Range(processed \o Ahead) = Range(processed) \cup Range(batch) \cup Stock(ClientId)

LEMMA AheadRange == TypeOK /\ JoinerTypeOK => AheadIsEverything
<1> SUFFICES ASSUME TypeOK, JoinerTypeOK PROVE AheadIsEverything
  OBVIOUS
<1>1. /\ processed \in Seq(Messages) /\ batch \in Seq(Messages)
      /\ InStock \in Seq(Messages) /\ Range(InStock) = Stock(ClientId)
  BY StockInSequence DEF JoinerTypeOK
<1>2. Ahead \in Seq(Messages) /\ Range(Ahead) = Range(batch) \cup Stock(ClientId)
  BY <1>1, ConcatProperties, ConcatInjective DEF Ahead
<1>3. Range(processed \o Ahead) = Range(processed) \cup Range(Ahead)
  BY <1>1, <1>2, ConcatInjective
<1> QED BY <1>2, <1>3 DEF AheadIsEverything

(* Where an event is after a step, or which way it went. *)
Accounted(e) ==
  \/ e \in Range(processed') \cup Range(batch') \cup Stock(ClientId)'
  \/ EndedWith(e)
  \/ AskedByAnother(e)
  \/ ProcessDied
  \/ ReplacedBatcher(ClientId, e)
  \/ BehindAnError(ClientId, e)

LEMMA BatchAccounted ==
  ASSUME TypeOK, JoinerTypeOK, JoinerNext, NEW e \in Range(batch)
  PROVE  Accounted(e)
<1> USE DEF JoinerTypeOK
<1>1. batch \in Seq(Messages) /\ batch # <<>> /\ run = "process" /\ caller[Service] # "waiting"
  BY EmptyInjective
<1>2. CASE Process
  <2>1. /\ Head(batch) \in Messages
        /\ Range(batch) = {Head(batch)} \cup Range(Tail(batch))
    BY <1>1, HeadTailProperties, HeadTailInject
  <2>2. Range(Append(processed, Head(batch))) = Range(processed) \cup {Head(batch)}
    BY <2>1, AppendInjects
  <2> QED BY <1>2, <2>1, <2>2 DEF Process, Accounted
<1>3. CASE ProcessFails \/ Killed
  BY <1>1, <1>3 DEF ProcessFails, Killed, RunEnds, Accounted, EndedWith
<1>4. CASE Hears
  BY <1>1, <1>4 DEF Hears, Answered, runVars, Accounted
<1>5. CASE UNCHANGED runVars
  BY <1>5 DEF runVars, Accounted
<1>6. ~Start /\ ~Ask /\ ~TimeIsUp
  BY <1>1 DEF Start, Ask, TimeIsUp
<1> QED BY <1>2, <1>3, <1>4, <1>5, <1>6 DEF JoinerNext, RunStep

(* A get for the service takes all that is pending, and the run gets it. *)
LEMMA GetAccounted ==
  ASSUME TypeOK, StreamInv, RequestInv, JoinerTypeOK, AsksForAll,
         ServeGets, Hears, NEW e \in Stock(ClientId)
  PROVE  Accounted(e)
<1> DEFINE c == ClientId
<1> USE ServiceAssumption, CallersAssumption
<1>1. /\ UNCHANGED <<db, unpersisted, chan, held>>
      /\ delivered'[c] = IF getReq[c] \in Callers /\ known[c]
                         THEN delivered[c] \o Batch(pending[c], getLimit[c])
                         ELSE delivered[c]
      /\ pending'[c] = IF getReq[c] = NoCall THEN pending[c] ELSE <<>>
      /\ getReq'[c] = NoCall
  BY DEF ServeGets, sourceVars, NoCalls
<1>2. CASE e \notin Range(pending[c]) \/ getReq[c] = NoCall
  <2>1. e \in Range(pending[c]) => pending'[c] = pending[c]
    BY <1>1, <1>2
  <2> QED BY <1>1, <2>1 DEF Accounted, Stock
<1>3. CASE e \in Range(pending[c]) /\ getReq[c] \notin {NoCall, Service}
  BY <1>1, <1>3 DEF Accounted, AskedByAnother
<1>4. CASE e \in Range(pending[c]) /\ getReq[c] = Service
  <2>1. run = "get" /\ getLimit[c] = NoLimit
    BY <1>4 DEF AsksForAll
  <2>2. known[c]
    <3>1. pending[c] # <<>>
      BY <1>4, EmptyInjective
    <3> QED BY <3>1 DEF StreamInv, DeadStreamsAreFlagged
  <2>3. delivered'[c] = delivered[c] \o pending[c]
    BY <1>1, <1>4, <2>1, <2>2 DEF Batch
  <2>4. delivered[c] \in Seq(Messages) /\ pending[c] \in Seq(Messages)
    BY DEF TypeOK
  <2>5. HandedOut = pending[c]
    BY <2>3, <2>4, TailOfConcat DEF HandedOut
  <2>6. e \in Range(delivered'[c])
    BY <1>4, <2>3, <2>4, ConcatInjective
  <2>7. Answered
    <3>1. caller[Service] = "waiting"
      BY <1>4 DEF RequestInv, HeldSomewhere
    <3>2. Service \in Range(getReq)
      <4>1. getReq \in [Clients -> Slot]
        BY DEF TypeOK
      <4> QED BY <1>4, <4>1 DEF Range
    <3>3. caller'[Service] = "idle"
      BY <3>2 DEF ServeGets, Released
    <3> QED BY <3>1, <3>3 DEF Answered
  <2>8. CASE RunEnds
    BY <2>1, <2>6, <2>8 DEF RunEnds, Accounted, EndedWith
  <2>9. CASE batch' = HandedOut
    BY <1>4, <2>5, <2>9 DEF Accounted
  <2> QED BY <2>1, <2>7, <2>8, <2>9 DEF Hears
<1> QED BY <1>2, <1>3, <1>4

(* The events of the client that a step neither hands out nor drops are    *)
(* still in stock.                                                         *)
LEMMA StillInStock ==
  ASSUME DeliveryInv, NEW e \in Stock(ClientId), delivered' = delivered, getReq' = getReq,
         Explained(ClientId, e)
  PROVE  Accounted(e)
<1>1. e \notin Range(delivered[ClientId])
  BY ServiceAssumption DEF DeliveryInv, DifferentEvents, Scattered, Apart, Stock
<1>2. e \in Everything(ClientId)' => e \in Stock(ClientId)'
  BY <1>1 DEF Everything, Contents, Stock
<1>3. ~DroppedByGet(ClientId, e)
  BY DEF DroppedByGet
<1> QED BY <1>2, <1>3 DEF Explained, Accounted

LEMMA StockAccounted ==
  ASSUME TypeOK, SomethingToWrite, StreamInv, DeliveryInv, RequestInv, JoinerTypeOK,
         AsksForAll, JoinerNext, NEW e \in Stock(ClientId)
  PROVE  Accounted(e)
<1> USE ServiceAssumption
<1>1. e \in Everything(ClientId)
  BY DEF Stock, Everything, Contents
<1>2. CASE UNCHANGED <<db, unpersisted, pending, chan, held>>
  BY <1>2 DEF Stock, Accounted
<1>3. CASE Start \/ RunStep \/ Killed \/ OtherHttp
  <2>1. UNCHANGED <<sourceVars, db, loopVars>>
    BY <1>3 DEF Start, RunStep, Ask, Process, ProcessFails, TimeIsUp, Killed, OtherHttp,
                CallCreate, CallGet, Hangup, vars
  <2> QED BY <1>2, <2>1 DEF sourceVars, loopVars
<1>4. CASE TakeCreates \/ NextRound \/ Feed
  BY <1>2, <1>4 DEF TakeCreates, NextRound, Feed, Emit, sourceVars, loopVars
<1>5. CASE ServeGets /\ Hears
  BY <1>5, GetAccounted
<1>6. CASE Crash \/ \E c \in Clients : CreatePanics(c)
  BY <1>6 DEF CreatePanics, ProcessDied, Accounted
<1>7. ASSUME NEW c \in Clients, Drain(c)
      PROVE  Accounted(e)
  BY <1>1, <1>7, DrainExplained, StillInStock DEF Drain, callVars
<1>8. ASSUME NEW c \in Clients, ServeCreate(c)
      PROVE  Accounted(e)
  BY <1>1, <1>8, ServeCreateExplained, StillInStock DEF ServeCreate
<1>9. ASSUME NEW c \in Clients, Persist(c)
      PROVE  Accounted(e)
  BY <1>1, <1>9, PersistExplained, StillInStock DEF Persist, callVars
<1>10. ASSUME NEW c \in Clients, SourceTask(c)
       PROVE  Accounted(e)
  BY <1>1, <1>10, SourceExplained, StillInStock DEF SourceTask, callVars
<1> QED BY <1>3, <1>4, <1>5, <1>6, <1>7, <1>8, <1>9, <1>10 DEF JoinerNext, Loop

LEMMA EndToEndStep ==
  ASSUME TypeOK, SomethingToWrite, StreamInv, DeliveryInv, RequestInv, JoinerTypeOK,
         AsksForAll, TypeOK', JoinerTypeOK', JoinerNext, NEW e \in Range(Ahead) \ Malformed
  PROVE  \/ e \in Range(processed' \o Ahead')
         \/ EndedWith(e)
         \/ AskedByAnother(e)
         \/ ProcessDied
         \/ ReplacedBatcher(ClientId, e)
         \/ BehindAnError(ClientId, e)
<1>1. e \in Range(batch) \/ e \in Stock(ClientId)
  BY AheadRange DEF AheadIsEverything
<1>2. Accounted(e)
  BY <1>1, BatchAccounted, StockAccounted
<1>3. AheadIsEverything'
  BY AheadRange, PTL
<1> QED BY <1>2, <1>3 DEF Accounted, AheadIsEverything

(* From the feed to the documents, an event that was read for the service  *)
(* is processed or lost in a named way: with a run that ends, to a get     *)
(* that is not its own, with the process, with the batcher the next run    *)
(* replaces, or behind a message that does not parse.                      *)
THEOREM EndToEndLossesNamed == JoinerSpec => EndToEndLosses
<1>1. JoinerSpec => [](StreamInv /\ RequestInv)
  BY JoinerIsAClient, StreamInvariant, RequestInvariant, PTL
<1>2. JoinerInit => AsksForAll
  BY ServiceAssumption, CallersAssumption DEF JoinerInit, Init, NoCalls, AsksForAll
<1>3. /\ TypeOK /\ TypeOK' /\ RequestInv' /\ JoinerTypeOK /\ AsksForAll
      /\ [JoinerNext]_joinerVars
      => AsksForAll'
  BY AsksForAllStep
<1>4. /\ TypeOK /\ SomethingToWrite /\ StreamInv /\ DeliveryInv /\ RequestInv
      /\ JoinerTypeOK /\ AsksForAll /\ TypeOK' /\ JoinerTypeOK' /\ [JoinerNext]_joinerVars
      => [\A e \in Range(Ahead) \ Malformed :
            \/ e \in Range(processed' \o Ahead')
            \/ EndedWith(e)
            \/ AskedByAnother(e)
            \/ ProcessDied
            \/ ReplacedBatcher(ClientId, e)
            \/ BehindAnError(ClientId, e)]_joinerVars
  BY EndToEndStep
<1> QED
  BY <1>1, <1>2, <1>3, <1>4, BatcherFacts, RunAndHandlerAgree, PTL
     DEF JoinerSpec, EndToEndLosses

=============================================================================
