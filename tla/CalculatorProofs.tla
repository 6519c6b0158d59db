-------------------------- MODULE CalculatorProofs --------------------------
(***************************************************************************)
(* What holds of the documents whatever the calculators, feeds, failures   *)
(* and contexts of claims are, and what holds of calculators that lose no  *)
(* response and whose queries find nothing.                                *)
(***************************************************************************)
EXTENDS CalculatorProperties, PointsProofs, SequenceTheorems

(* A worker in the middle of an event is at an attestation, or at a time   *)
(* event, of the feed, and at first-all-events only if it is complete.     *)
Busy(w) == stage[w] \in {"get", "write"}

AtAnEvent ==
  \A w \in Workers : Busy(w) =>
    /\ position[w] \in DOMAIN feed
    /\ Event(w).kind \in {"attestation", "time"}
    /\ context[w] = "first-all-events" => IsComplete(Data(w))

TypeInv == TypeOK /\ AtAnEvent

SameKey(p, q) == p.recipient = q.recipient /\ p.context = q.context

(* What is cached has the recipient and the context of its document, if    *)
(* not its value.  Where queries find nothing, they are the ones that it   *)
(* is cached for.                                                          *)
CachedWhereItBelongs ==
  \A w \in Workers, h \in Holders, x \in Contexts :
    LET e == cache[w][<<h, x>>]
    IN  e # Nothing =>
          /\ SameKey(e.points, docs[e.doc])
          /\ reading = "nothing" => e.points.recipient = h /\ e.points.context = x

(* What a worker is about to write depends on what is in its cache now,    *)
(* although other workers ran since it looked.                             *)
FoundIsCached ==
  \A w \in Workers : stage[w] = "write" =>
    /\ found[w] = cache[w][<<Holder(w), context[w]>>]
    /\ OnlyCreates(w) => found[w] = Nothing

HolderInv == TypeInv /\ CachedWhereItBelongs /\ FoundIsCached

(* No two workers cache the same document. *)
OwnDocuments ==
  \A v, w \in Workers, k, l \in Keys :
    v # w /\ cache[v][k] # Nothing /\ cache[w][l] # Nothing =>
      cache[v][k].doc # cache[w][l].doc

(* The contexts a worker has behind it in its event are in its cache, with *)
(* the values of the event.                                                *)
Written(w, x, v) ==
  LET e == cache[w][<<Holder(w), x>>]
  IN  e # Nothing /\ e.points.value = v

WrittenSoFar ==
  \A w \in Workers : Busy(w) =>
    /\ context[w] # "unique-events" => Written(w, "unique-events", UniqueEvents(Data(w)))
    /\ context[w] = "first-all-events" => Written(w, "all-events", AllEvents(Data(w)))

CurrentInv == HolderInv /\ CacheIsCurrent /\ OwnDocuments /\ WrittenSoFar

(* Every document is in the cache of a worker. *)
AllCached ==
  \A d \in DOMAIN docs : \E w \in Workers, k \in Keys :
    cache[w][k] # Nothing /\ cache[w][k].doc = d

NobodyDown == \A w \in Workers : stage[w] # "down"

CountInv == CurrentInv /\ AllCached /\ NobodyDown

-----------------------------------------------------------------------------

(* What an event of the feed gives a worker that is at it. *)
LEMMA EventFacts ==
  ASSUME TypeInv, NEW w \in Workers, Busy(w)
  PROVE  /\ position[w] \in DOMAIN feed /\ feed \in Seq(Events)
         /\ Holder(w) \in Holders /\ context[w] \in Contexts
         /\ <<Holder(w), context[w]>> \in Keys
         /\ Data(w) \in Seq(Claims)
         /\ Value(w) \in Nat
<1>1. feed \in Seq(Events)
  BY FeedsAssumption DEF TypeInv, TypeOK
<1>2. position[w] \in DOMAIN feed
  BY DEF TypeInv, AtAnEvent
<1>3. Event(w) \in Events
  BY <1>1, <1>2 DEF Event
<1>4. Holder(w) \in Holders /\ Data(w) \in Seq(Claims)
  BY <1>3 DEF Holder, Data, Events
<1>5. context[w] \in Contexts
  BY DEF TypeInv, TypeOK
<1>6. context[w] = "first-all-events" => GroupStarts(Data(w)) # {}
  BY <1>4, CompleteHasGroups DEF TypeInv, AtAnEvent
<1>7. UniqueEvents(Data(w)) \in Nat /\ AllEvents(Data(w)) \in Nat
  BY <1>4, UniqueEventsType, GroupsAreFinite
<1>8. context[w] = "first-all-events" => CompletedAt(Data(w)) \in Nat
  BY <1>4, <1>6, CompletedAtType
<1>9. Value(w) \in Nat
  BY <1>5, <1>7, <1>8 DEF Value, Contexts
<1> QED
  BY <1>1, <1>2, <1>4, <1>5, <1>9 DEF Keys

(* The entries a cache may have. *)
Entries == {Nothing} \cup [doc : DOMAIN docs, points : PointSet]

(* Documents are never removed, so that entries remain valid. *)
LEMMA EntriesRemain ==
  ASSUME TypeOK, docs' \in Seq(PointSet), Len(docs) <= Len(docs')
  PROVE  /\ DOMAIN docs \subseteq DOMAIN docs'
         /\ Entries \subseteq Entries'
         /\ cache \in [Workers -> [Keys -> Entries']]
         /\ found \in [Workers -> Entries']
<1>1. DOMAIN docs \subseteq DOMAIN docs'
  <2>1. docs \in Seq(PointSet)
    BY DEF TypeOK
  <2> QED
    BY <2>1
<1>2. Entries \subseteq Entries'
  BY <1>1 DEF Entries
<1>3. cache \in [Workers -> [Keys -> Entries]] /\ found \in [Workers -> Entries]
  BY DEF TypeOK, Entries
<1> QED
  BY <1>1, <1>2, <1>3

(* What Remember does to the caches. *)
LEMMA Remembered ==
  ASSUME cache \in [Workers -> [Keys -> Entries']],
         NEW w \in Workers, NEW d, NEW p \in PointSet, Existing(d, p) \in Entries', Remember(w, d, p)
  PROVE  /\ cache' \in [Workers -> [Keys -> Entries']]
         /\ \A v \in Workers, k \in Keys :
              cache'[v][k] = IF v = w /\ k = <<p.recipient, p.context>>
                             THEN Existing(d, p) ELSE cache[v][k]
<1>1. p.recipient \in Holders /\ p.context \in Contexts
  BY DEF PointSet
<1>2. <<p.recipient, p.context>> \in Keys
  BY <1>1 DEF Keys
<1> QED
  BY <1>2 DEF Remember

(* The move to the next context. *)
LEMMA NextContextType ==
  ASSUME TypeInv, NEW w \in Workers, Busy(w), NextContext(w)
  PROVE  /\ feed' \in Feeds /\ position' \in [Workers -> 0..Len(feed')]
         /\ stage' \in [Workers -> {"idle", "get", "write", "failed", "down"}]
         /\ context' \in [Workers -> Contexts]
         /\ AtAnEvent'
<1>1. /\ stage' \in [Workers -> {"idle", "get", "write", "failed", "down"}]
      /\ context' \in [Workers -> Contexts]
      /\ feed' = feed /\ position' = position
      /\ \A v \in Workers : v # w => stage'[v] = stage[v] /\ context'[v] = context[v]
      /\ Busy(w)' /\ context'[w] = "first-all-events" => IsComplete(Data(w))
  <2>1. CASE context[w] = "unique-events"
    BY <2>1 DEF NextContext, TypeInv, TypeOK, Contexts, Busy
  <2>2. CASE context[w] # "unique-events" /\ context[w] = "all-events" /\ IsComplete(Data(w))
    BY <2>2 DEF NextContext, TypeInv, TypeOK, Contexts, Busy
  <2>3. CASE context[w] # "unique-events" /\ ~(context[w] = "all-events" /\ IsComplete(Data(w)))
    BY <2>3 DEF NextContext, TypeInv, TypeOK, Contexts, Busy
  <2> QED
    BY <2>1, <2>2, <2>3
<1>2. AtAnEvent'
  BY <1>1 DEF AtAnEvent, TypeInv, Busy, Event, Data
<1> QED
  BY <1>1, <1>2 DEF TypeInv, TypeOK

(* A worker goes to the stage s and everything else of it stays. *)
LEMMA StageType ==
  ASSUME TypeInv, NEW w \in Workers, NEW s \in {"idle", "get", "write", "failed"}, Stage(w, s),
         s \in {"get", "write"} => Busy(w)
  PROVE  /\ feed' \in Feeds /\ position' \in [Workers -> 0..Len(feed')]
         /\ stage' \in [Workers -> {"idle", "get", "write", "failed", "down"}]
         /\ context' \in [Workers -> Contexts]
         /\ AtAnEvent'
<1>1. /\ stage' \in [Workers -> {"idle", "get", "write", "failed", "down"}]
      /\ feed' = feed /\ position' = position /\ context' = context
      /\ \A v \in Workers : Busy(v)' => Busy(v)
  BY DEF Stage, TypeInv, TypeOK, Busy
<1>2. AtAnEvent'
  BY <1>1 DEF AtAnEvent, TypeInv, Event, Data
<1> QED
  BY <1>1, <1>2 DEF TypeInv, TypeOK

(* get_points keeps the types, finds what it caches and changes no other   *)
(* entry than the one asked for.                                           *)
LEMMA GetPointsType ==
  ASSUME TypeInv, NEW w \in Workers, NEW h \in Holders, NEW x \in Contexts,
         GetPoints(w, h, x)
  PROVE  /\ reading' = reading /\ docs' = docs
         /\ cache' \in [Workers -> [Keys -> Entries]]
         /\ found' \in [Workers -> Entries]
         /\ found'[w] = cache'[w][<<h, x>>]
         /\ \A v \in Workers : v # w => found'[v] = found[v]
         /\ \A v \in Workers, k \in Keys : cache'[v][k] # cache[v][k] =>
              /\ v = w /\ k = <<h, x>> /\ cache[v][k] = Nothing
              /\ \E d \in Edges(h) : cache'[v][k] = Existing(d, docs[d])
<1>1. /\ cache \in [Workers -> [Keys -> Entries]] /\ found \in [Workers -> Entries]
      /\ docs \in Seq(PointSet)
  BY DEF TypeInv, TypeOK, Entries
<1>2. <<h, x>> \in Keys /\ Nothing \in Entries
  BY DEF Keys, Entries
<1>3. CASE /\ cache[w][<<h, x>>] # Nothing
           /\ found' = [found EXCEPT ![w] = cache[w][<<h, x>>]]
           /\ UNCHANGED <<reading, docs, cache>>
  BY <1>1, <1>2, <1>3
<1>4. CASE /\ cache[w][<<h, x>>] = Nothing
           /\ found' = [found EXCEPT ![w] = Nothing]
           /\ UNCHANGED <<reading, docs, cache>>
  BY <1>1, <1>2, <1>4
<1>5. ASSUME cache[w][<<h, x>>] = Nothing, UNCHANGED <<reading, docs>>,
             NEW d \in Edges(h),
             found' = [found EXCEPT ![w] = Existing(d, docs[d])],
             cache' = [cache EXCEPT ![w][<<h, x>>] = Existing(d, docs[d])]
      PROVE  /\ reading' = reading /\ docs' = docs
             /\ cache' \in [Workers -> [Keys -> Entries]]
             /\ found' \in [Workers -> Entries]
             /\ found'[w] = cache'[w][<<h, x>>]
             /\ \A v \in Workers : v # w => found'[v] = found[v]
             /\ \A v \in Workers, k \in Keys : cache'[v][k] # cache[v][k] =>
                  /\ v = w /\ k = <<h, x>> /\ cache[v][k] = Nothing
                  /\ cache'[v][k] = Existing(d, docs[d])
  <2>1. docs[d] \in PointSet
    BY <1>1 DEF Edges
  <2>2. Existing(d, docs[d]) \in Entries
    BY <2>1 DEF Edges, Entries, Existing
  <2> QED
    BY <1>1, <1>2, <1>5, <2>2
<1> QED
  BY <1>3, <1>4, <1>5 DEF GetPoints

(* create_points appends a document and caches it. *)
LEMMA CreatePointsType ==
  ASSUME TypeInv, NEW w \in Workers, NEW h \in Holders, NEW x \in Contexts, NEW n \in Nat,
         CreatePoints(w, h, x, n)
  PROVE  /\ reading' = reading /\ found' = found
         /\ docs' \in Seq(PointSet) /\ docs' = Append(docs, Points(h, x, n))
         /\ Len(docs') = Len(docs) + 1
         /\ \A d \in DOMAIN docs : docs'[d] = docs[d]
         /\ docs'[NewDoc] = Points(h, x, n)
         /\ cache' \in [Workers -> [Keys -> Entries']]
         /\ \A v \in Workers, k \in Keys :
              cache'[v][k] = IF v = w /\ k = <<h, x>>
                             THEN Existing(NewDoc, Points(h, x, n)) ELSE cache[v][k]
<1>1. docs \in Seq(PointSet)
  BY DEF TypeInv, TypeOK
<1> DEFINE p == Points(h, x, n)
<1>2. p \in PointSet /\ p.recipient = h /\ p.context = x
  BY DEF Points, PointSet
<1> HIDE DEF p
<1>3. /\ docs' = Append(docs, p) /\ Remember(w, NewDoc, p)
      /\ UNCHANGED <<reading, found>>
  BY DEF CreatePoints, p
<1>4. /\ docs' \in Seq(PointSet)
      /\ Len(docs') = Len(docs) + 1
      /\ \A d \in DOMAIN docs : docs'[d] = docs[d]
      /\ docs'[NewDoc] = p
  BY <1>1, <1>2, <1>3 DEF NewDoc
<1>5. Len(docs) <= Len(docs')
  BY <1>1, <1>4
<1>6. cache \in [Workers -> [Keys -> Entries']]
  BY <1>4, <1>5, EntriesRemain DEF TypeInv
<1>7. NewDoc \in DOMAIN docs'
  BY <1>1, <1>4 DEF NewDoc
<1>8. Existing(NewDoc, p) \in Entries'
  BY <1>2, <1>7 DEF Entries, Existing
<1>9. /\ cache' \in [Workers -> [Keys -> Entries']]
      /\ \A v \in Workers, k \in Keys :
           cache'[v][k] = IF v = w /\ k = <<h, x>> THEN Existing(NewDoc, p) ELSE cache[v][k]
  BY <1>2, <1>3, <1>6, <1>8, Remembered
<1> QED
  BY <1>3, <1>4, <1>9 DEF p

(* update_points changes the value of the document found and caches that. *)
LEMMA UpdatePointsType ==
  ASSUME TypeInv, NEW w \in Workers, NEW n \in Nat, found[w] # Nothing, UpdatePoints(w, n)
  PROVE  LET d == found[w].doc
             p == [found[w].points EXCEPT !.value = n]
         IN  /\ reading' = reading /\ found' = found
             /\ d \in DOMAIN docs /\ p \in PointSet /\ p.value = n
             /\ p.recipient = found[w].points.recipient /\ p.context = found[w].points.context
             /\ docs' \in Seq(PointSet) /\ Len(docs') = Len(docs)
             /\ \A c \in DOMAIN docs : docs'[c] = IF c = d THEN p ELSE docs[c]
             /\ cache' \in [Workers -> [Keys -> Entries']]
             /\ \A v \in Workers, k \in Keys :
                  cache'[v][k] = IF v = w /\ k = <<p.recipient, p.context>>
                                 THEN Existing(d, p) ELSE cache[v][k]
<1>1. docs \in Seq(PointSet)
  BY DEF TypeInv, TypeOK
<1> DEFINE d == found[w].doc
           p == [found[w].points EXCEPT !.value = n]
<1>2. found[w].doc \in DOMAIN docs /\ found[w].points \in PointSet
  <2>1. found[w] \in Entries
    BY DEF TypeInv, TypeOK, Entries
  <2> QED
    BY <2>1 DEF Entries
<1>3. /\ p \in PointSet /\ p.value = n
      /\ p.recipient = found[w].points.recipient /\ p.context = found[w].points.context
  BY <1>2 DEF PointSet
<1> HIDE DEF p
<1>4. /\ docs' = [docs EXCEPT ![d] = p] /\ Remember(w, d, p)
      /\ UNCHANGED <<reading, found>>
  BY DEF UpdatePoints, p
<1>5. d \in DOMAIN docs
  BY <1>2
<1> HIDE DEF d
<1>6. /\ docs' \in Seq(PointSet) /\ Len(docs') = Len(docs)
      /\ \A c \in DOMAIN docs : docs'[c] = IF c = d THEN p ELSE docs[c]
  BY <1>1, <1>3, <1>4, <1>5, ExceptSeq
<1>7. Len(docs) <= Len(docs')
  BY <1>1, <1>6
<1>8. cache \in [Workers -> [Keys -> Entries']] /\ d \in DOMAIN docs'
  BY <1>5, <1>6, <1>7, EntriesRemain DEF TypeInv
<1>9. Existing(d, p) \in Entries'
  BY <1>3, <1>8 DEF Entries, Existing
<1>10. /\ cache' \in [Workers -> [Keys -> Entries']]
       /\ \A v \in Workers, k \in Keys :
            cache'[v][k] = IF v = w /\ k = <<p.recipient, p.context>>
                           THEN Existing(d, p) ELSE cache[v][k]
  BY <1>3, <1>4, <1>8, <1>9, Remembered
<1> QED
  BY <1>3, <1>4, <1>5, <1>6, <1>10 DEF d, p

(* A refused or unanswered write changes the documents only. *)
LEMMA CreateFailsType ==
  ASSUME TypeInv, NEW w \in Workers, NEW h \in Holders, NEW x \in Contexts, NEW n \in Nat,
         WriteFails(Append(docs, Points(h, x, n)))
  PROVE  /\ docs' \in Seq(PointSet) /\ Len(docs) <= Len(docs')
         /\ \A d \in DOMAIN docs : docs'[d] = docs[d]
         /\ \A d \in DOMAIN docs' : d \in DOMAIN docs \/ docs'[d] = Points(h, x, n)
         /\ "response" \notin Failures => docs' = docs
<1>1. docs \in Seq(PointSet) /\ Points(h, x, n) \in PointSet
  BY DEF TypeInv, TypeOK, Points, PointSet
<1> QED
  BY <1>1 DEF WriteFails

LEMMA UpdateFailsType ==
  ASSUME TypeInv, NEW w \in Workers, NEW n \in Nat, found[w] # Nothing,
         WriteFails([docs EXCEPT ![found[w].doc] = [found[w].points EXCEPT !.value = n]])
  PROVE  LET d == found[w].doc
             p == [found[w].points EXCEPT !.value = n]
         IN  /\ d \in DOMAIN docs /\ p \in PointSet /\ p.value = n
             /\ p.recipient = found[w].points.recipient /\ p.context = found[w].points.context
             /\ docs' \in Seq(PointSet) /\ Len(docs) = Len(docs')
             /\ \A c \in DOMAIN docs : docs'[c] = docs[c] \/ (c = d /\ docs'[c] = p)
             /\ "response" \notin Failures => docs' = docs
<1>1. docs \in Seq(PointSet)
  BY DEF TypeInv, TypeOK
<1> DEFINE d == found[w].doc
           p == [found[w].points EXCEPT !.value = n]
<1>2. found[w].doc \in DOMAIN docs /\ found[w].points \in PointSet
  <2>1. found[w] \in Entries
    BY DEF TypeInv, TypeOK, Entries
  <2> QED
    BY <2>1 DEF Entries
<1>3. /\ p \in PointSet /\ p.value = n
      /\ p.recipient = found[w].points.recipient /\ p.context = found[w].points.context
  BY <1>2 DEF PointSet
<1> HIDE DEF p
<1>4. \/ docs' = docs
      \/ "response" \in Failures /\ docs' = [docs EXCEPT ![d] = p]
  BY DEF WriteFails, p
<1>5. d \in DOMAIN docs
  BY <1>2
<1> HIDE DEF d
<1>6. /\ docs' \in Seq(PointSet) /\ Len(docs) = Len(docs')
      /\ \A c \in DOMAIN docs : docs'[c] = docs[c] \/ (c = d /\ docs'[c] = p)
  <2>1. CASE docs' = docs
    BY <1>1, <2>1
  <2>2. CASE docs' = [docs EXCEPT ![d] = p]
    BY <1>1, <1>3, <1>5, <2>2, ExceptSeq
  <2> QED
    BY <1>4, <2>1, <2>2
<1> QED
  BY <1>3, <1>4, <1>5, <1>6 DEF d, p

-----------------------------------------------------------------------------

(* The type invariant, one action at a time. *)
LEMMA TakeKeepsType ==
  ASSUME TypeInv, NEW w \in Workers, Take(w)
  PROVE  TypeInv'
<1> DEFINE kind == feed[position[w] + 1].kind
           next == CASE kind = "invalid" -> "failed"
                     [] kind = "attestation" \/ (kind = "time" /\ w \in Joiners) -> "get"
                     [] OTHER -> "idle"
<1>1. /\ position[w] < Len(feed) /\ feed' = feed
      /\ position' = [position EXCEPT ![w] = @ + 1]
      /\ stage' = [stage EXCEPT ![w] = next]
      /\ context' = [context EXCEPT ![w] = "unique-events"]
      /\ reading' = reading /\ docs' = docs /\ cache' = cache /\ found' = found
  BY DEF Take, cacheVars
<1>2. /\ next \in {"failed", "get", "idle"}
      /\ next = "get" => kind \in {"attestation", "time"}
  OBVIOUS
<1> HIDE DEF next
<1>3. feed \in Seq(Events) /\ position \in [Workers -> 0..Len(feed)]
  BY FeedsAssumption DEF TypeInv, TypeOK
<1>4. position' \in [Workers -> 0..Len(feed')]
  BY <1>1, <1>3
<1>5. TypeOK'
  <2>1. stage' \in [Workers -> {"idle", "get", "write", "failed", "down"}]
    BY <1>1, <1>2 DEF TypeInv, TypeOK
  <2>2. context' \in [Workers -> Contexts]
    BY <1>1 DEF TypeInv, TypeOK, Contexts
  <2> QED
    BY <1>1, <1>4, <2>1, <2>2 DEF TypeInv, TypeOK, PointSet
<1>6. ASSUME NEW v \in Workers, Busy(v)'
      PROVE  /\ position'[v] \in DOMAIN feed'
             /\ Event(v)'.kind \in {"attestation", "time"}
             /\ context'[v] = "first-all-events" => IsComplete(Data(v))'
  <2>1. CASE v = w
    <3>1. position[w] \in 0..Len(feed) /\ position'[w] = position[w] + 1
      BY <1>1, <1>3
    <3>2. position'[w] \in DOMAIN feed' /\ Event(w)'.kind = kind
      BY <1>1, <1>3, <3>1 DEF Event
    <3>3. context'[w] = "unique-events"
      BY <1>1 DEF TypeInv, TypeOK
    <3>4. stage'[w] = next
      BY <1>1 DEF TypeInv, TypeOK
    <3>5. next = "get"
      BY <1>2, <1>6, <2>1, <3>4 DEF Busy
    <3> QED
      BY <1>2, <2>1, <3>2, <3>3, <3>5
  <2>2. CASE v # w
    BY <1>1, <1>3, <1>6, <2>2 DEF Busy, TypeInv, TypeOK, AtAnEvent, Event, Data
  <2> QED
    BY <2>1, <2>2
<1> QED
  BY <1>5, <1>6 DEF TypeInv, AtAnEvent

LEMMA CallsKeepType ==
  ASSUME TypeInv, NEW w \in Workers,
         Get(w) \/ GetFails(w) \/ Create(w) \/ Update(w) \/ CreateFails(w) \/ UpdateFails(w)
  PROVE  TypeInv'
<1>1. Busy(w)
  BY DEF Get, GetFails, Create, Update, CreateFails, UpdateFails, Busy
<1>2. /\ Holder(w) \in Holders /\ context[w] \in Contexts /\ Value(w) \in Nat
  BY <1>1, EventFacts
<1>3. /\ feed' \in Feeds /\ position' \in [Workers -> 0..Len(feed')]
      /\ stage' \in [Workers -> {"idle", "get", "write", "failed", "down"}]
      /\ context' \in [Workers -> Contexts]
      /\ AtAnEvent'
  <2>1. CASE NextContext(w)
    BY <1>1, <2>1, NextContextType
  <2>2. CASE Stage(w, "write")
    BY <1>1, <2>2, StageType
  <2>3. CASE Stage(w, "failed")
    BY <2>3, StageType
  <2> QED
    BY <2>1, <2>2, <2>3 DEF Get, GetFails, Create, Update, CreateFails, UpdateFails
<1>4. /\ reading' \in Readings /\ docs' \in Seq(PointSet)
      /\ cache' \in [Workers -> [Keys -> Entries']] /\ found' \in [Workers -> Entries']
  <2>1. /\ reading \in Readings /\ docs \in Seq(PointSet)
        /\ cache \in [Workers -> [Keys -> Entries]] /\ found \in [Workers -> Entries]
    BY DEF TypeInv, TypeOK, Entries
  <2>2. CASE Get(w)
    <3>1. GetPoints(w, Holder(w), context[w])
      BY <2>2 DEF Get
    <3>2. /\ reading' = reading /\ docs' = docs
          /\ cache' \in [Workers -> [Keys -> Entries]] /\ found' \in [Workers -> Entries]
      BY <1>2, <3>1, GetPointsType
    <3> QED
      BY <2>1, <3>2 DEF Entries
  <2>3. CASE GetFails(w)
    BY <2>1, <2>3 DEF GetFails, GetPointsFails, cacheVars, Entries
  <2>4. CASE Create(w)
    <3>1. CreatePoints(w, Holder(w), context[w], Value(w))
      BY <2>4 DEF Create
    <3>2. /\ reading' = reading /\ found' = found
          /\ docs' \in Seq(PointSet) /\ Len(docs') = Len(docs) + 1
          /\ cache' \in [Workers -> [Keys -> Entries']]
      BY <1>2, <3>1, CreatePointsType
    <3>3. found \in [Workers -> Entries']
      BY <2>1, <3>2, EntriesRemain DEF TypeInv
    <3> QED
      BY <2>1, <3>2, <3>3
  <2>5. CASE Update(w)
    <3>1. found[w] # Nothing /\ UpdatePoints(w, Value(w))
      BY <2>5 DEF Update
    <3>2. /\ reading' = reading /\ found' = found
          /\ docs' \in Seq(PointSet) /\ Len(docs') = Len(docs)
          /\ cache' \in [Workers -> [Keys -> Entries']]
      BY <1>2, <3>1, UpdatePointsType
    <3>3. found \in [Workers -> Entries']
      BY <2>1, <3>2, EntriesRemain DEF TypeInv
    <3> QED
      BY <2>1, <3>2, <3>3
  <2>6. CASE CreateFails(w)
    <3>1. /\ reading' = reading /\ cache' = cache /\ found' = found
          /\ WriteFails(Append(docs, Points(Holder(w), context[w], Value(w))))
      BY <2>6 DEF CreateFails
    <3>2. docs' \in Seq(PointSet) /\ Len(docs) <= Len(docs')
      BY <1>2, <3>1, CreateFailsType
    <3> QED
      BY <2>1, <3>1, <3>2, EntriesRemain DEF TypeInv
  <2>7. CASE UpdateFails(w)
    <3>1. /\ reading' = reading /\ cache' = cache /\ found' = found /\ found[w] # Nothing
          /\ WriteFails([docs EXCEPT ![found[w].doc] =
                           [found[w].points EXCEPT !.value = Value(w)]])
      BY <2>7 DEF UpdateFails
    <3>2. docs' \in Seq(PointSet) /\ Len(docs) = Len(docs')
      BY <1>2, <3>1, UpdateFailsType
    <3>3. Len(docs) <= Len(docs')
      BY <2>1, <3>2
    <3> QED
      BY <2>1, <3>1, <3>2, <3>3, EntriesRemain DEF TypeInv
  <2> QED
    BY <2>2, <2>3, <2>4, <2>5, <2>6, <2>7
<1> QED
  BY <1>3, <1>4 DEF TypeInv, TypeOK, Entries

(* The actions that do not touch the documents. *)
LEMMA LoopKeepsType ==
  ASSUME TypeInv,
         \/ \E w \in Workers : Continue(w) \/ EndRun(w) \/ Miss(w) \/ Restart(w)
         \/ Crash \/ UNCHANGED vars
  PROVE  TypeInv'
<1> DEFINE Stages == {"idle", "get", "write", "failed", "down"}
<1>1. /\ feed \in Feeds /\ feed \in Seq(Events) /\ position \in [Workers -> 0..Len(feed)]
      /\ stage \in [Workers -> Stages]
      /\ context \in [Workers -> Contexts]
      /\ cache \in [Workers -> [Keys -> Entries]] /\ found \in [Workers -> Entries]
      /\ reading \in Readings /\ docs \in Seq(PointSet)
  BY FeedsAssumption DEF TypeInv, TypeOK, Entries
<1>2. /\ docs' = docs /\ found' = found /\ reading' = reading
      /\ feed' = feed /\ context' = context
      /\ position' \in [Workers -> 0..Len(feed)]
      /\ stage' \in [Workers -> Stages]
      /\ cache' \in [Workers -> [Keys -> Entries]]
      /\ \A v \in Workers : Busy(v)' => Busy(v) /\ position'[v] = position[v]
  <2>1. ASSUME NEW w \in Workers, Continue(w)
        PROVE  <1>2!:
    BY <1>1, <2>1 DEF Continue, Stage, cacheVars, Busy
  <2>2. ASSUME NEW w \in Workers, LosesEvents(w)
        PROVE  /\ position' \in [Workers -> 0..Len(feed)]
               /\ \A v \in Workers : v # w => position'[v] = position[v]
    BY <1>1, <2>2 DEF LosesEvents
  <2>3. ASSUME NEW w \in Workers, StartsAnew(w)
        PROVE  /\ docs' = docs /\ found' = found /\ reading' = reading
               /\ feed' = feed /\ context' = context
               /\ stage' \in [Workers -> Stages] /\ ~Busy(w)'
               /\ \A v \in Workers : v # w => stage'[v] = stage[v]
               /\ cache' \in [Workers -> [Keys -> Entries]]
    <3>1. EmptyCache \in [Keys -> Entries]
      BY DEF EmptyCache, Entries
    <3> QED
      BY <1>1, <2>3, <3>1 DEF StartsAnew, Busy
  <2>4. ASSUME NEW w \in Workers, EndRun(w)
        PROVE  <1>2!:
    <3>1. StartsAnew(w) /\ (position' = position \/ LosesEvents(w))
      BY <2>4 DEF EndRun
    <3> QED
      BY <1>1, <2>2, <2>3, <3>1 DEF Busy
  <2>5. ASSUME NEW w \in Workers, Restart(w)
        PROVE  <1>2!:
    BY <1>1, <2>2, <2>3, <2>5 DEF Restart, Busy
  <2>6. ASSUME NEW w \in Workers, Miss(w)
        PROVE  <1>2!:
    BY <1>1, <2>6 DEF Miss, cacheVars, Busy
  <2>7. CASE Crash
    BY <1>1, <2>7 DEF Crash, cacheVars, Busy
  <2>8. CASE UNCHANGED vars
    BY <1>1, <2>8 DEF vars, workerVars, cacheVars, Busy
  <2> QED
    BY <2>1, <2>4, <2>5, <2>6, <2>7, <2>8
<1>3. TypeOK'
  BY <1>1, <1>2 DEF TypeOK, Entries
<1>4. AtAnEvent'
  BY <1>1, <1>2 DEF AtAnEvent, TypeInv, Event, Data
<1> QED
  BY <1>3, <1>4 DEF TypeInv

LEMMA NextKeepsType == TypeInv /\ [Next]_vars => TypeInv'
BY TakeKeepsType, CallsKeepType, LoopKeepsType DEF Next, Step

LEMMA InitType == Init => TypeInv
<1> SUFFICES ASSUME Init PROVE TypeInv
  OBVIOUS
<1>1. feed \in Seq(Events)
  BY FeedsAssumption DEF Init
<1>2. position \in [Workers -> 0..Len(feed)]
  BY <1>1 DEF Init
<1>3. /\ docs \in Seq(PointSet)
      /\ cache \in [Workers -> [Keys -> {Nothing} \cup [doc : DOMAIN docs, points : PointSet]]]
      /\ found \in [Workers -> {Nothing} \cup [doc : DOMAIN docs, points : PointSet]]
  BY DEF Init, CacheInit, EmptyCache
<1> QED
  BY <1>2, <1>3 DEF Init, CacheInit, TypeInv, TypeOK, AtAnEvent, Busy, Contexts

(* Every variable of the calculators keeps its type: what a cache or a     *)
(* lookup refers to is a document that exists, and a worker in the middle  *)
(* of an event is at an attestation of the feed.                           *)
THEOREM CalculatorTypeCorrect == Spec => [](TypeOK /\ AtAnEvent)
<1>1. TypeInv <=> TypeOK /\ AtAnEvent
  BY DEF TypeInv
<1> QED
  BY <1>1, InitType, NextKeepsType, PTL DEF Spec

-----------------------------------------------------------------------------

(* What a worker does about its own event leaves the others where they are. *)
LEMMA OneWorkerMoves ==
  ASSUME TypeInv, NEW w \in Workers,
         NextContext(w) \/ Stage(w, "write") \/ Stage(w, "failed")
  PROVE  /\ feed' = feed /\ position' = position
         /\ \A v \in Workers : v # w => stage'[v] = stage[v] /\ context'[v] = context[v]
         /\ \A v \in Workers : Holder(v)' = Holder(v) /\ Data(v)' = Data(v)
         /\ NextContext(w) =>
              \/ stage'[w] = "idle" /\ context' = context
                 /\ context[w] # "unique-events"
                 /\ ~(context[w] = "all-events" /\ IsComplete(Data(w)))
              \/ stage'[w] = "get" /\ context[w] = "unique-events"
                 /\ context'[w] = "all-events"
              \/ stage'[w] = "get" /\ context[w] = "all-events"
                 /\ context'[w] = "first-all-events"
         /\ Stage(w, "write") => stage'[w] = "write" /\ context'[w] = context[w]
         /\ Stage(w, "failed") => stage'[w] = "failed" /\ context'[w] = context[w]
<1>1. /\ stage \in [Workers -> {"idle", "get", "write", "failed", "down"}]
      /\ context \in [Workers -> Contexts]
  BY DEF TypeInv, TypeOK
<1>2. feed' = feed /\ position' = position
  BY DEF NextContext, Stage
<1>3. \A v \in Workers : Holder(v)' = Holder(v) /\ Data(v)' = Data(v)
  BY <1>2 DEF Holder, Data, Event
<1>4. CASE NextContext(w)
  <2>1. CASE context[w] = "unique-events"
    BY <1>1, <1>2, <1>3, <1>4, <2>1 DEF NextContext, Stage
  <2>2. CASE context[w] # "unique-events" /\ context[w] = "all-events" /\ IsComplete(Data(w))
    BY <1>1, <1>2, <1>3, <1>4, <2>2 DEF NextContext, Stage
  <2>3. CASE context[w] # "unique-events" /\ ~(context[w] = "all-events" /\ IsComplete(Data(w)))
    BY <1>1, <1>2, <1>3, <1>4, <2>3 DEF NextContext, Stage
  <2> QED
    BY <2>1, <2>2, <2>3
<1>5. CASE Stage(w, "write") \/ Stage(w, "failed")
  <2>1. ~NextContext(w)
    <3>1. Stage(w, "write") => stage'[w] = "write"
      BY <1>1 DEF Stage
    <3>2. Stage(w, "failed") => stage'[w] = "failed"
      BY <1>1 DEF Stage
    <3>3. NextContext(w) => stage'[w] \in {"get", "idle"}
      BY <1>1 DEF NextContext
    <3> QED
      BY <1>5, <3>1, <3>2, <3>3
  <2> QED
    BY <1>1, <1>2, <1>3, <1>5, <2>1 DEF Stage
<1> QED
  BY <1>4, <1>5

(* What the actions without calls do to the documents and the caches. *)
LEMMA LoopEffects ==
  ASSUME TypeInv,
         \/ \E w \in Workers : Take(w) \/ Continue(w) \/ EndRun(w) \/ Miss(w) \/ Restart(w)
         \/ Crash \/ UNCHANGED vars
  PROVE  /\ docs' = docs /\ found' = found /\ reading' = reading /\ feed' = feed
         /\ \A v \in Workers, k \in Keys : cache'[v][k] # Nothing => cache'[v][k] = cache[v][k]
         /\ \A v \in Workers :
              \/ /\ Busy(v) /\ stage'[v] = stage[v] /\ position'[v] = position[v]
                 /\ context'[v] = context[v] /\ cache'[v] = cache[v]
                 /\ Holder(v)' = Holder(v) /\ Data(v)' = Data(v)
              \/ stage'[v] = "get" /\ context'[v] = "unique-events"
              \/ ~Busy(v)' /\ (Busy(v) => stage'[v] = "down")
<1>1. /\ cache \in [Workers -> [Keys -> Entries]] /\ position \in [Workers -> 0..Len(feed)]
      /\ stage \in [Workers -> {"idle", "get", "write", "failed", "down"}]
      /\ context \in [Workers -> Contexts]
  BY DEF TypeInv, TypeOK, Entries
<1> DEFINE Effect(v) ==
      \/ /\ Busy(v) /\ stage'[v] = stage[v] /\ position'[v] = position[v]
         /\ context'[v] = context[v] /\ cache'[v] = cache[v]
      \/ stage'[v] = "get" /\ context'[v] = "unique-events"
      \/ ~Busy(v)' /\ (Busy(v) => stage'[v] = "down")
<1>2. /\ docs' = docs /\ found' = found /\ reading' = reading /\ feed' = feed
      /\ \A v \in Workers, k \in Keys : cache'[v][k] # Nothing => cache'[v][k] = cache[v][k]
      /\ \A v \in Workers : Effect(v)
  <2>1. ASSUME NEW w \in Workers, Take(w)
        PROVE  <1>2!:
    <3>1. /\ docs' = docs /\ found' = found /\ reading' = reading /\ feed' = feed /\ cache' = cache
          /\ context'[w] = "unique-events"
          /\ \A v \in Workers : v # w => /\ stage'[v] = stage[v] /\ position'[v] = position[v]
                                         /\ context'[v] = context[v]
      BY <1>1, <2>1 DEF Take, cacheVars
    <3>2. stage'[w] \in {"failed", "get", "idle"} /\ ~Busy(w)
      BY <1>1, <2>1 DEF Take, Busy
    <3> QED
      BY <3>1, <3>2 DEF Busy
  <2>2. ASSUME NEW w \in Workers, LosesEvents(w)
        PROVE  \A v \in Workers : v # w => position'[v] = position[v]
    BY <1>1, <2>2 DEF LosesEvents
  <2>3. ASSUME NEW w \in Workers, StartsAnew(w)
        PROVE  /\ docs' = docs /\ found' = found /\ reading' = reading
               /\ feed' = feed /\ context' = context /\ ~Busy(w)'
               /\ \A v \in Workers : v # w => stage'[v] = stage[v] /\ cache'[v] = cache[v]
               /\ \A k \in Keys : cache'[w][k] = Nothing
    BY <1>1, <2>3 DEF StartsAnew, Busy, EmptyCache
  <2>4. ASSUME NEW w \in Workers, EndRun(w)
        PROVE  <1>2!:
    <3>1. StartsAnew(w) /\ (position' = position \/ LosesEvents(w)) /\ ~Busy(w)
      BY <2>4 DEF EndRun, Busy
    <3> QED
      BY <2>2, <2>3, <3>1 DEF Busy
  <2>5. ASSUME NEW w \in Workers, Restart(w)
        PROVE  <1>2!:
    BY <2>2, <2>3, <2>5 DEF Restart, Busy
  <2>6. ASSUME NEW w \in Workers, Miss(w)
        PROVE  <1>2!:
    BY <1>1, <2>6 DEF Miss, cacheVars, Busy
  <2>7. ASSUME NEW w \in Workers, Continue(w)
        PROVE  <1>2!:
    BY <1>1, <2>7 DEF Continue, Stage, cacheVars, Busy
  <2>8. CASE Crash
    BY <1>1, <2>8 DEF Crash, cacheVars, Busy
  <2>9. CASE UNCHANGED vars
    BY <1>1, <2>9 DEF vars, workerVars, cacheVars, Busy
  <2> QED
    BY <2>1, <2>4, <2>5, <2>6, <2>7, <2>8, <2>9
<1> QED
  BY <1>2 DEF Holder, Data, Event

(* An entry other than Nothing refers to a document. *)
LEMMA EntryType ==
  ASSUME TypeInv, NEW w \in Workers, NEW k \in Keys, cache[w][k] # Nothing
  PROVE  /\ cache[w][k].doc \in DOMAIN docs /\ cache[w][k].points \in PointSet
         /\ cache[w][k] = Existing(cache[w][k].doc, cache[w][k].points)
<1>1. cache[w][k] \in [doc : DOMAIN docs, points : PointSet]
  BY DEF TypeInv, TypeOK
<1> QED
  BY <1>1 DEF Existing

LEMMA KeyForm == \A k \in Keys : \E h \in Holders, x \in Contexts : k = <<h, x>>
BY DEF Keys

LEMMA ExistingIsSomething ==
  ASSUME TypeInv, NEW d \in 1..(Len(docs) + 1), NEW p
  PROVE  /\ Existing(d, p) # Nothing
         /\ Existing(d, p).doc = d /\ Existing(d, p).points = p
<1>1. Len(docs) \in Nat
  BY DEF TypeInv, TypeOK
<1>2. Existing(d, p).doc # Nothing.doc
  BY <1>1 DEF Existing, Nothing
<1> QED
  BY <1>2 DEF Existing

(* What a worker that updates has found: a document with the recipient and *)
(* the context that it has in mind, and where queries find nothing those   *)
(* of its event.  It is not at first-all-events.                           *)
LEMMA UpdatesItsOwn ==
  ASSUME HolderInv, NEW w \in Workers, stage[w] = "write", found[w] # Nothing
  PROVE  LET d == found[w].doc
         IN  /\ context[w] # "first-all-events"
             /\ found[w] = cache[w][<<Holder(w), context[w]>>]
             /\ SameKey(found[w].points, docs[d])
             /\ reading = "nothing" =>
                  found[w].points.recipient = Holder(w) /\ found[w].points.context = context[w]
<1>1. Holder(w) \in Holders /\ context[w] \in Contexts
  BY EventFacts DEF HolderInv, Busy
<1> QED
  BY <1>1 DEF HolderInv, FoundIsCached, CachedWhereItBelongs, OnlyCreates

LEMMA GetKeepsHolders ==
  ASSUME HolderInv, NEW w \in Workers, Get(w)
  PROVE  CachedWhereItBelongs' /\ FoundIsCached'
<1>1. TypeInv /\ Busy(w) /\ stage[w] = "get"
  BY DEF HolderInv, Get, Busy
<1> DEFINE h == Holder(w)
           x == context[w]
<1>2. h \in Holders /\ x \in Contexts
  BY <1>1, EventFacts
<1>3. GetPoints(w, h, x)
  BY DEF Get
<1>4. /\ reading' = reading /\ docs' = docs
      /\ found'[w] = cache'[w][<<h, x>>]
      /\ \A v \in Workers : v # w => found'[v] = found[v]
      /\ \A v \in Workers, k \in Keys : cache'[v][k] # cache[v][k] =>
           /\ v = w /\ k = <<h, x>> /\ cache[v][k] = Nothing
           /\ \E d \in Edges(h) : cache'[v][k] = Existing(d, docs[d])
      /\ cache' \in [Workers -> [Keys -> Entries]]
  BY <1>1, <1>2, <1>3, GetPointsType
<1>5. /\ \A v \in Workers : v # w => stage'[v] = stage[v] /\ context'[v] = context[v]
      /\ \A v \in Workers : Holder(v)' = Holder(v)
      /\ NextContext(w) => stage'[w] \in {"idle", "get"}
      /\ Stage(w, "write") => context'[w] = context[w]
  BY <1>1, OneWorkerMoves DEF Get
<1>6. CachedWhereItBelongs'
  <2> SUFFICES ASSUME NEW v \in Workers, NEW g \in Holders, NEW y \in Contexts,
                      cache'[v][<<g, y>>] # Nothing
               PROVE  LET e == cache'[v][<<g, y>>]
                      IN  /\ SameKey(e.points, docs'[e.doc])
                          /\ reading' = "nothing" =>
                               e.points.recipient = g /\ e.points.context = y
    BY DEF CachedWhereItBelongs, SameKey
  <2>1. <<g, y>> \in Keys
    BY DEF Keys
  <2>2. CASE cache'[v][<<g, y>>] = cache[v][<<g, y>>]
    BY <1>4, <2>1, <2>2 DEF HolderInv, CachedWhereItBelongs
  <2>3. CASE cache'[v][<<g, y>>] # cache[v][<<g, y>>]
    <3>1. \E d \in Edges(h) : cache'[v][<<g, y>>] = Existing(d, docs[d])
      BY <1>4, <2>1, <2>3
    <3> QED
      BY <1>4, <3>1 DEF Edges, Existing, SameKey
  <2> QED
    BY <2>2, <2>3
<1>7. FoundIsCached'
  <2> SUFFICES ASSUME NEW v \in Workers, stage'[v] = "write"
               PROVE  /\ found'[v] = cache'[v][<<Holder(v)', context'[v]>>]
                      /\ OnlyCreates(v)' => found'[v] = Nothing
    BY DEF FoundIsCached
  <2>1. CASE v = w
    <3>1. Stage(w, "write") /\ (OnlyCreates(w) => found'[w] = Nothing)
      BY <1>5, <2>1 DEF Get
    <3> QED
      BY <1>4, <1>5, <2>1, <3>1 DEF OnlyCreates
  <2>2. CASE v # w
    <3>1. TypeInv /\ Busy(v)
      BY <1>1, <1>5, <2>2 DEF Busy
    <3>2. <<Holder(v), context[v]>> \in Keys
      BY <3>1, EventFacts
    <3>3. cache'[v][<<Holder(v), context[v]>>] = cache[v][<<Holder(v), context[v]>>]
      BY <1>4, <2>2, <3>2
    <3> QED
      BY <1>4, <1>5, <2>2, <3>3 DEF HolderInv, FoundIsCached, OnlyCreates
  <2> QED
    BY <2>1, <2>2
<1> QED
  BY <1>6, <1>7

(* The writes, refused and unanswered ones included. *)
LEMMA WritesKeepFound ==
  ASSUME HolderInv, NEW w \in Workers, found' = found,
         NextContext(w) \/ Stage(w, "failed"),
         \A v \in Workers, k \in Keys : v # w => cache'[v][k] = cache[v][k]
  PROVE  FoundIsCached'
<1>1. TypeInv
  BY DEF HolderInv
<1>2. /\ \A v \in Workers : v # w => stage'[v] = stage[v] /\ context'[v] = context[v]
      /\ \A v \in Workers : Holder(v)' = Holder(v)
      /\ stage'[w] # "write"
  BY <1>1, OneWorkerMoves
<1> SUFFICES ASSUME NEW v \in Workers, stage'[v] = "write"
             PROVE  /\ found'[v] = cache'[v][<<Holder(v)', context'[v]>>]
                    /\ OnlyCreates(v)' => found'[v] = Nothing
  BY DEF FoundIsCached
<1>3. v # w /\ Busy(v)
  BY <1>2 DEF Busy
<1>4. <<Holder(v), context[v]>> \in Keys
  BY <1>1, <1>3, EventFacts
<1> QED
  BY <1>2, <1>3, <1>4 DEF HolderInv, FoundIsCached, OnlyCreates

LEMMA CreateKeepsHolders ==
  ASSUME HolderInv, NEW w \in Workers, Create(w)
  PROVE  CachedWhereItBelongs' /\ FoundIsCached'
<1>1. TypeInv /\ Busy(w) /\ NextContext(w)
  BY DEF HolderInv, Create, Busy
<1> DEFINE h == Holder(w)
           x == context[w]
           n == Value(w)
<1>2. h \in Holders /\ x \in Contexts /\ n \in Nat
  BY <1>1, EventFacts
<1>3. CreatePoints(w, h, x, n)
  BY DEF Create
<1> HIDE DEF h, x, n
<1>4. /\ reading' = reading /\ found' = found
      /\ \A d \in DOMAIN docs : docs'[d] = docs[d]
      /\ docs'[NewDoc] = Points(h, x, n)
      /\ \A v \in Workers, k \in Keys :
           cache'[v][k] = IF v = w /\ k = <<h, x>>
                          THEN Existing(NewDoc, Points(h, x, n)) ELSE cache[v][k]
  BY <1>1, <1>2, <1>3, CreatePointsType
<1>5. CachedWhereItBelongs'
  <2> SUFFICES ASSUME NEW v \in Workers, NEW g \in Holders, NEW y \in Contexts,
                      cache'[v][<<g, y>>] # Nothing
               PROVE  LET e == cache'[v][<<g, y>>]
                      IN  /\ SameKey(e.points, docs'[e.doc])
                          /\ reading' = "nothing" =>
                               e.points.recipient = g /\ e.points.context = y
    BY DEF CachedWhereItBelongs, SameKey
  <2>1. <<g, y>> \in Keys
    BY DEF Keys
  <2>2. CASE v = w /\ <<g, y>> = <<h, x>>
    BY <1>4, <2>1, <2>2 DEF Existing, Points, SameKey
  <2>3. CASE ~(v = w /\ <<g, y>> = <<h, x>>)
    <3>1. cache'[v][<<g, y>>] = cache[v][<<g, y>>]
      BY <1>4, <2>1, <2>3
    <3>2. cache[v][<<g, y>>].doc \in DOMAIN docs
      BY <1>1, <2>1, <3>1, EntryType
    <3> QED
      BY <1>4, <3>1, <3>2 DEF HolderInv, CachedWhereItBelongs
  <2> QED
    BY <2>2, <2>3
<1>6. FoundIsCached'
  BY <1>1, <1>4, WritesKeepFound
<1> QED
  BY <1>5, <1>6

LEMMA UpdateKeepsHolders ==
  ASSUME HolderInv, NEW w \in Workers, Update(w)
  PROVE  CachedWhereItBelongs' /\ FoundIsCached'
<1>1. /\ TypeInv /\ Busy(w) /\ NextContext(w) /\ stage[w] = "write" /\ found[w] # Nothing
      /\ UpdatePoints(w, Value(w))
  BY DEF HolderInv, Update, Busy
<1>2. Value(w) \in Nat
  BY <1>1, EventFacts
<1> DEFINE d == found[w].doc
           p == [found[w].points EXCEPT !.value = Value(w)]
<1>3. /\ reading' = reading /\ found' = found
      /\ d \in DOMAIN docs
      /\ p.recipient = found[w].points.recipient /\ p.context = found[w].points.context
      /\ \A c \in DOMAIN docs : docs'[c] = IF c = d THEN p ELSE docs[c]
      /\ \A v \in Workers, k \in Keys :
           cache'[v][k] = IF v = w /\ k = <<p.recipient, p.context>>
                          THEN Existing(d, p) ELSE cache[v][k]
  BY <1>1, <1>2, UpdatePointsType
<1>4. /\ SameKey(found[w].points, docs[d])
      /\ reading = "nothing" =>
           found[w].points.recipient = Holder(w) /\ found[w].points.context = context[w]
  BY <1>1, UpdatesItsOwn
<1> HIDE DEF d, p
<1>5. \A c \in DOMAIN docs : SameKey(docs'[c], docs[c])
  BY <1>3, <1>4 DEF SameKey
<1>6. CachedWhereItBelongs'
  <2> SUFFICES ASSUME NEW v \in Workers, NEW g \in Holders, NEW y \in Contexts,
                      cache'[v][<<g, y>>] # Nothing
               PROVE  LET e == cache'[v][<<g, y>>]
                      IN  /\ SameKey(e.points, docs'[e.doc])
                          /\ reading' = "nothing" =>
                               e.points.recipient = g /\ e.points.context = y
    BY DEF CachedWhereItBelongs, SameKey
  <2>1. <<g, y>> \in Keys
    BY DEF Keys
  <2>2. CASE v = w /\ <<g, y>> = <<p.recipient, p.context>>
    <3>1. cache'[v][<<g, y>>] = Existing(d, p) /\ docs'[d] = p
      BY <1>3, <2>1, <2>2
    <3> QED
      BY <2>2, <3>1 DEF Existing, SameKey
  <2>3. CASE ~(v = w /\ <<g, y>> = <<p.recipient, p.context>>)
    <3>1. cache'[v][<<g, y>>] = cache[v][<<g, y>>]
      BY <1>3, <2>1, <2>3
    <3>2. cache[v][<<g, y>>].doc \in DOMAIN docs
      BY <1>1, <2>1, <3>1, EntryType
    <3> QED
      BY <1>3, <1>5, <3>1, <3>2 DEF HolderInv, CachedWhereItBelongs, SameKey
  <2> QED
    BY <2>2, <2>3
<1>7. FoundIsCached'
  BY <1>1, <1>3, WritesKeepFound
<1> QED
  BY <1>6, <1>7

LEMMA FailuresKeepHolders ==
  ASSUME HolderInv, NEW w \in Workers, GetFails(w) \/ CreateFails(w) \/ UpdateFails(w)
  PROVE  CachedWhereItBelongs' /\ FoundIsCached'
<1>1. /\ TypeInv /\ Busy(w) /\ Stage(w, "failed")
      /\ reading' = reading /\ cache' = cache /\ found' = found
  BY DEF HolderInv, GetFails, GetPointsFails, CreateFails, UpdateFails, Busy, cacheVars
<1>2. /\ Holder(w) \in Holders /\ context[w] \in Contexts /\ Value(w) \in Nat
  BY <1>1, EventFacts
<1>3. \A c \in DOMAIN docs : SameKey(docs'[c], docs[c])
  <2>1. CASE GetFails(w)
    BY <2>1 DEF GetFails, GetPointsFails, cacheVars, SameKey
  <2>2. CASE CreateFails(w)
    <3>1. WriteFails(Append(docs, Points(Holder(w), context[w], Value(w))))
      BY <2>2 DEF CreateFails
    <3>2. \A d \in DOMAIN docs : docs'[d] = docs[d]
      BY <1>1, <1>2, <3>1, CreateFailsType
    <3> QED
      BY <3>2 DEF SameKey
  <2>3. CASE UpdateFails(w)
    <3>1. /\ stage[w] = "write" /\ found[w] # Nothing
          /\ WriteFails([docs EXCEPT ![found[w].doc] =
                           [found[w].points EXCEPT !.value = Value(w)]])
      BY <2>3 DEF UpdateFails
    <3> DEFINE d == found[w].doc
               p == [found[w].points EXCEPT !.value = Value(w)]
    <3>2. /\ p.recipient = found[w].points.recipient /\ p.context = found[w].points.context
          /\ \A c \in DOMAIN docs : docs'[c] = docs[c] \/ (c = d /\ docs'[c] = p)
      BY <1>1, <1>2, <3>1, UpdateFailsType
    <3>3. SameKey(found[w].points, docs[d])
      BY <3>1, UpdatesItsOwn
    <3> HIDE DEF d, p
    <3> QED
      BY <3>2, <3>3 DEF SameKey
  <2> QED
    BY <2>1, <2>2, <2>3
<1>4. CachedWhereItBelongs'
  <2> SUFFICES ASSUME NEW v \in Workers, NEW g \in Holders, NEW y \in Contexts,
                      cache[v][<<g, y>>] # Nothing
               PROVE  LET e == cache[v][<<g, y>>]
                      IN  /\ SameKey(e.points, docs'[e.doc])
                          /\ reading = "nothing" =>
                               e.points.recipient = g /\ e.points.context = y
    BY <1>1 DEF CachedWhereItBelongs, SameKey
  <2>1. <<g, y>> \in Keys
    BY DEF Keys
  <2>2. cache[v][<<g, y>>].doc \in DOMAIN docs
    BY <1>1, <2>1, EntryType
  <2> QED
    BY <1>3, <2>2 DEF HolderInv, CachedWhereItBelongs, SameKey
<1>5. FoundIsCached'
  BY <1>1, WritesKeepFound
<1> QED
  BY <1>4, <1>5

LEMMA LoopKeepsHolders ==
  ASSUME HolderInv,
         \/ \E w \in Workers : Take(w) \/ Continue(w) \/ EndRun(w) \/ Miss(w) \/ Restart(w)
         \/ Crash \/ UNCHANGED vars
  PROVE  CachedWhereItBelongs' /\ FoundIsCached'
<1>1. /\ docs' = docs /\ found' = found /\ reading' = reading
      /\ \A v \in Workers, k \in Keys : cache'[v][k] # Nothing => cache'[v][k] = cache[v][k]
      /\ \A v \in Workers : stage'[v] = "write" =>
           /\ stage[v] = "write" /\ context'[v] = context[v] /\ cache'[v] = cache[v]
           /\ Holder(v)' = Holder(v)
  BY LoopEffects DEF HolderInv, Busy
<1>2. CachedWhereItBelongs'
  BY <1>1 DEF HolderInv, CachedWhereItBelongs, Keys
<1>3. FoundIsCached'
  BY <1>1 DEF HolderInv, FoundIsCached, OnlyCreates
<1> QED
  BY <1>2, <1>3

LEMMA HolderStep == HolderInv /\ [Next]_vars => HolderInv'
<1> SUFFICES ASSUME HolderInv, [Next]_vars PROVE HolderInv'
  OBVIOUS
<1>1. TypeInv'
  BY NextKeepsType DEF HolderInv
<1>2. CachedWhereItBelongs' /\ FoundIsCached'
  BY GetKeepsHolders, CreateKeepsHolders, UpdateKeepsHolders, FailuresKeepHolders,
     LoopKeepsHolders DEF Next, Step
<1> QED
  BY <1>1, <1>2 DEF HolderInv

LEMMA HolderInit == Init => HolderInv
<1> SUFFICES ASSUME Init PROVE HolderInv
  OBVIOUS
<1>1. \A w \in Workers, k \in Keys : cache[w][k] = Nothing
  BY DEF Init, CacheInit, EmptyCache
<1>2. \A w \in Workers : stage[w] # "write"
  BY DEF Init
<1> QED
  BY <1>1, <1>2, InitType DEF HolderInv, CachedWhereItBelongs, FoundIsCached, Keys

(* What a step may do to a document, old or new: a worker in the middle of *)
(* an event gives it its value.  An old document keeps its recipient and   *)
(* context; where queries find nothing they are those of the worker.       *)
WrittenBy(w, d) ==
  /\ Busy(w)
  /\ docs'[d].value = Value(w)
  /\ reading = "nothing" => docs'[d].recipient = Holder(w) /\ docs'[d].context = context[w]
  /\ d \in DOMAIN docs => context[w] # "first-all-events" /\ SameKey(docs'[d], docs[d])

LEMMA DocumentsWritten ==
  ASSUME HolderInv, [Next]_vars
  PROVE  /\ reading' = reading /\ feed' = feed /\ DOMAIN docs \subseteq DOMAIN docs'
         /\ \A d \in DOMAIN docs' :
              \/ d \in DOMAIN docs /\ docs'[d] = docs[d]
              \/ \E w \in Workers : WrittenBy(w, d)
<1>0. docs \in Seq(PointSet) /\ TypeInv
  BY DEF HolderInv, TypeInv, TypeOK
<1>1. ASSUME NEW w \in Workers, Get(w) \/ GetFails(w)
      PROVE  docs' = docs /\ reading' = reading /\ feed' = feed
  <2>1. Busy(w)
    BY <1>1 DEF Get, GetFails, Busy
  <2>2. feed' = feed
    BY <1>0, <1>1, OneWorkerMoves DEF Get, GetFails
  <2> QED
    BY <1>0, <1>1, <2>2 DEF Get, GetPoints, GetFails, GetPointsFails, cacheVars
<1>2. ASSUME NEW w \in Workers, Create(w) \/ CreateFails(w)
      PROVE  /\ reading' = reading /\ feed' = feed /\ DOMAIN docs \subseteq DOMAIN docs'
             /\ \A d \in DOMAIN docs' :
                  \/ d \in DOMAIN docs /\ docs'[d] = docs[d]
                  \/ WrittenBy(w, d)
  <2> DEFINE p == Points(Holder(w), context[w], Value(w))
  <2>1. Busy(w)
    BY <1>2 DEF Create, CreateFails, Busy
  <2>2. /\ Holder(w) \in Holders /\ context[w] \in Contexts /\ Value(w) \in Nat
    BY <1>0, <2>1, EventFacts
  <2>3. feed' = feed /\ reading' = reading
    BY <1>0, <1>2, OneWorkerMoves DEF Create, CreateFails, CreatePoints
  <2>4. /\ docs' \in Seq(PointSet) /\ Len(docs) <= Len(docs')
        /\ \A d \in DOMAIN docs : docs'[d] = docs[d]
        /\ \A d \in DOMAIN docs' : d \in DOMAIN docs \/ docs'[d] = p
    <3>1. CASE Create(w)
      <4>1. CreatePoints(w, Holder(w), context[w], Value(w))
        BY <3>1 DEF Create
      <4>2. /\ docs' \in Seq(PointSet) /\ Len(docs') = Len(docs) + 1
            /\ \A d \in DOMAIN docs : docs'[d] = docs[d]
            /\ docs'[Len(docs) + 1] = p
        BY <1>0, <2>2, <4>1, CreatePointsType DEF NewDoc
      <4> HIDE DEF p
      <4> QED
        BY <1>0, <4>2
    <3>2. CASE CreateFails(w)
      <4>1. WriteFails(Append(docs, p))
        BY <3>2 DEF CreateFails
      <4> QED
        BY <1>0, <2>2, <4>1, CreateFailsType
    <3> QED
      BY <1>2, <3>1, <3>2
  <2>5. DOMAIN docs \subseteq DOMAIN docs'
    BY <1>0, <2>4
  <2> QED
    BY <2>1, <2>3, <2>4, <2>5 DEF WrittenBy, Points
<1>3. ASSUME NEW w \in Workers, Update(w) \/ UpdateFails(w)
      PROVE  /\ reading' = reading /\ feed' = feed /\ DOMAIN docs \subseteq DOMAIN docs'
             /\ \A d \in DOMAIN docs' :
                  \/ d \in DOMAIN docs /\ docs'[d] = docs[d]
                  \/ WrittenBy(w, d)
  <2> DEFINE e == found[w].doc
             p == [found[w].points EXCEPT !.value = Value(w)]
  <2>1. Busy(w) /\ stage[w] = "write" /\ found[w] # Nothing
    BY <1>3 DEF Update, UpdateFails, Busy
  <2>2. Value(w) \in Nat
    BY <1>0, <2>1, EventFacts
  <2>3. feed' = feed /\ reading' = reading
    BY <1>0, <1>3, OneWorkerMoves DEF Update, UpdateFails, UpdatePoints
  <2>4. /\ docs' \in Seq(PointSet) /\ Len(docs) = Len(docs')
        /\ p.recipient = found[w].points.recipient /\ p.context = found[w].points.context
        /\ p.value = Value(w)
        /\ \A c \in DOMAIN docs : docs'[c] = docs[c] \/ (c = e /\ docs'[c] = p)
    <3>1. CASE Update(w)
      <4>1. UpdatePoints(w, Value(w))
        BY <3>1 DEF Update
      <4> QED
        BY <1>0, <2>1, <2>2, <4>1, UpdatePointsType
    <3>2. CASE UpdateFails(w)
      <4>1. WriteFails([docs EXCEPT ![e] = p])
        BY <3>2 DEF UpdateFails
      <4> QED
        BY <1>0, <2>1, <2>2, <4>1, UpdateFailsType
    <3> QED
      BY <1>3, <3>1, <3>2
  <2>5. /\ context[w] # "first-all-events"
        /\ SameKey(found[w].points, docs[e])
        /\ reading = "nothing" =>
             found[w].points.recipient = Holder(w) /\ found[w].points.context = context[w]
    BY <2>1, UpdatesItsOwn
  <2> HIDE DEF e, p
  <2>6. DOMAIN docs = DOMAIN docs'
    BY <1>0, <2>4
  <2> QED
    BY <2>1, <2>3, <2>4, <2>5, <2>6 DEF WrittenBy, SameKey
<1>4. ASSUME \/ \E w \in Workers : Take(w) \/ Continue(w) \/ EndRun(w) \/ Miss(w) \/ Restart(w)
             \/ Crash \/ UNCHANGED vars
      PROVE  docs' = docs /\ reading' = reading /\ feed' = feed
  BY <1>0, <1>4, LoopEffects
<1> QED
  BY <1>1, <1>2, <1>3, <1>4 DEF Next, Step

-----------------------------------------------------------------------------

LEMMA HolderAlways == Spec => []HolderInv
BY HolderInit, HolderStep, PTL DEF Spec

LEMMA KeyStep ==
  ASSUME HolderInv, [Next]_vars
  PROVE  \A d \in DOMAIN docs :
           /\ docs'[d].recipient = docs[d].recipient
           /\ docs'[d].context = docs[d].context
BY DocumentsWritten DEF WrittenBy, SameKey

(* Whatever the query finds, no document ever changes its recipient or its *)
(* context, although updates write back whole records from caches that may *)
(* be out of date: for all workers, feeds, failures and readings.          *)
THEOREM KeysAreKept == Spec => DocumentsKeepTheirKey
<1>1. HolderInv /\ [Next]_vars =>
        [\A d \in DOMAIN docs :
           /\ docs'[d].recipient = docs[d].recipient
           /\ docs'[d].context = docs[d].context]_vars
  BY KeyStep
<1> QED
  BY <1>1, HolderAlways, PTL DEF Spec, DocumentsKeepTheirKey

LEMMA EarnedStep == HolderInv /\ ValuesAreEarned /\ [Next]_vars => ValuesAreEarned'
<1> DEFINE Earned(i, x) == CASE x = "unique-events" -> UniqueEvents(feed[i].data)
                             [] x = "all-events" -> AllEvents(feed[i].data)
                             [] OTHER -> CompletedAt(feed[i].data)
           Source(i, p) == /\ feed[i].holder = p.recipient
                           /\ feed[i].kind \in {"attestation", "time"}
                           /\ p.value = Earned(i, p.context)
<1> SUFFICES ASSUME HolderInv, ValuesAreEarned, [Next]_vars, reading' = "nothing",
                    NEW d \in DOMAIN docs'
             PROVE  \E i \in DOMAIN feed : Source(i, docs'[d])
  BY DocumentsWritten DEF ValuesAreEarned
<1>1. reading = "nothing"
  BY DocumentsWritten
<1>2. CASE d \in DOMAIN docs /\ docs'[d] = docs[d]
  BY <1>1, <1>2 DEF ValuesAreEarned
<1>3. ASSUME NEW w \in Workers, WrittenBy(w, d)
      PROVE  \E i \in DOMAIN feed : Source(i, docs'[d])
  <2>1. /\ Busy(w) /\ docs'[d].recipient = Holder(w) /\ docs'[d].value = Value(w)
        /\ docs'[d].context = context[w]
    BY <1>1, <1>3 DEF WrittenBy
  <2>2. position[w] \in DOMAIN feed /\ context[w] \in Contexts
    BY <2>1, EventFacts DEF HolderInv
  <2>3. Event(w).kind \in {"attestation", "time"}
    BY <2>1 DEF HolderInv, TypeInv, AtAnEvent
  <2>4. Value(w) = Earned(position[w], context[w])
    BY <2>2 DEF Value, Contexts, Data, Event
  <2> QED
    BY <2>1, <2>2, <2>3, <2>4 DEF Holder, Event
<1> QED
  BY <1>2, <1>3, DocumentsWritten

(* Where queries find nothing, every value in a document was computed for  *)
(* its own context from an attestation of its own recipient, with any      *)
(* number of calculators, lost responses and new runs.                     *)
THEOREM ValuesStayEarned == Spec => []ValuesAreEarned
<1>1. Init => ValuesAreEarned
  BY DEF Init, CacheInit, ValuesAreEarned
<1> QED
  BY <1>1, HolderAlways, EarnedStep, PTL DEF Spec

LEMMA FinalStep ==
  ASSUME HolderInv, [Next]_vars
  PROVE  \A d \in DOMAIN docs :
           reading = "nothing" /\ docs[d].context = "first-all-events" => docs'[d] = docs[d]
<1> SUFFICES ASSUME NEW d \in DOMAIN docs, reading = "nothing",
                    docs[d].context = "first-all-events"
             PROVE  docs'[d] = docs[d]
  OBVIOUS
<1>1. d \in DOMAIN docs'
  BY DocumentsWritten
<1>2. \A w \in Workers : ~WrittenBy(w, d)
  BY DEF WrittenBy, SameKey
<1> QED
  BY <1>1, <1>2, DocumentsWritten

(* Where queries find nothing, a document of first-all-events is never     *)
(* changed: what a calculator updates it has looked up in its own cache,   *)
(* and in that context it updates nothing it has found.                    *)
THEOREM FirstStaysFinal == Spec => FirstIsFinal
<1>1. HolderInv /\ [Next]_vars =>
        [\A d \in DOMAIN docs :
           reading = "nothing" /\ docs[d].context = "first-all-events" =>
             docs'[d] = docs[d]]_vars
  BY FinalStep
<1> QED
  BY <1>1, HolderAlways, PTL DEF Spec, FirstIsFinal

-----------------------------------------------------------------------------

(* The documents of holder h, and the workers that have found none and are *)
(* about to create one: each of them takes the place of a document.        *)
HoldersDocs(h) == {d \in DOMAIN docs : docs[d].recipient = h}
Racers(h) == {w \in Workers : stage[w] = "write" /\ found[w] = Nothing /\ Holder(w) = h}

RaceInv ==
  reading # "nothing" =>
    \A h \in Holders :
      Cardinality(HoldersDocs(h)) + Cardinality(Racers(h)) <= Cardinality(Workers)

LEMMA DocsAreFinite ==
  ASSUME TypeInv, NEW h \in Holders
  PROVE  IsFiniteSet(HoldersDocs(h))
<1>1. HoldersDocs(h) \in SUBSET (1..Len(docs)) /\ Len(docs) \in Nat
  BY DEF HoldersDocs, TypeInv, TypeOK
<1>2. IsFiniteSet(1..Len(docs))
  BY <1>1, FS_Interval
<1> QED
  BY <1>1, <1>2, FS_Subset

(* One more document is made up for by one racer less. *)
LEMMA OneForOne ==
  ASSUME NEW D, NEW R, NEW D2, NEW R2, IsFiniteSet(D), IsFiniteSet(R),
         NEW n \in Nat, Cardinality(D) + Cardinality(R) <= n,
         \/ D2 = D /\ R2 \subseteq R
         \/ \E d : \E w \in R : D2 \subseteq D \cup {d} /\ R2 \subseteq R \ {w}
  PROVE  Cardinality(D2) + Cardinality(R2) <= n
<1>1. Cardinality(D) \in Nat /\ Cardinality(R) \in Nat
  BY FS_CardinalityType
<1>2. CASE D2 = D /\ R2 \subseteq R
  <2>1. IsFiniteSet(R2) /\ Cardinality(R2) <= Cardinality(R)
    BY <1>2, FS_Subset
  <2> QED
    BY <1>1, <1>2, <2>1, FS_CardinalityType
<1>3. ASSUME NEW d, NEW w \in R, D2 \subseteq D \cup {d}, R2 \subseteq R \ {w}
      PROVE  Cardinality(D2) + Cardinality(R2) <= n
  <2>1. IsFiniteSet(D \cup {d}) /\ Cardinality(D \cup {d}) <= Cardinality(D) + 1
    <3>1. /\ IsFiniteSet(D \cup {d})
          /\ Cardinality(D \cup {d}) = IF d \in D THEN Cardinality(D) ELSE Cardinality(D) + 1
      BY FS_AddElement
    <3> QED
      BY <1>1, <3>1
  <2>2. IsFiniteSet(R \ {w}) /\ Cardinality(R \ {w}) = Cardinality(R) - 1
    BY <1>3, FS_RemoveElement
  <2>3. IsFiniteSet(D2) /\ Cardinality(D2) <= Cardinality(D \cup {d})
    BY <1>3, <2>1, FS_Subset
  <2>4. IsFiniteSet(R2) /\ Cardinality(R2) <= Cardinality(R \ {w})
    BY <1>3, <2>2, FS_Subset
  <2>5. Cardinality(D \cup {d}) \in Nat /\ Cardinality(D2) \in Nat /\ Cardinality(R2) \in Nat
    BY <2>1, <2>3, <2>4, FS_CardinalityType
  <2> QED
    BY <1>1, <2>1, <2>2, <2>3, <2>4, <2>5
<1> QED
  BY <1>2, <1>3

(* A worker joins the race only when there is no document of its holder.   *)
LEMMA GetJoinsRace ==
  ASSUME HolderInv, reading # "nothing", NEW w \in Workers, Get(w), NEW h \in Holders
  PROVE  /\ HoldersDocs(h)' = HoldersDocs(h) /\ reading' = reading
         /\ Racers(h)' \subseteq Racers(h) \/ HoldersDocs(h) = {}
<1>1. TypeInv /\ Busy(w) /\ GetPoints(w, Holder(w), context[w])
  BY DEF HolderInv, Get, Busy
<1>2. Holder(w) \in Holders /\ context[w] \in Contexts
  BY <1>1, EventFacts
<1>3. /\ docs' = docs /\ reading' = reading
      /\ \A v \in Workers : v # w => found'[v] = found[v]
  BY <1>1, <1>2, GetPointsType
<1>4. /\ \A v \in Workers : v # w => stage'[v] = stage[v]
      /\ \A v \in Workers : Holder(v)' = Holder(v)
  BY <1>1, OneWorkerMoves DEF Get
<1>5. CASE Holder(w) # h \/ found'[w] # Nothing
  BY <1>3, <1>4, <1>5 DEF HoldersDocs, Racers
<1>6. CASE Holder(w) = h /\ found'[w] = Nothing
  <2>1. ASSUME NEW d \in DOMAIN docs, found' = [found EXCEPT ![w] = Existing(d, docs[d])]
        PROVE  FALSE
    <3>1. found'[w] = Existing(d, docs[d])
      BY <1>1, <2>1 DEF TypeInv, TypeOK
    <3>2. d \in 1..(Len(docs) + 1)
      BY <1>1 DEF TypeInv, TypeOK
    <3> QED
      BY <1>1, <1>6, <3>1, <3>2, ExistingIsSomething
  <2>2. ASSUME cache[w][<<Holder(w), context[w]>>] # Nothing,
               found' = [found EXCEPT ![w] = cache[w][<<Holder(w), context[w]>>]]
        PROVE  FALSE
    <3>1. found'[w] = cache[w][<<Holder(w), context[w]>>]
      BY <1>1, <2>2 DEF TypeInv, TypeOK
    <3> QED
      BY <1>6, <2>2, <3>1
  <2>3. Edges(h) = {}
    BY <1>1, <1>6, <2>1, <2>2 DEF GetPoints, Edges
  <2>4. reading \in {"recipient", "anyone"}
    BY <1>1, ReadingsAssumption DEF TypeInv, TypeOK, ReadingKinds
  <2>5. HoldersDocs(h) = {}
    BY <2>3, <2>4 DEF Edges, HoldersDocs
  <2> QED
    BY <1>3, <2>5 DEF HoldersDocs
<1> QED
  BY <1>5, <1>6

(* A worker that creates a document is out of the race. *)
LEMMA CreateLeavesRace ==
  ASSUME HolderInv, NEW w \in Workers, Create(w) \/ CreateFails(w), NEW h \in Holders
  PROVE  /\ reading' = reading
         /\ \/ HoldersDocs(h)' = HoldersDocs(h) /\ Racers(h)' \subseteq Racers(h)
            \/ /\ w \in Racers(h) /\ Racers(h)' \subseteq Racers(h) \ {w}
               /\ \E d : HoldersDocs(h)' \subseteq HoldersDocs(h) \cup {d}
<1>1. /\ TypeInv /\ Busy(w) /\ stage[w] = "write" /\ found[w] = Nothing
      /\ docs \in Seq(PointSet)
  BY DEF HolderInv, TypeInv, TypeOK, Create, CreateFails, Busy
<1> DEFINE p == Points(Holder(w), context[w], Value(w))
<1>2. Holder(w) \in Holders /\ context[w] \in Contexts /\ Value(w) \in Nat
  BY <1>1, EventFacts
<1>3. /\ \A v \in Workers : v # w => stage'[v] = stage[v]
      /\ \A v \in Workers : Holder(v)' = Holder(v)
      /\ stage'[w] # "write"
  BY <1>1, OneWorkerMoves DEF Create, CreateFails
<1>4. found' = found /\ reading' = reading
  BY DEF Create, CreatePoints, CreateFails
<1>5. Racers(h)' \subseteq Racers(h) \ {w}
  BY <1>3, <1>4 DEF Racers
<1>6. docs' = docs \/ docs' = Append(docs, p)
  BY DEF Create, CreatePoints, CreateFails, WriteFails
<1>7. p \in PointSet /\ p.recipient = Holder(w)
  BY <1>2 DEF Points, PointSet
<1> HIDE DEF p
<1>8. CASE docs' = docs
  BY <1>4, <1>5, <1>8 DEF HoldersDocs
<1>9. CASE docs' = Append(docs, p)
  <2>1. /\ DOMAIN docs' = DOMAIN docs \cup {Len(docs) + 1}
        /\ \A d \in DOMAIN docs : docs'[d] = docs[d]
        /\ docs'[Len(docs) + 1] = p
    BY <1>1, <1>7, <1>9
  <2>2. CASE Holder(w) = h
    <3>1. w \in Racers(h)
      BY <1>1, <2>2 DEF Racers
    <3>2. HoldersDocs(h)' \subseteq HoldersDocs(h) \cup {Len(docs) + 1}
      BY <2>1 DEF HoldersDocs
    <3> QED
      BY <1>4, <1>5, <3>1, <3>2
  <2>3. CASE Holder(w) # h
    <3>1. Len(docs) + 1 \notin DOMAIN docs
      BY <1>1
    <3>2. HoldersDocs(h)' = HoldersDocs(h)
      BY <1>7, <2>1, <2>3, <3>1 DEF HoldersDocs
    <3> QED
      BY <1>4, <1>5, <3>2
  <2> QED
    BY <2>2, <2>3
<1> QED
  BY <1>6, <1>8, <1>9

(* No other step changes the documents of a holder or joins the race. *)
LEMMA OthersKeepRace ==
  ASSUME HolderInv, NEW h \in Holders,
         \/ \E w \in Workers :
              \/ GetFails(w) \/ Update(w) \/ UpdateFails(w)
              \/ Take(w) \/ Continue(w) \/ EndRun(w) \/ Miss(w) \/ Restart(w)
         \/ Crash \/ UNCHANGED vars
  PROVE  /\ reading' = reading
         /\ HoldersDocs(h)' = HoldersDocs(h) /\ Racers(h)' \subseteq Racers(h)
<1>1. TypeInv /\ docs \in Seq(PointSet)
  BY DEF HolderInv, TypeInv, TypeOK
<1>2. /\ reading' = reading /\ DOMAIN docs \subseteq DOMAIN docs'
      /\ \A d \in DOMAIN docs : docs'[d].recipient = docs[d].recipient
  BY DocumentsWritten, KeyStep DEF Next, Step
<1>3. ASSUME NEW w \in Workers, GetFails(w) \/ Update(w) \/ UpdateFails(w)
      PROVE  DOMAIN docs' = DOMAIN docs /\ Racers(h)' \subseteq Racers(h)
  <2>1. DOMAIN docs' = DOMAIN docs
    <3>1. \A d \in DOMAIN docs : docs \in Seq(PointSet) =>
            DOMAIN [docs EXCEPT ![d] = docs[d]] = DOMAIN docs
      OBVIOUS
    <3> QED
      BY <1>3, <3>1 DEF GetFails, GetPointsFails, cacheVars, Update, UpdatePoints,
         UpdateFails, WriteFails
  <2>2. found' = found
    BY <1>3 DEF GetFails, GetPointsFails, cacheVars, Update, UpdatePoints, UpdateFails
  <2>3. /\ \A v \in Workers : v # w => stage'[v] = stage[v]
        /\ \A v \in Workers : Holder(v)' = Holder(v)
        /\ stage'[w] # "write"
    BY <1>1, <1>3, OneWorkerMoves DEF GetFails, Update, UpdateFails
  <2> QED
    BY <2>1, <2>2, <2>3 DEF Racers
<1>4. ASSUME \/ \E w \in Workers : Take(w) \/ Continue(w) \/ EndRun(w) \/ Miss(w) \/ Restart(w)
             \/ Crash \/ UNCHANGED vars
      PROVE  DOMAIN docs' = DOMAIN docs /\ Racers(h)' \subseteq Racers(h)
  <2>1. /\ docs' = docs /\ found' = found
        /\ \A v \in Workers : stage'[v] = "write" =>
             stage[v] = "write" /\ Holder(v)' = Holder(v)
    BY <1>1, <1>4, LoopEffects DEF Busy
  <2> QED
    BY <2>1 DEF Racers
<1>5. DOMAIN docs' = DOMAIN docs /\ Racers(h)' \subseteq Racers(h)
  BY <1>3, <1>4
<1> QED
  BY <1>2, <1>5 DEF HoldersDocs

LEMMA RaceStep ==
  ASSUME IsFiniteSet(Workers), HolderInv, RaceInv, [Next]_vars
  PROVE  RaceInv'
<1>1. reading' = reading
  BY DocumentsWritten
<1> SUFFICES ASSUME reading # "nothing", NEW h \in Holders
             PROVE  Cardinality(HoldersDocs(h)') + Cardinality(Racers(h)') <= Cardinality(Workers)
  BY <1>1 DEF RaceInv
<1>2. Racers(h) \in SUBSET Workers /\ Racers(h)' \in SUBSET Workers
  BY DEF Racers
<1>3. /\ IsFiniteSet(Racers(h)) /\ Cardinality(Racers(h)') <= Cardinality(Workers)
      /\ Cardinality(Racers(h)') \in Nat /\ Cardinality(Workers) \in Nat
  BY <1>2, FS_Subset, FS_CardinalityType
<1>4. IsFiniteSet(HoldersDocs(h))
  BY DocsAreFinite DEF HolderInv
<1>5. Cardinality(HoldersDocs(h)) + Cardinality(Racers(h)) <= Cardinality(Workers)
  BY DEF RaceInv
<1>6. \/ HoldersDocs(h)' = {}
      \/ HoldersDocs(h)' = HoldersDocs(h) /\ Racers(h)' \subseteq Racers(h)
      \/ \E d : \E w \in Racers(h) :
           HoldersDocs(h)' \subseteq HoldersDocs(h) \cup {d} /\ Racers(h)' \subseteq Racers(h) \ {w}
  <2>1. ASSUME NEW w \in Workers, Get(w)
        PROVE  HoldersDocs(h)' = HoldersDocs(h)
               /\ (Racers(h)' \subseteq Racers(h) \/ HoldersDocs(h)' = {})
    BY <2>1, GetJoinsRace
  <2>2. ASSUME NEW w \in Workers, Create(w) \/ CreateFails(w)
        PROVE  \/ HoldersDocs(h)' = HoldersDocs(h) /\ Racers(h)' \subseteq Racers(h)
               \/ /\ w \in Racers(h) /\ Racers(h)' \subseteq Racers(h) \ {w}
                  /\ \E d : HoldersDocs(h)' \subseteq HoldersDocs(h) \cup {d}
    BY <2>2, CreateLeavesRace
  <2>3. ASSUME \/ \E w \in Workers :
                    \/ GetFails(w) \/ Update(w) \/ UpdateFails(w)
                    \/ Take(w) \/ Continue(w) \/ EndRun(w) \/ Miss(w) \/ Restart(w)
               \/ Crash \/ UNCHANGED vars
        PROVE  HoldersDocs(h)' = HoldersDocs(h) /\ Racers(h)' \subseteq Racers(h)
    BY <2>3, OthersKeepRace
  <2> QED
    BY <2>1, <2>2, <2>3 DEF Next, Step
<1>7. CASE HoldersDocs(h)' = {}
  BY <1>3, <1>7, FS_EmptySet
<1> QED
  BY <1>3, <1>4, <1>5, <1>6, <1>7, OneForOne

(* Where queries find the documents of a holder, with or without those of  *)
(* others, there are never more documents of a holder than workers, which  *)
(* may crash, restart with empty caches and lose responses.                *)
THEOREM RacersStayFew ==
  ASSUME IsFiniteSet(Workers)
  PROVE  Spec => []RacersMakeOneEach
<1>1. Init => RaceInv
  <2> SUFFICES ASSUME Init, NEW h \in Holders
               PROVE  Cardinality(HoldersDocs(h)) + Cardinality(Racers(h)) <= Cardinality(Workers)
    BY DEF RaceInv
  <2>1. HoldersDocs(h) = {} /\ Racers(h) = {}
    BY DEF Init, CacheInit, HoldersDocs, Racers
  <2> QED
    BY <2>1, FS_EmptySet, FS_CardinalityType
<1>2. HolderInv /\ RaceInv /\ [Next]_vars => RaceInv'
  BY RaceStep
<1>3. HolderInv /\ RaceInv => RacersMakeOneEach
  <2> SUFFICES ASSUME HolderInv, RaceInv, reading # "nothing", NEW h \in Holders
               PROVE  Cardinality({d \in DOMAIN docs : docs[d].recipient = h})
                        <= Cardinality(Workers)
    BY DEF RacersMakeOneEach
  <2>1. Racers(h) \in SUBSET Workers
    BY DEF Racers
  <2>2. IsFiniteSet(Racers(h))
    BY <2>1, FS_Subset
  <2>3. IsFiniteSet(HoldersDocs(h))
    BY DocsAreFinite DEF HolderInv
  <2>4. Cardinality(Racers(h)) \in Nat /\ Cardinality(HoldersDocs(h)) \in Nat
        /\ Cardinality(Workers) \in Nat
    BY <2>2, <2>3, FS_CardinalityType
  <2>5. Cardinality(HoldersDocs(h)) + Cardinality(Racers(h)) <= Cardinality(Workers)
    BY DEF RaceInv
  <2>6. Cardinality(HoldersDocs(h)) <= Cardinality(Workers)
    BY <2>4, <2>5
  <2> QED
    BY <2>6 DEF HoldersDocs
<1> QED
  BY <1>1, <1>2, <1>3, HolderAlways, PTL DEF Spec

-----------------------------------------------------------------------------

(* Queries find nothing, and a call that fails has had no effect. *)
NoSurprises == Readings = {"nothing"} /\ "response" \notin Failures

(* Steps that write nothing, and at most empty caches. *)
LEMMA CachesStayCurrent ==
  ASSUME CurrentInv, docs' = docs,
         \A v \in Workers, k \in Keys : cache'[v][k] # Nothing => cache'[v][k] = cache[v][k]
  PROVE  CacheIsCurrent' /\ OwnDocuments'
<1>1. CacheIsCurrent'
  BY DEF CurrentInv, CacheIsCurrent, DocsOf, Keys
<1>2. OwnDocuments'
  BY DEF CurrentInv, OwnDocuments
<1> QED
  BY <1>1, <1>2

(* A worker that stays at its event, whose cache nobody touches. *)
LEMMA WrittenStays ==
  ASSUME CurrentInv, NEW v \in Workers, Busy(v), context'[v] = context[v],
         Holder(v)' = Holder(v), Data(v)' = Data(v),
         \A k \in Keys : cache'[v][k] = cache[v][k]
  PROVE  /\ context'[v] # "unique-events" =>
              Written(v, "unique-events", UniqueEvents(Data(v)))'
         /\ context'[v] = "first-all-events" =>
              Written(v, "all-events", AllEvents(Data(v)))'
<1>1. Holder(v) \in Holders
  BY EventFacts DEF CurrentInv, HolderInv
<1>2. \A x \in Contexts : <<Holder(v), x>> \in Keys
  BY <1>1 DEF Keys
<1> QED
  BY <1>2 DEF CurrentInv, WrittenSoFar, Written, Contexts

LEMMA GetFindsNothingNew ==
  ASSUME NoSurprises, CurrentInv, NEW w \in Workers, Get(w) \/ GetFails(w)
  PROVE  /\ docs' = docs /\ \A v \in Workers, k \in Keys : cache'[v][k] = cache[v][k]
         /\ Get(w) => found'[w] = cache'[w][<<Holder(w), context[w]>>]
<1>1. TypeInv /\ Busy(w) /\ reading = "nothing"
  BY DEF CurrentInv, HolderInv, TypeInv, TypeOK, NoSurprises, Get, GetFails, Busy
<1>2. /\ Holder(w) \in Holders /\ context[w] \in Contexts
  BY <1>1, EventFacts
<1>3. Edges(Holder(w)) = {}
  BY <1>1 DEF Edges
<1>4. CASE Get(w)
  <2>1. GetPoints(w, Holder(w), context[w])
    BY <1>4 DEF Get
  <2> QED
    BY <1>1, <1>2, <1>3, <2>1, GetPointsType
<1>5. ASSUME GetFails(w)
      PROVE  docs' = docs /\ cache' = cache
  BY <1>5 DEF GetFails, GetPointsFails, cacheVars
<1> QED
  BY <1>4, <1>5

LEMMA FailuresChangeNothing ==
  ASSUME NoSurprises, CurrentInv, NEW w \in Workers, CreateFails(w) \/ UpdateFails(w)
  PROVE  docs' = docs /\ cache' = cache
BY DEF NoSurprises, CreateFails, UpdateFails, WriteFails

(* The document a worker writes, created or updated: its own, cached for   *)
(* the holder and the context the worker is at.                            *)
LEMMA WriteIsCached ==
  ASSUME NoSurprises, CurrentInv, NEW w \in Workers, Create(w) \/ Update(w)
  PROVE  LET key == <<Holder(w), context[w]>>
             e == cache'[w][key]
         IN  /\ key \in Keys
             /\ e # Nothing /\ e.points = Points(Holder(w), context[w], Value(w))
             /\ docs'[e.doc] = e.points /\ e.doc \in DOMAIN docs'
             /\ DOMAIN docs' = DOMAIN docs \cup {e.doc}
             /\ \A v \in Workers, k \in Keys :
                  ~(v = w /\ k = key) =>
                    /\ cache'[v][k] = cache[v][k]
                    /\ cache[v][k] # Nothing => cache[v][k].doc # e.doc
             /\ \A d \in DOMAIN docs : d # e.doc => docs'[d] = docs[d]
<1>0. TypeInv /\ HolderInv /\ docs \in Seq(PointSet)
  BY DEF CurrentInv, HolderInv, TypeInv, TypeOK
<1>1. Busy(w) /\ reading = "nothing"
  BY <1>0 DEF TypeInv, TypeOK, NoSurprises, Create, Update, Busy
<1> DEFINE h == Holder(w)
           x == context[w]
           n == Value(w)
           key == <<h, x>>
<1>2. /\ h \in Holders /\ x \in Contexts /\ n \in Nat /\ key \in Keys
  BY <1>0, <1>1, EventFacts
<1>3. \A v \in Workers, k \in Keys : cache[v][k] # Nothing => cache[v][k].doc \in DOMAIN docs
  BY <1>0, EntryType
<1>4. CASE Create(w)
  <2>1. CreatePoints(w, h, x, n)
    BY <1>4 DEF Create
  <2>2. /\ docs' \in Seq(PointSet)
        /\ Len(docs') = Len(docs) + 1
        /\ \A d \in DOMAIN docs : docs'[d] = docs[d]
        /\ docs'[NewDoc] = Points(h, x, n)
        /\ \A v \in Workers, k \in Keys :
             cache'[v][k] = IF v = w /\ k = <<h, x>>
                            THEN Existing(NewDoc, Points(h, x, n)) ELSE cache[v][k]
    BY <1>0, <1>2, <2>1, CreatePointsType
  <2> DEFINE p == Points(h, x, n)
  <2>3. /\ Existing(NewDoc, p) # Nothing
        /\ Existing(NewDoc, p).doc = NewDoc /\ Existing(NewDoc, p).points = p
    BY <1>0, ExistingIsSomething DEF NewDoc
  <2>4. NewDoc \notin DOMAIN docs /\ DOMAIN docs' = DOMAIN docs \cup {NewDoc}
    BY <1>0, <2>2 DEF NewDoc
  <2> HIDE DEF p, h, x, n
  <2>5. cache'[w][key] = Existing(NewDoc, p)
    BY <1>2, <2>2 DEF p
  <2> QED
    BY <1>2, <1>3, <2>2, <2>3, <2>4, <2>5 DEF p, h, x, n
<1>5. CASE Update(w)
  <2>1. stage[w] = "write" /\ found[w] # Nothing /\ UpdatePoints(w, n)
    BY <1>5 DEF Update
  <2> DEFINE d == found[w].doc
             p == [found[w].points EXCEPT !.value = n]
  <2>2. /\ d \in DOMAIN docs /\ p \in PointSet /\ p.value = n
        /\ p.recipient = found[w].points.recipient /\ p.context = found[w].points.context
        /\ docs' \in Seq(PointSet) /\ Len(docs') = Len(docs)
        /\ \A c \in DOMAIN docs : docs'[c] = IF c = d THEN p ELSE docs[c]
        /\ \A v \in Workers, k \in Keys :
             cache'[v][k] = IF v = w /\ k = <<p.recipient, p.context>>
                            THEN Existing(d, p) ELSE cache[v][k]
    BY <1>0, <1>2, <2>1, UpdatePointsType
  <2>3. /\ found[w] = cache[w][key]
        /\ found[w].points.recipient = h /\ found[w].points.context = x
    BY <1>0, <1>1, <2>1, UpdatesItsOwn
  <2> HIDE DEF d, p, h, x, n
  <2>4. p = Points(h, x, n)
    BY <2>2, <2>3 DEF PointSet, Points
  <2>5. cache[w][key] # Nothing /\ cache[w][key].doc = d
    BY <2>1, <2>3 DEF d
  <2>6. ASSUME NEW v \in Workers, NEW k \in Keys, ~(v = w /\ k = key), cache[v][k] # Nothing
        PROVE  cache[v][k].doc # d
    <3>1. CASE v # w
      BY <1>2, <2>5, <2>6, <3>1 DEF CurrentInv, OwnDocuments
    <3>2. CASE v = w
      <4>1. k = <<docs[cache[w][k].doc].recipient, docs[cache[w][k].doc].context>>
        BY <2>6, <3>2, KeyForm DEF CurrentInv, CacheIsCurrent, DocsOf
      <4>2. key = <<docs[d].recipient, docs[d].context>>
        BY <1>2, <2>5 DEF CurrentInv, CacheIsCurrent, DocsOf
      <4> QED
        BY <2>6, <3>2, <4>1, <4>2
    <3> QED
      BY <3>1, <3>2
  <2>7. /\ Existing(d, p) # Nothing /\ Existing(d, p).doc = d /\ Existing(d, p).points = p
    BY <1>0, <2>2, ExistingIsSomething
  <2>8. cache'[w][key] = Existing(d, p) /\ DOMAIN docs' = DOMAIN docs
    BY <1>0, <1>2, <2>2, <2>3
  <2> QED
    BY <1>2, <2>2, <2>3, <2>4, <2>6, <2>7, <2>8 DEF h, x, n
<1> QED
  BY <1>4, <1>5

LEMMA WritesKeepCurrent ==
  ASSUME NoSurprises, CurrentInv, NEW w \in Workers, Create(w) \/ Update(w)
  PROVE  CacheIsCurrent' /\ OwnDocuments' /\ WrittenSoFar'
<1>1. TypeInv /\ Busy(w) /\ NextContext(w)
  BY DEF CurrentInv, HolderInv, Create, Update, Busy
<1> DEFINE h == Holder(w)
           x == context[w]
           key == <<h, x>>
           e == cache'[w][key]
<1>2. h \in Holders /\ x \in Contexts
  BY <1>1, EventFacts
<1>3. /\ key \in Keys
      /\ e # Nothing /\ e.points = Points(h, x, Value(w))
      /\ docs'[e.doc] = e.points /\ e.doc \in DOMAIN docs'
      /\ DOMAIN docs' = DOMAIN docs \cup {e.doc}
      /\ \A v \in Workers, k \in Keys :
           ~(v = w /\ k = key) =>
             /\ cache'[v][k] = cache[v][k]
             /\ cache[v][k] # Nothing => cache[v][k].doc # e.doc
      /\ \A d \in DOMAIN docs : d # e.doc => docs'[d] = docs[d]
  BY WriteIsCached
<1>4. e.points.recipient = h /\ e.points.context = x /\ e.points.value = Value(w)
  BY <1>3 DEF Points
<1> HIDE DEF e
<1>5. CacheIsCurrent'
  <2> SUFFICES ASSUME NEW v \in Workers, NEW g \in Holders, NEW y \in Contexts,
                      cache'[v][<<g, y>>] # Nothing
               PROVE  LET f == cache'[v][<<g, y>>]
                      IN  /\ f.points = docs'[f.doc] /\ f.doc \in DOMAIN docs'
                          /\ docs'[f.doc].recipient = g /\ docs'[f.doc].context = y
    BY DEF CacheIsCurrent, DocsOf
  <2>1. <<g, y>> \in Keys
    BY DEF Keys
  <2>2. CASE v = w /\ <<g, y>> = key
    BY <1>3, <1>4, <2>2 DEF e
  <2>3. CASE ~(v = w /\ <<g, y>> = key)
    BY <1>3, <2>1, <2>3 DEF CurrentInv, CacheIsCurrent, DocsOf
  <2> QED
    BY <2>2, <2>3
<1>6. OwnDocuments'
  <2> SUFFICES ASSUME NEW u \in Workers, NEW v \in Workers, NEW k \in Keys, NEW l \in Keys,
                      u # v, cache'[u][k] # Nothing, cache'[v][l] # Nothing
               PROVE  cache'[u][k].doc # cache'[v][l].doc
    BY DEF OwnDocuments
  <2>1. CASE u = w /\ k = key
    BY <1>3, <2>1 DEF e
  <2>2. CASE v = w /\ l = key
    BY <1>3, <2>2 DEF e
  <2>3. CASE ~(u = w /\ k = key) /\ ~(v = w /\ l = key)
    BY <1>3, <2>3 DEF CurrentInv, OwnDocuments
  <2> QED
    BY <2>1, <2>2, <2>3
<1>7. WrittenSoFar'
  <2>0. /\ \A v \in Workers : v # w => stage'[v] = stage[v] /\ context'[v] = context[v]
        /\ \A v \in Workers : Holder(v)' = Holder(v) /\ Data(v)' = Data(v)
        /\ \/ stage'[w] = "idle"
           \/ context[w] = "unique-events" /\ context'[w] = "all-events"
           \/ context[w] = "all-events" /\ context'[w] = "first-all-events"
    BY <1>1, OneWorkerMoves
  <2> SUFFICES ASSUME NEW v \in Workers, Busy(v)'
               PROVE  /\ context'[v] # "unique-events" =>
                           Written(v, "unique-events", UniqueEvents(Data(v)))'
                      /\ context'[v] = "first-all-events" =>
                           Written(v, "all-events", AllEvents(Data(v)))'
    BY DEF WrittenSoFar
  <2>1. CASE v # w
    <3>1. Busy(v) /\ context'[v] = context[v]
      BY <2>0, <2>1 DEF Busy
    <3>2. \A k \in Keys : cache'[v][k] = cache[v][k]
      BY <1>3, <2>1
    <3> QED
      BY <2>0, <3>1, <3>2, WrittenStays
  <2>2. CASE v = w /\ context[w] = "unique-events" /\ context'[w] = "all-events"
    <3>1. Value(w) = UniqueEvents(Data(w))
      BY <2>2 DEF Value
    <3> QED
      BY <1>3, <1>4, <2>0, <2>2, <3>1 DEF e, Written
  <2>3. CASE v = w /\ context[w] = "all-events" /\ context'[w] = "first-all-events"
    <3>1. Value(w) = AllEvents(Data(w))
      BY <2>3 DEF Value
    <3>2. <<h, "unique-events">> \in Keys /\ <<h, "unique-events">> # key
      BY <1>2, <2>3 DEF Keys, Contexts
    <3>3. cache'[w][<<h, "unique-events">>] = cache[w][<<h, "unique-events">>]
      BY <1>3, <3>2
    <3>4. Written(w, "unique-events", UniqueEvents(Data(w)))
      BY <1>1, <2>3 DEF CurrentInv, WrittenSoFar
    <3>5. Written(w, "unique-events", UniqueEvents(Data(w)))'
      BY <2>0, <3>3, <3>4 DEF Written
    <3>6. Written(w, "all-events", AllEvents(Data(w)))'
      BY <1>3, <1>4, <2>0, <2>3, <3>1 DEF e, Written
    <3> QED
      BY <2>3, <3>5, <3>6
  <2>4. ~(v = w /\ stage'[w] = "idle")
    BY DEF Busy
  <2> QED
    BY <2>0, <2>1, <2>2, <2>3, <2>4
<1> QED
  BY <1>5, <1>6, <1>7

(* Lookups, and calls that fail. *)
LEMMA OtherCallsKeepCurrent ==
  ASSUME NoSurprises, CurrentInv, NEW w \in Workers,
         Get(w) \/ GetFails(w) \/ CreateFails(w) \/ UpdateFails(w)
  PROVE  CacheIsCurrent' /\ OwnDocuments' /\ WrittenSoFar'
<1>1. TypeInv /\ Busy(w)
  BY DEF CurrentInv, HolderInv, Get, GetFails, CreateFails, UpdateFails, Busy
<1>2. docs' = docs /\ \A v \in Workers, k \in Keys : cache'[v][k] = cache[v][k]
  BY GetFindsNothingNew, FailuresChangeNothing
<1>3. /\ \A v \in Workers : v # w => stage'[v] = stage[v] /\ context'[v] = context[v]
      /\ \A v \in Workers : Holder(v)' = Holder(v) /\ Data(v)' = Data(v)
      /\ context'[w] = context[w] \/ ~Busy(w)'
  <2>1. OnlyCreates(w) /\ NextContext(w) => stage'[w] = "idle"
    BY <1>1, OneWorkerMoves DEF OnlyCreates
  <2>2. NextContext(w) \/ Stage(w, "write") \/ Stage(w, "failed")
    BY DEF Get, GetFails, CreateFails, UpdateFails
  <2>3. \/ OnlyCreates(w) /\ NextContext(w)
        \/ Stage(w, "write") \/ Stage(w, "failed")
    BY DEF Get, GetFails, CreateFails, UpdateFails
  <2> QED
    BY <1>1, <2>1, <2>2, <2>3, OneWorkerMoves DEF Busy
<1>4. WrittenSoFar'
  <2> SUFFICES ASSUME NEW v \in Workers, Busy(v)'
               PROVE  /\ context'[v] # "unique-events" =>
                           Written(v, "unique-events", UniqueEvents(Data(v)))'
                      /\ context'[v] = "first-all-events" =>
                           Written(v, "all-events", AllEvents(Data(v)))'
    BY DEF WrittenSoFar
  <2>1. Busy(v) /\ context'[v] = context[v]
    BY <1>1, <1>3 DEF Busy
  <2> QED
    BY <1>2, <1>3, <2>1, WrittenStays
<1> QED
  BY <1>2, <1>4, CachesStayCurrent

LEMMA LoopKeepsCurrent ==
  ASSUME CurrentInv,
         \/ \E w \in Workers : Take(w) \/ Continue(w) \/ EndRun(w) \/ Miss(w) \/ Restart(w)
         \/ Crash \/ UNCHANGED vars
  PROVE  CacheIsCurrent' /\ OwnDocuments' /\ WrittenSoFar'
<1>1. /\ docs' = docs
      /\ \A v \in Workers, k \in Keys : cache'[v][k] # Nothing => cache'[v][k] = cache[v][k]
      /\ \A v \in Workers :
           \/ /\ Busy(v) /\ context'[v] = context[v] /\ cache'[v] = cache[v]
              /\ Holder(v)' = Holder(v) /\ Data(v)' = Data(v)
           \/ stage'[v] = "get" /\ context'[v] = "unique-events"
           \/ ~Busy(v)'
  BY LoopEffects DEF CurrentInv, HolderInv
<1>2. WrittenSoFar'
  <2> SUFFICES ASSUME NEW v \in Workers, Busy(v)'
               PROVE  /\ context'[v] # "unique-events" =>
                           Written(v, "unique-events", UniqueEvents(Data(v)))'
                      /\ context'[v] = "first-all-events" =>
                           Written(v, "all-events", AllEvents(Data(v)))'
    BY DEF WrittenSoFar
  <2>1. CASE /\ Busy(v) /\ context'[v] = context[v] /\ cache'[v] = cache[v]
             /\ Holder(v)' = Holder(v) /\ Data(v)' = Data(v)
    BY <2>1, WrittenStays
  <2>2. CASE context'[v] = "unique-events"
    BY <2>2
  <2> QED
    BY <1>1, <2>1, <2>2
<1> QED
  BY <1>1, <1>2, CachesStayCurrent

LEMMA CurrentStep == NoSurprises /\ CurrentInv /\ [Next]_vars => CurrentInv'
<1> SUFFICES ASSUME NoSurprises, CurrentInv, [Next]_vars PROVE CurrentInv'
  OBVIOUS
<1>1. HolderInv'
  BY HolderStep DEF CurrentInv
<1>2. CacheIsCurrent' /\ OwnDocuments' /\ WrittenSoFar'
  BY WritesKeepCurrent, OtherCallsKeepCurrent, LoopKeepsCurrent DEF Next, Step
<1> QED
  BY <1>1, <1>2 DEF CurrentInv

LEMMA CurrentInit == Init => CurrentInv
<1> SUFFICES ASSUME Init PROVE CurrentInv
  OBVIOUS
<1>1. \A w \in Workers, k \in Keys : cache[w][k] = Nothing
  BY DEF Init, CacheInit, EmptyCache
<1>2. \A w \in Workers : ~Busy(w)
  BY DEF Init, Busy
<1> QED
  BY <1>1, <1>2, HolderInit DEF CurrentInv, CacheIsCurrent, OwnDocuments, WrittenSoFar, Keys

LEMMA CurrentAlways ==
  ASSUME NoSurprises
  PROVE  Spec => []CurrentInv
<1>1. CurrentInv /\ [Next]_vars => CurrentInv'
  BY CurrentStep
<1> QED
  BY <1>1, CurrentInit, PTL DEF Spec

(* Calculators whose queries find nothing and who lose no response know    *)
(* the content of every document they have cached: between two of their    *)
(* own steps the others, old and new, write other documents.               *)
THEOREM CachesAreCurrent ==
  ASSUME NoSurprises
  PROVE  Spec => []CacheIsCurrent
<1>1. CurrentInv => CacheIsCurrent
  BY DEF CurrentInv
<1> QED
  BY <1>1, CurrentAlways, PTL

(* Once an event is done, the caches of its worker, and with them the      *)
(* documents, have what it was worth.                                      *)
LEMMA DoneIsSettled ==
  ASSUME NoSurprises, CurrentInv, CurrentInv', [Next]_vars,
         NEW w \in Workers, Busy(w), stage'[w] = "idle"
  PROVE  Settled(Holder(w), Data(w))'
<1>0. TypeInv
  BY DEF CurrentInv, HolderInv
<1> DEFINE h == Holder(w)
           data == Data(w)
           Has(x) == cache'[w][<<h, x>>] # Nothing
           Val(x) == cache'[w][<<h, x>>].points.value
<1>1. h \in Holders /\ context[w] \in Contexts
  BY <1>0, EventFacts
<1>2. Get(w) \/ Create(w) \/ Update(w)
  <2>1. ASSUME NEW v \in Workers, v # w,
               \/ Get(v) \/ GetFails(v) \/ Create(v) \/ Update(v)
               \/ CreateFails(v) \/ UpdateFails(v)
        PROVE  FALSE
    <3>1. stage'[w] = stage[w]
      BY <1>0, <2>1, OneWorkerMoves
             DEF Get, GetFails, Create, Update, CreateFails, UpdateFails
    <3> QED
      BY <3>1 DEF Busy
  <2>2. ASSUME GetFails(w) \/ CreateFails(w) \/ UpdateFails(w)
        PROVE  FALSE
    <3>1. Stage(w, "failed")
      BY <2>2 DEF GetFails, CreateFails, UpdateFails
    <3> QED
      BY <1>0, <3>1, OneWorkerMoves
  <2>3. ASSUME \/ \E v \in Workers : \/ Take(v) \/ Continue(v) \/ EndRun(v) \/ Miss(v)
                                     \/ Restart(v)
               \/ Crash \/ UNCHANGED vars
        PROVE  FALSE
    <3>1. stage'[w] = stage[w] \/ stage'[w] = "get" \/ stage'[w] = "down"
      BY <1>0, <2>3, LoopEffects
    <3> QED
      BY <3>1 DEF Busy
  <2> QED
    BY <2>1, <2>2, <2>3 DEF Next, Step
<1>3. NextContext(w)
  <2>1. Stage(w, "write") => stage'[w] = "write"
    BY <1>0, OneWorkerMoves
  <2> QED
    BY <1>2, <2>1 DEF Get, Create, Update
<1>4. /\ Holder(w)' = h /\ Data(w)' = data
      /\ context[w] # "unique-events"
      /\ ~(context[w] = "all-events" /\ IsComplete(data))
  BY <1>0, <1>3, OneWorkerMoves
<1>6. /\ Written(w, "unique-events", UniqueEvents(data))
      /\ context[w] = "first-all-events" => Written(w, "all-events", AllEvents(data))
  BY <1>4 DEF CurrentInv, WrittenSoFar
<1>7. /\ Has("unique-events") /\ Val("unique-events") = UniqueEvents(data)
      /\ Has("all-events") /\ Val("all-events") = AllEvents(data)
      /\ IsComplete(data) => Has("first-all-events")
  <2>0. \A x \in Contexts : <<h, x>> \in Keys
    BY <1>1 DEF Keys
  <2>1. CASE Get(w)
    <3>1. /\ \A v \in Workers, k \in Keys : cache'[v][k] = cache[v][k]
          /\ found'[w] = cache'[w][<<h, context[w]>>]
      BY <2>1, GetFindsNothingNew
    <3>2. OnlyCreates(w) /\ found'[w] # Nothing
      <4>1. ~Stage(w, "write")
        BY <1>0, OneWorkerMoves
      <4> QED
        BY <2>1, <4>1 DEF Get
    <3> QED
      BY <1>6, <2>0, <3>1, <3>2 DEF OnlyCreates, Written, Contexts
  <2>2. CASE Create(w) \/ Update(w)
    <3>1. /\ cache'[w][<<h, context[w]>>] # Nothing
          /\ cache'[w][<<h, context[w]>>].points = Points(h, context[w], Value(w))
          /\ \A k \in Keys : k # <<h, context[w]>> => cache'[w][k] = cache[w][k]
      BY <2>2, WriteIsCached
    <3>2. \A x \in Contexts : x # context[w] => cache'[w][<<h, x>>] = cache[w][<<h, x>>]
      BY <2>0, <3>1
    <3>3. Has(context[w]) /\ Val(context[w]) = Value(w)
      BY <3>1 DEF Points
    <3>4. CASE context[w] = "all-events"
      <4>1. ~IsComplete(data) /\ Value(w) = AllEvents(data)
        BY <1>4, <3>4 DEF Value
      <4> QED
        BY <1>6, <3>2, <3>3, <3>4, <4>1 DEF Written, Contexts
    <3>5. CASE context[w] = "first-all-events"
      BY <1>6, <3>2, <3>3, <3>5 DEF Written, Contexts
    <3> QED
      BY <1>1, <1>4, <3>4, <3>5 DEF Contexts
  <2> QED
    BY <1>2, <2>1, <2>2
<1> DEFINE Docs(x) == {d \in DOMAIN docs' : docs'[d].recipient = h /\ docs'[d].context = x}
<1>8. \A x \in Contexts : Has(x) =>
        LET d == cache'[w][<<h, x>>].doc
        IN  d \in Docs(x) /\ docs'[d].value = Val(x)
  BY <1>1 DEF CurrentInv, CacheIsCurrent, DocsOf
<1>9. /\ \E d \in Docs("unique-events") : docs'[d].value = UniqueEvents(data)
      /\ \E d \in Docs("all-events") : docs'[d].value = AllEvents(data)
      /\ IsComplete(data) => Docs("first-all-events") # {}
  <2> HIDE DEF Has, Val, h, data, Docs
  <2> QED
    BY <1>7, <1>8 DEF Contexts
<1> QED
  BY <1>4, <1>9 DEF Settled, DocsOf

(* When a worker is done with an attestation without an error, the         *)
(* documents of the holder have its values, whatever failed before,        *)
(* whatever other workers wrote and whichever events were missed.          *)
THEOREM DocumentsAreUpToDate ==
  ASSUME NoSurprises
  PROVE  Spec => UpToDate
<1>1. CurrentInv /\ CurrentInv' /\ [Next]_vars =>
        [\A w \in Workers :
           stage[w] \in {"get", "write"} /\ stage'[w] = "idle" =>
             Settled(Holder(w), Data(w))']_vars
  BY DoneIsSettled DEF Busy
<1> QED
  BY <1>1, CurrentAlways, PTL DEF Spec, UpToDate

-----------------------------------------------------------------------------

(* Calculators that are never replaced by new ones: no runs of the joiner  *)
(* and no process that dies. *)
NoNewWorkers == Joiners = {} /\ "crash" \notin Failures

LEMMA CountStep ==
  ASSUME NoSurprises, NoNewWorkers, CountInv, [Next]_vars
  PROVE  CountInv'
<1>0. CurrentInv /\ TypeInv
  BY DEF CountInv, CurrentInv, HolderInv
<1>1. CurrentInv'
  BY <1>0, CurrentStep
<1>2. \A w \in Workers : ~EndRun(w) /\ ~Restart(w)
  BY DEF CountInv, NobodyDown, NoNewWorkers, EndRun, Restart
<1>3. ~Crash
  BY DEF NoNewWorkers, Crash
<1>4. stage \in [Workers -> {"idle", "get", "write", "failed", "down"}]
  BY <1>0 DEF TypeInv, TypeOK
<1>5. NobodyDown'
  <2>1. ASSUME NEW w \in Workers, Take(w)
        PROVE  stage'[w] # "down" /\ \A v \in Workers : v # w => stage'[v] = stage[v]
    <3>1. stage'[w] \in {"failed", "get", "idle"}
      BY <1>4, <2>1 DEF Take
    <3>2. \A v \in Workers : v # w => stage'[v] = stage[v]
      BY <1>4, <2>1 DEF Take
    <3> QED
      BY <3>1, <3>2
  <2>2. ASSUME NEW w \in Workers,
               \/ Get(w) \/ GetFails(w) \/ Create(w) \/ Update(w)
               \/ CreateFails(w) \/ UpdateFails(w)
        PROVE  stage'[w] # "down" /\ \A v \in Workers : v # w => stage'[v] = stage[v]
    BY <1>0, <2>2, OneWorkerMoves DEF Get, GetFails, Create, Update, CreateFails, UpdateFails
  <2>3. ASSUME NEW w \in Workers, Continue(w) \/ Miss(w)
        PROVE  stage'[w] # "down" /\ \A v \in Workers : v # w => stage'[v] = stage[v]
    BY <1>4, <2>3 DEF Continue, Stage, Miss
  <2>4. CASE UNCHANGED vars
    BY <2>4 DEF vars, workerVars, CountInv, NobodyDown
  <2> QED
    BY <1>2, <1>3, <2>1, <2>2, <2>3, <2>4 DEF Next, Step, CountInv, NobodyDown
<1>6. AllCached'
  <2>1. ASSUME docs' = docs, \A v \in Workers, k \in Keys : cache'[v][k] = cache[v][k]
        PROVE  AllCached'
    BY <2>1 DEF CountInv, AllCached
  <2>2. ASSUME NEW w \in Workers, Create(w) \/ Update(w)
        PROVE  AllCached'
    <3> DEFINE key == <<Holder(w), context[w]>>
               e == cache'[w][key]
    <3>1. /\ key \in Keys /\ e # Nothing
          /\ DOMAIN docs' = DOMAIN docs \cup {e.doc}
          /\ \A v \in Workers, k \in Keys :
               ~(v = w /\ k = key) => cache'[v][k] = cache[v][k]
      BY <1>0, <2>2, WriteIsCached
    <3>2. cache[w][key] # Nothing => cache[w][key].doc = e.doc
      <4>1. CASE Create(w)
        <5>1. stage[w] = "write" /\ found[w] = Nothing
          BY <4>1 DEF Create
        <5>2. found[w] = cache[w][key]
          BY <1>0, <5>1 DEF CurrentInv, HolderInv, FoundIsCached
        <5> QED
          BY <5>1, <5>2
      <4>2. CASE Update(w)
        <5>1. /\ stage[w] = "write" /\ found[w] # Nothing
              /\ UpdatePoints(w, Value(w)) /\ Busy(w)
          BY <4>2 DEF Update, Busy
        <5>2. found[w] = cache[w][key]
          BY <1>0, <5>1, UpdatesItsOwn DEF CurrentInv
        <5>3. found[w].points.recipient = Holder(w) /\ found[w].points.context = context[w]
          <6>1. reading = "nothing"
            BY <1>0 DEF TypeInv, TypeOK, NoSurprises
          <6> QED
            BY <1>0, <5>1, <6>1, UpdatesItsOwn DEF CurrentInv
        <5>4. Value(w) \in Nat
          BY <1>0, <5>1, EventFacts
        <5> DEFINE p == [found[w].points EXCEPT !.value = Value(w)]
        <5>5. /\ p.recipient = found[w].points.recipient
              /\ p.context = found[w].points.context
              /\ \A v \in Workers, k \in Keys :
                   cache'[v][k] = IF v = w /\ k = <<p.recipient, p.context>>
                                  THEN Existing(found[w].doc, p) ELSE cache[v][k]
          BY <1>0, <5>1, <5>4, UpdatePointsType
        <5> HIDE DEF p
        <5>6. cache'[w][key] = Existing(found[w].doc, p)
          BY <3>1, <5>2, <5>3, <5>5
        <5> QED
          BY <5>2, <5>6 DEF Existing
      <4> QED
        BY <2>2, <4>1, <4>2
    <3> HIDE DEF e, key
    <3>3. ASSUME NEW d \in DOMAIN docs'
          PROVE  \E v \in Workers, k \in Keys : cache'[v][k] # Nothing /\ cache'[v][k].doc = d
      <4>1. CASE d = e.doc
        BY <3>1, <4>1 DEF e
      <4>2. CASE d # e.doc
        <5>1. PICK v \in Workers, k \in Keys : cache[v][k] # Nothing /\ cache[v][k].doc = d
          BY <3>1, <4>2 DEF CountInv, AllCached
        <5>2. ~(v = w /\ k = key)
          BY <3>2, <4>2, <5>1
        <5> QED
          BY <3>1, <5>1, <5>2
      <4> QED
        BY <4>1, <4>2
    <3> QED
      BY <3>3 DEF AllCached
  <2>3. ASSUME NEW w \in Workers, Get(w) \/ GetFails(w)
        PROVE  AllCached'
    BY <1>0, <2>1, <2>3, GetFindsNothingNew
  <2>4. ASSUME NEW w \in Workers, CreateFails(w) \/ UpdateFails(w)
        PROVE  AllCached'
    BY <1>0, <2>1, <2>4, FailuresChangeNothing
  <2>5. ASSUME NEW w \in Workers, Take(w) \/ Continue(w) \/ Miss(w)
        PROVE  AllCached'
    BY <2>1, <2>5 DEF Take, Continue, Miss, cacheVars
  <2>6. CASE UNCHANGED vars
    BY <2>1, <2>6 DEF vars, cacheVars
  <2> QED
    BY <1>2, <1>3, <2>2, <2>3, <2>4, <2>5, <2>6 DEF Next, Step
<1> QED
  BY <1>1, <1>5, <1>6 DEF CountInv

(* Each document of a holder and context is in the cache of a worker, and  *)
(* each worker caches one of them.                                         *)
LEMMA OneEach ==
  ASSUME CountInv, IsFiniteSet(Workers)
  PROVE  OneDocumentPerWorker
<1> SUFFICES ASSUME NEW h \in Holders, NEW x \in Contexts
             PROVE  Cardinality(DocsOf(h, x)) <= Cardinality(Workers)
  BY DEF OneDocumentPerWorker
<1> DEFINE key == <<h, x>>
           Has(w, d) == cache[w][key] # Nothing /\ cache[w][key].doc = d
           S == DocsOf(h, x)
           f == [d \in S |-> CHOOSE w \in Workers : Has(w, d)]
<1>1. ASSUME NEW d \in S
      PROVE  \E w \in Workers : Has(w, d)
  <2>1. PICK w \in Workers, k \in Keys : cache[w][k] # Nothing /\ cache[w][k].doc = d
    BY DEF CountInv, AllCached, DocsOf
  <2>2. PICK g \in Holders, y \in Contexts : k = <<g, y>>
    BY KeyForm
  <2>3. d \in DocsOf(g, y)
    BY <2>1, <2>2 DEF CountInv, CurrentInv, CacheIsCurrent
  <2>4. g = h /\ y = x
    BY <2>3 DEF DocsOf
  <2> QED
    BY <2>1, <2>2, <2>4
<1>2. \A d \in S : f[d] \in Workers /\ Has(f[d], d)
  <2> HIDE DEF S, Has
  <2> QED
    BY <1>1
<1>3. f \in Injection(S, Workers)
  <2>1. \A c, d \in S : f[c] = f[d] => c = d
    <3> HIDE DEF S, f
    <3> QED
      BY <1>2
  <2>2. f \in [S -> Workers]
    BY <1>2
  <2> HIDE DEF f, S
  <2> QED
    BY <2>1, <2>2 DEF Injection, IsInjective
<1> HIDE DEF f
<1> QED
  BY <1>3, FS_Injection

(* Calculators that race between the query that finds nothing and the      *)
(* write make one document each for a holder and context, and never more.  *)
THEOREM OneEachAlways ==
  ASSUME NoSurprises, NoNewWorkers, IsFiniteSet(Workers)
  PROVE  Spec => []OneDocumentPerWorker
<1>1. Init => CountInv
  BY CurrentInit DEF Init, CacheInit, CountInv, AllCached, NobodyDown
<1>2. CountInv /\ [Next]_vars => CountInv'
  BY CountStep
<1>3. CountInv => OneDocumentPerWorker
  BY OneEach
<1> QED
  BY <1>1, <1>2, <1>3, PTL DEF Spec

=============================================================================
