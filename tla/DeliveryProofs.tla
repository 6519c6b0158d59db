--------------------------- MODULE DeliveryProofs ---------------------------
(***************************************************************************)
(* Where the events of a client are and where they go: in at most one      *)
(* place at a time, as in the mailbox of Delivery, lost in named ways only,*)
(* and in the order of the feed where that is promised.                    *)
(***************************************************************************)
EXTENDS BatcherProofs

-----------------------------------------------------------------------------
(* Sequences of messages that do not repeat *)

(* s repeats nothing and shares nothing with t. *)
Apart(s, t) == Range(s) \cap Range(t) = {}

LEMMA ConcatInjective ==
  ASSUME NEW s \in Seq(Messages), NEW t \in Seq(Messages)
  PROVE  /\ Range(s \o t) = Range(s) \cup Range(t)
         /\ IsInjective(s \o t) <=> IsInjective(s) /\ IsInjective(t) /\ Apart(s, t)
<1> DEFINE st == s \o t
<1>1. /\ st \in Seq(Messages)
      /\ Len(st) = Len(s) + Len(t)
      /\ \A i \in 1..(Len(s) + Len(t)) : st[i] = IF i <= Len(s) THEN s[i] ELSE t[i - Len(s)]
  BY ConcatProperties
<1>2. /\ Len(s) \in Nat /\ DOMAIN s = 1..Len(s)
      /\ Len(t) \in Nat /\ DOMAIN t = 1..Len(t)
      /\ DOMAIN st = 1..(Len(s) + Len(t))
  BY <1>1, LenProperties
<1>3. /\ \A i \in 1..Len(s) : i \in DOMAIN st /\ st[i] = s[i]
      /\ \A i \in 1..Len(t) : i + Len(s) \in DOMAIN st /\ st[i + Len(s)] = t[i]
  BY <1>1, <1>2
<1> HIDE DEF st
<1>4. ASSUME IsInjective(st)
      PROVE  IsInjective(s) /\ IsInjective(t) /\ Apart(s, t)
  <2>1. IsInjective(s)
    BY <1>2, <1>3, <1>4 DEF IsInjective
  <2>2. IsInjective(t)
    <3> SUFFICES ASSUME NEW a \in DOMAIN t, NEW b \in DOMAIN t, t[a] = t[b]
                 PROVE  a = b
      BY DEF IsInjective
    <3>1. a + Len(s) = b + Len(s)
      BY <1>2, <1>3, <1>4 DEF IsInjective
    <3> QED BY <1>2, <3>1
  <2>3. Apart(s, t)
    <3> SUFFICES ASSUME NEW a \in DOMAIN s, NEW b \in DOMAIN t, s[a] = t[b]
                 PROVE  FALSE
      BY DEF Apart, Range
    <3>1. a = b + Len(s)
      BY <1>2, <1>3, <1>4 DEF IsInjective
    <3> QED BY <1>2, <3>1
  <2> QED BY <2>1, <2>2, <2>3
<1>5. ASSUME IsInjective(s), IsInjective(t), Apart(s, t)
      PROVE  IsInjective(st)
  <2> SUFFICES ASSUME NEW a \in DOMAIN st, NEW b \in DOMAIN st, st[a] = st[b]
               PROVE  a = b
    BY DEF IsInjective
  <2>1. CASE a <= Len(s) /\ b <= Len(s)
    BY <1>1, <1>2, <1>5, <2>1 DEF IsInjective, st
  <2>2. CASE ~(a <= Len(s)) /\ ~(b <= Len(s))
    <3>1. a - Len(s) \in DOMAIN t /\ b - Len(s) \in DOMAIN t
      BY <1>2, <2>2
    <3>2. t[a - Len(s)] = t[b - Len(s)]
      BY <1>1, <1>2, <2>2 DEF st
    <3>3. a - Len(s) = b - Len(s)
      BY <1>5, <3>1, <3>2 DEF IsInjective
    <3> QED BY <1>2, <3>3
  <2>3. ASSUME NEW i \in DOMAIN st, NEW j \in DOMAIN st, i <= Len(s), ~(j <= Len(s))
        PROVE  st[i] # st[j]
    <3>1. i \in DOMAIN s /\ j - Len(s) \in DOMAIN t
      BY <1>2, <2>3
    <3>2. st[i] = s[i] /\ st[j] = t[j - Len(s)]
      BY <1>1, <1>2, <2>3 DEF st
    <3> QED BY <1>5, <3>1, <3>2 DEF Apart, Range
  <2> QED BY <2>1, <2>2, <2>3
<1>6. Range(st) = Range(s) \cup Range(t)
  BY RangeConcatenation DEF st
<1> QED BY <1>4, <1>5, <1>6 DEF st

LEMMA SingletonInjective ==
  ASSUME NEW e \in Messages
  PROVE  <<e>> \in Seq(Messages) /\ IsInjective(<<e>>) /\ Range(<<e>>) = {e}
BY DEF IsInjective, Range

LEMMA EmptyInjective ==
  <<>> \in Seq(Messages) /\ IsInjective(<<>>) /\ Range(<<>>) = {}
BY DEF IsInjective, Range

LEMMA AppendInjects ==
  ASSUME NEW s \in Seq(Messages), NEW e \in Messages
  PROVE  /\ Range(Append(s, e)) = Range(s) \cup {e}
         /\ IsInjective(Append(s, e)) <=> IsInjective(s) /\ e \notin Range(s)
<1>1. Append(s, e) = s \o <<e>>
  BY AppendIsConcat
<1>2. <<e>> \in Seq(Messages) /\ IsInjective(<<e>>) /\ Range(<<e>>) = {e}
  BY SingletonInjective
<1>3. /\ Range(s \o <<e>>) = Range(s) \cup Range(<<e>>)
      /\ IsInjective(s \o <<e>>) <=> IsInjective(s) /\ IsInjective(<<e>>) /\ Apart(s, <<e>>)
  BY <1>2, ConcatInjective
<1> QED BY <1>1, <1>2, <1>3 DEF Apart

LEMMA HeadThenTail ==
  ASSUME NEW s \in Seq(Messages), s # <<>>
  PROVE  s = <<Head(s)>> \o Tail(s)
<1>1. Len(s) \in 1..Len(s) /\ SubSeq(s, 1, Len(s)) = s
  BY SubSeqFull, EmptySeq, LenProperties
<1>2. SubSeq(s, 1, Len(s)) = <<s[1]>> \o SubSeq(s, 2, Len(s))
  BY <1>1, SubSeqRecursiveFirst, LenProperties
<1>3. Tail(s) = SubSeq(s, 2, Len(s))
  BY TailIsSubSeq
<1>4. Head(s) = s[1]
  OBVIOUS
<1> QED BY <1>1, <1>2, <1>3, <1>4

LEMMA HeadTailInject ==
  ASSUME NEW s \in Seq(Messages), s # <<>>
  PROVE  /\ Range(s) = {Head(s)} \cup Range(Tail(s))
         /\ IsInjective(s) <=> IsInjective(Tail(s)) /\ Head(s) \notin Range(Tail(s))
<1>1. Head(s) \in Messages /\ Tail(s) \in Seq(Messages)
  BY HeadTailProperties
<1>2. s = <<Head(s)>> \o Tail(s)
  BY HeadThenTail
<1>3. <<Head(s)>> \in Seq(Messages) /\ IsInjective(<<Head(s)>>) /\ Range(<<Head(s)>>) = {Head(s)}
  BY <1>1, SingletonInjective
<1>4. /\ Range(<<Head(s)>> \o Tail(s)) = Range(<<Head(s)>>) \cup Range(Tail(s))
      /\ IsInjective(<<Head(s)>> \o Tail(s)) <=>
           /\ IsInjective(<<Head(s)>>) /\ IsInjective(Tail(s))
           /\ Apart(<<Head(s)>>, Tail(s))
  BY <1>1, <1>3, ConcatInjective
<1> QED BY <1>2, <1>3, <1>4 DEF Apart

(* t is a prefix of s. *)
LEMMA PrefixInjective ==
  ASSUME NEW s \in Seq(Messages), NEW t \in Seq(Messages), Len(t) <= Len(s),
         \A i \in 1..Len(t) : t[i] = s[i]
  PROVE  Range(t) \subseteq Range(s) /\ (IsInjective(s) => IsInjective(t))
<1>1. /\ Len(s) \in Nat /\ DOMAIN s = 1..Len(s)
      /\ Len(t) \in Nat /\ DOMAIN t = 1..Len(t)
  BY LenProperties
<1> QED BY <1>1 DEF Range, IsInjective

-----------------------------------------------------------------------------
(* The places of a client *)

(* The events in the places d, b, u, p, q and h, of which h is a single    *)
(* one or 0, are all different.                                            *)
Scattered(d, b, u, p, q, h) ==
  /\ IsInjective(d) /\ IsInjective(b) /\ IsInjective(u) /\ IsInjective(p) /\ IsInjective(q)
  /\ Apart(d, b) /\ Apart(d, u) /\ Apart(d, p) /\ Apart(d, q)
  /\ Apart(b, u) /\ Apart(b, p) /\ Apart(b, q)
  /\ Apart(u, p) /\ Apart(u, q)
  /\ Apart(p, q)
  /\ h # 0 => h \notin Range(d) \cup Range(b) \cup Range(u) \cup Range(p) \cup Range(q)

Contents(d, b, u, p, q, h) ==
  Range(d) \cup Range(b) \cup Range(u) \cup Range(p) \cup Range(q) \cup ({h} \ {0})

(* What AtMostOnce rests on: the events of a client are different, and its *)
(* connection is beyond all of them.                                       *)
DifferentEvents(c) ==
  Scattered(delivered[c], db[c], unpersisted[c], pending[c], chan[c], held[c])

BehindTheFeed(c) ==
  /\ next[c] <= emitted + 1
  /\ \A e \in Contents(delivered[c], db[c], unpersisted[c], pending[c], chan[c], held[c]) :
       e < next[c]

DeliveryInv == \A c \in Clients : DifferentEvents(c) /\ BehindTheFeed(c)

(* s holds each of the events S once, and no others. *)
Joined(s, S) == s \in Seq(Messages) /\ IsInjective(s) /\ Range(s) = S

LEMMA JoinedConcat ==
  ASSUME NEW s, NEW S, Joined(s, S), NEW t \in Seq(Messages), IsInjective(t), Apart(s, t)
  PROVE  Joined(s \o t, S \cup Range(t))
<1>1. s \in Seq(Messages) /\ IsInjective(s) /\ Range(s) = S
  BY DEF Joined
<1>2. s \o t \in Seq(Messages)
  BY <1>1, ConcatProperties
<1>3. Range(s \o t) = S \cup Range(t) /\ IsInjective(s \o t)
  BY <1>1, ConcatInjective
<1> QED BY <1>2, <1>3 DEF Joined

LEMMA BlockedType ==
  ASSUME TypeOK, NEW c \in Clients
  PROVE  /\ Blocked(c) \in Seq(Messages) /\ IsInjective(Blocked(c))
         /\ Range(Blocked(c)) = {held[c]} \ {0}
<1>1. CASE held[c] = 0
  BY <1>1, EmptyInjective DEF Blocked
<1>2. CASE held[c] # 0
  <2>1. held[c] \in Messages
    BY <1>2 DEF TypeOK, Messages
  <2> QED BY <1>2, <2>1, SingletonInjective DEF Blocked
<1> QED BY <1>1, <1>2

LEMMA ScatteredTrail ==
  ASSUME TypeOK, NEW c \in Clients, DifferentEvents(c)
  PROVE  IsInjective(Trail(c))
<1> DEFINE d == delivered[c]
           b == db[c]
           u == unpersisted[c]
           p == pending[c]
           q == chan[c]
           h == Blocked(c)
<1>1. /\ d \in Seq(Messages) /\ b \in Seq(Messages) /\ u \in Seq(Messages)
      /\ p \in Seq(Messages) /\ q \in Seq(Messages)
  BY DEF TypeOK
<1>2. h \in Seq(Messages) /\ IsInjective(h) /\ Range(h) = {held[c]} \ {0}
  BY BlockedType
<1>3. Scattered(d, b, u, p, q, held[c])
  BY DEF DifferentEvents
<1> HIDE DEF d, b, u, p, q, h
<1>4. Joined(d \o b, Range(d) \cup Range(b))
  <2>1. Joined(d, Range(d))
    BY <1>1, <1>3 DEF Scattered, Joined
  <2> QED BY <1>1, <1>3, <2>1, JoinedConcat DEF Scattered
<1>5. Joined(d \o b \o u, Range(d) \cup Range(b) \cup Range(u))
  <2>1. Apart(d \o b, u)
    BY <1>3, <1>4 DEF Scattered, Joined, Apart
  <2> QED BY <1>1, <1>3, <1>4, <2>1, JoinedConcat DEF Scattered
<1>6. Joined(d \o b \o u \o p, Range(d) \cup Range(b) \cup Range(u) \cup Range(p))
  <2>1. Apart(d \o b \o u, p)
    BY <1>3, <1>5 DEF Scattered, Joined, Apart
  <2> QED BY <1>1, <1>3, <1>5, <2>1, JoinedConcat DEF Scattered
<1>7. Joined(d \o b \o u \o p \o q,
             Range(d) \cup Range(b) \cup Range(u) \cup Range(p) \cup Range(q))
  <2>1. Apart(d \o b \o u \o p, q)
    BY <1>3, <1>6 DEF Scattered, Joined, Apart
  <2> QED BY <1>1, <1>3, <1>6, <2>1, JoinedConcat DEF Scattered
<1>8. IsInjective(d \o b \o u \o p \o q \o h)
  <2>1. Apart(d \o b \o u \o p \o q, h)
    BY <1>2, <1>3, <1>7 DEF Scattered, Joined, Apart
  <2> QED BY <1>2, <1>7, <2>1, ConcatInjective DEF Joined
<1> QED BY <1>8 DEF Trail, d, b, u, p, q, h

-----------------------------------------------------------------------------
(* The steps *)

(* A client whose events stay where they are. *)
Untouched(x) ==
  /\ delivered'[x] = delivered[x] /\ db'[x] = db[x] /\ unpersisted'[x] = unpersisted[x]
  /\ pending'[x] = pending[x] /\ chan'[x] = chan[x] /\ held'[x] = held[x]

LEMMA UntouchedKept ==
  ASSUME TypeOK, DeliveryInv, NEW x \in Clients, Untouched(x),
         emitted' \in Nat, emitted <= emitted',
         next'[x] = next[x] \/ next'[x] = emitted + 1
  PROVE  DifferentEvents(x)' /\ BehindTheFeed(x)'
<1>1. DifferentEvents(x) /\ BehindTheFeed(x)
  BY DEF DeliveryInv
<1>2. DifferentEvents(x)'
  BY <1>1 DEF Untouched, DifferentEvents
<1>3. /\ emitted \in Nat /\ next[x] \in Messages /\ next[x] <= emitted + 1
      /\ next'[x] \in Nat /\ next[x] <= next'[x] /\ next'[x] <= emitted' + 1
  BY <1>1 DEF TypeOK, BehindTheFeed, Messages
<1>4. Contents(delivered[x], db[x], unpersisted[x], pending[x], chan[x], held[x])' =
        Contents(delivered[x], db[x], unpersisted[x], pending[x], chan[x], held[x])
  BY DEF Untouched
<1>5. \A e \in Contents(delivered[x], db[x], unpersisted[x], pending[x], chan[x], held[x]) :
        e \in Nat
  BY RangeOfSeq DEF TypeOK, Contents, Messages
<1>6. \A e \in Contents(delivered[x], db[x], unpersisted[x], pending[x], chan[x], held[x]) :
        e < next'[x]
  BY <1>1, <1>3, <1>5 DEF BehindTheFeed, Messages
<1> QED BY <1>2, <1>3, <1>4, <1>6 DEF BehindTheFeed

(* A client whose events only move or go away. *)
LEMMA NothingNew ==
  ASSUME TypeOK, DeliveryInv, NEW x \in Clients,
         DifferentEvents(x)',
         Contents(delivered[x], db[x], unpersisted[x], pending[x], chan[x], held[x])' \subseteq
           Contents(delivered[x], db[x], unpersisted[x], pending[x], chan[x], held[x]),
         next'[x] = next[x], emitted' = emitted
  PROVE  DifferentEvents(x)' /\ BehindTheFeed(x)'
BY DEF DeliveryInv, BehindTheFeed

LEMMA DrainKeeps ==
  ASSUME TypeOK, DeliveryInv, NEW c \in Clients, Drain(c), NEW x \in Clients
  PROVE  DifferentEvents(x)' /\ BehindTheFeed(x)'
<1>1. PICK restored \in {db[c], <<>>} :
        /\ \/ GetEvents(c) /\ restored = db[c]
           \/ GetEventsFails /\ restored = <<>>
        /\ pending' = [pending EXCEPT ![c] = Gathered(c, restored)]
  BY DEF Drain
<1>2. /\ UNCHANGED <<delivered, unpersisted, emitted, next>>
      /\ chan' = [chan EXCEPT ![c] = <<>>]
      /\ held' = held \/ held' = [held EXCEPT ![c] = 0]
  BY DEF Drain, EndStream, DropSource
<1>3. db' = db \/ db' = [db EXCEPT ![c] = <<>>]
  BY <1>1 DEF GetEvents, GetEventsFails
<1>4. CASE x # c
  <2>1. Untouched(x)
    BY <1>1, <1>2, <1>3, <1>4 DEF Untouched, TypeOK
  <2> QED BY <1>2, <2>1, UntouchedKept DEF TypeOK
<1>5. CASE x = c
  <2> DEFINE t == Decoded(chan[c])
  <2>1. /\ t \in Seq(Messages) /\ Range(t) \subseteq Range(chan[c])
        /\ IsInjective(chan[c]) => IsInjective(t)
    BY DecodedIsPrefix, PrefixInjective DEF TypeOK
  <2>2. Scattered(delivered[c], db[c], unpersisted[c], pending[c], chan[c], held[c])
    BY DEF DeliveryInv, DifferentEvents
  <2>3. /\ restored \in Seq(Messages) /\ IsInjective(restored)
        /\ Range(restored) \subseteq Range(db[c]) /\ Apart(restored, db'[c])
        /\ Range(db'[c]) \subseteq Range(db[c]) /\ IsInjective(db'[c])
    <3>1. db[c] \in Seq(Messages) /\ IsInjective(db[c])
      BY <2>2 DEF TypeOK, Scattered
    <3>2. \/ restored = db[c] /\ db'[c] = <<>>
          \/ restored = <<>> /\ db'[c] = db[c]
      BY <1>1 DEF TypeOK, GetEvents, GetEventsFails
    <3> QED BY <3>1, <3>2, EmptyInjective DEF Apart
  <2> HIDE DEF t
  <2>4. Joined(pending[c], Range(pending[c]))
    BY <2>2 DEF TypeOK, Joined, Scattered
  <2>5. Joined(pending[c] \o restored, Range(pending[c]) \cup Range(restored))
    <3>1. Apart(pending[c], restored)
      BY <2>2, <2>3 DEF Scattered, Apart
    <3> QED BY <2>3, <2>4, <3>1, JoinedConcat
  <2>6. Joined(pending[c] \o restored \o t,
               Range(pending[c]) \cup Range(restored) \cup Range(t))
    <3>1. Apart(pending[c] \o restored, t)
      BY <2>1, <2>2, <2>3, <2>5 DEF Scattered, Apart, Joined
    <3> QED BY <2>1, <2>2, <2>5, <3>1, JoinedConcat DEF Scattered
  <2>7. Joined(pending'[c], Range(pending[c]) \cup Range(restored) \cup Range(t))
    BY <1>1, <2>6 DEF Gathered, TypeOK, t
  <2>8. /\ chan'[c] = <<>> /\ held'[c] \in {held[c], 0}
        /\ delivered'[c] = delivered[c] /\ unpersisted'[c] = unpersisted[c]
    BY <1>2 DEF TypeOK
  <2>9. DifferentEvents(c)'
    BY <2>1, <2>2, <2>3, <2>7, <2>8, EmptyInjective
       DEF DifferentEvents, Scattered, Apart, Joined
  <2>10. Contents(delivered[c], db[c], unpersisted[c], pending[c], chan[c], held[c])' \subseteq
           Contents(delivered[c], db[c], unpersisted[c], pending[c], chan[c], held[c])
    BY <2>1, <2>3, <2>7, <2>8, EmptyInjective DEF Contents, Joined
  <2> QED BY <1>2, <1>5, <2>9, <2>10, NothingNew
<1> QED BY <1>4, <1>5

LEMMA ServeCreateKeeps ==
  ASSUME TypeOK, DeliveryInv, NEW c \in Clients, ServeCreate(c), NEW x \in Clients
  PROVE  DifferentEvents(x)' /\ BehindTheFeed(x)'
<1>1. /\ UNCHANGED <<delivered, unpersisted, emitted, next>>
      /\ chan' = [chan EXCEPT ![c] = <<>>]
      /\ held' = [held EXCEPT ![c] = 0]
      /\ db' = [db EXCEPT ![c] = <<>>]
      /\ pending' = [pending EXCEPT ![c] = db[c]]
  BY DEF ServeCreate, StartSource, GetEvents
<1>2. CASE x # c
  <2>1. Untouched(x)
    BY <1>1, <1>2 DEF Untouched, TypeOK
  <2> QED BY <1>1, <2>1, UntouchedKept DEF TypeOK
<1>3. CASE x = c
  <2>1. /\ chan'[c] = <<>> /\ held'[c] = 0 /\ db'[c] = <<>> /\ pending'[c] = db[c]
        /\ delivered'[c] = delivered[c] /\ unpersisted'[c] = unpersisted[c]
    BY <1>1 DEF TypeOK
  <2>2. Scattered(delivered[c], db[c], unpersisted[c], pending[c], chan[c], held[c])
    BY DEF DeliveryInv, DifferentEvents
  <2>3. DifferentEvents(c)'
    BY <2>1, <2>2, EmptyInjective DEF DifferentEvents, Scattered, Apart
  <2>4. Contents(delivered[c], db[c], unpersisted[c], pending[c], chan[c], held[c])' \subseteq
          Contents(delivered[c], db[c], unpersisted[c], pending[c], chan[c], held[c])
    BY <2>1, EmptyInjective DEF Contents
  <2> QED BY <1>1, <1>3, <2>3, <2>4, NothingNew
<1> QED BY <1>2, <1>3

(* A panic or a crash: what is in memory goes, rows may go. *)
LEMMA ForgettingKeeps ==
  ASSUME TypeOK, DeliveryInv, DropAllSources, pending' = Empty,
         unpersisted' = unpersisted \/ unpersisted' = Empty,
         NEW c, db' = db \/ db' = [db EXCEPT ![c] = <<>>],
         delivered' = delivered, NEW x \in Clients
  PROVE  DifferentEvents(x)' /\ BehindTheFeed(x)'
<1>1. /\ chan'[x] = <<>> /\ held'[x] = 0 /\ pending'[x] = <<>>
      /\ unpersisted'[x] \in {unpersisted[x], <<>>}
      /\ db'[x] \in {db[x], <<>>} /\ delivered'[x] = delivered[x]
      /\ UNCHANGED <<emitted, next>>
  BY DEF DropAllSources, Empty, TypeOK
<1>2. Scattered(delivered[x], db[x], unpersisted[x], pending[x], chan[x], held[x])
  BY DEF DeliveryInv, DifferentEvents
<1>3. DifferentEvents(x)'
  BY <1>1, <1>2, EmptyInjective DEF DifferentEvents, Scattered, Apart
<1>4. Contents(delivered[x], db[x], unpersisted[x], pending[x], chan[x], held[x])' \subseteq
        Contents(delivered[x], db[x], unpersisted[x], pending[x], chan[x], held[x])
  BY <1>1, EmptyInjective DEF Contents
<1> QED BY <1>1, <1>3, <1>4, NothingNew

LEMMA ServeGetsKeeps ==
  ASSUME TypeOK, DeliveryInv, ServeGets, NEW x \in Clients
  PROVE  DifferentEvents(x)' /\ BehindTheFeed(x)'
<1>1. /\ UNCHANGED <<db, unpersisted, emitted, next, chan, held>>
      /\ delivered'[x] = IF getReq[x] \in Callers /\ known[x]
                         THEN delivered[x] \o Batch(pending[x], getLimit[x])
                         ELSE delivered[x]
      /\ pending'[x] = IF getReq[x] = NoCall THEN pending[x] ELSE <<>>
  BY DEF ServeGets, sourceVars
<1>2. CASE ~(getReq[x] \in Callers /\ known[x]) /\ getReq[x] = NoCall
  <2>1. Untouched(x)
    BY <1>1, <1>2 DEF Untouched
  <2> QED BY <1>1, <2>1, UntouchedKept DEF TypeOK
<1>3. Scattered(delivered[x], db[x], unpersisted[x], pending[x], chan[x], held[x])
  BY DEF DeliveryInv, DifferentEvents
<1>4. CASE ~(getReq[x] \in Callers /\ known[x]) /\ getReq[x] # NoCall
  <2>1. pending'[x] = <<>> /\ delivered'[x] = delivered[x]
    BY <1>1, <1>4
  <2>2. DifferentEvents(x)'
    BY <1>1, <1>3, <2>1, EmptyInjective DEF DifferentEvents, Scattered, Apart
  <2>3. Contents(delivered[x], db[x], unpersisted[x], pending[x], chan[x], held[x])' \subseteq
          Contents(delivered[x], db[x], unpersisted[x], pending[x], chan[x], held[x])
    BY <1>1, <2>1, EmptyInjective DEF Contents
  <2> QED BY <1>1, <2>2, <2>3, NothingNew
<1>5. CASE getReq[x] \in Callers /\ known[x]
  <2> DEFINE t == Batch(pending[x], getLimit[x])
  <2>1. /\ t \in Seq(Messages) /\ Range(t) \subseteq Range(pending[x])
        /\ IsInjective(pending[x]) => IsInjective(t)
    <3>1. pending[x] \in Seq(Messages) /\ getLimit[x] \in Limits \cup {NoLimit}
      BY DEF TypeOK
    <3>2. /\ t \in Seq(Messages) /\ Len(t) <= Len(pending[x])
          /\ \A i \in 1..Len(t) : t[i] = pending[x][i]
      BY <3>1, BatchIsPrefix
    <3> HIDE DEF t
    <3> QED BY <3>1, <3>2, PrefixInjective
  <2>2. pending'[x] = <<>> /\ delivered'[x] = delivered[x] \o t
    BY <1>1, <1>5, CallersAssumption
  <2> HIDE DEF t
  <2>3. Joined(delivered'[x], Range(delivered[x]) \cup Range(t))
    <3>1. Joined(delivered[x], Range(delivered[x]))
      BY <1>3 DEF TypeOK, Joined, Scattered
    <3>2. Apart(delivered[x], t) /\ IsInjective(t)
      BY <1>3, <2>1 DEF Scattered, Apart
    <3> QED BY <2>1, <2>2, <3>1, <3>2, JoinedConcat
  <2>4. DifferentEvents(x)'
    BY <1>1, <1>3, <2>1, <2>2, <2>3, EmptyInjective
       DEF DifferentEvents, Scattered, Apart, Joined
  <2>5. Contents(delivered[x], db[x], unpersisted[x], pending[x], chan[x], held[x])' \subseteq
          Contents(delivered[x], db[x], unpersisted[x], pending[x], chan[x], held[x])
    BY <1>1, <2>1, <2>2, <2>3, EmptyInjective DEF Contents, Joined
  <2> QED BY <1>1, <2>4, <2>5, NothingNew
<1> QED BY <1>2, <1>4, <1>5

LEMMA PersistKeeps ==
  ASSUME TypeOK, SomethingToWrite, DeliveryInv, NEW c \in Clients, Persist(c), NEW x \in Clients
  PROVE  DifferentEvents(x)' /\ BehindTheFeed(x)'
<1> DEFINE e == Head(pending[c])
           rest == Tail(pending[c])
<1>1. UNCHANGED <<delivered, emitted, link, next, chan, held>>
  BY DEF Persist, sourceVars
<1>2. PICK refused \in {<<>>, <<e>>} :
        /\ \/ db' = [db EXCEPT ![c] = Append(@, e)] /\ refused = <<>>
           \/ db' = db /\ refused = <<e>>
        /\ \/ /\ pending' = [pending EXCEPT ![c] = rest]
              /\ unpersisted' = [unpersisted EXCEPT ![c] = @ \o refused]
           \/ /\ rest = <<>>
              /\ pending' = [pending EXCEPT ![c] = unpersisted[c] \o refused]
              /\ unpersisted' = [unpersisted EXCEPT ![c] = <<>>]
  BY DEF Persist, AddEvent, AddEventFails
<1>3. CASE x # c
  <2>1. Untouched(x)
    BY <1>1, <1>2, <1>3 DEF Untouched, TypeOK
  <2> QED BY <1>1, <2>1, UntouchedKept DEF TypeOK
<1>4. CASE x = c
  <2>1. pending[c] # <<>> /\ pending[c] \in Seq(Messages)
    BY DEF Persist, SomethingToWrite, TypeOK
  <2>2. /\ e \in Messages /\ rest \in Seq(Messages)
        /\ Range(pending[c]) = {e} \cup Range(rest)
    BY <2>1, HeadTailProperties, HeadTailInject
  <2>3. Scattered(delivered[c], db[c], unpersisted[c], pending[c], chan[c], held[c])
    BY DEF DeliveryInv, DifferentEvents
  <2>4. IsInjective(rest) /\ e \notin Range(rest)
    BY <2>1, <2>3, HeadTailInject DEF Scattered
  <2> HIDE DEF e, rest
  <2>5. /\ refused \in Seq(Messages) /\ IsInjective(refused)
        /\ Range(refused) = IF refused = <<>> THEN {} ELSE {e}
        /\ <<e>> # <<>>
    BY <1>2, <2>2, EmptyInjective, SingletonInjective
  <2>6. Joined(unpersisted[c] \o refused, Range(unpersisted[c]) \cup Range(refused))
    <3>1. Joined(unpersisted[c], Range(unpersisted[c]))
      BY <2>3 DEF TypeOK, Joined, Scattered
    <3>2. Apart(unpersisted[c], refused)
      BY <2>2, <2>3, <2>5 DEF Scattered, Apart
    <3> QED BY <2>5, <3>1, <3>2, JoinedConcat
  <2>7. /\ IsInjective(db'[c])
        /\ Range(db'[c]) = Range(db[c]) \cup (IF refused = <<>> THEN {e} ELSE {})
    <3>1. db[c] \in Seq(Messages) /\ IsInjective(db[c]) /\ e \notin Range(db[c])
      BY <2>2, <2>3 DEF TypeOK, Scattered, Apart
    <3>2. /\ Range(Append(db[c], e)) = Range(db[c]) \cup {e}
          /\ IsInjective(Append(db[c], e))
      BY <2>2, <3>1, AppendInjects
    <3>3. \/ db'[c] = Append(db[c], e) /\ refused = <<>>
          \/ db'[c] = db[c] /\ refused # <<>>
      BY <1>2, <2>5 DEF TypeOK
    <3> QED BY <3>1, <3>2, <3>3
  <2>8. \/ pending'[c] = rest /\ unpersisted'[c] = unpersisted[c] \o refused
        \/ rest = <<>> /\ pending'[c] = unpersisted[c] \o refused /\ unpersisted'[c] = <<>>
    BY <1>2 DEF TypeOK
  <2>9. DifferentEvents(c)'
    <3>1. delivered'[c] = delivered[c] /\ chan'[c] = chan[c] /\ held'[c] = held[c]
      BY <1>1
    <3>2. /\ IsInjective(unpersisted[c] \o refused)
          /\ Range(unpersisted[c] \o refused) =
               Range(unpersisted[c]) \cup (IF refused = <<>> THEN {} ELSE {e})
      BY <2>5, <2>6 DEF Joined
    <3> DEFINE u == unpersisted[c] \o refused
    <3> HIDE DEF u
    <3>3. Range(pending[c]) = {e} \cup Range(rest)
      BY <2>2
    <3>4. CASE pending'[c] = rest /\ unpersisted'[c] = u
      <4>1. Scattered(delivered[c], db'[c], u, rest, chan[c], held[c])
        BY <2>3, <2>4, <2>7, <3>2, <3>3 DEF Scattered, Apart, u
      <4> QED BY <3>1, <3>4, <4>1 DEF DifferentEvents
    <3>5. CASE rest = <<>> /\ pending'[c] = u /\ unpersisted'[c] = <<>>
      <4>1. Scattered(delivered[c], db'[c], <<>>, u, chan[c], held[c])
        BY <2>3, <2>7, <3>2, <3>3, EmptyInjective DEF Scattered, Apart, u
      <4> QED BY <3>1, <3>5, <4>1 DEF DifferentEvents
    <3> QED BY <2>8, <3>4, <3>5 DEF u
  <2>10. Contents(delivered[c], db[c], unpersisted[c], pending[c], chan[c], held[c])' \subseteq
           Contents(delivered[c], db[c], unpersisted[c], pending[c], chan[c], held[c])
    BY <1>1, <2>2, <2>5, <2>6, <2>7, <2>8, EmptyInjective DEF Contents, Joined
  <2> QED BY <1>1, <1>4, <2>9, <2>10, NothingNew
<1> QED BY <1>3, <1>4

LEMMA ReceiveKeeps ==
  ASSUME TypeOK, DeliveryInv, NEW c \in Clients, Receive(c),
         UNCHANGED <<db, unpersisted, pending, delivered>>, NEW x \in Clients
  PROVE  DifferentEvents(x)' /\ BehindTheFeed(x)'
<1>1. /\ emitted' = emitted /\ next' = [next EXCEPT ![c] = @ + 1]
      /\ held[c] = 0 /\ next[c] <= emitted
      /\ \/ chan' = [chan EXCEPT ![c] = Append(@, next[c])] /\ held' = held
         \/ held' = [held EXCEPT ![c] = next[c]] /\ chan' = chan
  BY DEF Receive
<1>2. CASE x # c
  <2>1. Untouched(x)
    BY <1>1, <1>2 DEF Untouched, TypeOK
  <2> QED BY <1>1, <1>2, <2>1, UntouchedKept DEF TypeOK
<1>3. CASE x = c
  <2> DEFINE old == Contents(delivered[c], db[c], unpersisted[c], pending[c], chan[c], held[c])
             new == Contents(delivered[c], db[c], unpersisted[c], pending[c], chan[c], held[c])'
  <2>1. /\ Scattered(delivered[c], db[c], unpersisted[c], pending[c], chan[c], held[c])
        /\ \A e \in old : e < next[c]
    BY DEF DeliveryInv, DifferentEvents, BehindTheFeed
  <2>2. next[c] \in Messages /\ next[c] # 0 /\ next[c] \in Nat /\ emitted \in Nat
        /\ chan[c] \in Seq(Messages)
    BY DEF TypeOK, Messages
  <2>3. \A e \in old : e \in Nat
    <3>1. Range(delivered[c]) \cup Range(db[c]) \cup Range(unpersisted[c])
            \cup Range(pending[c]) \cup Range(chan[c]) \subseteq Messages
      BY RangeOfSeq DEF TypeOK
    <3>2. held[c] \in Nat
      BY DEF TypeOK
    <3> QED BY <3>1, <3>2 DEF Contents, Messages
  <2>4. next[c] \notin old
    BY <2>1, <2>2, <2>3
  <2>5. next[c] \notin Range(delivered[c]) \cup Range(db[c]) \cup Range(unpersisted[c])
                         \cup Range(pending[c]) \cup Range(chan[c])
    BY <2>4 DEF Contents
  <2>6. /\ Range(Append(chan[c], next[c])) = Range(chan[c]) \cup {next[c]}
        /\ IsInjective(Append(chan[c], next[c]))
    BY <2>1, <2>2, <2>5, AppendInjects DEF Scattered
  <2>7. /\ next'[c] = next[c] + 1
        /\ \/ chan'[c] = Append(chan[c], next[c]) /\ held'[c] = 0
           \/ chan'[c] = chan[c] /\ held'[c] = next[c]
    BY <1>1 DEF TypeOK
  <2>8. DifferentEvents(c)'
    <3>1. /\ delivered'[c] = delivered[c] /\ db'[c] = db[c]
          /\ unpersisted'[c] = unpersisted[c] /\ pending'[c] = pending[c]
      OBVIOUS
    <3>2. held[c] = 0
      BY <1>1
    <3>3. Scattered(delivered[c], db[c], unpersisted[c], pending[c],
                    Append(chan[c], next[c]), 0)
      BY <2>1, <2>5, <2>6 DEF Scattered, Apart
    <3>4. Scattered(delivered[c], db[c], unpersisted[c], pending[c], chan[c], next[c])
      BY <2>1, <2>5 DEF Scattered
    <3> QED BY <2>7, <3>1, <3>3, <3>4 DEF DifferentEvents
  <2>9. new \subseteq old \cup {next[c]}
    BY <1>1, <2>6, <2>7 DEF Contents
  <2> HIDE DEF old, new
  <2>10. \A e \in new : e < next'[c]
    <3> TAKE e \in new
    <3>1. CASE e = next[c]
      BY <2>2, <2>7, <3>1
    <3>2. CASE e \in old
      BY <2>1, <2>2, <2>3, <2>7, <3>2
    <3> QED BY <2>9, <3>1, <3>2
  <2>11. next'[c] <= emitted' + 1
    BY <1>1, <2>2, <2>7
  <2> QED BY <1>3, <2>8, <2>10, <2>11 DEF BehindTheFeed, new
<1> QED BY <1>2, <1>3

LEMMA SendKeeps ==
  ASSUME TypeOK, DeliveryInv, NEW c \in Clients, Send(c),
         UNCHANGED <<db, unpersisted, pending, delivered>>, NEW x \in Clients
  PROVE  DifferentEvents(x)' /\ BehindTheFeed(x)'
<1>1. /\ UNCHANGED <<emitted, next>> /\ held[c] # 0
      /\ chan' = [chan EXCEPT ![c] = Append(@, held[c])]
      /\ held' = [held EXCEPT ![c] = 0]
  BY DEF Send
<1>2. CASE x # c
  <2>1. Untouched(x)
    BY <1>1, <1>2 DEF Untouched, TypeOK
  <2>2. emitted' \in Nat /\ emitted <= emitted' /\ next'[x] = next[x]
    BY <1>1 DEF TypeOK
  <2> QED BY <2>1, <2>2, UntouchedKept
<1>3. CASE x = c
  <2>1. Scattered(delivered[c], db[c], unpersisted[c], pending[c], chan[c], held[c])
    BY DEF DeliveryInv, DifferentEvents
  <2>2. held[c] \in Messages /\ chan[c] \in Seq(Messages) /\ held[c] \notin Range(chan[c])
    BY <1>1, <2>1 DEF TypeOK, Messages, Scattered
  <2>3. /\ Range(Append(chan[c], held[c])) = Range(chan[c]) \cup {held[c]}
        /\ IsInjective(Append(chan[c], held[c]))
    BY <2>1, <2>2, AppendInjects DEF Scattered
  <2>4. chan'[c] = Append(chan[c], held[c]) /\ held'[c] = 0
    BY <1>1 DEF TypeOK
  <2>5. DifferentEvents(c)'
    BY <1>1, <2>1, <2>3, <2>4 DEF DifferentEvents, Scattered, Apart
  <2>6. Contents(delivered[c], db[c], unpersisted[c], pending[c], chan[c], held[c])' \subseteq
          Contents(delivered[c], db[c], unpersisted[c], pending[c], chan[c], held[c])
    BY <1>1, <2>3, <2>4 DEF Contents
  <2> QED BY <1>1, <1>3, <2>5, <2>6, NothingNew
<1> QED BY <1>2, <1>3

LEMMA DeliveryStep ==
  TypeOK /\ SomethingToWrite /\ DeliveryInv /\ [Next]_vars => DeliveryInv'
<1> SUFFICES ASSUME TypeOK, SomethingToWrite, DeliveryInv, [Next]_vars, NEW x \in Clients
             PROVE  DifferentEvents(x)' /\ BehindTheFeed(x)'
  BY DEF DeliveryInv
<1>1. CASE UNCHANGED <<db, unpersisted, pending, delivered, emitted, next, chan, held>>
  <2>1. Untouched(x)
    BY <1>1 DEF Untouched
  <2> QED BY <1>1, <2>1, UntouchedKept DEF TypeOK
<1>2. CASE Http \/ TakeCreates \/ NextRound \/ UNCHANGED vars
  BY <1>1, <1>2 DEF Http, CallCreate, CallGet, Hangup, TakeCreates, NextRound,
                    vars, loopVars, sourceVars
<1>3. CASE \E c \in Clients : Drain(c) \/ ServeCreate(c) \/ Persist(c)
  BY <1>3, DrainKeeps, ServeCreateKeeps, PersistKeeps
<1>4. CASE ServeGets
  BY <1>4, ServeGetsKeeps
<1>5. ASSUME NEW c \in Clients, CreatePanics(c)
      PROVE  DifferentEvents(x)' /\ BehindTheFeed(x)'
  <2>1. /\ DropAllSources /\ pending' = Empty /\ unpersisted' = unpersisted
        /\ db' = db \/ db' = [db EXCEPT ![c] = <<>>]
        /\ delivered' = delivered
    BY <1>5 DEF CreatePanics, GetEvents, GetEventsFails
  <2> QED BY <2>1, ForgettingKeeps
<1>6. CASE Crash
  <2>1. /\ DropAllSources /\ pending' = Empty /\ unpersisted' = Empty
        /\ db' = db /\ delivered' = delivered
    BY <1>6 DEF Crash
  <2> QED BY <2>1, ForgettingKeeps
<1>7. CASE Feed
  <2>1. Untouched(x) /\ emitted' = emitted + 1 /\ next' = next
    BY <1>7 DEF Feed, Emit, loopVars, Untouched
  <2> QED BY <2>1, UntouchedKept DEF TypeOK
<1>8. ASSUME NEW c \in Clients, SourceTask(c)
      PROVE  DifferentEvents(x)' /\ BehindTheFeed(x)'
  <2>1. UNCHANGED <<db, unpersisted, pending, delivered>>
    BY <1>8 DEF SourceTask, loopVars
  <2>2. CASE Connect(c)
    <3>1. Untouched(x) /\ emitted' = emitted /\ (next'[x] = next[x] \/ next'[x] = emitted + 1)
      BY <2>1, <2>2 DEF Connect, FirstCarried, Untouched, TypeOK
    <3> QED BY <3>1, UntouchedKept DEF TypeOK
  <2>3. CASE Receive(c)
    BY <2>1, <2>3, ReceiveKeeps
  <2>4. CASE Send(c)
    BY <2>1, <2>4, SendKeeps
  <2>5. CASE Disconnect(c)
    BY <1>1, <2>1, <2>5 DEF Disconnect
  <2> QED BY <1>8, <2>2, <2>3, <2>4, <2>5 DEF SourceTask, SourceStep
<1> QED BY <1>2, <1>3, <1>4, <1>5, <1>6, <1>7, <1>8 DEF Next, Loop

LEMMA DeliveryInit == Init => DeliveryInv
<1> SUFFICES ASSUME Init, NEW c \in Clients PROVE DifferentEvents(c) /\ BehindTheFeed(c)
  BY DEF DeliveryInv
<1>1. /\ delivered[c] = <<>> /\ db[c] = <<>> /\ unpersisted[c] = <<>> /\ pending[c] = <<>>
      /\ chan[c] = <<>> /\ held[c] = 0 /\ next[c] = 1 /\ emitted = 0
  BY DEF Init, EventSourceInit, PersistenceInit, Empty
<1> QED BY <1>1, EmptyInjective
        DEF DifferentEvents, BehindTheFeed, Scattered, Apart, Contents

(* An event is in at most one place of a client, and is handed out at most *)
(* once, with any clients, faults, limits and capacity of the channel.     *)
THEOREM HandedOutAtMostOnce == Spec => []AtMostOnce
<1>1. TypeOK /\ DeliveryInv => AtMostOnce
  BY ScatteredTrail DEF DeliveryInv, AtMostOnce
<1> QED BY TypeInvariant, DeliveryInit, DeliveryStep, <1>1, PTL DEF Spec

-----------------------------------------------------------------------------
(* The batcher implements the mailbox of Delivery: every step of the loop, *)
(* the sources, the handlers and the faults is, for each client, a step of *)
(* its mailbox.                                                            *)

(* Nothing arrives for x and nothing is handed out: what it has stays or   *)
(* goes.                                                                   *)
OnlyShrinks(x) ==
  /\ next'[x] = next[x]
  /\ delivered'[x] = delivered[x]
  /\ Stock(x)' \subseteq Stock(x)

LEMMA ShrinkingLoses ==
  ASSUME NEW x \in Clients, OnlyShrinks(x)
  PROVE  Mailbox!Loses(x)
BY DEF OnlyShrinks, Mailbox!Loses

LEMMA UntouchedShrinks ==
  ASSUME NEW x \in Clients, Untouched(x), next'[x] = next[x]
  PROVE  OnlyShrinks(x)
BY DEF Untouched, OnlyShrinks, Stock

LEMMA DrainShrinks ==
  ASSUME TypeOK, NEW c \in Clients, Drain(c), NEW x \in Clients
  PROVE  OnlyShrinks(x)
<1>1. PICK restored \in {db[c], <<>>} :
        /\ \/ GetEvents(c) /\ restored = db[c]
           \/ GetEventsFails /\ restored = <<>>
        /\ pending' = [pending EXCEPT ![c] = Gathered(c, restored)]
  BY DEF Drain
<1>2. /\ UNCHANGED <<delivered, unpersisted, emitted, next>>
      /\ chan' = [chan EXCEPT ![c] = <<>>]
      /\ held' = held \/ held' = [held EXCEPT ![c] = 0]
  BY DEF Drain, EndStream, DropSource
<1>3. db' = db \/ db' = [db EXCEPT ![c] = <<>>]
  BY <1>1 DEF GetEvents, GetEventsFails
<1>4. CASE x # c
  <2>1. Untouched(x)
    BY <1>1, <1>2, <1>3, <1>4 DEF Untouched, TypeOK
  <2> QED BY <1>2, <2>1, UntouchedShrinks
<1>5. CASE x = c
  <2> DEFINE t == Decoded(chan[c])
  <2>1. t \in Seq(Messages) /\ Range(t) \subseteq Range(chan[c])
    BY DecodedIsPrefix, PrefixInjective DEF TypeOK
  <2>2. restored \in Seq(Messages) /\ Range(restored) \subseteq Range(db[c])
    BY EmptyInjective DEF TypeOK
  <2> HIDE DEF t
  <2>3. Range(pending[c] \o restored) = Range(pending[c]) \cup Range(restored)
        /\ pending[c] \o restored \in Seq(Messages)
    BY <2>2, ConcatInjective, ConcatProperties DEF TypeOK
  <2>4. Range(pending[c] \o restored \o t) = Range(pending[c]) \cup Range(restored) \cup Range(t)
    BY <2>1, <2>3, ConcatInjective
  <2>5. Range(pending'[c]) \subseteq Range(pending[c]) \cup Range(db[c]) \cup Range(chan[c])
    BY <1>1, <2>1, <2>2, <2>4 DEF Gathered, TypeOK, t
  <2>6. /\ chan'[c] = <<>> /\ held'[c] \in {held[c], 0} /\ db'[c] \in {db[c], <<>>}
        /\ delivered'[c] = delivered[c] /\ unpersisted'[c] = unpersisted[c]
    BY <1>2, <1>3 DEF TypeOK
  <2> QED BY <1>2, <1>5, <2>5, <2>6, EmptyInjective DEF OnlyShrinks, Stock
<1> QED BY <1>4, <1>5

LEMMA ServeCreateShrinks ==
  ASSUME TypeOK, NEW c \in Clients, ServeCreate(c), NEW x \in Clients
  PROVE  OnlyShrinks(x)
<1>1. /\ UNCHANGED <<delivered, unpersisted, emitted, next>>
      /\ chan' = [chan EXCEPT ![c] = <<>>]
      /\ held' = [held EXCEPT ![c] = 0]
      /\ db' = [db EXCEPT ![c] = <<>>]
      /\ pending' = [pending EXCEPT ![c] = db[c]]
  BY DEF ServeCreate, StartSource, GetEvents
<1>2. CASE x # c
  <2>1. Untouched(x)
    BY <1>1, <1>2 DEF Untouched, TypeOK
  <2> QED BY <1>1, <2>1, UntouchedShrinks
<1>3. CASE x = c
  <2>1. /\ chan'[c] = <<>> /\ held'[c] = 0 /\ db'[c] = <<>> /\ pending'[c] = db[c]
        /\ delivered'[c] = delivered[c] /\ unpersisted'[c] = unpersisted[c]
    BY <1>1 DEF TypeOK
  <2> QED BY <1>1, <1>3, <2>1, EmptyInjective DEF OnlyShrinks, Stock
<1> QED BY <1>2, <1>3

(* A panic or a crash. *)
LEMMA ForgettingShrinks ==
  ASSUME TypeOK, DropAllSources, pending' = Empty,
         unpersisted' = unpersisted \/ unpersisted' = Empty,
         NEW c, db' = db \/ db' = [db EXCEPT ![c] = <<>>],
         delivered' = delivered, NEW x \in Clients
  PROVE  OnlyShrinks(x)
<1>1. /\ chan'[x] = <<>> /\ held'[x] = 0 /\ pending'[x] = <<>>
      /\ unpersisted'[x] \in {unpersisted[x], <<>>}
      /\ db'[x] \in {db[x], <<>>} /\ delivered'[x] = delivered[x]
      /\ UNCHANGED <<emitted, next>>
  BY DEF DropAllSources, Empty, TypeOK
<1> QED BY <1>1, EmptyInjective DEF OnlyShrinks, Stock

LEMMA PersistShrinks ==
  ASSUME TypeOK, SomethingToWrite, NEW c \in Clients, Persist(c), NEW x \in Clients
  PROVE  OnlyShrinks(x)
<1> DEFINE e == Head(pending[c])
           rest == Tail(pending[c])
<1>1. UNCHANGED <<delivered, emitted, link, next, chan, held>>
  BY DEF Persist, sourceVars
<1>2. PICK refused \in {<<>>, <<e>>} :
        /\ \/ db' = [db EXCEPT ![c] = Append(@, e)]
           \/ db' = db
        /\ \/ /\ pending' = [pending EXCEPT ![c] = rest]
              /\ unpersisted' = [unpersisted EXCEPT ![c] = @ \o refused]
           \/ /\ pending' = [pending EXCEPT ![c] = unpersisted[c] \o refused]
              /\ unpersisted' = [unpersisted EXCEPT ![c] = <<>>]
  BY DEF Persist, AddEvent, AddEventFails
<1>3. CASE x # c
  <2>1. Untouched(x)
    BY <1>1, <1>2, <1>3 DEF Untouched, TypeOK
  <2> QED BY <1>1, <2>1, UntouchedShrinks
<1>4. CASE x = c
  <2>1. pending[c] # <<>> /\ pending[c] \in Seq(Messages)
    BY DEF Persist, SomethingToWrite, TypeOK
  <2>2. /\ e \in Messages /\ rest \in Seq(Messages)
        /\ Range(pending[c]) = {e} \cup Range(rest)
    BY <2>1, HeadTailProperties, HeadTailInject
  <2> HIDE DEF e, rest
  <2>3. refused \in Seq(Messages) /\ Range(refused) \subseteq {e}
    BY <1>2, <2>2, EmptyInjective, SingletonInjective
  <2>4. Range(unpersisted[c] \o refused) \subseteq Range(unpersisted[c]) \cup {e}
    BY <2>3, ConcatInjective DEF TypeOK
  <2>5. Range(db'[c]) \subseteq Range(db[c]) \cup {e}
    <3>1. Range(Append(db[c], e)) = Range(db[c]) \cup {e}
      BY <2>2, AppendInjects DEF TypeOK
    <3> QED BY <1>2, <3>1 DEF TypeOK
  <2>6. \/ pending'[c] = rest /\ unpersisted'[c] = unpersisted[c] \o refused
        \/ pending'[c] = unpersisted[c] \o refused /\ unpersisted'[c] = <<>>
    BY <1>2 DEF TypeOK
  <2>7. Range(pending'[c]) \cup Range(unpersisted'[c]) \subseteq
          Range(pending[c]) \cup Range(unpersisted[c])
    BY <2>2, <2>4, <2>6, EmptyInjective
  <2> QED BY <1>1, <1>4, <2>2, <2>5, <2>7 DEF OnlyShrinks, Stock
<1> QED BY <1>3, <1>4

LEMMA SendShrinks ==
  ASSUME TypeOK, NEW c \in Clients, Send(c),
         UNCHANGED <<db, unpersisted, pending, delivered>>, NEW x \in Clients
  PROVE  OnlyShrinks(x)
<1>1. /\ UNCHANGED <<emitted, next>> /\ held[c] # 0
      /\ chan' = [chan EXCEPT ![c] = Append(@, held[c])]
      /\ held' = [held EXCEPT ![c] = 0]
  BY DEF Send
<1>2. CASE x # c
  BY <1>1, <1>2, UntouchedShrinks DEF Untouched, TypeOK
<1>3. CASE x = c
  <2>1. held[c] \in Messages /\ chan[c] \in Seq(Messages)
    BY <1>1 DEF TypeOK, Messages
  <2>2. Range(Append(chan[c], held[c])) = Range(chan[c]) \cup {held[c]}
    BY <2>1, AppendInjects
  <2>3. chan'[c] = Append(chan[c], held[c]) /\ held'[c] = 0
    BY <1>1 DEF TypeOK
  <2> QED BY <1>1, <1>3, <2>2, <2>3 DEF OnlyShrinks, Stock
<1> QED BY <1>2, <1>3

-----------------------------------------------------------------------------
(* The steps that do not only shrink *)

LEMMA ReceiveReads ==
  ASSUME TypeOK, NEW c \in Clients, Receive(c),
         UNCHANGED <<db, unpersisted, pending, delivered>>
  PROVE  Mailbox!Reads(c)
<1>1. /\ next' = [next EXCEPT ![c] = @ + 1]
      /\ held[c] = 0
      /\ \/ chan' = [chan EXCEPT ![c] = Append(@, next[c])] /\ held' = held
         \/ held' = [held EXCEPT ![c] = next[c]] /\ chan' = chan
  BY DEF Receive
<1>2. next[c] \in Messages /\ next[c] # 0 /\ chan[c] \in Seq(Messages)
  BY DEF TypeOK, Messages
<1>3. Range(Append(chan[c], next[c])) = Range(chan[c]) \cup {next[c]}
  BY <1>2, AppendInjects
<1>4. \/ chan'[c] = Append(chan[c], next[c]) /\ held'[c] = 0
      \/ chan'[c] = chan[c] /\ held'[c] = next[c]
  BY <1>1 DEF TypeOK
<1>5. Stock(c)' = Stock(c) \cup {next[c]}
  BY <1>1, <1>2, <1>3, <1>4 DEF Stock
<1>6. next'[c] = next[c] + 1 /\ delivered'[c] = delivered[c]
  BY <1>1 DEF TypeOK
<1> QED BY <1>5, <1>6 DEF Mailbox!Reads

LEMMA ConnectSkips ==
  ASSUME TypeOK, DeliveryInv, NEW c \in Clients, Connect(c),
         UNCHANGED <<db, unpersisted, pending, delivered>>
  PROVE  Mailbox!Skips(c)
<1>1. next'[c] = emitted + 1 /\ UNCHANGED <<chan, held>>
  BY DEF Connect, FirstCarried, TypeOK
<1>2. next[c] <= emitted + 1 /\ emitted \in Nat
  BY DEF DeliveryInv, BehindTheFeed, TypeOK
<1>3. Stock(c)' = Stock(c) /\ delivered'[c] = delivered[c]
  BY <1>1 DEF Stock
<1> QED BY <1>1, <1>2, <1>3 DEF Mailbox!Skips

(* What is behind a prefix of a concatenation. *)
LEMMA TailOfConcat ==
  ASSUME NEW s \in Seq(Messages), NEW t \in Seq(Messages)
  PROVE  SubSeq(s \o t, Len(s) + 1, Len(s \o t)) = t
<1> DEFINE st == s \o t
           r == SubSeq(st, Len(s) + 1, Len(st))
<1>1. /\ st \in Seq(Messages) /\ Len(st) = Len(s) + Len(t)
      /\ \A i \in 1..(Len(s) + Len(t)) : st[i] = IF i <= Len(s) THEN s[i] ELSE t[i - Len(s)]
      /\ Len(s) \in Nat /\ Len(t) \in Nat
  BY ConcatProperties, LenProperties
<1> HIDE DEF st
<1>2. \A i \in (Len(s) + 1)..Len(st) : st[i] \in Messages
  BY <1>1, ElementOfSeq
<1>3. /\ r \in Seq(Messages) /\ Len(r) = Len(t)
      /\ \A i \in 1..Len(t) : r[i] = st[Len(s) + i]
  BY <1>1, <1>2, SubSeqProperties
<1>4. \A i \in 1..Len(t) : r[i] = t[i]
  BY <1>1, <1>3
<1> HIDE DEF r
<1>5. r = t
  BY <1>3, <1>4, SeqEqual
<1> QED BY <1>5 DEF r, st

LEMMA ServeGetsHandsOut ==
  ASSUME TypeOK, DeliveryInv, DeliveryInv', ServeGets, NEW x \in Clients
  PROVE  Mailbox!Loses(x) \/ Mailbox!HandsOut(x)
<1>1. /\ UNCHANGED <<db, unpersisted, emitted, next, chan, held>>
      /\ delivered'[x] = IF getReq[x] \in Callers /\ known[x]
                         THEN delivered[x] \o Batch(pending[x], getLimit[x])
                         ELSE delivered[x]
      /\ pending'[x] = IF getReq[x] = NoCall THEN pending[x] ELSE <<>>
  BY DEF ServeGets, sourceVars
<1>2. Stock(x)' \subseteq Stock(x)
  BY <1>1, EmptyInjective DEF Stock
<1>3. CASE ~(getReq[x] \in Callers /\ known[x])
  <2>1. OnlyShrinks(x)
    BY <1>1, <1>2, <1>3 DEF OnlyShrinks
  <2> QED BY <2>1, ShrinkingLoses
<1>4. CASE getReq[x] \in Callers /\ known[x]
  <2> DEFINE t == Batch(pending[x], getLimit[x])
  <2>1. /\ t \in Seq(Messages) /\ Len(t) <= Len(pending[x])
        /\ \A i \in 1..Len(t) : t[i] = pending[x][i]
    BY BatchIsPrefix DEF TypeOK
  <2> HIDE DEF t
  <2>2. IsInjective(pending[x]) /\ pending[x] \in Seq(Messages) /\ delivered[x] \in Seq(Messages)
    BY DEF TypeOK, DeliveryInv, DifferentEvents, Scattered
  <2>3. Range(t) \subseteq Range(pending[x]) /\ IsInjective(t)
    BY <2>1, <2>2, PrefixInjective
  <2>4. delivered'[x] = delivered[x] \o t
    BY <1>1, <1>4 DEF t
  <2>5. Mailbox!Parcel(x) = t
    BY <2>1, <2>2, <2>4, TailOfConcat DEF Mailbox!Parcel
  <2>6. Range(t) \subseteq Range(delivered'[x])
    BY <2>1, <2>2, <2>4, ConcatInjective
  <2>7. Stock(x)' \cap Range(delivered'[x]) = {}
    <3>1. Scattered(delivered[x], db[x], unpersisted[x], pending[x], chan[x], held[x])'
      BY DEF DeliveryInv, DifferentEvents
    <3> QED BY <3>1 DEF Scattered, Apart, Stock
  <2>8. Stock(x)' \subseteq Stock(x) \ Range(t) /\ Range(t) \subseteq Stock(x)
    BY <1>2, <2>3, <2>6, <2>7 DEF Stock
  <2>9. Mailbox!HandsOut(x)
    <3>1. next'[x] = next[x] /\ delivered'[x] = delivered[x] \o Mailbox!Parcel(x)
      BY <1>1, <2>4, <2>5
    <3>2. IsInjective(Mailbox!Parcel(x))
      BY <2>3, <2>5
    <3>3. /\ Range(Mailbox!Parcel(x)) \subseteq Stock(x)
          /\ Stock(x)' \subseteq Stock(x) \ Range(Mailbox!Parcel(x))
      BY <2>5, <2>8
    <3>4. /\ Mailbox!Range(Mailbox!Parcel(x)) = Range(Mailbox!Parcel(x))
          /\ Mailbox!IsInjective(Mailbox!Parcel(x)) <=> IsInjective(Mailbox!Parcel(x))
      BY DEF Mailbox!Range, Mailbox!IsInjective, Range, IsInjective
    <3> QED BY <3>1, <3>2, <3>3, <3>4 DEF Mailbox!HandsOut
  <2> QED BY <2>9
<1> QED BY <1>3, <1>4

-----------------------------------------------------------------------------
(* The refinement *)

LEMMA MailboxStep ==
  TypeOK /\ SomethingToWrite /\ DeliveryInv /\ DeliveryInv' /\ [Next]_vars => Mailbox!Next
<1> SUFFICES ASSUME TypeOK, SomethingToWrite, DeliveryInv, DeliveryInv', [Next]_vars,
                    NEW x \in Clients
             PROVE  \/ Mailbox!Reads(x) \/ Mailbox!Skips(x)
                    \/ Mailbox!Loses(x) \/ Mailbox!HandsOut(x)
  BY DEF Mailbox!Next
<1>1. CASE UNCHANGED <<db, unpersisted, pending, delivered, next, chan, held>>
  BY <1>1, UntouchedShrinks, ShrinkingLoses DEF Untouched
<1>2. CASE Http \/ TakeCreates \/ NextRound \/ Feed \/ UNCHANGED vars
  BY <1>1, <1>2 DEF Http, CallCreate, CallGet, Hangup, TakeCreates, NextRound, Feed, Emit,
                    vars, loopVars, sourceVars
<1>3. CASE \E c \in Clients : Drain(c) \/ ServeCreate(c) \/ Persist(c)
  BY <1>3, DrainShrinks, ServeCreateShrinks, PersistShrinks, ShrinkingLoses
<1>4. CASE ServeGets
  BY <1>4, ServeGetsHandsOut
<1>5. ASSUME NEW c \in Clients, CreatePanics(c)
      PROVE  Mailbox!Loses(x)
  <2>1. /\ DropAllSources /\ pending' = Empty /\ unpersisted' = unpersisted
        /\ db' = db \/ db' = [db EXCEPT ![c] = <<>>]
        /\ delivered' = delivered
    BY <1>5 DEF CreatePanics, GetEvents, GetEventsFails
  <2> QED BY <2>1, ForgettingShrinks, ShrinkingLoses
<1>6. CASE Crash
  <2>1. /\ DropAllSources /\ pending' = Empty /\ unpersisted' = Empty
        /\ db' = db /\ delivered' = delivered
    BY <1>6 DEF Crash
  <2> QED BY <2>1, ForgettingShrinks, ShrinkingLoses
<1>7. ASSUME NEW c \in Clients, SourceTask(c)
      PROVE  Mailbox!Reads(x) \/ Mailbox!Skips(x) \/ Mailbox!Loses(x)
  <2>1. UNCHANGED <<db, unpersisted, pending, delivered>>
    BY <1>7 DEF SourceTask, loopVars
  <2>2. CASE x # c /\ (Connect(c) \/ Receive(c))
    <3>1. Untouched(x) /\ next'[x] = next[x]
      BY <2>1, <2>2 DEF Connect, Receive, Untouched, TypeOK
    <3> QED BY <3>1, UntouchedShrinks, ShrinkingLoses
  <2>3. CASE x = c /\ Connect(c)
    BY <2>1, <2>3, ConnectSkips
  <2>4. CASE x = c /\ Receive(c)
    BY <2>1, <2>4, ReceiveReads
  <2>5. CASE Send(c)
    BY <2>1, <2>5, SendShrinks, ShrinkingLoses
  <2>6. CASE Disconnect(c)
    <3>1. Untouched(x) /\ next'[x] = next[x]
      BY <2>1, <2>6 DEF Disconnect, Untouched
    <3> QED BY <3>1, UntouchedShrinks, ShrinkingLoses
  <2> QED BY <1>7, <2>2, <2>3, <2>4, <2>5, <2>6 DEF SourceTask, SourceStep
<1> QED BY <1>2, <1>3, <1>4, <1>5, <1>6, <1>7 DEF Next, Loop

LEMMA MailboxInit == Init => Mailbox!Init
<1> SUFFICES ASSUME Init PROVE Mailbox!Init
  OBVIOUS
<1>1. next = [c \in Clients |-> 1] /\ delivered = [c \in Clients |-> <<>>]
  BY DEF Init, EventSourceInit, Empty
<1>2. \A c \in Clients : Stock(c) = {}
  BY EmptyInjective DEF Init, EventSourceInit, PersistenceInit, Empty, Stock
<1> QED BY <1>1, <1>2 DEF Mailbox!Init

(* With any clients, faults, limits, malformed messages and capacity of    *)
(* the channel, the batcher is a mailbox: what it hands out waited for     *)
(* that client, leaves for good, and is in the parcel once.                *)
THEOREM BatcherImplementsDelivery == Spec => ImplementsDelivery
BY TypeInvariant, DeliveryInit, DeliveryStep, MailboxInit, MailboxStep, PTL
   DEF Spec, ImplementsDelivery, Mailbox!Spec

-----------------------------------------------------------------------------
(* What is lost, and how *)

(* The events of a client, wherever they are. *)
Everything(c) ==
  Contents(delivered[c], db[c], unpersisted[c], pending[c], chan[c], held[c])

LEMMA TrailContents ==
  ASSUME TypeOK, NEW c \in Clients
  PROVE  /\ Trail(c) \in Seq(Messages)
         /\ Range(Trail(c)) = Everything(c)
<1> DEFINE d == delivered[c]
           b == db[c]
           u == unpersisted[c]
           p == pending[c]
           q == chan[c]
           h == Blocked(c)
<1>1. /\ d \in Seq(Messages) /\ b \in Seq(Messages) /\ u \in Seq(Messages)
      /\ p \in Seq(Messages) /\ q \in Seq(Messages)
  BY DEF TypeOK
<1>2. h \in Seq(Messages) /\ Range(h) = {held[c]} \ {0}
  BY BlockedType
<1> HIDE DEF d, b, u, p, q, h
<1>3. d \o b \in Seq(Messages) /\ Range(d \o b) = Range(d) \cup Range(b)
  BY <1>1, ConcatProperties, ConcatInjective
<1>4. d \o b \o u \in Seq(Messages) /\ Range(d \o b \o u) = Range(d) \cup Range(b) \cup Range(u)
  BY <1>1, <1>3, ConcatProperties, ConcatInjective
<1>5. /\ d \o b \o u \o p \in Seq(Messages)
      /\ Range(d \o b \o u \o p) = Range(d) \cup Range(b) \cup Range(u) \cup Range(p)
  BY <1>1, <1>4, ConcatProperties, ConcatInjective
<1>6. /\ d \o b \o u \o p \o q \in Seq(Messages)
      /\ Range(d \o b \o u \o p \o q) =
           Range(d) \cup Range(b) \cup Range(u) \cup Range(p) \cup Range(q)
  BY <1>1, <1>5, ConcatProperties, ConcatInjective
<1>7. /\ d \o b \o u \o p \o q \o h \in Seq(Messages)
      /\ Range(d \o b \o u \o p \o q \o h) =
           Range(d) \cup Range(b) \cup Range(u) \cup Range(p) \cup Range(q) \cup Range(h)
  BY <1>2, <1>6, ConcatProperties, ConcatInjective
<1> QED BY <1>2, <1>7 DEF Trail, Everything, Contents, d, b, u, p, q, h

TrailIsEverything == \A c \in Clients : Range(Trail(c)) = Everything(c)

LEMMA TrailRange == TypeOK => TrailIsEverything
BY TrailContents DEF TrailIsEverything

(* What is in front of the first error is decoded. *)
LEMMA DecodedHasTheFirst ==
  ASSUME NEW q \in Seq(Messages), NEW i \in DOMAIN q, i < FirstError(q)
  PROVE  q[i] \in Range(Decoded(q))
<1> DEFINE n == FirstError(q) - 1
<1>1. /\ Len(q) \in Nat /\ DOMAIN q = 1..Len(q)
      /\ FirstError(q) \in 1..(Len(q) + 1)
  BY LenProperties, FirstErrorType
<1>2. n \in 0..Len(q) /\ i \in 1..n
  BY <1>1
<1> HIDE DEF n
<1>3. \A j \in 1..n : q[j] \in Messages
  BY <1>1, <1>2, ElementOfSeq
<1>4. Len(SubSeq(q, 1, n)) = n /\ (\A j \in 1..n : SubSeq(q, 1, n)[j] = q[j])
      /\ SubSeq(q, 1, n) \in Seq(Messages)
  BY <1>2, <1>3, SubSeqProperties
<1>5. i \in DOMAIN SubSeq(q, 1, n) /\ SubSeq(q, 1, n)[i] = q[i]
  BY <1>2, <1>4, LenProperties
<1> QED BY <1>5 DEF Decoded, n, Range

(* What is within the limit is in the batch. *)
LEMMA BatchHasTheFirst ==
  ASSUME NEW q \in Seq(Messages), NEW l \in Limits \cup {NoLimit}, NEW i \in DOMAIN q,
         l # NoLimit => i <= l
  PROVE  q[i] \in Range(Batch(q, l))
<1>1. Len(q) \in Nat /\ DOMAIN q = 1..Len(q)
  BY LenProperties
<1>2. CASE l = NoLimit
  BY <1>2 DEF Batch, Range
<1>3. CASE l # NoLimit
  <2> DEFINE n == Min({l, Len(q)})
  <2>1. l \in Nat
    BY <1>3, LimitsAssumption
  <2>2. n \in {l, Len(q)} /\ n <= Len(q)
    BY <1>1, <2>1, MinOfNat
  <2>3. n \in 0..Len(q) /\ i \in 1..n
    BY <1>1, <1>3, <2>1, <2>2
  <2> HIDE DEF n
  <2>4. \A j \in 1..n : q[j] \in Messages
    BY <1>1, <2>3, ElementOfSeq
  <2>5. /\ Len(SubSeq(q, 1, n)) = n /\ SubSeq(q, 1, n) \in Seq(Messages)
        /\ \A j \in 1..n : SubSeq(q, 1, n)[j] = q[j]
    BY <2>3, <2>4, SubSeqProperties
  <2>6. i \in DOMAIN SubSeq(q, 1, n) /\ SubSeq(q, 1, n)[i] = q[i]
    BY <2>3, <2>5, LenProperties
  <2> QED BY <1>3, <2>6 DEF Batch, n, Range
<1> QED BY <1>2, <1>3

(* An event that the step does not take out of the hands of the client, or *)
(* takes in one of the named ways.                                         *)
Explained(x, e) ==
  \/ e \in Everything(x)'
  \/ ProcessDied
  \/ ReplacedBatcher(x, e)
  \/ DroppedByGet(x, e)
  \/ BehindAnError(x, e)

LEMMA DrainExplained ==
  ASSUME TypeOK, StreamInv, NEW c \in Clients, Drain(c),
         NEW x \in Clients, NEW e \in Everything(x)
  PROVE  Explained(x, e)
<1>1. PICK restored \in {db[c], <<>>} :
        /\ \/ GetEvents(c) /\ restored = db[c]
           \/ GetEventsFails /\ restored = <<>>
        /\ pending' = [pending EXCEPT ![c] = Gathered(c, restored)]
  BY DEF Drain
<1>2. /\ UNCHANGED <<delivered, unpersisted>>
      /\ chan' = [chan EXCEPT ![c] = <<>>]
      /\ held' = held \/ held' = [held EXCEPT ![c] = 0]
  BY DEF Drain, EndStream, DropSource
<1>3. db' = db \/ db' = [db EXCEPT ![c] = <<>>]
  BY <1>1 DEF GetEvents, GetEventsFails
<1>4. CASE x # c
  <2>1. Untouched(x)
    BY <1>1, <1>2, <1>3, <1>4 DEF Untouched, TypeOK
  <2> QED BY <2>1 DEF Untouched, Explained, Everything
<1>5. CASE x = c
  <2> DEFINE t == Decoded(chan[c])
  <2>1. t \in Seq(Messages) /\ chan[c] \in Seq(Messages) /\ pending[c] \in Seq(Messages)
    BY DecodedIsPrefix DEF TypeOK
  <2>2. restored \in Seq(Messages)
    BY EmptyInjective DEF TypeOK
  <2>3. \A i \in DOMAIN chan[c] : i < FirstError(chan[c]) => chan[c][i] \in Range(t)
    BY <2>1, DecodedHasTheFirst
  <2> HIDE DEF t
  <2>4. Range(pending'[c]) = Range(pending[c]) \cup Range(restored) \cup Range(t)
    <3>1. /\ Range(pending[c] \o restored) = Range(pending[c]) \cup Range(restored)
          /\ pending[c] \o restored \in Seq(Messages)
      BY <2>1, <2>2, ConcatInjective, ConcatProperties
    <3>2. Range(pending[c] \o restored \o t) = Range(pending[c]) \cup Range(restored) \cup Range(t)
      BY <2>1, <3>1, ConcatInjective
    <3> QED BY <1>1, <3>2 DEF Gathered, TypeOK, t
  <2>5. Range(db[c]) \subseteq Range(restored) \cup Range(db'[c])
    BY <1>1 DEF GetEvents, GetEventsFails
  <2>6. CASE e \in Range(delivered[c]) \cup Range(unpersisted[c]) \cup Range(pending[c])
                    \cup Range(db[c]) \cup Range(t)
    BY <1>2, <1>5, <2>4, <2>5, <2>6 DEF Explained, Everything, Contents
  <2>7. CASE e \in Range(chan[c]) \ Range(t)
    <3>1. PICK i \in DOMAIN chan[c] : e = chan[c][i] /\ ~(i < FirstError(chan[c]))
      BY <2>3, <2>7 DEF Range
    <3>2. /\ i \in Nat /\ Len(chan[c]) \in Nat /\ i <= Len(chan[c])
          /\ FirstError(chan[c]) \in Nat
      BY <2>1, LenProperties, FirstErrorType
    <3>3. HasError(chan[c]) /\ i \in FirstError(chan[c])..Len(chan[c])
      BY <3>1, <3>2 DEF HasError
    <3>4. c \in streams /\ streams' = streams \ {c}
      BY <3>3 DEF Drain, EndStream, StreamInv, DrainVisitsStreams
    <3> QED BY <1>5, <3>1, <3>3, <3>4 DEF Explained, BehindAnError
  <2>8. CASE e \in {held[c]} \ {0}
    <3>1. CASE held'[c] = held[c]
      BY <1>5, <2>8, <3>1 DEF Explained, Everything, Contents
    <3>2. CASE held'[c] # held[c]
      <4>1. EndStream(c) /\ c \in streams /\ streams' = streams \ {c}
        BY <3>2 DEF Drain, EndStream, StreamInv, DrainVisitsStreams
      <4> QED BY <1>5, <2>8, <4>1 DEF Explained, BehindAnError
    <3> QED BY <3>1, <3>2
  <2> QED BY <1>5, <2>6, <2>7, <2>8 DEF Everything, Contents
<1> QED BY <1>4, <1>5

LEMMA ServeCreateExplained ==
  ASSUME TypeOK, NEW c \in Clients, ServeCreate(c), NEW x \in Clients, NEW e \in Everything(x)
  PROVE  Explained(x, e)
<1>1. /\ UNCHANGED <<delivered, unpersisted>>
      /\ chan' = [chan EXCEPT ![c] = <<>>]
      /\ held' = [held EXCEPT ![c] = 0]
      /\ db' = [db EXCEPT ![c] = <<>>]
      /\ pending' = [pending EXCEPT ![c] = db[c]]
      /\ creating[c] # NoCall /\ creating' = [creating EXCEPT ![c] = NoCall]
  BY CallersAssumption DEF ServeCreate, StartSource, GetEvents
<1>2. CASE x # c
  <2>1. Untouched(x)
    BY <1>1, <1>2 DEF Untouched, TypeOK
  <2> QED BY <2>1 DEF Untouched, Explained, Everything
<1>3. CASE x = c
  <2>1. CASE e \in Range(delivered[c]) \cup Range(unpersisted[c]) \cup Range(db[c])
    <3>1. /\ delivered'[c] = delivered[c] /\ unpersisted'[c] = unpersisted[c]
          /\ pending'[c] = db[c]
      BY <1>1 DEF TypeOK
    <3> QED BY <1>3, <2>1, <3>1 DEF Explained, Everything, Contents
  <2>2. CASE e \in Range(pending[c]) \cup Range(chan[c]) \cup {held[c]}
    <3>1. creating'[c] = NoCall
      BY <1>1 DEF TypeOK
    <3> QED BY <1>1, <1>3, <2>2, <3>1 DEF Explained, ReplacedBatcher
  <2> QED BY <1>3, <2>1, <2>2 DEF Everything, Contents
<1> QED BY <1>2, <1>3

LEMMA ServeGetsExplained ==
  ASSUME TypeOK, StreamInv, ServeGets, NEW x \in Clients, NEW e \in Everything(x)
  PROVE  Explained(x, e)
<1>1. /\ UNCHANGED <<db, unpersisted, chan, held>>
      /\ delivered'[x] = IF getReq[x] \in Callers /\ known[x]
                         THEN delivered[x] \o Batch(pending[x], getLimit[x])
                         ELSE delivered[x]
      /\ pending'[x] = IF getReq[x] = NoCall THEN pending[x] ELSE <<>>
      /\ getReq'[x] = NoCall
  BY DEF ServeGets, sourceVars, NoCalls
<1> DEFINE t == Batch(pending[x], getLimit[x])
<1>2. /\ t \in Seq(Messages) /\ delivered[x] \in Seq(Messages) /\ pending[x] \in Seq(Messages)
      /\ getLimit[x] \in Limits \cup {NoLimit}
  BY BatchIsPrefix DEF TypeOK
<1>3. \A i \in DOMAIN pending[x] :
        (getLimit[x] # NoLimit => i <= getLimit[x]) => pending[x][i] \in Range(t)
  BY <1>2, BatchHasTheFirst
<1>4. Range(delivered[x] \o t) = Range(delivered[x]) \cup Range(t)
  BY <1>2, ConcatInjective
<1> HIDE DEF t
<1>5. CASE e \notin Range(pending[x]) \/ getReq[x] = NoCall
  <2>1. Range(delivered[x]) \subseteq Range(delivered'[x])
    BY <1>1, <1>4 DEF t
  <2>2. e \in Range(pending[x]) => pending'[x] = pending[x]
    BY <1>1, <1>5
  <2> QED BY <1>1, <2>1, <2>2 DEF Explained, Everything, Contents
<1>6. CASE e \in Range(pending[x]) /\ getReq[x] # NoCall
  <2>1. PICK i \in DOMAIN pending[x] : pending[x][i] = e
    BY <1>6 DEF Range
  <2>2. i \in Nat
    BY <1>2, <2>1, LenProperties
  <2>3. CASE getReq[x] = Gone
    BY <1>1, <1>6, <2>1, <2>3 DEF Explained, DroppedByGet
  <2>4. CASE getReq[x] # Gone
    <3>1. getReq[x] \in Callers
      BY <1>6, <2>4 DEF TypeOK, Slot
    <3>2. known[x]
      <4>1. pending[x] # <<>>
        BY <1>6, EmptyInjective
      <4> QED BY <4>1 DEF StreamInv, DeadStreamsAreFlagged
    <3>3. delivered'[x] = delivered[x] \o t
      BY <1>1, <3>1, <3>2 DEF t
    <3>4. CASE e \in Range(t)
      BY <1>4, <3>3, <3>4 DEF Explained, Everything, Contents
    <3>5. CASE e \notin Range(t)
      <4>1. getLimit[x] # NoLimit /\ ~(i <= getLimit[x])
        BY <1>3, <2>1, <3>5
      <4>2. getLimit[x] \in Nat
        BY <1>2, <4>1, LimitsAssumption
      <4>3. getLimit[x] < i
        BY <2>2, <4>1, <4>2
      <4> QED BY <1>1, <1>6, <2>1, <4>3 DEF Explained, DroppedByGet
    <3> QED BY <3>4, <3>5
  <2> QED BY <2>3, <2>4
<1> QED BY <1>5, <1>6

LEMMA PersistExplained ==
  ASSUME TypeOK, SomethingToWrite, NEW c \in Clients, Persist(c),
         NEW x \in Clients, NEW m \in Everything(x)
  PROVE  Explained(x, m)
<1> DEFINE e == Head(pending[c])
           rest == Tail(pending[c])
<1>1. UNCHANGED <<delivered, chan, held>>
  BY DEF Persist, sourceVars
<1>2. PICK refused \in {<<>>, <<e>>} :
        /\ \/ db' = [db EXCEPT ![c] = Append(@, e)] /\ refused = <<>>
           \/ db' = db /\ refused = <<e>>
        /\ \/ /\ pending' = [pending EXCEPT ![c] = rest]
              /\ unpersisted' = [unpersisted EXCEPT ![c] = @ \o refused]
           \/ /\ rest = <<>>
              /\ pending' = [pending EXCEPT ![c] = unpersisted[c] \o refused]
              /\ unpersisted' = [unpersisted EXCEPT ![c] = <<>>]
  BY DEF Persist, AddEvent, AddEventFails
<1>3. CASE x # c
  <2>1. Untouched(x)
    BY <1>1, <1>2, <1>3 DEF Untouched, TypeOK
  <2> QED BY <2>1 DEF Untouched, Explained, Everything
<1>4. CASE x = c
  <2>1. pending[c] # <<>> /\ pending[c] \in Seq(Messages)
    BY DEF Persist, SomethingToWrite, TypeOK
  <2>2. /\ e \in Messages /\ rest \in Seq(Messages)
        /\ Range(pending[c]) = {e} \cup Range(rest)
    BY <2>1, HeadTailProperties, HeadTailInject
  <2> HIDE DEF e, rest
  <2>3. /\ refused \in Seq(Messages) /\ <<e>> # <<>>
        /\ Range(refused) = IF refused = <<>> THEN {} ELSE {e}
    BY <1>2, <2>2, EmptyInjective, SingletonInjective
  <2>4. Range(unpersisted[c] \o refused) = Range(unpersisted[c]) \cup Range(refused)
    BY <2>3, ConcatInjective DEF TypeOK
  <2>5. Range(db'[c]) = Range(db[c]) \cup (IF refused = <<>> THEN {e} ELSE {})
    <3>1. Range(Append(db[c], e)) = Range(db[c]) \cup {e}
      BY <2>2, AppendInjects DEF TypeOK
    <3>2. \/ db'[c] = Append(db[c], e) /\ refused = <<>>
          \/ db'[c] = db[c] /\ refused # <<>>
      BY <1>2, <2>3 DEF TypeOK
    <3> QED BY <3>1, <3>2
  <2>6. \/ pending'[c] = rest /\ unpersisted'[c] = unpersisted[c] \o refused
        \/ rest = <<>> /\ pending'[c] = unpersisted[c] \o refused /\ unpersisted'[c] = <<>>
    BY <1>2 DEF TypeOK
  <2>7. Range(db[c]) \cup Range(unpersisted[c]) \cup Range(pending[c]) \subseteq
          Range(db'[c]) \cup Range(unpersisted'[c]) \cup Range(pending'[c])
    <3>1. Range(rest) \cup Range(unpersisted[c] \o refused) \subseteq
            Range(unpersisted'[c]) \cup Range(pending'[c])
      BY <2>6, EmptyInjective
    <3> QED BY <2>2, <2>3, <2>4, <2>5, <3>1
  <2> QED BY <1>1, <1>4, <2>7 DEF Explained, Everything, Contents
<1> QED BY <1>3, <1>4

LEMMA SourceExplained ==
  ASSUME TypeOK, NEW c \in Clients, SourceTask(c), NEW x \in Clients, NEW e \in Everything(x)
  PROVE  Explained(x, e)
<1>1. UNCHANGED <<db, unpersisted, pending, delivered>>
  BY DEF SourceTask, loopVars
<1>2. CASE Connect(c) \/ Disconnect(c) \/ (x # c /\ (Receive(c) \/ Send(c)))
  <2>1. chan'[x] = chan[x] /\ held'[x] = held[x]
    BY <1>2 DEF Connect, Disconnect, Receive, Send, TypeOK
  <2> QED BY <1>1, <2>1 DEF Explained, Everything
<1>3. CASE x = c /\ (Receive(c) \/ Send(c))
  <2>1. PICK m \in Messages :
          \/ held[c] = m /\ held'[c] = 0 /\ chan'[c] = Append(chan[c], m)
          \/ held[c] = 0 /\ chan'[c] = Append(chan[c], m)
          \/ held[c] = 0 /\ chan'[c] = chan[c]
    BY <1>3 DEF Receive, Send, TypeOK, Messages
  <2>2. Range(Append(chan[c], m)) = Range(chan[c]) \cup {m}
    BY AppendInjects DEF TypeOK
  <2> QED BY <1>1, <1>3, <2>1, <2>2 DEF Explained, Everything, Contents
<1> QED BY <1>2, <1>3 DEF SourceTask, SourceStep

LEMMA LossStep ==
  ASSUME TypeOK, SomethingToWrite, StreamInv, TypeOK', Next,
         NEW c \in Clients, NEW e \in Kept(c)
  PROVE  \/ e \in Kept(c)'
         \/ ProcessDied
         \/ ReplacedBatcher(c, e)
         \/ DroppedByGet(c, e)
         \/ BehindAnError(c, e)
<1>1. e \in Everything(c) /\ e \notin Malformed
  BY TrailContents DEF Kept
<1>2. Explained(c, e)
  <2>1. CASE UNCHANGED <<db, unpersisted, pending, delivered, chan, held>>
    BY <1>1, <2>1 DEF Explained, Everything
  <2>2. CASE Http \/ TakeCreates \/ NextRound \/ Feed
    BY <2>1, <2>2 DEF Http, CallCreate, CallGet, Hangup, TakeCreates, NextRound, Feed, Emit,
                      loopVars, sourceVars
  <2>3. CASE Crash \/ \E x \in Clients : CreatePanics(x)
    BY <2>3 DEF Explained, ProcessDied, CreatePanics
  <2>4. CASE \E x \in Clients : Drain(x)
    BY <1>1, <2>4, DrainExplained
  <2>5. CASE \E x \in Clients : ServeCreate(x)
    BY <1>1, <2>5, ServeCreateExplained
  <2>6. CASE ServeGets
    BY <1>1, <2>6, ServeGetsExplained
  <2>7. CASE \E x \in Clients : Persist(x)
    BY <1>1, <2>7, PersistExplained
  <2>8. CASE \E x \in Clients : SourceTask(x)
    BY <1>1, <2>8, SourceExplained
  <2> QED BY <2>2, <2>3, <2>4, <2>5, <2>6, <2>7, <2>8 DEF Next, Loop
<1>3. e \in Everything(c)' => e \in Kept(c)'
  <2>1. TrailIsEverything'
    BY TrailRange, PTL
  <2> QED BY <1>1, <2>1 DEF Kept, TrailIsEverything
<1> QED BY <1>2, <1>3 DEF Explained

(* An event the checkpointer has read is lost with the process, with the   *)
(* batcher that is replaced, beyond the limit of a get or with its handler,*)
(* or behind a message that does not parse, and in no other way: never by  *)
(* the store, the channel, a connection or the requests of other clients.  *)
THEOREM LossesAreNamed == Spec => OnlyNamedLosses
<1>1. /\ TypeOK /\ SomethingToWrite /\ StreamInv /\ TypeOK'
      /\ [Next]_vars
      => [\A c \in Clients : \A e \in Kept(c) :
            \/ e \in Kept(c)'
            \/ ProcessDied
            \/ ReplacedBatcher(c, e)
            \/ DroppedByGet(c, e)
            \/ BehindAnError(c, e)]_vars
  BY LossStep
<1> QED BY <1>1, TypeInvariant, StreamInvariant, PTL DEF Spec, OnlyNamedLosses

-----------------------------------------------------------------------------
(* The order of the events, for one client and a store that works *)

OneWorkingStore ==
  /\ \A c, d \in Clients : c = d
  /\ "add" \notin Faults /\ "get" \notin Faults

(* Each number of S is less than each of T. *)
Before(S, T) == \A a \in S, b \in T : a < b

LEMMA ConcatIncreasing ==
  ASSUME NEW s \in Seq(Messages), NEW t \in Seq(Messages)
  PROVE  Increasing(s \o t) <=>
           Increasing(s) /\ Increasing(t) /\ Before(Range(s), Range(t))
<1> DEFINE st == s \o t
<1>1. /\ st \in Seq(Messages)
      /\ Len(st) = Len(s) + Len(t)
      /\ \A i \in 1..(Len(s) + Len(t)) : st[i] = IF i <= Len(s) THEN s[i] ELSE t[i - Len(s)]
  BY ConcatProperties
<1>2. /\ Len(s) \in Nat /\ DOMAIN s = 1..Len(s)
      /\ Len(t) \in Nat /\ DOMAIN t = 1..Len(t)
      /\ DOMAIN st = 1..(Len(s) + Len(t))
  BY <1>1, LenProperties
<1>3. /\ \A i \in 1..Len(s) : i \in DOMAIN st /\ st[i] = s[i]
      /\ \A i \in 1..Len(t) : i + Len(s) \in DOMAIN st /\ st[i + Len(s)] = t[i]
  BY <1>1, <1>2
<1> HIDE DEF st
<1>4. ASSUME Increasing(st)
      PROVE  Increasing(s) /\ Increasing(t) /\ Before(Range(s), Range(t))
  <2>1. Increasing(s)
    BY <1>2, <1>3, <1>4 DEF Increasing
  <2>2. Increasing(t)
    <3> SUFFICES ASSUME NEW a \in DOMAIN t, NEW b \in DOMAIN t, a < b
                 PROVE  t[a] < t[b]
      BY DEF Increasing
    <3>1. a + Len(s) < b + Len(s)
      BY <1>2
    <3> QED BY <1>2, <1>3, <1>4, <3>1 DEF Increasing
  <2>3. Before(Range(s), Range(t))
    <3> SUFFICES ASSUME NEW a \in DOMAIN s, NEW b \in DOMAIN t
                 PROVE  s[a] < t[b]
      BY DEF Before, Range
    <3>1. a < b + Len(s)
      BY <1>2
    <3> QED BY <1>2, <1>3, <1>4, <3>1 DEF Increasing
  <2> QED BY <2>1, <2>2, <2>3
<1>5. ASSUME Increasing(s), Increasing(t), Before(Range(s), Range(t))
      PROVE  Increasing(st)
  <2> SUFFICES ASSUME NEW a \in DOMAIN st, NEW b \in DOMAIN st, a < b
               PROVE  st[a] < st[b]
    BY DEF Increasing
  <2>1. CASE b <= Len(s)
    <3>1. a \in DOMAIN s /\ b \in DOMAIN s /\ st[a] = s[a] /\ st[b] = s[b]
      BY <1>2, <1>3, <2>1
    <3> QED BY <1>5, <3>1 DEF Increasing
  <2>2. CASE a <= Len(s) /\ ~(b <= Len(s))
    <3>1. a \in DOMAIN s /\ b - Len(s) \in DOMAIN t
      BY <1>2, <2>2
    <3>2. st[a] = s[a] /\ st[b] = t[b - Len(s)]
      BY <1>1, <1>2, <2>2 DEF st
    <3> QED BY <1>5, <3>1, <3>2 DEF Before, Range
  <2>3. CASE ~(a <= Len(s))
    <3>1. a - Len(s) \in DOMAIN t /\ b - Len(s) \in DOMAIN t /\ a - Len(s) < b - Len(s)
      BY <1>2, <2>3
    <3>2. st[a] = t[a - Len(s)] /\ st[b] = t[b - Len(s)]
      BY <1>1, <1>2, <2>3 DEF st
    <3> QED BY <1>5, <3>1, <3>2 DEF Increasing
  <2> QED BY <1>2, <2>1, <2>2, <2>3
<1> QED BY <1>4, <1>5 DEF st

LEMMA EmptyIncreasing == <<>> \in Seq(Messages) /\ Increasing(<<>>) /\ Range(<<>>) = {}
BY DEF Increasing, Range

LEMMA SingletonIncreasing ==
  ASSUME NEW e \in Messages
  PROVE  <<e>> \in Seq(Messages) /\ Increasing(<<e>>) /\ Range(<<e>>) = {e}
BY DEF Increasing, Range

LEMMA PrefixIncreasing ==
  ASSUME NEW s \in Seq(Messages), NEW t \in Seq(Messages), Len(t) <= Len(s),
         \A i \in 1..Len(t) : t[i] = s[i], Increasing(s)
  PROVE  Increasing(t)
<1>1. /\ Len(s) \in Nat /\ DOMAIN s = 1..Len(s)
      /\ Len(t) \in Nat /\ DOMAIN t = 1..Len(t)
  BY LenProperties
<1> QED BY <1>1 DEF Increasing

(* s holds the events S, in order. *)
Sorted(s, S) == s \in Seq(Messages) /\ Increasing(s) /\ Range(s) = S

LEMMA SortedConcat ==
  ASSUME NEW s, NEW S, Sorted(s, S), NEW t, NEW T, Sorted(t, T), Before(S, T)
  PROVE  Sorted(s \o t, S \cup T)
<1>1. /\ s \in Seq(Messages) /\ Increasing(s) /\ Range(s) = S
      /\ t \in Seq(Messages) /\ Increasing(t) /\ Range(t) = T
  BY DEF Sorted
<1>2. s \o t \in Seq(Messages)
  BY <1>1, ConcatProperties
<1>3. Range(s \o t) = S \cup T /\ Increasing(s \o t)
  BY <1>1, ConcatInjective, ConcatIncreasing
<1> QED BY <1>2, <1>3 DEF Sorted

LEMMA HeadTailIncrease ==
  ASSUME NEW s \in Seq(Messages), s # <<>>, Increasing(s)
  PROVE  Increasing(Tail(s)) /\ Before({Head(s)}, Range(Tail(s)))
<1>1. Head(s) \in Messages /\ Tail(s) \in Seq(Messages)
  BY HeadTailProperties
<1>2. s = <<Head(s)>> \o Tail(s)
  BY HeadThenTail
<1>3. <<Head(s)>> \in Seq(Messages) /\ Range(<<Head(s)>>) = {Head(s)}
  BY <1>1, SingletonIncreasing
<1>4. Increasing(<<Head(s)>> \o Tail(s))
  BY <1>2
<1> QED BY <1>1, <1>3, <1>4, ConcatIncreasing

-----------------------------------------------------------------------------
(* The places in order *)

(* The places d, b, p, q and h follow each other; h is one event or 0. *)
InOrder(d, b, p, q, h) ==
  /\ Increasing(d) /\ Increasing(b) /\ Increasing(p) /\ Increasing(q)
  /\ Before(Range(d), Range(b) \cup Range(p) \cup Range(q))
  /\ Before(Range(b), Range(p) \cup Range(q))
  /\ Before(Range(p), Range(q))
  /\ Before(Range(d) \cup Range(b) \cup Range(p) \cup Range(q), {h} \ {0})

(* Nothing the store refused is left over, and rows and pending events are *)
(* not there together but while the loop writes: what waits in a row was   *)
(* read before what is pending then.                                       *)
InTurn(c) ==
  /\ unpersisted[c] = <<>>
  /\ phase = "drain" /\ c \in todo => pending[c] = <<>>
  /\ phase \in {"drain", "create"} /\ pending[c] # <<>> => db[c] = <<>>
  /\ phase = "persist" /\ c \notin todo => pending[c] = <<>>

OrderInv ==
  \A c \in Clients :
    InTurn(c) /\ InOrder(delivered[c], db[c], pending[c], chan[c], held[c])

LEMMA OrderedTrail ==
  ASSUME TypeOK, NEW c \in Clients, unpersisted[c] = <<>>,
         InOrder(delivered[c], db[c], pending[c], chan[c], held[c])
  PROVE  Increasing(Trail(c))
<1> DEFINE d == delivered[c]
           b == db[c]
           p == pending[c]
           q == chan[c]
           h == Blocked(c)
<1>1. /\ d \in Seq(Messages) /\ b \in Seq(Messages)
      /\ p \in Seq(Messages) /\ q \in Seq(Messages)
  BY DEF TypeOK
<1>2. Sorted(h, {held[c]} \ {0})
  <2>1. CASE held[c] = 0
    BY <2>1, EmptyIncreasing DEF Blocked, Sorted
  <2>2. CASE held[c] # 0
    <3>1. held[c] \in Messages
      BY <2>2 DEF TypeOK, Messages
    <3> QED BY <2>2, <3>1, SingletonIncreasing DEF Blocked, Sorted
  <2> QED BY <2>1, <2>2
<1>3. InOrder(d, b, p, q, held[c])
  OBVIOUS
<1>4. Trail(c) = d \o b \o p \o q \o h
  <2>1. d \o b \in Seq(Messages)
    BY <1>1, ConcatProperties
  <2>2. d \o b \o <<>> = d \o b
    BY <2>1, ConcatEmptySeq
  <2> QED BY <2>2 DEF Trail
<1> HIDE DEF d, b, p, q, h
<1>5. /\ Sorted(d, Range(d)) /\ Sorted(b, Range(b)) /\ Sorted(p, Range(p)) /\ Sorted(q, Range(q))
  BY <1>1, <1>3 DEF InOrder, Sorted
<1>6. Sorted(d \o b, Range(d) \cup Range(b))
  BY <1>3, <1>5, SortedConcat DEF InOrder, Before
<1>7. Sorted(d \o b \o p, Range(d) \cup Range(b) \cup Range(p))
  <2>1. Before(Range(d) \cup Range(b), Range(p))
    BY <1>3 DEF InOrder, Before
  <2> QED BY <1>5, <1>6, <2>1, SortedConcat
<1>8. Sorted(d \o b \o p \o q, Range(d) \cup Range(b) \cup Range(p) \cup Range(q))
  <2>1. Before(Range(d) \cup Range(b) \cup Range(p), Range(q))
    BY <1>3 DEF InOrder, Before
  <2> QED BY <1>5, <1>7, <2>1, SortedConcat
<1>9. Sorted(d \o b \o p \o q \o h,
             Range(d) \cup Range(b) \cup Range(p) \cup Range(q) \cup ({held[c]} \ {0}))
  BY <1>2, <1>3, <1>8, SortedConcat DEF InOrder
<1> QED BY <1>4, <1>9 DEF Sorted

LEMMA DrainInOrder ==
  ASSUME OneWorkingStore, TypeOK, OrderInv, NEW c \in Clients, Drain(c)
  PROVE  InTurn(c)' /\ InOrder(delivered[c], db[c], pending[c], chan[c], held[c])'
<1> DEFINE t == Decoded(chan[c])
<1>1. /\ phase = "drain" /\ phase' = "drain" /\ todo' = todo \ {c}
      /\ pending[c] = <<>> /\ unpersisted[c] = <<>>
      /\ UNCHANGED <<delivered, unpersisted>>
      /\ pending'[c] = Gathered(c, db[c]) /\ db'[c] = <<>>
      /\ chan'[c] = <<>> /\ held'[c] \in {held[c], 0}
  <2>1. pending[c] = <<>> /\ unpersisted[c] = <<>>
    BY DEF Drain, OrderInv, InTurn
  <2>2. pending'[c] = Gathered(c, db[c]) /\ db'[c] = <<>>
    BY DEF Drain, OneWorkingStore, GetEvents, GetEventsFails, TypeOK
  <2> QED BY <2>1, <2>2 DEF Drain, EndStream, DropSource, TypeOK
<1>2. /\ t \in Seq(Messages) /\ Range(t) \subseteq Range(chan[c])
      /\ Increasing(chan[c]) => Increasing(t)
  BY DecodedIsPrefix, PrefixInjective, PrefixIncreasing DEF TypeOK
<1>3. /\ db[c] \in Seq(Messages)
      /\ InOrder(delivered[c], db[c], pending[c], chan[c], held[c])
  BY DEF TypeOK, OrderInv
<1> HIDE DEF t
<1>4. pending'[c] = db[c] \o t
  <2>1. <<>> \o db[c] = db[c]
    BY <1>3, ConcatEmptySeq
  <2> QED BY <1>1, <2>1 DEF Gathered, t
<1>5. Sorted(pending'[c], Range(db[c]) \cup Range(t))
  BY <1>2, <1>3, <1>4, SortedConcat DEF Sorted, InOrder, Before
<1>6. InOrder(delivered[c], <<>>, pending'[c], <<>>, held'[c])
  BY <1>1, <1>2, <1>3, <1>5, EmptyIncreasing DEF InOrder, Before, Sorted
<1> QED BY <1>1, <1>6 DEF InTurn

LEMMA ServeCreateInOrder ==
  ASSUME TypeOK, OrderInv, NEW c \in Clients, ServeCreate(c)
  PROVE  InTurn(c)' /\ InOrder(delivered[c], db[c], pending[c], chan[c], held[c])'
<1>1. /\ phase = "create" /\ phase' = "create"
      /\ UNCHANGED <<delivered, unpersisted>> /\ unpersisted[c] = <<>>
      /\ pending'[c] = db[c] /\ db'[c] = <<>> /\ chan'[c] = <<>> /\ held'[c] = 0
  BY DEF ServeCreate, StartSource, GetEvents, TypeOK, OrderInv, InTurn
<1>2. InOrder(delivered[c], db[c], pending[c], chan[c], held[c])
  BY DEF OrderInv
<1>3. InOrder(delivered[c], <<>>, db[c], <<>>, 0)
  BY <1>2, EmptyIncreasing DEF InOrder, Before
<1> QED BY <1>1, <1>3 DEF InTurn

LEMMA ServeGetsInOrder ==
  ASSUME TypeOK, OrderInv, NEW c \in Clients, ServeGets
  PROVE  InTurn(c)' /\ InOrder(delivered[c], db[c], pending[c], chan[c], held[c])'
<1> DEFINE t == Batch(pending[c], getLimit[c])
<1>1. /\ UNCHANGED <<db, unpersisted, chan, held>> /\ phase = "create" /\ phase' = "persist"
      /\ delivered'[c] = IF getReq[c] \in Callers /\ known[c]
                         THEN delivered[c] \o t ELSE delivered[c]
      /\ pending'[c] = IF getReq[c] = NoCall THEN pending[c] ELSE <<>>
      /\ c \notin todo' => pending'[c] = <<>>
  BY DEF ServeGets, sourceVars
<1>2. /\ t \in Seq(Messages) /\ Range(t) \subseteq Range(pending[c])
      /\ Increasing(pending[c]) => Increasing(t)
  <2>1. pending[c] \in Seq(Messages) /\ getLimit[c] \in Limits \cup {NoLimit}
    BY DEF TypeOK
  <2> QED BY <2>1, BatchIsPrefix, PrefixInjective, PrefixIncreasing
<1>3. /\ delivered[c] \in Seq(Messages)
      /\ InOrder(delivered[c], db[c], pending[c], chan[c], held[c])
      /\ unpersisted[c] = <<>>
      /\ pending[c] # <<>> => db[c] = <<>>
  BY <1>1 DEF TypeOK, OrderInv, InTurn
<1> HIDE DEF t
<1>4. CASE getReq[c] \in Callers /\ known[c]
  <2>1. delivered'[c] = delivered[c] \o t /\ pending'[c] = <<>>
    BY <1>1, <1>4, CallersAssumption
  <2>2. Sorted(delivered'[c], Range(delivered[c]) \cup Range(t))
    BY <1>2, <1>3, <2>1, SortedConcat DEF Sorted, InOrder, Before
  <2>3. Range(t) = {} \/ Range(db[c]) = {}
    BY <1>2, <1>3, EmptyIncreasing
  <2>4. InOrder(delivered'[c], db[c], <<>>, chan[c], held[c])
    BY <1>2, <1>3, <2>2, <2>3, EmptyIncreasing DEF InOrder, Before, Sorted
  <2> QED BY <1>1, <1>3, <2>1, <2>4 DEF InTurn
<1>5. CASE ~(getReq[c] \in Callers /\ known[c])
  <2>1. InOrder(delivered[c], db[c], pending'[c], chan[c], held[c])
    BY <1>1, <1>3, EmptyIncreasing DEF InOrder, Before
  <2> QED BY <1>1, <1>3, <1>5, <2>1 DEF InTurn
<1> QED BY <1>4, <1>5

LEMMA PersistInOrder ==
  ASSUME OneWorkingStore, TypeOK, SomethingToWrite, DeliveryInv, OrderInv,
         NEW c \in Clients, Persist(c)
  PROVE  InTurn(c)' /\ InOrder(delivered[c], db[c], pending[c], chan[c], held[c])'
<1> DEFINE e == Head(pending[c])
           rest == Tail(pending[c])
<1>1. pending[c] # <<>> /\ pending[c] \in Seq(Messages) /\ db[c] \in Seq(Messages)
  BY DEF Persist, SomethingToWrite, TypeOK
<1>2. /\ e \in Messages /\ rest \in Seq(Messages)
      /\ Range(pending[c]) = {e} \cup Range(rest)
  BY <1>1, HeadTailProperties, HeadTailInject
<1>3. /\ InOrder(delivered[c], db[c], pending[c], chan[c], held[c])
      /\ unpersisted[c] = <<>>
  BY DEF OrderInv, InTurn
<1>4. Increasing(rest) /\ Before({e}, Range(rest))
  BY <1>1, <1>3, HeadTailIncrease DEF InOrder
<1>5. ~AddEventFails(e)
  <2>1. e \notin Range(db[c])
    BY <1>2 DEF DeliveryInv, DifferentEvents, Scattered, Apart
  <2>2. StoredIds = Range(db[c])
    BY DEF OneWorkingStore, StoredIds
  <2> QED BY <2>1, <2>2 DEF AddEventFails, OneWorkingStore
<1>6. /\ UNCHANGED <<delivered, chan, held, phase>> /\ phase = "persist"
      /\ db' = [db EXCEPT ![c] = Append(@, e)]
      /\ \/ /\ pending' = [pending EXCEPT ![c] = rest]
            /\ unpersisted' = [unpersisted EXCEPT ![c] = @ \o <<>>]
            /\ UNCHANGED todo
         \/ /\ rest = <<>>
            /\ pending' = [pending EXCEPT ![c] = unpersisted[c] \o <<>>]
            /\ unpersisted' = [unpersisted EXCEPT ![c] = <<>>]
      /\ c \in todo
  BY <1>5 DEF Persist, AddEvent, sourceVars
<1>7. <<>> \o <<>> = <<>>
  BY EmptyInjective, ConcatEmptySeq
<1> HIDE DEF e, rest
<1>8. /\ pending'[c] = rest /\ unpersisted'[c] = <<>> /\ db'[c] = Append(db[c], e)
      /\ c \in todo' \/ rest = <<>>
  BY <1>3, <1>6, <1>7 DEF TypeOK
<1>9. Append(db[c], e) = db[c] \o <<e>>
  BY <1>1, <1>2, AppendIsConcat
<1>10. Sorted(db'[c], Range(db[c]) \cup {e})
  <2>1. Sorted(<<e>>, {e})
    BY <1>2, SingletonIncreasing DEF Sorted
  <2>2. Sorted(db[c], Range(db[c])) /\ Before(Range(db[c]), {e})
    BY <1>1, <1>2, <1>3 DEF Sorted, InOrder, Before
  <2> QED BY <1>8, <1>9, <2>1, <2>2, SortedConcat
<1>11. InOrder(delivered[c], db'[c], rest, chan[c], held[c])
  BY <1>2, <1>3, <1>4, <1>10 DEF InOrder, Before, Sorted
<1> QED BY <1>6, <1>8, <1>11 DEF InTurn

LEMMA ReceiveInOrder ==
  ASSUME TypeOK, DeliveryInv, OrderInv, NEW c \in Clients, Receive(c),
         UNCHANGED <<db, pending, delivered>>
  PROVE  InOrder(delivered[c], db[c], pending[c], chan[c], held[c])'
<1> DEFINE all == Range(delivered[c]) \cup Range(db[c]) \cup Range(pending[c]) \cup Range(chan[c])
<1>1. /\ InOrder(delivered[c], db[c], pending[c], chan[c], held[c])
      /\ Before(all, {next[c]})
  BY DEF OrderInv, DeliveryInv, BehindTheFeed, Contents, Before
<1>2. next[c] \in Messages /\ next[c] # 0 /\ chan[c] \in Seq(Messages)
  BY DEF TypeOK, Messages
<1>3. \/ chan'[c] = Append(chan[c], next[c]) /\ held'[c] = 0
      \/ chan'[c] = chan[c] /\ held'[c] = next[c]
  BY DEF Receive, TypeOK
<1>4. Sorted(Append(chan[c], next[c]), Range(chan[c]) \cup {next[c]})
  <2>1. Append(chan[c], next[c]) = chan[c] \o <<next[c]>>
    BY <1>2, AppendIsConcat
  <2>2. Sorted(<<next[c]>>, {next[c]})
    BY <1>2, SingletonIncreasing DEF Sorted
  <2>3. Sorted(chan[c], Range(chan[c])) /\ Before(Range(chan[c]), {next[c]})
    BY <1>1, <1>2 DEF Sorted, InOrder, Before
  <2> QED BY <2>1, <2>2, <2>3, SortedConcat
<1>5. CASE chan'[c] = Append(chan[c], next[c]) /\ held'[c] = 0
  <2>1. InOrder(delivered[c], db[c], pending[c], chan'[c], 0)
    BY <1>1, <1>4, <1>5 DEF InOrder, Before, Sorted
  <2> QED BY <1>5, <2>1
<1>6. CASE chan'[c] = chan[c] /\ held'[c] = next[c]
  <2>1. InOrder(delivered[c], db[c], pending[c], chan[c], next[c])
    BY <1>1 DEF InOrder, Before
  <2> QED BY <1>6, <2>1
<1> QED BY <1>3, <1>5, <1>6

LEMMA SendInOrder ==
  ASSUME TypeOK, OrderInv, NEW c \in Clients, Send(c),
         UNCHANGED <<db, pending, delivered>>
  PROVE  InOrder(delivered[c], db[c], pending[c], chan[c], held[c])'
<1>1. InOrder(delivered[c], db[c], pending[c], chan[c], held[c])
  BY DEF OrderInv
<1>2. /\ held[c] \in Messages /\ held[c] # 0 /\ chan[c] \in Seq(Messages)
      /\ chan'[c] = Append(chan[c], held[c]) /\ held'[c] = 0
  BY DEF Send, TypeOK, Messages
<1>3. Sorted(Append(chan[c], held[c]), Range(chan[c]) \cup {held[c]})
  <2>1. Append(chan[c], held[c]) = chan[c] \o <<held[c]>>
    BY <1>2, AppendIsConcat
  <2>2. Sorted(<<held[c]>>, {held[c]})
    BY <1>2, SingletonIncreasing DEF Sorted
  <2>3. Sorted(chan[c], Range(chan[c])) /\ Before(Range(chan[c]), {held[c]})
    BY <1>1, <1>2 DEF Sorted, InOrder, Before
  <2> QED BY <2>1, <2>2, <2>3, SortedConcat
<1>4. InOrder(delivered[c], db[c], pending[c], chan'[c], 0)
  BY <1>1, <1>2, <1>3 DEF InOrder, Before, Sorted
<1> QED BY <1>2, <1>4

(* A panic or a crash. *)
LEMMA ForgettingInOrder ==
  ASSUME TypeOK, OrderInv, NEW c \in Clients, DropAllSources, pending' = Empty,
         unpersisted' = unpersisted \/ unpersisted' = Empty,
         NEW x, db' = db \/ db' = [db EXCEPT ![x] = <<>>], delivered' = delivered
  PROVE  InTurn(c)' /\ InOrder(delivered[c], db[c], pending[c], chan[c], held[c])'
<1>1. /\ chan'[c] = <<>> /\ held'[c] = 0 /\ pending'[c] = <<>> /\ unpersisted'[c] = <<>>
      /\ db'[c] \in {db[c], <<>>} /\ delivered'[c] = delivered[c]
  BY DEF DropAllSources, Empty, TypeOK, OrderInv, InTurn
<1>2. InOrder(delivered[c], db[c], pending[c], chan[c], held[c])
  BY DEF OrderInv
<1>3. InOrder(delivered[c], db'[c], <<>>, <<>>, 0)
  BY <1>1, <1>2, EmptyIncreasing DEF InOrder, Before
<1> QED BY <1>1, <1>3 DEF InTurn

LEMMA OrderStep ==
  ASSUME OneWorkingStore, TypeOK, SomethingToWrite, DeliveryInv, OrderInv, [Next]_vars
  PROVE  OrderInv'
<1> SUFFICES ASSUME NEW c \in Clients
             PROVE  InTurn(c)' /\ InOrder(delivered[c], db[c], pending[c], chan[c], held[c])'
  BY DEF OrderInv
<1>0. InTurn(c) /\ InOrder(delivered[c], db[c], pending[c], chan[c], held[c])
  BY DEF OrderInv
<1>1. CASE /\ UNCHANGED <<db, unpersisted, pending, delivered, chan, held>>
           /\ UNCHANGED <<phase, todo>>
  <2>1. InTurn(c)'
    BY <1>0, <1>1 DEF InTurn
  <2> QED BY <1>0, <1>1, <2>1
<1>2. CASE Http \/ Feed \/ UNCHANGED vars
  BY <1>1, <1>2 DEF Http, CallCreate, CallGet, Hangup, Feed, Emit, vars, loopVars, sourceVars
<1>3. CASE TakeCreates \/ NextRound
  <2>1. UNCHANGED <<db, unpersisted, pending, delivered, chan, held>>
    BY <1>3 DEF TakeCreates, NextRound, sourceVars
  <2>2. InTurn(c)'
    BY <1>0, <1>3, <2>1 DEF TakeCreates, NextRound, InTurn
  <2> QED BY <1>0, <2>1, <2>2
<1>4. CASE \E x \in Clients : Drain(x) \/ ServeCreate(x) \/ Persist(x)
  <2>1. PICK x \in Clients : Drain(x) \/ ServeCreate(x) \/ Persist(x)
    BY <1>4
  <2>2. x = c
    BY DEF OneWorkingStore
  <2> QED BY <2>1, <2>2, DrainInOrder, ServeCreateInOrder, PersistInOrder
<1>5. CASE ServeGets
  BY <1>5, ServeGetsInOrder
<1>6. ASSUME NEW x \in Clients, CreatePanics(x)
      PROVE  InTurn(c)' /\ InOrder(delivered[c], db[c], pending[c], chan[c], held[c])'
  <2>1. /\ DropAllSources /\ pending' = Empty /\ unpersisted' = unpersisted
        /\ db' = db \/ db' = [db EXCEPT ![x] = <<>>]
        /\ delivered' = delivered
    BY <1>6 DEF CreatePanics, GetEvents, GetEventsFails
  <2> QED BY <2>1, ForgettingInOrder
<1>7. CASE Crash
  <2>1. /\ DropAllSources /\ pending' = Empty /\ unpersisted' = Empty
        /\ db' = db /\ delivered' = delivered
    BY <1>7 DEF Crash
  <2> QED BY <2>1, ForgettingInOrder
<1>8. CASE \E x \in Clients : SourceTask(x)
  <2>1. PICK x \in Clients : SourceTask(x)
    BY <1>8
  <2>2. x = c
    BY DEF OneWorkingStore
  <2>3. UNCHANGED <<db, loopVars, delivered>>
    BY <2>1 DEF SourceTask
  <2>4. InTurn(c)' /\ UNCHANGED <<db, unpersisted, pending, delivered, phase, todo>>
    BY <1>0, <2>3 DEF InTurn, loopVars
  <2>5. CASE Receive(c)
    BY <2>4, <2>5, ReceiveInOrder
  <2>6. CASE Send(c)
    BY <2>4, <2>6, SendInOrder
  <2>7. CASE Connect(c) \/ Disconnect(c)
    BY <1>1, <2>4, <2>7 DEF Connect, Disconnect
  <2> QED BY <2>1, <2>2, <2>5, <2>6, <2>7 DEF SourceTask, SourceStep
<1> QED BY <1>2, <1>3, <1>4, <1>5, <1>6, <1>7, <1>8 DEF Next, Loop

LEMMA OrderInit == Init => OrderInv
<1> SUFFICES ASSUME Init, NEW c \in Clients
             PROVE  InTurn(c) /\ InOrder(delivered[c], db[c], pending[c], chan[c], held[c])
  BY DEF OrderInv
<1>1. /\ delivered[c] = <<>> /\ db[c] = <<>> /\ unpersisted[c] = <<>> /\ pending[c] = <<>>
      /\ chan[c] = <<>> /\ held[c] = 0
  BY DEF Init, EventSourceInit, PersistenceInit, Empty
<1> QED BY <1>1, EmptyIncreasing DEF InTurn, InOrder, Before

LEMMA OrderInvariant == ASSUME OneWorkingStore PROVE Spec => []OrderInv
<1>1. TypeOK /\ SomethingToWrite /\ DeliveryInv /\ OrderInv /\ [Next]_vars => OrderInv'
  BY OrderStep
<1> QED BY TypeInvariant, DeliveryInit, DeliveryStep, OrderInit, <1>1, PTL DEF Spec

(* With one client and a store that works, events are handed out in the    *)
(* order of the feed, across restores, restarts and new batchers: each     *)
(* place of the client is in order, and so are the places.                 *)
THEOREM EventsKeepTheirOrder == ASSUME OneWorkingStore PROVE Spec => []FeedOrder
<1>1. TypeOK /\ OrderInv => FeedOrder
  BY OrderedTrail DEF OrderInv, InTurn, FeedOrder
<1> QED BY <1>1, TypeInvariant, OrderInvariant, PTL

(* With one client and a store that works, the loop sleeps with nothing    *)
(* unsaved: no write is refused.                                           *)
THEOREM NothingStaysUnsaved == ASSUME OneWorkingStore PROVE Spec => []SleepsWithNothingUnsaved
<1>1. OrderInv => SleepsWithNothingUnsaved
  BY DEF OrderInv, InTurn, SleepsWithNothingUnsaved
<1> QED BY <1>1, OrderInvariant, PTL

=============================================================================
