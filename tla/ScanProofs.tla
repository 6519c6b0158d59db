----------------------------- MODULE ScanProofs -----------------------------
(***************************************************************************)
(* The three values of an attestation are what the scan of MCPoints        *)
(* counts, for attestations of every length.                               *)
(***************************************************************************)
EXTENDS MCPoints, PointsProofs

(* What the scan has kept of the claims it has read. *)
SeenIsRight ==
  /\ seen = {data[i].context : i \in DOMAIN data}
  /\ seen = {data[i].context : i \in GroupStarts(data)}

LatestIsRight ==
  /\ latest \in Nat
  /\ \A i \in DOMAIN data : data[i].timestamp <= latest
  /\ IF data = <<>> THEN latest = 0
     ELSE \E i \in DOMAIN data : data[i].timestamp = latest

ScanInv ==
  /\ data \in Seq(Claims)
  /\ SeenIsRight
  /\ LatestIsRight

(* One more claim starts another group or goes on with the last one. *)
LEMMA OneMoreClaim ==
  ASSUME NEW d \in Seq(Claims), NEW c \in Claims
  PROVE  LET same == d # <<>> /\ d[Len(d)].context = c.context
         IN  GroupStarts(Append(d, c)) =
               IF same THEN GroupStarts(d) ELSE GroupStarts(d) \cup {Len(d) + 1}
<1> DEFINE e == Append(d, c)
<1>1. /\ DOMAIN e = 1..(Len(d) + 1) /\ DOMAIN d = 1..Len(d) /\ Len(d) \in Nat
      /\ e[Len(d) + 1] = c
      /\ \A i \in 1..Len(d) : e[i] = d[i]
  OBVIOUS
<1>2. d = <<>> <=> Len(d) = 0
  OBVIOUS
<1> HIDE DEF e
<1>3. \A i \in 1..Len(d) : i \in GroupStarts(e) <=> i \in GroupStarts(d)
  BY <1>1 DEF GroupStarts
<1>4. Len(d) + 1 \in GroupStarts(e) <=> ~(d # <<>> /\ d[Len(d)].context = c.context)
  BY <1>1, <1>2 DEF GroupStarts
<1>5. GroupStarts(e) \subseteq 1..(Len(d) + 1) /\ GroupStarts(d) \subseteq 1..Len(d)
  BY <1>1 DEF GroupStarts
<1> QED
  BY <1>1, <1>3, <1>4, <1>5 DEF e

LEMMA ScanInit == Init => ScanInv
<1> SUFFICES ASSUME Init PROVE ScanInv
  OBVIOUS
<1>1. GroupStarts(<<>>) = {}
  BY DEF GroupStarts
<1> QED
  BY <1>1 DEF Init, ScanInv, SeenIsRight, LatestIsRight

LEMMA ReadKeepsScan ==
  ASSUME ScanInv, NEW c \in Claims, Read(c)
  PROVE  ScanInv'
<1> DEFINE same == data # <<>> /\ data[Len(data)].context = c.context
           n == Len(data)
<1>1. /\ data \in Seq(Claims) /\ data' = Append(data, c)
      /\ data' \in Seq(Claims)
      /\ DOMAIN data' = 1..(n + 1) /\ DOMAIN data = 1..n /\ n \in Nat
      /\ data'[n + 1] = c
      /\ \A i \in 1..n : data'[i] = data[i]
  BY DEF ScanInv, Read
<1>2. GroupStarts(data') = IF same THEN GroupStarts(data) ELSE GroupStarts(data) \cup {n + 1}
  BY <1>1, OneMoreClaim
<1>3. GroupStarts(data) \subseteq 1..n /\ IsFiniteSet(GroupStarts(data))
  BY <1>1, GroupsAreFinite
<1>4. SeenIsRight'
  <2>1. seen' = seen \cup {c.context}
    BY DEF Read
  <2>2. seen = {data[i].context : i \in 1..n} /\ seen = {data[i].context : i \in GroupStarts(data)}
    BY <1>1 DEF ScanInv, SeenIsRight
  <2>3. same => c.context \in seen
    <3>1. same => n \in 1..n
      BY <1>1
    <3> QED
      BY <2>2, <3>1
  <2>4. {data'[i].context : i \in 1..(n + 1)} = {data[i].context : i \in 1..n} \cup {c.context}
    BY <1>1
  <2>5. CASE same
    <3>1. {data'[i].context : i \in GroupStarts(data)} = {data[i].context : i \in GroupStarts(data)}
      BY <1>1, <1>3
    <3> QED
      BY <1>1, <1>2, <2>1, <2>2, <2>3, <2>4, <2>5, <3>1 DEF SeenIsRight
  <2>6. CASE ~same
    <3>1. {data'[i].context : i \in GroupStarts(data) \cup {n + 1}}
            = {data[i].context : i \in GroupStarts(data)} \cup {c.context}
      BY <1>1, <1>3
    <3> QED
      BY <1>1, <1>2, <2>1, <2>2, <2>4, <2>6, <3>1 DEF SeenIsRight
  <2> QED
    BY <2>5, <2>6
<1>5. LatestIsRight'
  <2> DEFINE t == c.timestamp
  <2>1. t \in Nat /\ latest \in Nat
    BY DEF Claims, ScanInv, LatestIsRight
  <2>2. latest' = Max({latest, t})
    BY DEF Read
  <2> HIDE DEF t
  <2>3. IsFiniteSet({latest, t})
    <3>1. IsFiniteSet({latest}) /\ {latest, t} = {latest} \cup {t}
      BY FS_Singleton
    <3> QED
      BY <3>1, FS_AddElement
  <2>4. {latest, t} \in SUBSET Int /\ {latest, t} # {}
    BY <2>1
  <2>5. latest' \in {latest, t} /\ latest <= latest' /\ t <= latest'
    BY <2>2, <2>3, <2>4, MaxIsGreatest
  <2>6. \A i \in 1..n : data[i].timestamp <= latest /\ data[i].timestamp \in Nat
    <3>1. \A i \in 1..n : data[i] \in Claims
      BY <1>1
    <3> QED
      BY <1>1, <3>1 DEF ScanInv, LatestIsRight, Claims
  <2>7. data'[n + 1].timestamp = t
    BY <1>1 DEF t
  <2>8. \A i \in 1..(n + 1) : data'[i].timestamp <= latest'
    BY <1>1, <2>1, <2>5, <2>6, <2>7
  <2>9. \E i \in 1..(n + 1) : data'[i].timestamp = latest'
    <3>1. CASE latest' = t
      BY <1>1, <2>7, <3>1
    <3>2. CASE latest' = latest /\ data # <<>>
      <4>1. PICK i \in 1..n : data[i].timestamp = latest
        BY <1>1, <3>2 DEF ScanInv, LatestIsRight
      <4> QED
        BY <1>1, <3>2, <4>1
    <3>3. CASE latest' = latest /\ data = <<>>
      <4>1. latest = 0
        BY <3>3 DEF ScanInv, LatestIsRight
      <4> QED
        BY <1>1, <2>1, <2>5, <2>7, <3>3, <4>1
    <3> QED
      BY <2>5, <3>1, <3>2, <3>3
  <2>10. data' # <<>>
    BY <1>1
  <2> QED
    BY <1>1, <2>1, <2>5, <2>8, <2>9, <2>10 DEF LatestIsRight
<1> QED
  BY <1>1, <1>4, <1>5 DEF ScanInv

LEMMA ScanAlways == Spec => []ScanInv
<1>1. ScanInv /\ [Next]_vars => ScanInv'
  <2> SUFFICES ASSUME ScanInv, [Next]_vars PROVE ScanInv'
    OBVIOUS
  <2>1. ASSUME NEW x \in ClaimContexts, NEW t \in 0..MaxTime,
               Read([context |-> x, timestamp |-> t])
        PROVE  ScanInv'
    <3>1. [context |-> x, timestamp |-> t] \in Claims
      BY BoundsAssumption DEF Claims
    <3> QED
      BY <2>1, <3>1, ReadKeepsScan
  <2>2. CASE UNCHANGED vars
    BY <2>2 DEF vars, ScanInv, SeenIsRight, LatestIsRight
  <2> QED
    BY <2>1, <2>2 DEF Next
<1> QED
  BY <1>1, ScanInit, PTL DEF Spec

(* unique-events is the number of different contexts among the claims of   *)
(* an attestation of any length, although only the first claim of each     *)
(* group is looked at.                                                     *)
THEOREM UniqueEventsRight == Spec => []UniqueEventsCountsContexts
<1>1. ScanInv => UniqueEventsCountsContexts
  BY DEF ScanInv, SeenIsRight, UniqueEventsCountsContexts, UniqueEvents
<1> QED
  BY <1>1, ScanAlways, PTL

(* A claim's event has a first claim, and that starts a group; so does its *)
(* first claim after one of another event.                                 *)
LEMMA FirstStartsAGroup ==
  ASSUME NEW d \in Seq(Claims), NEW lo \in Nat, NEW k \in DOMAIN d, lo < k,
         lo = 0 \/ d[lo].context # d[k].context
  PROVE  \E s \in GroupStarts(d) : lo < s /\ s <= k /\ d[s].context = d[k].context
<1> DEFINE x == d[k].context
           T == {m \in (lo + 1)..k : \A n \in m..k : d[n].context = x}
           N == {0 - m : m \in T}
<1>1. k \in Nat /\ 1 <= k /\ k <= Len(d) /\ DOMAIN d = 1..Len(d) /\ Len(d) \in Nat
  OBVIOUS
<1>2. k \in T /\ T \subseteq (lo + 1)..k
  BY <1>1
<1>3. IsFiniteSet(N) /\ N \in SUBSET Int /\ N # {}
  <2>1. N \subseteq (0 - k)..(0 - (lo + 1))
    BY <1>1, <1>2
  <2>2. IsFiniteSet((0 - k)..(0 - (lo + 1)))
    BY <1>1, FS_Interval
  <2> QED
    BY <1>2, <2>1, <2>2, FS_Subset
<1>4. PICK g \in N : \A n \in N : n <= g
  <2> HIDE DEF N
  <2> QED
    BY <1>3, GreatestExists
<1>5. PICK s \in T : \A m \in T : s <= m
  <2>1. PICK s \in T : g = 0 - s
    BY <1>4
  <2>2. \A m \in T : 0 - m <= 0 - s
    BY <1>4, <2>1
  <2>3. \A m \in T : m \in Int
    BY <1>1, <1>2
  <2> HIDE DEF T
  <2> QED
    BY <2>1, <2>2, <2>3
<1>6. s \in (lo + 1)..k /\ d[s].context = x
  BY <1>1, <1>2
<1>7. s \in GroupStarts(d)
  <2> SUFFICES ASSUME s # 1, d[s - 1].context = x PROVE FALSE
    BY <1>1, <1>6 DEF GroupStarts
  <2>1. s - 1 # lo
    BY <1>1, <1>6
  <2>2. \A n \in (s - 1)..k : n = s - 1 \/ n \in s..k
    BY <1>1, <1>6
  <2>3. s - 1 \in T
    BY <1>1, <1>5, <1>6, <2>1, <2>2
  <2> QED
    BY <1>1, <1>5, <1>6, <2>3
<1> QED
  BY <1>1, <1>6, <1>7

(* Two groups have one event exactly when an event comes back. *)
LEMMA ApartMeansTwoGroups ==
  ASSUME data \in Seq(Claims)
  PROVE  Together <=> \A i, k \in GroupStarts(data) :
                        data[i].context = data[k].context => i = k
<1>1. GroupStarts(data) \subseteq 1..Len(data) /\ DOMAIN data = 1..Len(data) /\ Len(data) \in Nat
  BY GroupsAreFinite
<1>2. ASSUME Together, NEW i \in GroupStarts(data), NEW k \in GroupStarts(data),
             data[i].context = data[k].context, i < k
      PROVE  FALSE
  <2>1. /\ i \in 1..Len(data) /\ k \in 1..Len(data) /\ k # 1 /\ k - 1 \in 1..Len(data)
        /\ data[k - 1].context # data[k].context
    BY <1>1, <1>2 DEF GroupStarts
  <2>2. i < k - 1
    BY <1>2, <2>1
  <2> QED
    BY <1>1, <1>2, <2>1, <2>2 DEF Together
<1>3. ASSUME NEW i \in DOMAIN data, NEW j \in DOMAIN data, NEW k \in DOMAIN data,
             i < j, j < k, data[i].context = data[k].context,
             data[j].context # data[i].context
      PROVE  \E s, t \in GroupStarts(data) : data[s].context = data[t].context /\ s # t
  <2>1. PICK s \in GroupStarts(data) : s <= i /\ data[s].context = data[i].context
    BY <1>1, FirstStartsAGroup
  <2>2. PICK t \in GroupStarts(data) : j < t /\ data[t].context = data[k].context
    BY <1>1, <1>3, FirstStartsAGroup
  <2> QED
    BY <1>1, <1>3, <2>1, <2>2
<1>4. ASSUME Together
      PROVE  \A i, k \in GroupStarts(data) : data[i].context = data[k].context => i = k
  BY <1>1, <1>2, <1>4
<1> QED
  BY <1>3, <1>4 DEF Together

LEMMA CountsOfClaims ==
  ASSUME data \in Seq(Claims)
  PROVE  CountsAgreeWhenTogether
<1> DEFINE S == GroupStarts(data)
           f == [i \in S |-> data[i].context]
           T == {data[i].context : i \in S}
<1>1. IsFiniteSet(S)
  BY GroupsAreFinite
<1>2. f \in Surjection(S, T)
  BY DEF Surjection
<1>3. Cardinality(T) = Cardinality(S) <=> f \in Injection(S, T)
  <2> HIDE DEF S, T, f
  <2> QED
    BY <1>1, <1>2, FS_Surjection
<1>4. f \in Injection(S, T) <=> \A i, k \in S : data[i].context = data[k].context => i = k
  <2>1. \A i \in S : f[i] = data[i].context
    OBVIOUS
  <2>2. f \in Injection(S, T) <=> \A i, k \in S : f[i] = f[k] => i = k
    <3>1. f \in [S -> T]
      BY <1>2 DEF Surjection
    <3> HIDE DEF S, T, f
    <3> QED
      BY <3>1 DEF Injection, IsInjective
  <2> HIDE DEF S, T, f
  <2> QED
    BY <2>1, <2>2
<1>5. Cardinality(T) = Cardinality(S) <=> Together
  BY <1>3, <1>4, ApartMeansTwoGroups
<1> QED
  BY <1>5, UniqueEventsType DEF CountsAgreeWhenTogether, UniqueEvents, AllEvents

(* all-events counts more than the different events of an attestation, of  *)
(* any length, exactly when the claims of some event are not together.     *)
THEOREM CountsAgree == Spec => []CountsAgreeWhenTogether
<1>1. ScanInv => CountsAgreeWhenTogether
  BY CountsOfClaims DEF ScanInv
<1> QED
  BY <1>1, ScanAlways, PTL

(* The time an attestation was completed at is the time of the latest of   *)
(* its claims, whichever group that is in.                                 *)
THEOREM CompletedAtRight == Spec => []CompletedAtLatest
<1>1. ScanInv => CompletedAtLatest
  <2> SUFFICES ASSUME ScanInv, IsComplete(data)
               PROVE  CompletedAt(data) = latest
    BY DEF CompletedAtLatest
  <2>1. /\ data \in Seq(Claims) /\ latest \in Nat
        /\ \A i \in DOMAIN data : data[i].timestamp <= latest
    BY DEF ScanInv, LatestIsRight
  <2>2. GroupStarts(data) # {}
    BY <2>1, CompleteHasGroups
  <2>3. /\ CompletedAt(data) \in LastTimes(data) /\ CompletedAt(data) \in Nat
        /\ \A t \in LastTimes(data) : t <= CompletedAt(data)
    BY <2>1, <2>2, CompletedAtType
  <2>4. CompletedAt(data) <= latest
    <3>1. PICK i \in GroupStarts(data) :
            CompletedAt(data) = Max({data[j].timestamp : j \in Group(data, i)})
      BY <2>3 DEF LastTimes
    <3>2. CompletedAt(data) \in {data[j].timestamp : j \in Group(data, i)}
      BY <2>1, <3>1, LastOfGroup
    <3>3. Group(data, i) \subseteq DOMAIN data
      BY DEF Group
    <3> QED
      BY <2>1, <3>2, <3>3
  <2>5. latest <= CompletedAt(data)
    <3>1. data # <<>>
      BY <2>2 DEF GroupStarts
    <3>2. PICK j \in DOMAIN data : data[j].timestamp = latest
      BY <3>1 DEF ScanInv, LatestIsRight
    <3>3. PICK i \in GroupStarts(data) : j \in Group(data, i)
      BY <2>1, EveryClaimHasAGroup
    <3> DEFINE t == Max({data[k].timestamp : k \in Group(data, i)})
    <3>4. latest <= t /\ t \in Nat
      BY <2>1, <3>2, <3>3, LastOfGroup
    <3>5. t \in LastTimes(data)
      BY DEF LastTimes
    <3> QED
      BY <2>1, <2>3, <3>4, <3>5
  <2> QED
    BY <2>1, <2>3, <2>4, <2>5
<1> QED
  BY <1>1, ScanAlways, PTL

=============================================================================
