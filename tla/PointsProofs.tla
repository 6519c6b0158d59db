---------------------------- MODULE PointsProofs ----------------------------
(***************************************************************************)
(* The three values of an attestation are natural numbers.                 *)
(***************************************************************************)
EXTENDS Points, FiniteSetTheorems, TLAPS

(* A finite nonempty set of integers has a greatest element.  Of the       *)
(* finite sets without one take one that is minimal: without one of its    *)
(* elements it has a greatest.                                             *)
LEMMA GreatestExists ==
  ASSUME NEW S \in SUBSET Int, IsFiniteSet(S), S # {}
  PROVE  \E m \in S : \A x \in S : x <= m
<1> DEFINE HasMax(A) == \E m \in A : \A x \in A : x <= m
           Without == {A \in FiniteSubsetsOf(Int) : A # {} /\ ~HasMax(A)}
<1>1. SUFFICES ASSUME ~HasMax(S) PROVE FALSE
  OBVIOUS
<1>2. S \in Without
  BY <1>1 DEF FiniteSubsetsOf
<1>3. PICK A \in Without : \A B \in Without : <<B, A>> \notin StrictSubsetOrdering(Int)
  <2> HIDE DEF Without
  <2>1. Without \subseteq FiniteSubsetsOf(Int)
    BY DEF Without
  <2> QED
    BY <1>2, <2>1, WFMin, FS_StrictSubsetOrderingWellFounded
<1>4. A \in SUBSET Int /\ IsFiniteSet(A) /\ A # {} /\ ~HasMax(A)
  BY DEF FiniteSubsetsOf
<1>5. PICK a \in A : TRUE
  BY <1>4
<1> DEFINE B == A \ {a}
<1>6. CASE B = {}
  <2>1. \A x \in A : x <= a
    BY <1>4, <1>5, <1>6
  <2> QED
    BY <1>4, <1>5, <2>1
<1>7. CASE B # {}
  <2>1. B \in FiniteSubsetsOf(Int)
    BY <1>4, FS_Subset DEF FiniteSubsetsOf
  <2>2. <<B, A>> \in StrictSubsetOrdering(Int)
    BY <1>4, <1>5 DEF StrictSubsetOrdering
  <2>3. HasMax(B)
    BY <1>3, <1>7, <2>1, <2>2
  <2>4. PICK m \in B : \A x \in B : x <= m
    BY <2>3
  <2>5. CASE a <= m
    BY <1>4, <1>5, <2>4, <2>5
  <2>6. CASE m <= a
    <3>1. \A x \in A : x <= a
      BY <1>4, <1>5, <2>4, <2>6
    <3> QED
      BY <1>4, <1>5, <3>1
  <2> QED
    BY <1>4, <1>5, <2>4, <2>5, <2>6
<1> QED
  BY <1>6, <1>7

(* Max returns it. *)
LEMMA MaxIsGreatest ==
  ASSUME NEW S \in SUBSET Int, IsFiniteSet(S), S # {}
  PROVE  Max(S) \in S /\ \A x \in S : x <= Max(S)
<1>1. \E m \in S : \A x \in S : m >= x
  BY GreatestExists
<1> QED
  BY <1>1 DEF Max

(* What a function yields on a finite set is finite. *)
LEMMA FiniteImage ==
  ASSUME NEW S, IsFiniteSet(S), NEW f
  PROVE  /\ IsFiniteSet({f[x] : x \in S})
         /\ Cardinality({f[x] : x \in S}) <= Cardinality(S)
<1> DEFINE T == {f[x] : x \in S}
           g == [x \in S |-> f[x]]
<1>1. g \in Surjection(S, T)
  BY DEF Surjection
<1> HIDE DEF g, T
<1>2. IsFiniteSet(T) /\ Cardinality(T) <= Cardinality(S)
  BY <1>1, FS_Surjection
<1> QED
  BY <1>2 DEF T

(* The groups of an attestation are finite in number, and all_events       *)
(* counts them.                                                            *)
LEMMA GroupsAreFinite ==
  ASSUME NEW data \in Seq(Claims)
  PROVE  /\ GroupStarts(data) \subseteq 1..Len(data)
         /\ IsFiniteSet(GroupStarts(data))
         /\ AllEvents(data) \in Nat
<1>1. GroupStarts(data) \subseteq 1..Len(data)
  BY DEF GroupStarts
<1>2. IsFiniteSet(1..Len(data))
  BY FS_Interval
<1>3. IsFiniteSet(GroupStarts(data))
  BY <1>1, <1>2, FS_Subset
<1> QED
  BY <1>1, <1>3, FS_CardinalityType DEF AllEvents

(* unique_events is a natural number, and at most all_events. *)
LEMMA UniqueEventsType ==
  ASSUME NEW data \in Seq(Claims)
  PROVE  UniqueEvents(data) \in Nat /\ UniqueEvents(data) <= AllEvents(data)
<1> DEFINE S == GroupStarts(data)
           f == [i \in S |-> data[i].context]
<1>1. IsFiniteSet(S)
  BY GroupsAreFinite
<1>2. {f[i] : i \in S} = {data[i].context : i \in S}
  OBVIOUS
<1>3. IsFiniteSet({f[i] : i \in S}) /\ Cardinality({f[i] : i \in S}) <= Cardinality(S)
  <2> HIDE DEF f, S
  <2> QED
    BY <1>1, FiniteImage
<1> QED
  BY <1>2, <1>3, FS_CardinalityType DEF UniqueEvents, AllEvents

(* Each group has claims, and a latest time among them. *)
LEMMA LastOfGroup ==
  ASSUME NEW data \in Seq(Claims), NEW i \in GroupStarts(data)
  PROVE  LET times == {data[j].timestamp : j \in Group(data, i)}
         IN  /\ i \in Group(data, i)
             /\ Max(times) \in times /\ times \subseteq Nat
             /\ \A j \in Group(data, i) : data[j].timestamp <= Max(times)
<1> DEFINE G == Group(data, i)
           f == [j \in G |-> data[j].timestamp]
           times == {data[j].timestamp : j \in G}
<1>1. G \subseteq 1..Len(data)
  BY DEF Group
<1>2. i \in G
  BY GroupsAreFinite DEF Group
<1>3. times \subseteq Nat
  <2>1. \A j \in 1..Len(data) : data[j] \in Claims
    OBVIOUS
  <2>2. \A j \in 1..Len(data) : data[j].timestamp \in Nat
    BY <2>1 DEF Claims
  <2> HIDE DEF G
  <2> QED
    BY <1>1, <2>2
<1>4. IsFiniteSet(1..Len(data))
  BY FS_Interval
<1>5. IsFiniteSet(G)
  BY <1>1, <1>4, FS_Subset
<1>6. times = {f[j] : j \in G}
  OBVIOUS
<1>7. IsFiniteSet(times)
  <2>1. IsFiniteSet({f[j] : j \in G})
    <3> HIDE DEF f, G
    <3> QED
      BY <1>5, FiniteImage
  <2> QED
    BY <1>6, <2>1
<1>8. times \in SUBSET Int /\ times # {}
  BY <1>2, <1>3
<1>9. Max(times) \in times /\ \A t \in times : t <= Max(times)
  <2> HIDE DEF times
  <2> QED
    BY <1>7, <1>8, MaxIsGreatest
<1> QED
  BY <1>2, <1>3, <1>9

(* The time a complete attestation was completed at is a natural number:   *)
(* no greater one is the latest time of a group.                           *)
LEMMA CompletedAtType ==
  ASSUME NEW data \in Seq(Claims), GroupStarts(data) # {}
  PROVE  /\ CompletedAt(data) \in Nat
         /\ CompletedAt(data) \in LastTimes(data)
         /\ \A t \in LastTimes(data) : t <= CompletedAt(data)
<1> DEFINE S == GroupStarts(data)
           f == [i \in S |-> Max({data[j].timestamp : j \in Group(data, i)})]
<1>1. IsFiniteSet(S)
  BY GroupsAreFinite
<1>2. LastTimes(data) = {f[i] : i \in S}
  BY DEF LastTimes
<1>3. IsFiniteSet(LastTimes(data))
  <2>1. IsFiniteSet({f[i] : i \in S})
    <3> HIDE DEF f, S
    <3> QED
      BY <1>1, FiniteImage
  <2> QED
    BY <1>2, <2>1
<1>4. LastTimes(data) \subseteq Nat
  BY LastOfGroup DEF LastTimes
<1>5. LastTimes(data) # {}
  BY DEF LastTimes
<1> QED
  BY <1>3, <1>4, <1>5, MaxIsGreatest DEF CompletedAt

(* Each claim is in a group: the one that starts last before it. *)
LEMMA EveryClaimHasAGroup ==
  ASSUME NEW data \in Seq(Claims), NEW j \in DOMAIN data
  PROVE  \E i \in GroupStarts(data) : j \in Group(data, i)
<1> DEFINE S == {i \in GroupStarts(data) : i <= j}
           m == Max(S)
<1>1. S \subseteq GroupStarts(data) /\ GroupStarts(data) \subseteq 1..Len(data)
  BY GroupsAreFinite
<1>2. IsFiniteSet(S)
  BY <1>1, GroupsAreFinite, FS_Subset
<1>3. 1 \in S
  BY DEF GroupStarts
<1>4. m \in S /\ \A i \in S : i <= m
  <2> HIDE DEF S
  <2> QED
    BY <1>1, <1>2, <1>3, MaxIsGreatest
<1> HIDE DEF m
<1>5. j \in Group(data, m)
  BY <1>1, <1>4 DEF Group
<1> QED
  BY <1>4, <1>5

(* A complete attestation has groups. *)
LEMMA CompleteHasGroups ==
  ASSUME NEW data \in Seq(Claims), IsComplete(data)
  PROVE  GroupStarts(data) # {}
<1>1. Cardinality({}) = 0
  BY FS_EmptySet
<1>2. Cardinality(GroupStarts(data)) >= TOTAL_EVENTS
  BY DEF IsComplete
<1>3. ~(0 >= TOTAL_EVENTS)
  BY TotalEventsAssumption
<1> QED
  BY <1>1, <1>2, <1>3

=============================================================================
