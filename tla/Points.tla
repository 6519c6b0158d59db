------------------------------- MODULE Points -------------------------------
(***************************************************************************)
(* What one attestation is worth (calculator/src/calculator.rs).           *)
(*                                                                         *)
(* The data of an attestation is a sequence of claims, each with the       *)
(* context it was earned in and a time.  group_by of itertools makes a     *)
(* group of each run of consecutive claims with one context: a context     *)
(* that comes back later starts another group.                             *)
(***************************************************************************)
EXTENDS Integers, Sequences, FiniteSetsExt

CONSTANTS
  ClaimContexts,  \* contexts a claim may have
  TOTAL_EVENTS    \* groups that make an attestation complete, 9 in the code

ASSUME TotalEventsAssumption == TOTAL_EVENTS \in Nat \ {0}

Claims == [context : ClaimContexts, timestamp : Nat]

(* Mutant: a group starts wherever the context is new. *)
GroupStartsOnce(data) ==
  {i \in DOMAIN data : \A j \in 1..(i - 1) : data[j].context # data[i].context}

(* The places where a group starts. *)
GroupStarts(data) ==
  {i \in DOMAIN data : i = 1 \/ data[i - 1].context # data[i].context}

(* The group that starts at i. *)
Group(data, i) ==
  {j \in DOMAIN data : j >= i /\ \A k \in (i + 1)..j : k \notin GroupStarts(data)}

(* Mutant: the keys are collected into a list. *)
UniqueEventsRepeated(data) == Cardinality(GroupStarts(data))

(* unique_events: the number of different group keys. *)
UniqueEvents(data) == Cardinality({data[i].context : i \in GroupStarts(data)})

(* all_events: the number of groups. *)
AllEvents(data) == Cardinality(GroupStarts(data))

(* The time of the latest claim of each group. *)
LastTimes(data) ==
  {Max({data[j].timestamp : j \in Group(data, i)}) : i \in GroupStarts(data)}

(* first_all_events: whether there are enough groups, and the time of the  *)
(* first of them in the order of their latest claims, newest first.        *)
IsComplete(data) == Cardinality(GroupStarts(data)) >= TOTAL_EVENTS

(* Mutant: the order of the groups is not reversed. *)
CompletedAtFirst(data) == Min(LastTimes(data))

CompletedAt(data) == Max(LastTimes(data))

=============================================================================
