------------------------------ MODULE MCPoints ------------------------------
(***************************************************************************)
(* The points of every attestation up to a length, against a scan that     *)
(* reads the claims one at a time and remembers only what it has counted.  *)
(***************************************************************************)
EXTENDS Points

CONSTANTS MaxLength, MaxTime

ASSUME BoundsAssumption == MaxLength \in Nat /\ MaxTime \in Nat

VARIABLES
  data,    \* the claims read so far
  seen,    \* the contexts among them
  latest   \* the latest time among them

vars == <<data, seen, latest>>

Init == data = <<>> /\ seen = {} /\ latest = 0

Read(claim) ==
  /\ Len(data) < MaxLength
  /\ data' = Append(data, claim)
  /\ seen' = seen \cup {claim.context}
  /\ latest' = Max({latest, claim.timestamp})

Next == \E x \in ClaimContexts, t \in 0..MaxTime : Read([context |-> x, timestamp |-> t])

Spec == Init /\ [][Next]_vars

(* unique-events is the number of different contexts of the claims,        *)
(* although only the first claim of each group is looked at.               *)
UniqueEventsCountsContexts == UniqueEvents(data) = Cardinality(seen)

(* Between two claims of one event there are only claims of that event.   *)
Together ==
  \A i, j, k \in DOMAIN data :
    i < j /\ j < k /\ data[i].context = data[k].context
      => data[j].context = data[i].context

(* all-events, which decides when an attestation is complete, counts no    *)
(* event twice exactly when the claims of each event are together: data    *)
(* are grouped as they come, unsorted, and an event that comes back counts *)
(* again.                                                                  *)
CountsAgreeWhenTogether ==
  /\ UniqueEvents(data) <= AllEvents(data)
  /\ AllEvents(data) = UniqueEvents(data) <=> Together

(* The time of first-all-events is the time of the latest claim.           *)
CompletedAtLatest == IsComplete(data) => CompletedAt(data) = latest

=============================================================================
