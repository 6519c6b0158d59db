---------------------------- MODULE BatcherRounds ----------------------------
(***************************************************************************)
(* The batcher with a history variable that counts the rounds a handler    *)
(* has been waiting through: how often the loop has answered the gets,     *)
(* the last thing it does for handlers in a round, and not this one.       *)
(***************************************************************************)
EXTENDS BatcherProperties

VARIABLE waited  \* waited[p]: the rounds handler p has waited through

roundVars == <<vars, waited>>

RoundsInit == Init /\ waited = [p \in Callers |-> 0]

(* The count stops here: a handler that nobody answers waits for ever.     *)
WaitBound == 2

GetsAnswered == phase = "create" /\ phase' = "persist"

Counted ==
  waited' = [p \in Callers |->
    IF caller'[p] = "idle" THEN 0
    ELSE IF GetsAnswered /\ waited[p] < WaitBound THEN waited[p] + 1 ELSE waited[p]]

(* Every step of the batcher, with the count. *)
RoundsNext ==
  \/ TakeCreates /\ Counted
  \/ ServeGets /\ Counted
  \/ NextRound /\ Counted
  \/ Feed /\ Counted
  \/ Crash /\ Counted
  \/ \E c \in Clients :
       \/ Drain(c) /\ Counted
       \/ ServeCreate(c) /\ Counted
       \/ CreatePanics(c) /\ Counted
       \/ Persist(c) /\ Counted
       \/ SourceTask(c) /\ Counted
  \/ \E p \in Callers :
       \/ \E c \in Clients : CallCreate(p, c) /\ Counted
       \/ \E c \in Clients, l \in Limits : CallGet(p, c, l) /\ Counted
       \/ Hangup(p) /\ Counted

RoundsSpec == RoundsInit /\ [][RoundsNext]_roundVars

FairRoundsSpec == RoundsSpec /\ Fairness

(* While the loop goes round nobody waits for long: a request is answered, *)
(* or replaced, in the round it meets or in the next.  The loop serves     *)
(* what it took from the shared map while handlers file other requests,    *)
(* replace the ones that are there, hang up and make it panic; a request   *)
(* that slipped between the two takes, or a handler whose channel was kept *)
(* when its request was replaced, would wait on.  After a panic there are  *)
(* no rounds: who is then in a shared map waits for ever (batcher.rs:145). *)
NobodyWaitsTwoRounds == \A p \in Callers : waited[p] <= 1

=============================================================================
