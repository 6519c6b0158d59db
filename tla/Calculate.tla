------------------------------ MODULE Calculate ------------------------------
(***************************************************************************)
(* POST /calculate (checkpointer/src/main.rs): the request that starts the *)
(* calculator task of checkpointer/src/calculator.rs.                      *)
(*                                                                         *)
(* The handlers run on the worker threads of the server and share one      *)
(* flag, calculate_active.  Each reads it, and one that finds it clear     *)
(* sets it in a second, separate step.  Making the calculator fails, and   *)
(* ends the handler early, when the model ids in the environment of the    *)
(* process do not parse.  The flag is never cleared.  The accesses are     *)
(* taken to be sequentially consistent, although the code asks for Relaxed *)
(* ones; the calculator task itself never ends, because its source never   *)
(* closes the channel it reads.                                            *)
(***************************************************************************)
EXTENDS Naturals, FiniteSets

CONSTANTS
  Handlers,        \* requests that can be in progress at a time
  MaxRequests,     \* bound: requests made in all
  MaxRestarts      \* bound: restarts of the process

ASSUME HandlersAssumption == IsFiniteSet(Handlers)
ASSUME BoundsAssumption == MaxRequests \in Nat /\ MaxRestarts \in Nat

VARIABLES
  valid,             \* the environment of the process holds valid model ids
  calculate_active,  \* the flag
  handler,           \* handler[p]: where request p is
  calculators,       \* calculator tasks that run
  requests,          \* history: requests made so far
  restarts           \* history: restarts so far

vars == <<valid, calculate_active, handler, calculators, requests, restarts>>

Init ==
  /\ valid \in BOOLEAN
  /\ calculate_active = FALSE
  /\ handler = [p \in Handlers |-> "idle"]
  /\ calculators = 0
  /\ requests = 0
  /\ restarts = 0

Request(p) ==
  /\ handler[p] = "idle"
  /\ requests < MaxRequests
  /\ requests' = requests + 1
  /\ handler' = [handler EXCEPT ![p] = "load"]
  /\ UNCHANGED <<valid, calculate_active, calculators, restarts>>

(* Mutant: what was read does not matter. *)
LoadUnread(p) ==
  /\ handler[p] = "load"
  /\ handler' = [handler EXCEPT ![p] = "store"]
  /\ UNCHANGED <<valid, calculate_active, calculators, requests, restarts>>

(* A handler that finds the flag set answers 409 Conflict. *)
Load(p) ==
  /\ handler[p] = "load"
  /\ handler' = [handler EXCEPT ![p] = IF calculate_active THEN "idle" ELSE "store"]
  /\ UNCHANGED <<valid, calculate_active, calculators, requests, restarts>>

Store(p) ==
  /\ handler[p] = "store"
  /\ calculate_active' = TRUE
  /\ handler' = [handler EXCEPT ![p] = "new"]
  /\ UNCHANGED <<valid, calculators, requests, restarts>>

(* Mutant: the calculator is made and not run. *)
StartWithoutRun(p) ==
  /\ handler[p] = "new"
  /\ valid
  /\ handler' = [handler EXCEPT ![p] = "idle"]
  /\ UNCHANGED <<valid, calculate_active, calculators, requests, restarts>>

(* Calculator::new and run: the task is spawned and 200 answered. *)
Start(p) ==
  /\ handler[p] = "new"
  /\ valid
  /\ calculators' = calculators + 1
  /\ handler' = [handler EXCEPT ![p] = "idle"]
  /\ UNCHANGED <<valid, calculate_active, requests, restarts>>

(* Mutant: the failed start is taken back although nothing was started. *)
NewFailsUncounted(p) ==
  /\ handler[p] = "new"
  /\ ~valid
  /\ handler' = [handler EXCEPT ![p] = "idle"]
  /\ calculators' = calculators - 1
  /\ UNCHANGED <<valid, calculate_active, requests, restarts>>

(* Calculator::new fails: the handler returns the error. *)
NewFails(p) ==
  /\ handler[p] = "new"
  /\ ~valid
  /\ handler' = [handler EXCEPT ![p] = "idle"]
  /\ UNCHANGED <<valid, calculate_active, calculators, requests, restarts>>

(* The process dies and is started again by its supervisor. *)
Restart ==
  /\ restarts < MaxRestarts
  /\ restarts' = restarts + 1
  /\ valid' \in BOOLEAN
  /\ calculate_active' = FALSE
  /\ handler' = [p \in Handlers |-> "idle"]
  /\ calculators' = 0
  /\ UNCHANGED requests

Next ==
  \/ Restart
  \/ \E p \in Handlers :
       Request(p) \/ Load(p) \/ Store(p) \/ Start(p) \/ NewFails(p)

Spec == Init /\ [][Next]_vars

-----------------------------------------------------------------------------

(* Every variable has its type: a failed start never takes back a          *)
(* calculator that was not started.                                        *)
TypeOK ==
  /\ valid \in BOOLEAN
  /\ calculate_active \in BOOLEAN
  /\ handler \in [Handlers -> {"idle", "load", "store", "new"}]
  /\ calculators \in Nat
  /\ requests \in Nat
  /\ restarts \in Nat

(* The handlers between their read of a clear flag and their spawn. *)
Starting == {p \in Handlers : handler[p] \in {"store", "new"}}

(* The race for the flag ends with the first store: once a calculator runs *)
(* or a handler is about to start one, the flag is set and no further      *)
(* handler passes it, whatever was in flight; only handlers that had read  *)
(* it before that store can still add a calculator.                        *)
NoLateStarter ==
  [][\A p \in Handlers :
       handler[p] = "load" /\ handler'[p] = "store" =>
         calculators = 0 /\ \A q \in Handlers : handler[q] # "new"]_vars

(* "Calculation already in progress" is a lie in one case only: in a       *)
(* process whose parameters do not parse, where a failed start leaves the  *)
(* flag set.  In any other, the flag means that a calculator runs or that  *)
(* a handler is about to start one, whichever handlers raced for it.       *)
FlagIsHonest ==
  valid => (calculate_active <=> calculators > 0 \/ \E p \in Handlers : handler[p] = "new")

(* There are never more calculators than requests that can race: a second  *)
(* wave of requests adds none.                                             *)
CalculatorsBounded == calculators + Cardinality(Starting) <= Cardinality(Handlers)

(* "Calculation already in progress": no two calculators run at a time.    *)
AtMostOneCalculator == calculators <= 1

=============================================================================
