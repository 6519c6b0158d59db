--------------------------- MODULE CalculateProofs ---------------------------
(***************************************************************************)
(* The race for the flag of POST /calculate, for any finite number of      *)
(* racing requests.                                                        *)
(***************************************************************************)
EXTENDS Calculate, FiniteSetTheorems, TLAPS

FlagTypes == valid \in BOOLEAN /\ calculate_active \in BOOLEAN

CountTypes ==
  /\ handler \in [Handlers -> {"idle", "load", "store", "new"}]
  /\ calculators \in Nat
  /\ requests \in Nat
  /\ restarts \in Nat

LEMMA TypeParts == TypeOK <=> FlagTypes /\ CountTypes
BY Zenon DEF TypeOK, FlagTypes, CountTypes

LEMMA FlagTypeStep == FlagTypes /\ [Next]_vars => FlagTypes'
<1> SUFFICES ASSUME FlagTypes, [Next]_vars PROVE FlagTypes'
  OBVIOUS
<1>1. CASE Restart
  BY <1>1, Zenon DEF Restart, FlagTypes
<1>2. CASE UNCHANGED <<valid, calculate_active>>
  BY <1>2, Zenon DEF FlagTypes
<1>3. ASSUME NEW p \in Handlers, Store(p) PROVE FlagTypes'
  BY <1>3, Zenon DEF Store, FlagTypes
<1>4. ASSUME NEW p \in Handlers, Request(p) \/ Load(p) \/ Start(p) \/ NewFails(p)
      PROVE  FlagTypes'
  BY <1>2, <1>4, Zenon DEF Request, Load, Start, NewFails
<1>5. CASE UNCHANGED vars
  BY <1>2, <1>5, Zenon DEF vars
<1> QED BY <1>1, <1>3, <1>4, <1>5, Zenon DEF Next

LEMMA CountTypeStep == CountTypes /\ [Next]_vars => CountTypes'
<1> SUFFICES ASSUME CountTypes, [Next]_vars PROVE CountTypes'
  OBVIOUS
<1> USE DEF CountTypes
<1>1. CASE Restart
  BY <1>1 DEF Restart
<1>2. ASSUME NEW p \in Handlers, Request(p) \/ Load(p) \/ Store(p)
      PROVE  CountTypes'
  BY <1>2 DEF Request, Load, Store
<1>3. ASSUME NEW p \in Handlers, Start(p) \/ NewFails(p)
      PROVE  CountTypes'
  BY <1>3 DEF Start, NewFails
<1>4. CASE UNCHANGED vars
  BY <1>4 DEF vars
<1> QED BY <1>1, <1>2, <1>3, <1>4 DEF Next

(* A failed start takes nothing back, and no variable leaves its type.     *)
THEOREM CalculateTypeCorrect == Spec => []TypeOK
<1>1. Init => FlagTypes
  BY Zenon DEF Init, FlagTypes
<1>2. Init => CountTypes
  BY DEF Init, CountTypes
<1> QED BY <1>1, <1>2, FlagTypeStep, CountTypeStep, TypeParts, PTL DEF Spec

-----------------------------------------------------------------------------
(* Who has passed the flag *)

(* While the flag is clear no handler has got as far as the start.         *)
ClearMeansNone ==
  ~calculate_active => calculators = 0 /\ \A p \in Handlers : handler[p] # "new"

LEMMA ClearInit == Init => ClearMeansNone
BY DEF Init, ClearMeansNone

LEMMA ClearStep == TypeOK /\ ClearMeansNone /\ [Next]_vars => ClearMeansNone'
<1> SUFFICES ASSUME TypeOK, ClearMeansNone, [Next]_vars PROVE ClearMeansNone'
  OBVIOUS
<1> USE DEF TypeOK, ClearMeansNone
<1>1. CASE Restart
  BY <1>1 DEF Restart
<1>2. ASSUME NEW p \in Handlers, Request(p) \/ Load(p) \/ Store(p)
      PROVE  ClearMeansNone'
  BY <1>2 DEF Request, Load, Store
<1>3. ASSUME NEW p \in Handlers, Start(p) \/ NewFails(p)
      PROVE  ClearMeansNone'
  BY <1>3 DEF Start, NewFails
<1>4. CASE UNCHANGED vars
  BY <1>4 DEF vars
<1> QED BY <1>1, <1>2, <1>3, <1>4 DEF Next

LEMMA ClearInvariant == Spec => []ClearMeansNone
BY CalculateTypeCorrect, ClearInit, ClearStep, PTL DEF Spec

-----------------------------------------------------------------------------
(* The properties *)

(* Where the parameters parse, the flag never refuses a request without a  *)
(* calculator that runs or is about to.                                    *)
THEOREM FlagStaysHonest == Spec => []FlagIsHonest
<1>1. Init => FlagIsHonest
  BY DEF Init, FlagIsHonest
<1>2. TypeOK /\ FlagIsHonest /\ [Next]_vars => FlagIsHonest'
  <2> SUFFICES ASSUME TypeOK, FlagIsHonest, [Next]_vars PROVE FlagIsHonest'
    OBVIOUS
  <2> USE DEF TypeOK, FlagIsHonest
  <2>1. CASE Restart
    BY <2>1 DEF Restart
  <2>2. ASSUME NEW p \in Handlers, Request(p) \/ Load(p) \/ Store(p)
        PROVE  FlagIsHonest'
    <3>1. CASE Request(p) \/ Load(p)
      <4>1. /\ UNCHANGED <<valid, calculate_active, calculators>>
            /\ handler[p] # "new" /\ handler'[p] # "new"
            /\ \A q \in Handlers \ {p} : handler'[q] = handler[q]
        BY <3>1 DEF Request, Load
      <4> QED BY <4>1
    <3>2. CASE Store(p)
      <4>1. calculate_active' /\ handler'[p] = "new"
        BY <3>2 DEF Store
      <4> QED BY <4>1
    <3> QED BY <2>2, <3>1, <3>2
  <2>3. ASSUME NEW p \in Handlers, Start(p) \/ NewFails(p)
        PROVE  FlagIsHonest'
    <3>1. CASE Start(p)
      <4>1. calculators' > 0 /\ calculate_active' = calculate_active /\ valid' = valid
        BY <3>1 DEF Start
      <4>2. calculate_active
        BY <3>1 DEF Start
      <4> QED BY <4>1, <4>2
    <3>2. CASE NewFails(p)
      <4>1. ~valid'
        BY <3>2 DEF NewFails
      <4> QED BY <4>1
    <3> QED BY <2>3, <3>1, <3>2
  <2>4. CASE UNCHANGED vars
    BY <2>4 DEF vars
  <2> QED BY <2>1, <2>2, <2>3, <2>4 DEF Next
<1> QED BY <1>1, <1>2, CalculateTypeCorrect, PTL DEF Spec

(* The handlers that have passed the flag are a finite set that grows only *)
(* while there is no calculator.                                           *)
LEMMA SubsetsFinite ==
  ASSUME NEW S \in SUBSET Handlers
  PROVE  /\ IsFiniteSet(S) /\ Cardinality(S) \in Nat
         /\ Cardinality(Handlers) \in Nat /\ Cardinality(S) <= Cardinality(Handlers)
BY HandlersAssumption, FS_Subset, FS_CardinalityType

LEMMA BoundedStep ==
  ASSUME TypeOK, ClearMeansNone, CalculatorsBounded, [Next]_vars
  PROVE  CalculatorsBounded'
<1>1. /\ IsFiniteSet(Starting) /\ Cardinality(Starting) \in Nat
      /\ Cardinality(Handlers) \in Nat
      /\ Cardinality(Starting') \in Nat /\ Cardinality(Starting') <= Cardinality(Handlers)
  <2>1. Starting \in SUBSET Handlers /\ Starting' \in SUBSET Handlers
    BY DEF Starting
  <2> QED BY <2>1, SubsetsFinite
<1>2. CASE calculators' = 0
  BY <1>1, <1>2 DEF CalculatorsBounded
<1>3. CASE Starting' = Starting /\ calculators' = calculators
  BY <1>3 DEF CalculatorsBounded
<1>4. ASSUME NEW p \in Handlers, Start(p) \/ NewFails(p)
      PROVE  CalculatorsBounded'
  <2>1. p \in Starting /\ Starting' = Starting \ {p}
    BY <1>4 DEF Start, NewFails, Starting, TypeOK
  <2>2. Cardinality(Starting') = Cardinality(Starting) - 1
    BY <1>1, <2>1, FS_RemoveElement
  <2>3. calculators' \in {calculators, calculators + 1} /\ calculators \in Nat
    BY <1>4 DEF Start, NewFails, TypeOK
  <2> QED BY <1>1, <2>2, <2>3 DEF CalculatorsBounded
<1>5. ASSUME NEW p \in Handlers, Load(p) PROVE CalculatorsBounded'
  <2>1. CASE calculate_active
    BY <1>3, <1>5, <2>1 DEF Load, Starting, TypeOK
  <2>2. CASE ~calculate_active
    BY <1>2, <1>5, <2>2 DEF Load, ClearMeansNone
  <2> QED BY <2>1, <2>2
<1>6. ASSUME NEW p \in Handlers, Request(p) \/ Store(p) PROVE CalculatorsBounded'
  BY <1>3, <1>6 DEF Request, Store, Starting, TypeOK
<1>7. CASE Restart
  BY <1>2, <1>7 DEF Restart
<1>8. CASE UNCHANGED vars
  BY <1>3, <1>8 DEF vars, Starting
<1> QED BY <1>4, <1>5, <1>6, <1>7, <1>8 DEF Next

(* However many requests are made, there are never more calculators than   *)
(* requests can be in progress at a time.                                  *)
THEOREM CalculatorsStayBounded == Spec => []CalculatorsBounded
<1>1. Init => CalculatorsBounded
  <2>1. Starting \in SUBSET Handlers
    BY DEF Starting
  <2>2. Cardinality(Starting) \in Nat /\ Cardinality(Starting) <= Cardinality(Handlers)
    BY <2>1, SubsetsFinite
  <2> QED BY <2>2, SubsetsFinite DEF Init, CalculatorsBounded
<1> QED BY <1>1, BoundedStep, CalculateTypeCorrect, ClearInvariant, PTL DEF Spec

(* Once a calculator runs, or a handler is about to start one, no other    *)
(* handler passes the flag.                                                *)
THEOREM RaceEnds == Spec => NoLateStarter
<1>1. TypeOK /\ ClearMeansNone /\ [Next]_vars =>
        [\A p \in Handlers :
           handler[p] = "load" /\ handler'[p] = "store" =>
             calculators = 0 /\ \A q \in Handlers : handler[q] # "new"]_vars
  <2> SUFFICES ASSUME TypeOK, ClearMeansNone, Next,
                      NEW p \in Handlers, handler[p] = "load", handler'[p] = "store"
               PROVE  calculators = 0 /\ \A q \in Handlers : handler[q] # "new"
    OBVIOUS
  <2>1. ~calculate_active
    BY DEF Next, Restart, Request, Load, Store, Start, NewFails, TypeOK
  <2> QED BY <2>1 DEF ClearMeansNone
<1> QED BY <1>1, CalculateTypeCorrect, ClearInvariant, PTL DEF Spec, NoLateStarter

=============================================================================
