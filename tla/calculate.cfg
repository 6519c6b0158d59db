\* Three requests at a time, failures and restarts.
SPECIFICATION Spec
CONSTANTS
  Handlers = {p1, p2, p3}
  MaxRequests = 6
  MaxRestarts = 2
INVARIANTS
  TypeOK
  CalculatorsBounded
  FlagIsHonest
PROPERTIES
  NoLateStarter
CHECK_DEADLOCK FALSE
