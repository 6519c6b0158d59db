\* Two requests that race for the flag.
SPECIFICATION Spec
CONSTANTS
  Handlers = {p1, p2}
  MaxRequests = 3
  MaxRestarts = 0
INVARIANTS
  AtMostOneCalculator
CHECK_DEADLOCK FALSE
