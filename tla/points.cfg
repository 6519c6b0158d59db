\* Every attestation of up to 5 claims over 3 contexts.
SPECIFICATION Spec
CONSTANTS
  ClaimContexts = {a, b, c}
  TOTAL_EVENTS = 3
  MaxLength = 5
  MaxTime = 1
INVARIANTS
  UniqueEventsCountsContexts
  CountsAgreeWhenTogether
  CompletedAtLatest
CHECK_DEADLOCK FALSE
