SPECIFICATION FairSpec
CONSTANTS
  Requests = {"r1", "r2"}
  Scopes = {"project"}
  Scope <- OneProject
  MaxAttempts = 2
  MaxRetryDelay = 1
  MaxWindow = 2
CHECK_DEADLOCK FALSE
INVARIANTS
  EffectsAreAccounted
PROPERTIES
  LimitsAreMetForAReason
  RequestsEnd
