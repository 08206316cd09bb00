SPECIFICATION FairSpec
CONSTANTS
  o1 = o1
  o2 = o2
  b1 = b1
  b2 = b2
  Runners = {r1, r2}
  ItemLists <- Lists
  MapErrors = {"drift", "error"}
  Modes = {"verified", "best-effort"}
  MaxRetries = 1
  MaxFaults = 1
  ObjectOrder <- TwoObjects
  Buckets = {b1, b2}
  BucketOf <- Homes
  Tagged = {o1}
  MaxAttempts = 2
  MaxVersion = 2
INVARIANTS
  IndexedObjectsAreStored
  StableObjectsAreTheSnapshot
PROPERTIES
  ObjectStepEnds
  ObjectsKeepPromise
CHECK_DEADLOCK FALSE
