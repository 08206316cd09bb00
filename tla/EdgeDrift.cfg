SPECIFICATION Spec
CONSTANTS
  f1 = f1
  f2 = f2
  Runners = {r1, r2}
  ItemLists <- Lists
  MapErrors = {"drift", "error"}
  SlugOrder <- TwoSlugs
  Modes = {"verified"}
  MaxRetries = 1
  MaxVersion = 2
  MaxFaults = 0
INVARIANTS
  EdgeDriftIsRetried
CHECK_DEADLOCK FALSE
