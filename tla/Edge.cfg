SPECIFICATION Spec
CONSTANTS
  f1 = f1
  f2 = f2
  Runners = {r1, r2}
  ItemLists <- Lists
  MapErrors = {"drift", "error"}
  SlugOrder <- TwoSlugs
  Modes = {"verified", "best-effort", "quiesced"}
  MaxRetries = 1
  MaxVersion = 2
  MaxFaults = 1
INVARIANTS
  SettledIsQuiet
  ReturnedIsComplete
  IndexMatchesSources
PROPERTIES
  EdgeKeepsPromise
CHECK_DEADLOCK FALSE
