SPECIFICATION FairSpec
CONSTANTS
  Order <- TwoActions
  Needs <- TopNeedsBase
  Units <- TwoUnits
  First = 1
  Runs <- AllRuns
  MaxFaults = 2
  MaxChanges = 1
CHECK_DEADLOCK FALSE
PROPERTIES
  RestoredIsExact
  EffectsAreJournaled
  FoundationIsExact
  
  RestoreStopsForAReason
  FreshRestoreSucceeds
