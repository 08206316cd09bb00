SPECIFICATION Spec
CONSTANTS
  Order <- TwoActions
  Needs <- TopNeedsBase
  Units <- TwoUnits
  First = 1
  Runs <- KeyRuns
  MaxFaults = 1
  MaxChanges = 0
CHECK_DEADLOCK FALSE
INVARIANTS
  InterruptedRestoreIsResumable
