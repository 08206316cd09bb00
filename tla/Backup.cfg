SPECIFICATION FairSpec
CONSTANTS
  NSteps = 2
  Artifacts <- MCArtifacts
  Owns <- MCOwns
  Surface <- MCSurface
  Mandatory <- MCMandatory
  Shared <- MCShared
  MaxRetries = 1
  Configs <- AllRuns
  Restless = FALSE
  MaxVersion = 2
  MaxFaults = 2
CHECK_DEADLOCK FALSE
INVARIANTS
  CapturesIntact
  FinishedBundleIsExact
  LabelIsHonest
PROPERTIES
  OnlyDamageBreaksResume
  KeepsPromise
  RunStopsForAReason
  EventuallyFinished
