SPECIFICATION CopySpec
CONSTANTS
  NSteps = 2
  Artifacts <- MCArtifacts
  Owns <- MCOwns
  Surface <- MCSurface
  Mandatory <- MCMandatory
  MaxRetries = 2
  Configs <- MCConfigs
  Restless = TRUE
  MaxVersion = 4
  MaxFaults = 3
CHECK_DEADLOCK FALSE
PROPERTIES
  CopyTerminates
  CopyKeepsPromise
