SPECIFICATION S3Spec
CONSTANTS
  p1 = p1
  p2 = p2
  a = a
  b = b
  Procs <- TwoProcs
  Parts <- TwoParts
  MaxPacks = 2
  MaxUploads = 2
  MaxFaults = 2
SYMMETRY Interchangeable
CHECK_DEADLOCK FALSE
INVARIANTS CommittedBackupMaterializes ObjectIsOnePack
PROPERTIES NothingOverwritten
