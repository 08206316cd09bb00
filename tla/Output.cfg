SPECIFICATION OutputFairSpec
CONSTANTS
  p1 = p1
  a = a
  Procs <- OneProc
  Parts <- OnePart
  MaxPacks = 5
  MaxUploads = 4
  MaxFaults = 3
  Kinds = {"directory", "archive", "age", "s3", "s3_age"}
CHECK_DEADLOCK FALSE
INVARIANTS
  NothingLostHalfWay
  SuccessIsComplete
  UnmarkedObjectIsResumable
PROPERTIES
  BegunUploadKeepsTransport
  FinishedOutputSurvives
  UploadsGetLostOnlyAtCreation
  OutputStopsForAReason
  OutputIsReached
