SPECIFICATION OutputSpec
CONSTANTS
  p1 = p1
  a = a
  Procs <- OneProc
  Parts <- OnePart
  MaxPacks = 3
  MaxUploads = 2
  MaxFaults = 1
  Kinds = {"age"}
CHECK_DEADLOCK FALSE
PROPERTIES ResumeKeepsEncryptedFile
