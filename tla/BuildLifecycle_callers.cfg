SPECIFICATION MCCallersFairSpec
CONSTANTS
  b1 = b1  b2 = b2  b3 = b3  d1 = d1
  None = None
  Builds <- BuildsAndDownload
  Downloads <- OneDownload
  Calls = "concurrent"
  MaxPanics = 1
INVARIANTS
  TypeOK
  SettledOnce
  CancelledNeverAttached
  JournalAgrees
  PatientRunOneAtATime
  PatientCanCancel
PROPERTIES
  CancelEnds
CHECK_DEADLOCK FALSE
