SPECIFICATION Spec
CONSTANTS
  b1 = b1  b2 = b2  b3 = b3  d1 = d1
  None = None
  Builds <- OneBuild
  Downloads <- NoDownload
  Calls = "patient"
  MaxPanics = 0
INVARIANTS
  EndedJobIsClosed
CHECK_DEADLOCK FALSE
