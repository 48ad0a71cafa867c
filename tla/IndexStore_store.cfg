SPECIFICATION ISSpec
CONSTANTS
  d1 = d1  d2 = d2  r1 = r1  r2 = r2  m1 = m1  m2 = m2
  None = None
  Docs <- TwoDocs
  Roots <- TwoRoots
  Models <- TwoModels
  Under <- Nested
  MaxJobs = 2
  HistoryPerRoot = 1
  BatchTarget = 2
  MaxEdits = 1
  MaxCrashes = 1
INVARIANTS
  ISTypeOK
  NoLeftoverBackup
  CompletedIsWhole
  RunningIsMine
PROPERTIES
  OnlyVerdictsDrop
  SavedIsHeld
  OnlyDeletionLosesIndex
  AtomicSpec
CHECK_DEADLOCK FALSE
SYMMETRY EitherModel
CONSTRAINT EitherCase
