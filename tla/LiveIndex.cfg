SPECIFICATION LiveSpec
CONSTANTS
  f1 = f1  f2 = f2  b1 = b1  b2 = b2  q1 = q1  q2 = q2
  NoTree = NoTree  Nobody = Nobody
  Files <- TwoFiles
  Batches <- TwoBatches
  Requests <- TwoRequests
  MaxRevision = 3
  MaxHandles = 2
  MaxChanges = 2
INVARIANTS
  DUTypeOK
  QuietIsCurrent
  TreeIsFresh
CHECK_DEADLOCK FALSE
CONSTRAINT EitherCase
PROPERTIES EveryTopicAnswered
