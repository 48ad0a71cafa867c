SPECIFICATION FairSpec
CONSTANTS
  r1 = r1  r2 = r2  r3 = r3
  None = None
  Cancel = Cancel
  Requests <- MCRequests2
  ChannelCap = 2
  MaxTokens = 3
  MaxPanics = 1
INVARIANTS
  OwnStream
  PipeAtBoundary
  CutOnlyWhatWaited
  StuckByStaleCancel
PROPERTIES
  EveryStreamEnds
CHECK_DEADLOCK FALSE
