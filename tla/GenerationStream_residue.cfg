SPECIFICATION Spec
CONSTANTS
  r1 = r1  r2 = r2  r3 = r3
  None = None
  Cancel = Cancel
  Requests <- MCRequests2
  ChannelCap = 2
  MaxTokens = 2
  MaxPanics = 1
INVARIANTS
  NoResidue
CHECK_DEADLOCK FALSE
