SPECIFICATION Spec
CONSTANTS
  m1 = m1  m2 = m2  r1 = r1  r2 = r2  r3 = r3  p1 = p1  p2 = p2  p3 = p3
  None = None
  Shutdown = Shutdown
  Managers <- MCManagers
  Requests <- MCRequests2
  Sidecar <- MCSidecar
  Procs <- MCProcs2
  ChannelCap = 2
  Residents = 1
  MaxFaults = 1
SYMMETRY Symmetric2
INVARIANTS
  PermitUntilDeath
CHECK_DEADLOCK FALSE
