SPECIFICATION CasesSpec
CONSTANTS
  t1 = t1  t2 = t2
  None = None
  Tasks <- TwoTasks
  Last = 2
  MaxIds = 3
  MaxCrashes = 2
INVARIANT RegistryLoads
CHECK_DEADLOCK FALSE
