SPECIFICATION CasesSpec
CONSTANTS
  t1 = t1  t2 = t2
  None = None
  Tasks <- TwoTasks
  Last = 2
  MaxIds = 3
  MaxCrashes = 2
INVARIANTS
  WSTypeOK
  NeverSplit
  OneContextEach
  NamesManifests
PROPERTIES
  AdoptsWhole
  StartsAgain
CHECK_DEADLOCK FALSE
