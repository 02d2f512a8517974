SPECIFICATION FairSpec
CONSTANTS
  None = None
  Shared = Shared
  Device = {speaker}
  Task = {t1, t2}
  MaxChange = 3
  Capacity = 2
  MayFail = TRUE
  BootRule = TRUE
  Hotplug = TRUE
INVARIANTS TypeOK NeverTorn
PROPERTIES  LatestSaved
