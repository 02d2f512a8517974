SPECIFICATION FairSpec
CONSTANTS
  None = None
  Shared = Shared
  Device = {speaker, phones}
  Task = {t}
  MaxChange = 3
  Capacity = 3
  MayFail = FALSE
  BootRule = FALSE
  Hotplug = FALSE
PROPERTIES SettingsSurvive ImplementsDurable
