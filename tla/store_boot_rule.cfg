SPECIFICATION Spec
CONSTANTS
  None = None
  Shared = Shared
  Device = {speaker}
  Task = {t}
  MaxChange = 1
  Capacity = 1
  MayFail = FALSE
  BootRule = TRUE
  Hotplug = FALSE
PROPERTY SettingsSurvive
