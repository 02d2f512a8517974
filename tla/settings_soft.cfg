SPECIFICATION Spec
CONSTANTS
  None = None
  speakers = speakers
  hdmi = hdmi
  onboard = onboard
  bare = bare
  Device <- OneDevice
  Card <- OneBareCard
  CardOf <- BareSpeakers
  Controlled = {}
  Switched <- OneBareCard
  Steps = 3
  Volume = {0, 50}
  Profile = {"stereo"}
  MicField = {"muted"}
  Task = {t}
  MaxChange = 2
PROPERTY SoftVolumeTracked
