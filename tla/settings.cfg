SPECIFICATION FairSpec
CONSTANTS
  None = None
  speakers = speakers
  hdmi = hdmi
  onboard = onboard
  bare = bare
  Device <- TwoDevices
  Card <- BothCards
  CardOf <- Cards
  Controlled <- OneCard
  Switched <- OneCard
  Steps = 3
  Volume = {0, 50}
  Profile = {"stereo", "headset"}
  MicField = {"muted", "gain"}
  Task = {t1, t2}
  MaxChange = 2
INVARIANT EffectsRestored
PROPERTIES CurrentScanSettles RecordsConverge OnlyOvertakenEventsMislead
