SPECIFICATION Spec
CONSTANTS
  None = None
  speakers = speakers
  headset = headset
  calls = calls
  music = music
  Device <- MCDevice
  Scanned <- HotplugScan
  OutRank <- MCOutRank
  InRank <- MCInRank
  Task = {t1}
  MaxId = 1
  Rules <- HeadsetRules
  Application = {calls, music}
  Permitted <- MayRecord
INVARIANT FollowersTrackDefault
