SPECIFICATION Spec
CONSTANTS
  None = None
  speakers = speakers
  headset = headset
  calls = calls
  music = music
  Device <- MCDevice
  Scanned <- AnyScan
  OutRank <- MCOutRank
  InRank <- MCInRank
  Task = {t1, t2}
  MaxId = 1
  Rules <- HeadsetRules
  Application = {calls, music}
  Permitted <- MayRecord
SYMMETRY TaskSymmetry
INVARIANTS DefaultsUsable DefaultUnlessNoCandidate ActiveIsDefault HubEntryHasRecord GlobIsWildcard RulesFireInOrder
PROPERTIES OnlyLostDefaultStrands OnlyLateWritesMislead ExplicitTargetIsKept
