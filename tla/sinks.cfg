SPECIFICATION FairSpec
CONSTANTS
  None = None
  left = left
  right = right
  zone = zone
  Device <- TwoDevices
  BuiltIn <- OneBuiltIn
  Group <- OneGroup
  Scenario <- DevicesOrGroup
  Latency = {0}
  Slot = {m1, m2}
  Handler = {h}
  MayDie = TRUE
INVARIANTS MixerOwned GroupInStep
PROPERTIES ServedWhileAlive NoIdleSink
