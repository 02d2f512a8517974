SPECIFICATION FairSpec
CONSTANTS
  None = None
  mic = mic
  headset = headset
  Device = {mic, headset}
  BuiltIn = {mic}
  Stream = {s}
  Slot = {1, 2}
  MayDie = TRUE
INVARIANT OneReader
PROPERTIES StreamsHearTheirDevice NoIdleSource
