SPECIFICATION FairSpec
CONSTANTS
  None = None
  Conn = {c}
  Handler = {h1, h2}
  MaxStream = 1
  MaxSent = 4
  MaxWire = 2
  RingCap = 2
  Volume = {50, 120}
INVARIANTS StreamHasConnectionOrIsAbandoned RingIsNewest FramesStayAligned
PROPERTIES OnlyLateSettingsMislead OpenIsAnswered ClosedStreamEnds
