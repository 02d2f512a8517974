SPECIFICATION FairSpec
CONSTANTS
  None = None
  Subscribed = Subscribed
  Level = Level
  Refetch = Refetch
  Task = {t1, t2}
  Field = {"volume", "profile"}
  Monitor = {m}
  Conn <- Connections
  MayUse <- Allowed
  EventCap = 1
  OutCap = 1
  WireCap = 1
  ChanCap = 1
  MaxChange = 3
INVARIANT NothingLost
PROPERTIES KnownCurrent MeteringParks
CHECK_DEADLOCK FALSE
