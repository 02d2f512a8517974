SPECIFICATION FairSpec
CONSTANTS
  None = None
  Malformed = Malformed
  Failed = Failed
  Call = {c1, c2, c3}
  Conn = {k1, k2, k3}
  MaxCrash = 2
INVARIANTS TypeOK  OwnAnswerUnlessCancelled FailureMeansOutage
PROPERTY CallsReturn
CHECK_DEADLOCK FALSE
