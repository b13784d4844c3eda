SPECIFICATION Spec
CONSTANTS
  None = None
  Mac = {m1, m2}
  Wanted = {m1}
  Retries <- MCRetries
  Batch = {0, 1}
  MaxTab = 2
  MaxCom = 3
  MaxSignals = 2
INVARIANTS
  RequestedSwitch
  JumpIsMarked
  EchoRestored
  NotUsedAfterFree
PROPERTIES
  PreLoginEnds
  Ends
CHECK_DEADLOCK FALSE
