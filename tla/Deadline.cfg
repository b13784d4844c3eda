SPECIFICATION Spec
CONSTANTS
  Ms = 4
  Ns = 2
  Slack = 2
  MaxWanted = 2
  Timeout <- MCTimeout
INVARIANTS
  NotLate
  EarlyInLastSecond
  ScanBounded
PROPERTIES
  ScanEnds
CHECK_DEADLOCK FALSE
