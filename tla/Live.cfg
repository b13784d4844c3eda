SPECIFICATION LiveSpecLogged
CONSTANTS
  c1 = c1
  c2 = c2
  s1 = s1
  s2 = s2
  f1 = f1
  NoNode = NoNode
  NoName = NoName
  Client = {c1}
  Switch = {s1}
  Foreign = {}
  Password = {p0, p1}
  Name = {n0}
  FirstPassword = p0
  InitialPassword = p0
  SwitchName = n0
  Encrypting = {s1}
  ReadLoginRefused = {s1}
  Broadcasting = {FALSE}
  IoErrors = FALSE
  HeapCleared = TRUE
  Stray = {}
  MaxStray = 0
  MaxDup = 1
  MaxSeq = 6
  MaxRestart = 0
  MaxCycle = 0
PROPERTIES
  CallsReturn
  EmulatorReturns
INVARIANTS
  AckedPasswordTookEffect
  VerdictIsTrue
CHECK_DEADLOCK FALSE
