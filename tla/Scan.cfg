SPECIFICATION Spec
CONSTANTS
  c1 = c1
  c2 = c2
  s1 = s1
  s2 = s2
  f1 = f1
  NoNode = NoNode
  NoName = NoName
  Client = {c1}
  Switch = {s1, s2}
  Foreign = {}
  Password = {p0, p1}
  Name = {n0}
  FirstPassword = p0
  InitialPassword = p0
  SwitchName = n0
  Encrypting = {s2}
  ReadLoginRefused = {}
  Broadcasting = {FALSE}
  IoErrors = TRUE
  HeapCleared = TRUE
  Stray = {}
  MaxStray = 0
  MaxDup = 0
  MaxSeq = 2
  MaxRestart = 0
  MaxCycle = 1
INVARIANTS
  ScanListsAnswerers
CHECK_DEADLOCK FALSE
