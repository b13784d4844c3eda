SPECIFICATION SpecLogged
CONSTANTS
  c1 = c1
  c2 = c2
  s1 = s1
  s2 = s2
  f1 = f1
  NoNode = NoNode
  NoName = NoName
  Client = {c1}
  Switch = {s1}
  Foreign = {}
  Password = {p0, p1}
  Name = {n0}
  FirstPassword = p0
  InitialPassword = p0
  SwitchName = n0
  Encrypting = {s1}
  ReadLoginRefused = {}
  Broadcasting = {FALSE}
  IoErrors = FALSE
  HeapCleared = TRUE
  Stray = {}
  MaxStray = 0
  MaxDup = 0
  MaxSeq = 5
  MaxRestart = 0
  MaxCycle = 0
INVARIANTS
  PasswordChangeTakesEffect
CHECK_DEADLOCK FALSE
