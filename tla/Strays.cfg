SPECIFICATION Spec
CONSTANTS
  c1 = c1
  c2 = c2
  s1 = s1
  s2 = s2
  f1 = f1
  NoNode = NoNode
  NoName = NoName
  Client = {c1}
  Switch = {s1}
  Foreign = {f1}
  Password = {p0, p1}
  Name = {n0}
  FirstPassword = p0
  InitialPassword = p0
  SwitchName = n0
  Encrypting = {s1}
  ReadLoginRefused = {s1}
  Broadcasting = {TRUE}
  IoErrors = FALSE
  HeapCleared = TRUE
  Stray <- MCStray
  MaxStray = 1
  MaxDup = 0
  MaxSeq = 2
  MaxRestart = 1
  MaxCycle = 0
INVARIANTS
  ReplyAnswersRequest
  OnlyOrderedPasswords
CHECK_DEADLOCK FALSE
