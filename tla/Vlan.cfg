SPECIFICATION Spec
CONSTANTS
  Client = {c1, c2}
  NPorts = 2
  PortReq <- MCPortReq
  DotReq <- MCDotReq
  DotVlan = {1, 2}
  Type = {"PORT_BASIC", "DOT_ADV"}
  Room = {1}
  InitialConf <- MCInitialConf
  MaxCalls = 3
INVARIANTS
  IdealKept
  PartitionKept
  OnlyOrderedMembership
SYMMETRY MCSymmetry
CHECK_DEADLOCK FALSE
