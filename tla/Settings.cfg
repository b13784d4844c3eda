SPECIFICATION Spec
CONSTANTS
  Client = {c1, c2}
  NPorts = 2
  Request <- MCRequest
  CableReq <- MCCableReq
  NetReq <- MCNetReq
  Lease <- MCLease
  Garbage <- MCGarbage
  Unknown = {"LOOP_DETECT"}
  InitialConf <- MCInitialConf
  Broadcasting = {c2}
  MaxCalls = 2
INVARIANTS
  OnlyOrderedSettings
  GatewayInRange
  LocalCopyTrue
  IgmpConfSeen
  CabletestFresh
  MirrorSane
CHECK_DEADLOCK FALSE
