SPECIFICATION Spec
CONSTANTS
  B = 3
  K = 12
  VLAN_PORT_MAX = 3
  VLAN_DOT_MAX = 14
  PortsCount = 2
  MaxLen = 120
  Null = Null
  Request <- MCRequest
  ForeignRequest <- MCForeign
INVARIANTS
  RequestUnderstood
  WriteIsPrefix
  ReadTellsSettings
