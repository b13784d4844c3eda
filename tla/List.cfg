SPECIFICATION Spec
CONSTANTS
  Node = {n1, n2, n3, n4}
  NULL = NULL
  Data = {d1, d2, d3, d4}
INVARIANTS
  Linked
  CursorLive
  DataLive
PROPERTIES
  ListIsSequence
