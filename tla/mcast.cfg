SPECIFICATION Spec
CONSTANTS
  s1 = s1
  s2 = s2
  g1 = g1
  g2 = g2
  g3 = g3
  Stas <- TwoStas
  Groups <- ThreeGroups
  RecordKinds = {"join", "leave", "sources", "unknown"}
  MaxRecords = 2
SYMMETRY Symmetry
CHECK_DEADLOCK FALSE
INVARIANTS
  TableWellFormed
  TableAsReported
