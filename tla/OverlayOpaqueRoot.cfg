SPECIFICATION Spec
CONSTANTS
  c1 = c1
  c2 = c2
  none = none
  absent = absent
  m = m
  RawNames <- MCRawNames
  Contents = {c1, c2}
  NoContent = none
  Modes = {m}
  Absent = absent
  Stem <- MCStem
  Images <- MCImages
INVARIANT OpaqueRootHides
