CONSTANTS
  Snapshots = {s1, s2}
  Writers = {w1, w2, w3}
  Readers = {r1}
  NoSnapshot = NoSnapshot
  MaxCalls = 4
SPECIFICATION Spec
SYMMETRY Symmetry
INVARIANTS
  TypeOK
  ExclusiveReservation
  MetadataIsLast
  NoTornRead
PROPERTIES
  AbandonedForever
  ImplementsRawEvidence
