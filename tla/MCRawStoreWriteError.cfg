CONSTANTS
  Snapshots = {s1}
  Writers = {w1}
  Readers = {r1}
  NoSnapshot = NoSnapshot
  MaxCalls = 2
SPECIFICATION Spec
INVARIANT
  WriteErrorPublishesNothing
