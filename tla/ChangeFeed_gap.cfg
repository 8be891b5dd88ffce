SPECIFICATION Spec
CONSTANTS
  Mutators = {m1, m2}
  Importers = {}
  Collections = {c1, c2}
  Readable = {c1}
  Limit = 2
  MaxBatch = 2
  MaxXid = 3
  MaxSeq = 4
  Wrap = 1000
SYMMETRY Symmetric
INVARIANTS NoLowerLater
