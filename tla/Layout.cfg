SPECIFICATION Spec
CONSTANTS
  f1 = f1
  f2 = f2
  None = None
  Files = {f1, f2}
  Values = {f1, f2}
  Payload <- OwnName
  ClusterCount = 5
  ClusterBytes = 1
  SystemClusters = {2}
  Preexisting <- NothingThere
  MaxLength = 4
  Ops = {"append", "truncate", "create"}
  Faults = {}
SYMMETRY FileSymmetry
INVARIANTS
  ExtentsAllocated
  CacheCoherent
PROPERTIES
  LostOnlyByErrors
  ImplementsStore
