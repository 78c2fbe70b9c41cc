SPECIFICATION Spec
CONSTANTS
  f1 = f1
  f2 = f2
  None = None
  Files = {f1, f2}
  Values = {f1, f2}
  Payload <- OwnName
  ClusterCount = 5
  ClusterBytes = 2
  SystemClusters = {2,4}
  Preexisting <- NothingThere
  MaxLength = 3
  Ops = {"append", "create", "remove", "mount"}
  Faults = {"io", "crash"}
SYMMETRY FileSymmetry
INVARIANTS
  NoUninitialisedRange
  NoCrossLink
  HandleCoherent
