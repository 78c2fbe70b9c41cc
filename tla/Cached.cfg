SPECIFICATION CachedSpec
CONSTANTS
  f1 = f1
  f2 = f2
  None = None
  Files = {f1, f2}
  Values = {f1, f2}
  Payload <- OwnName
  ClusterCount = 3
  ClusterBytes = 1
  SystemClusters = {2}
  Preexisting <- NothingThere
  MaxLength = 2
  MaxCuts = 1
  Ops = {"append", "create", "remove", "refresh"}
  Faults = {"io", "cancel"}
SYMMETRY FileSymmetry
INVARIANTS
  TypeOK
  FreeCountExact
PROPERTIES
  UntouchedSurvives
