SPECIFICATION FairSpec
CONSTANTS
  a = a
  b = b
  f1 = f1
  None = None
  Files = {f1}
  Values = {a, b}
  Payload <- AnyValue
  ClusterCount = 5
  ClusterBytes = 2
  SystemClusters = {2, 4}
  Preexisting <- NothingThere
  MaxLength = 3
  Ops = {"append", "create", "read", "write", "remove", "refresh"}
  Faults = {"io", "crash", "abandon"}
INVARIANTS
  TransfersReachFile
PROPERTIES
  ImplementsStore
  OperationsComplete
