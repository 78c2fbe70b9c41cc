SPECIFICATION Spec
CONSTANTS
  a = a
  b = b
  w = w
  v = v
  None = None
  Names = {a, b, w, v}
  Wide = {w, v}
  ClusterCount = 3
  SlotsPerCluster = 1
  MaxDepth = 2
  Ops = {"mkdir", "create", "remove", "rename"}
  FaultPoints = {"terminate", "link", "length", "write", "free", "unmark"}
SYMMETRY NameSymmetry
INVARIANTS
  TypeOK
  OwnClusters
PROPERTIES
  
  EnsuresPath
  RenameMoves
  ImplementsPathTree
