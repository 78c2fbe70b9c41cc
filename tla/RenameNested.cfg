SPECIFICATION Spec
CONSTANTS
  a = a
  b = b
  w = w
  v = v
  None = None
  Names = {a, w}
  Wide = {w}
  ClusterCount = 4
  SlotsPerCluster = 1
  MaxDepth = 2
  Ops = {"mkdir", "create", "remove", "rename", "renameNested"}
  FaultPoints = {"terminate", "link", "length", "write", "free", "unmark"}
PROPERTIES
  RenameMoves
