SPECIFICATION Spec
CONSTANTS
  a = a
  b = b
  c = c
  e = e
  w = w
  None = None
  Names = {a, b, c}
  Units <- UnitsOf
  UnitsPerEntry = 2
  SlotsPerSector = 4
  SectorsPerCluster = 1
  MaxClusters = 3
  Kind = "root"
  InitialSlots <- RootSlots
  Streams <- WholeStreams
  Empty <- Nothing
  SharedWorkspace = TRUE
  Renames <- SameOrLonger
  Ops = {"create", "remove", "rename", "update"}
  Faults = {}
  FaultPoints = {}
INVARIANTS
  TypeOK
  NamesUnique
  WorkspaceReusable
PROPERTIES
  RenameKeepsStream
  ImplementsDirectory
