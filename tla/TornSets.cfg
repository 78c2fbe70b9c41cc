SPECIFICATION FairSpec
CONSTANTS
  a = a
  b = b
  c = c
  e = e
  w = w
  None = None
  Names = {a, e, w}
  Units <- UnitsOf
  UnitsPerEntry = 2
  SlotsPerSector = 4
  SectorsPerCluster = 1
  MaxClusters = 3
  Kind = "root"
  InitialSlots <- RootSlots
  Streams <- OneStream
  Empty <- Nothing
  SharedWorkspace = FALSE
  Renames <- AnyWidth
  Ops = {"create", "remove", "rename", "renameOnto"}
  Faults = {"io", "crash"}
  FaultPoints = {"link", "length", "sealLength", "write", "seal", "retire", "restream", "rename", "stream", "reseal"}
INVARIANTS
  ShownAreWhole
  LocatorsHold
PROPERTIES
  OperationsComplete
