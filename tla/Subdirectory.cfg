SPECIFICATION Spec
CONSTANTS
  a = a
  b = b
  c = c
  e = e
  w = w
  None = None
  Names = {a, b, w}
  Units <- UnitsOf
  UnitsPerEntry = 2
  SlotsPerSector = 4
  SectorsPerCluster = 1
  MaxClusters = 3
  Kind = "chained"
  InitialSlots <- SubSlots
  Streams <- OneStream
  Empty <- Nothing
  SharedWorkspace = FALSE
  Renames <- NoRenames
  Ops = {"create", "remove"}
  Faults = {"io", "crash"}
  FaultPoints = {"lookup", "search", "link", "pad", "length", "sealLength", "retire"}
INVARIANTS
  EndMarkersLast
  WrittenWithinRecord
  ScansEnd
PROPERTIES
  ImplementsDirectory
