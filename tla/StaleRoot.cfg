SPECIFICATION Spec
CONSTANTS
  SectorBytes = 8
  RegionSectors = 3
  EntryBytes = 2
  BitsPerByte = 1
  UpcaseBytes = 16
  MinimumSectors = 8
  MaxClusterBytes = 32
  MaxSectors = 46
  MediumDevice = 27
  MediumCluster = 2
  LargeDevice = 40
  LargeCluster = 4
  Tries = 8
  SlotsPerSector = 4
  GptEntriesPerSector = 2
  Media <- AllMedia
  Scratches = {9}
  Files = {"n", "m"}
  MaxMade = 2
  Damages = {}
  CacheLoses = {"nothing", "everything"}
INVARIANTS
  NoPriorFiles
