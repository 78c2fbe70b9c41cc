SPECIFICATION Spec
CONSTANTS
  None = None
  End = End
  Gone = Gone
  Marker = 4
  AsciiLimit = 1
  AsciiUpper <- UpperA
  Tables <- AllTables
  WordsPerSector = 2
  Names <- AllNames
  Directories <- Contents
  SlotsPerSector = 2
  Validity = {TRUE, FALSE}
  Ops = {"lookup", "create", "remove"}
INVARIANTS
  TypeOK
  UpcaseAsTable
  LookupFinds
