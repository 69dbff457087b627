SPECIFICATION MCSpec
CONSTANTS
  EntriesPerSector = 2
  Spc = 2
  FatFirst = 1
  Reserved = 1
  FatSectors = 3
  RootSectors = 3
  Totsec = 25
  LinksPerSector = 4
  Chain <- MCChain
  Directory <- MCDirectory
  DirEntries = 6
  RootCluster = 0
  Max12 = 20
  Max16 = 40
  Span = 4096
  Names = {"ONE", "TWO", "THREE", "SUB", "UP"}
  Junk = "JUNK"
  Positions = {0, 1, 2, 3, 4, 5, 6}
  MaxFaults = 0
  MaxInits = 0
PROPERTIES SectorServed LsShowsDirectory LookupFinds WalkIsChain
CHECK_DEADLOCK FALSE
