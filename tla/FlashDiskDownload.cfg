SPECIFICATION Spec
CONSTANTS
  RecordsPerSector = 2
  RecordsPerBlock = 2
  AreaSectors = 3
  DiskRecords = 3
  SectorsA = 3
  SectorsI = 2
  PosSpan = 64
  EepromRecords = 1
  BootBlocks = 1
  Drives = {0, 1, 8}
  Tracks = {0}
  Sects = {1, 2, 3}
  Data = {0, 1}
  Zero = 0
  Erased = 1
  InitialFlash <- MCInitialFlash
INVARIANT DownloadIsTheDisk
