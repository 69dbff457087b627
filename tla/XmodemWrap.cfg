SPECIFICATION Spec
CONSTANTS
  Blocks = 6
  DestBlocks = 5
  SeqSpan = 4
  SyncTries = 2
  MaxRetrans = 3
  EotTries = 2
  MaxFaults = 3
INVARIANT InOrder

