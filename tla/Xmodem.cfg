SPECIFICATION Spec
CONSTANTS
  Blocks = 4
  DestBlocks = 4
  SeqSpan = 5
  SyncTries = 2
  MaxRetrans = 3
  EotTries = 2
  MaxFaults = 2
INVARIANTS TypeOK InOrder FaultlessComplete EndAfterLastAck
PROPERTY BothReturn
