SPECIFICATION MCSpec
CONSTANTS
  Kind = "pico"
  MAX_PROMPT = 2
  Keys <- AllKeys
  Bytes <- NoBytes
  MaxTyped = 6
  MaxAhead = 6
  MaxSent = 0
  UartSize = 4
  UartChars = 6
  UartPuts = 2
  TxSize = 3
  RxSize = 4
  Packet = 32
  Requests <- RingRequests
  CdcPuts = 3
  CdcChars = 5
  MaxPacket = 4
  MaxSetups = 1
  MaxResets = 1
CHECK_DEADLOCK FALSE
INVARIANTS InputKept ShownIsLine OutTranslated RingsInOrder
PROPERTIES StatusTrue DroppedOnlyFull
