SPECIFICATION MCSpec
CONSTANTS
  Ports = {"p", "q"}
  Values = {"v", "w"}
  DeviceData = "d"
  MaxRequests = 3
  MaxTimeouts = 2
  MaxRestarts = 1
  MaxKeys = 3
CHECK_DEADLOCK FALSE
INVARIANT NoContention
PROPERTIES CallIsDone EveryWaitEnds RequestsAnswered CharactersArrive
