SPECIFICATION MCSpec
CONSTANTS
  Cards <- MCCards
  NoCard = NoCard
  Sectors = {0, 1}
  Records = {0, 1}
  SectorBytes = 2
  Data = {0, 1, 2, 3, 4, 5, 6, 7}
  Blank = 6
  Image <- MCImage
  AvrCards <- MCAvrCards
  AvrImage <- MCAvrImage
  MaxFaults = 1
  MaxExchanges = 1
  MaxPolls = 2
  MaxStores = 1
  MaxFlips = 2
  Values = {7}
  CharSigned = FALSE
INVARIANTS OpeningFinds OpenKnowsCard BufferCoherent ReadingIsRight
INVARIANT WriteIsDone
PROPERTIES OthersKept EveryCallReturns
