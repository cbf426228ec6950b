\* A tick is 30 seconds: the intervals have the proportions of the code's.
SPECIFICATION ProcessorSpec
CONSTANTS
  p1 = p1
  Payers = {p1}
  Wallets = {}
  MaxMessages = 2
  RetryDelay = 1
  NonceForcedAdoption = 7
  BalanceForcedAdoption = 2
  LongEtherTransaction = 2
  PriceInterval = 10
  BalanceInterval = 1
  BalanceEstimateSlop = 0
  GasSamples = 1
  EstCost = 0
  Unencodable = {}
  StartNonce = 2
  StartBalance = 0
  RealCost = 0
  Deposits = {}
  ApiLag = 0
  MineBound = 2
  MaxLatency = 1
  CrowdedPage = TRUE
  MayLoseReply = FALSE
  MaxDrops = 0
  Epoch = 11
  MaxTime = 12
PROPERTY AdoptionJustified
