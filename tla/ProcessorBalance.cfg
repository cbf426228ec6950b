SPECIFICATION ProcessorSpec
CONSTANTS
  p1 = p1
  w1 = w1
  Payers = {p1}
  Wallets = {w1}
  MaxMessages = 3
  RetryDelay = 1
  NonceForcedAdoption = 5
  BalanceForcedAdoption = 2
  LongEtherTransaction = 2
  PriceInterval = 5
  BalanceInterval = 1
  BalanceEstimateSlop = 1
  GasSamples = 1
  EstCost = 2
  Unencodable = {}
  StartNonce = 1
  StartBalance = 2
  RealCost = 1
  Deposits = {2}
  ApiLag = 0
  MineBound = 2
  MaxLatency = 1
  CrowdedPage = FALSE
  MayLoseReply = FALSE
  MaxDrops = 1
  Epoch = 8
  MaxTime = 3
INVARIANTS ProcessorTypeOK BalanceNeverOverstated
PROPERTIES UpToDateMeansSettled
