SPECIFICATION RestartSpec
CONSTANTS
  p1 = p1
  Payers = {p1}
  Wallets = {}
  MaxMessages = 2
  RetryDelay = 1
  NonceForcedAdoption = 5
  BalanceForcedAdoption = 2
  LongEtherTransaction = 2
  PriceInterval = 5
  BalanceInterval = 1
  BalanceEstimateSlop = 0
  GasSamples = 1
  EstCost = 0
  Unencodable = {}
  StartNonce = 2
  StartBalance = 0
  RealCost = 0
  Deposits = {}
  ApiLag = 1
  MineBound = 2
  MaxLatency = 1
  CrowdedPage = TRUE
  MayLoseReply = TRUE
  MaxDrops = 0
  Epoch = 8
  MaxTime = 3
  MaxKills = 1
INVARIANTS NoNonceGap PaidOnce
