SPECIFICATION ProcessorSpec
CONSTANTS
  p1 = p1
  p2 = p2
  Payers = {p1, p2}
  Wallets = {}
  MaxMessages = 3
  RetryDelay = 1
  NonceForcedAdoption = 5
  BalanceForcedAdoption = 2
  LongEtherTransaction = 2
  PriceInterval = 5
  BalanceInterval = 1
  BalanceEstimateSlop = 0
  GasSamples = 1
  EstCost = 0
  Unencodable = {p2}
  StartNonce = 2
  StartBalance = 0
  RealCost = 0
  Deposits = {}
  ApiLag = 1
  MineBound = 3
  MaxLatency = 1
  CrowdedPage = TRUE
  MayLoseReply = FALSE
  MaxDrops = 0
  Epoch = 8
  MaxTime = 5
INVARIANTS VerifiedIsOnChain NoNonceClash NoNonceGap ReportIsTrue
