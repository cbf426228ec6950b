\* Nothing is left to do when the time and the messages are used up.
SPECIFICATION ImportSpec
CONSTANTS
  p1 = p1
  w1 = w1
  Payers = {p1}
  Wallets = {w1}
  MaxMessages = 3
  RetryDelay = 1
  NonceForcedAdoption = 5
  BalanceForcedAdoption = 2
  LongEtherTransaction = 2
  PriceInterval = 5
  BalanceInterval = 1
  BalanceEstimateSlop = 0
  GasSamples = 1
  EstCost = 1
  Unencodable = {}
  StartNonce = 0
  StartBalance = 5
  RealCost = 1
  Deposits = {}
  ApiLag = 0
  MineBound = 1
  MaxLatency = 1
  CrowdedPage = TRUE
  MayLoseReply = FALSE
  MaxDrops = 1
  Epoch = 8
  MaxTime = 1
  NewNonce = 0
  NewBalance = 2
INVARIANT CleanImport
CHECK_DEADLOCK FALSE
