\* Safety, refinement and liveness: 4 requests of two payers and one wallet.
SPECIFICATION FairSpec
CONSTANTS
  p1 = p1
  p2 = p2
  w1 = w1
  Payers = {p1, p2}
  Wallets = {w1}
  MaxMessages = 4
  RetryDelay = 1
INVARIANTS TypeOK OneConversation SelectionStands NoLostWakeup OnePlace NoPhantomRequests
PROPERTIES ImplementsRequests OnlyQueriesHoldUp
