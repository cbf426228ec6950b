\* Resumed while pages are still to come.
SPECIFICATION HistorySpec
CONSTANTS
  PageSize = 2
  MaxTransactions = 6
  MaxResumes = 2
  Wanted <- MCWanted
CHECK_DEADLOCK FALSE
INVARIANT NoneLeftOut
