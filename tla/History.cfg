\* Two visits to the activity; it may rest for ever after the second.
SPECIFICATION HistorySpec
CONSTANTS
  PageSize = 2
  MaxTransactions = 6
  MaxResumes = 2
  Wanted <- MCWanted
CHECK_DEADLOCK FALSE
INVARIANTS HistoryTypeOK Complete ListedOnce
PROPERTY PagingEnds
