SPECIFICATION FairSpec
CONSTANTS
  MaxQueries = 3
  Hosts = {scan}
  CacheTime = 1
  MaxTime = 1
INVARIANT QueryTypeOK
INVARIANT FreshAddress
PROPERTIES ImplementsService AnsweredUnlessSilent
CHECK_DEADLOCK FALSE
