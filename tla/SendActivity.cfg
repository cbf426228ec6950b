\* The screens and the steps are used up, the answer is read, or the app has ended.
SPECIFICATION Spec
CONSTANTS
  Clients = {1, 2, 3, 4}
  MaxMessages = 3
  StartBalance = 5
  Cost = 2
  Balances = {1, 5}
  Address = "0xA"
  Broken = "0xB"
  Bare = "C"
  OwnAddress = "0xC"
  Digits = {"0", "2"}
  Edits <- Entered
  MayEmpty = TRUE
  Balance <- FiveEther
  MaxGas <- SomeGas
  PointLocale = TRUE
  MaxSteps = 4
  Field = "balance"
  Longer = {"balances"}
  Others = {"name"}
  Numbers = {"5", "40"}
  MaxMembers = 3
INVARIANTS ActivityTypeOK PaysOnce CoveredUnlessOutdated
INVARIANTS AmountKept PaidAsEntered ReadsField
CHECK_DEADLOCK FALSE
