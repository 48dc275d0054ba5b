SPECIFICATION Spec
CONSTANTS
  name = name
  owner = owner
  Names = {name}
  Owners = {owner}
  NoPayload = NoPayload
  YearAmount = 3
  BlocksPerYear = 2
  Asked <- Wanted
  YearsAsked = {1, 3}
  Word = 16
  Coins = {c1, c2, c3}
  OwnCoins = {c1, c2}
  MaxTip = 4
  MaxRuns = 2
  MaxFaults = 2
INVARIANT TypeOK
INVARIANT NoWalletLeft
INVARIANT SignedIsOwn
INVARIANT ReportedIsGranted
INVARIANT EveryPaymentCounts
INVARIANT FailsForAReason
CHECK_DEADLOCK FALSE
