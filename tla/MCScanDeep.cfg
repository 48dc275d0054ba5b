CONSTANTS
  ta = ta
  tb = tb
  name = name
  alice = alice
  bob = bob
  Names = {name}
  Owners = {alice, bob}
  NoPayload = NoPayload
  YearAmount = 1
  BlocksPerYear = 2
  TxIDs = {ta, tb}
  AmountOf <- OneYearEach
  PayloadOf <- Rivals
  Blocks <- AllBlocks
  Confirmations = 2
  MaxWalletReorg = 1
  MaxReorg = 2
  MaxLen = 3
  MaxReorgs = 1
  MaxFaults = 1
  WalletDeaths = TRUE
SPECIFICATION FairSpec
PROPERTIES
  Converges
