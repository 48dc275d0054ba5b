CONSTANTS
  ta = ta
  tb = tb
  name = name
  alice = alice
  bob = bob
  Names = {name}
  Owners = {alice, bob}
  NoPayload = NoPayload
  YearAmount = 1
  BlocksPerYear = 1
  TxIDs = {ta, tb}
  AmountOf <- OneAndThreeYears
  PayloadOf <- Rivals
  Blocks <- AllBlocks
  Confirmations = 2
  MaxWalletReorg = 1
  MaxReorg = 1
  MaxLen = 3
  MaxReorgs = 2
  MaxFaults = 1
  WalletDeaths = TRUE
SPECIFICATION Spec
INVARIANTS
  TypeOK
  QuietScanIsExact
  OneReorgIsNoticed
  StoredIsCanonical
  FinalizedIsStored
  PublishedExtendsStored
  NoHeightWraps
  FinalTermsStand
PROPERTIES
  StoredLogGrows
  ImplementsFinalNames
