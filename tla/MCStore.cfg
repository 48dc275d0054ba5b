SPECIFICATION Spec
CONSTANTS
  n1 = n1
  n2 = n2
  alice = alice
  bob = bob
  hash1 = hash1
  hash2 = hash2
  mainnet = mainnet
  stagenet = stagenet
  Names = {n1, n2}
  Owners = {alice, bob}
  NoPayload = NoPayload
  YearAmount = 2
  BlocksPerYear = 2
  TxIDs = {0, 1, 2, 3}
  Networks = {mainnet, stagenet}
  NoAddress = NoAddress
  NoHash = NoHash
  Null = Null
  Snapshots <- SomeSnapshots
INVARIANT TypeOK
INVARIANT Whole
PROPERTY ImplementsPromise
