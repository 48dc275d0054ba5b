SPECIFICATION Spec
CONSTANTS
  P = 29
  D = 27
  L = 5
  SignBit = 32
  NameSize = 3
  OwnerKeySize = 1
  PubKeySize = 2
  PaymentIDSize = 1
  Word = 4096
  MaxGroups = 2
  Claims = {}
  TxPubKeys <- SomePubKeys
  Surrounding = {}
  Extras <- SomeExtras
  Nobody = Nobody
  MaxBytes = 3
PROPERTY WalkMovesInside
CHECK_DEADLOCK FALSE
