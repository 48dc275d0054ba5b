SPECIFICATION Spec
CONSTANTS
  P = 29
  D = 27
  L = 5
  SignBit = 32
  NameSize = 3
  OwnerKeySize = 1
  PubKeySize = 2
  PaymentIDSize = 1
  Word = 16777216
  MaxGroups = 3
  Claims <- SomeClaims
  TxPubKeys <- SomePubKeys
  Surrounding <- SomeSurrounding
  Extras <- SomeExtras
  Nobody = Nobody
  MaxBytes = 4
INVARIANT TypeOK
INVARIANT ClaimIsReadBack
INVARIANT OnlyTheExtraChanges
INVARIANT OneEncoding
INVARIANT KeysAreTheSubgroup
INVARIANT NeverDividesByZero
PROPERTY WalkMovesInside
CHECK_DEADLOCK FALSE
