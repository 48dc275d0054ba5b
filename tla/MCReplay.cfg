CONSTANTS
  Names = {n1, n2}
  Owners = {o1, o2}
  NoPayload = NoPayload
  YearAmount = 2
  BlocksPerYear = 1
  TxIDs = {t1, t2, t3, t4}
  Amounts <- SomeAmounts
  MaxHeight = 4
  Nobody = Nobody
SYMMETRY Symmetric
SPECIFICATION Spec
INVARIANTS
  TypeOK
  EntriesMatchEvents
  DisjointTenures
  PaidForExpiry
  LookupPredictsApply
PROPERTIES
  NoSeizure
  ImplementsLease
CHECK_DEADLOCK FALSE
