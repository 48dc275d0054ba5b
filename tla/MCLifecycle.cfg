CONSTANTS
  Procs = {p1, p2, p3, p4}
  NoProc = NoProc
  MaxFaults = 4
SPECIFICATION FairSpec
INVARIANTS
  TypeOK
  CacheNeedsKeys
  EarlyScansAreWaitedFor
  NothingLeft
PROPERTIES
  SignalEnds
  ComesUp
