SPECIFICATION FairSpec
CONSTANTS
  Threads  = {t1, t2, t3}
  NoThread = NoThread
  Acceptor = t1
  MaxCalls = 3
  MaxArrivals = 1
INVARIANTS
  UsesLiveDescriptor
  WritersAreWoken
  StopIsSilent
PROPERTIES
  LocksAsPromised
  CallsReturn
CHECK_DEADLOCK FALSE
