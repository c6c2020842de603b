SPECIFICATION FairSpec
CONSTANTS
  Kinds = {"initialize", "disconnect"}
  Lines = {"l1", "l2"}
  BreakpointLists <- TwoLists
  MaxRequests  = 2
  MaxPipelined = 2
  MaxExcuses   = 0
  MaxHits      = 0
PROPERTIES
  EndsAfterDisconnect
CHECK_DEADLOCK FALSE
