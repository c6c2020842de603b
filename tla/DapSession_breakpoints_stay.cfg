SPECIFICATION Spec
CONSTANTS
  Kinds = {"initialize", "launch", "setBreakpoints"}
  Lines = {"l1", "l2"}
  BreakpointLists <- ThreeLists
  MaxRequests  = 4
  MaxPipelined = 1
  MaxExcuses   = 0
  MaxHits      = 0
INVARIANTS
  ReplacesBreakpoints
CHECK_DEADLOCK FALSE
