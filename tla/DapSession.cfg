SPECIFICATION FairSpec
CONSTANTS
  Kinds = {"initialize", "launch", "configurationDone", "setBreakpoints", "pause", "continue",
           "next", "evaluate", "variables", "scopes", "disconnect", "unknown", "response"}
  Lines = {"l1", "l2"}
  BreakpointLists <- TwoLists
  MaxRequests  = 5
  MaxPipelined = 2
  MaxExcuses   = 1
  MaxHits      = 1
INVARIANTS
  TypeOK
  DiesForAReason
  VerifiedIsSet
  StopIsTold
  SleepsWhenIdle
PROPERTIES
  SilentAfterDisconnect
  BacklogIsWorkedOff
  EndsIfClosable
CHECK_DEADLOCK FALSE
