SPECIFICATION FairSpec
CONSTANTS
  BpKind            = "jsr"
  LeftoverBp        = TRUE
  Overtaking        = TRUE
  Late              = TRUE
  SplitPrompts      = TRUE
  ResetOnDisconnect = TRUE
  MaxRequests       = 4
  MaxHits           = 2
INVARIANTS
  StopIsReal
  ClientInv
PROPERTIES
  EvaluatesPresent
  RequestsAreAnswered
  BreakpointIsNoticed
