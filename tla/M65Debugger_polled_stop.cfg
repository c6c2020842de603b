SPECIFICATION Spec
CONSTANTS
  BpKind            = "plain"
  LeftoverBp        = FALSE
  Overtaking        = FALSE
  Late              = FALSE
  SplitPrompts      = FALSE
  ResetOnDisconnect = TRUE
  MaxRequests       = 3
  MaxHits           = 1
INVARIANTS
  StopsAreStops
