SPECIFICATION Spec
CONSTANTS
  BpKind            = "jsr"
  LeftoverBp        = FALSE
  Overtaking        = FALSE
  Late              = FALSE
  SplitPrompts      = FALSE
  ResetOnDisconnect = TRUE
  MaxRequests       = 7
  MaxHits           = 3
INVARIANTS
  TypeOK
  TellsTheTruth
  ClientAgrees
  RepliesAreConsumed
  Survives
PROPERTIES
  ReplyIsOwn
