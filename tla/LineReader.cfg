SPECIFICATION Spec
CONSTANTS
  MaxMessages = 2
  NoLine      = NoLine
INVARIANTS
  TypeOK
  PromptComesLast
PROPERTIES
  ReadsLines
  EverythingIsRead
