SPECIFICATION Spec
CONSTANT Retries = 3
INVARIANTS
  InStep
  AnswersHaveLines
PROPERTIES
  Connects
CHECK_DEADLOCK FALSE
