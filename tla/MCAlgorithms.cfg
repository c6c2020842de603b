SPECIFICATION Spec
INVARIANTS
  MessagesAreRead DamageIsContained EvaluatesAsWritten CallsAreFollowed 
  CommandsMeanWhatWasAsked
CHECK_DEADLOCK FALSE
