SPECIFICATION Spec
INVARIANTS TypesOK   OnceAndInOrder
PROPERTY AssistantEnds
CHECK_DEADLOCK FALSE
