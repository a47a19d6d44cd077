SPECIFICATION Spec
INVARIANTS TypesOK  
PROPERTY LinksEnd
CHECK_DEADLOCK FALSE
