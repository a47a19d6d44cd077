CONSTANTS
  MaxResponses = 1
  MaxPieces = 3
  Prebuffer = 2
  Closers = {"main"}
  Racing = TRUE
SPECIFICATION Spec
INVARIANT PlayedInOrder
CHECK_DEADLOCK FALSE
