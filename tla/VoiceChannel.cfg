CONSTANTS
  Speakers = {}
  MaxSessions = 1
  MaxCalls = 1
  MaxWarms = 0
  Faults = {}
  LateFailure = FALSE
SPECIFICATION Spec
PROPERTY SessionEnds
CHECK_DEADLOCK FALSE
