CONSTANTS
  MaxMeetings = 1
  MaxSegs = 2
  MaxBlocks = 3
  MaxBacklog = 2
  MaxResults = 4
  Faults = {}
  Calls = FALSE
SPECIFICATION Spec
INVARIANT AllSaved
CHECK_DEADLOCK FALSE
