CONSTANTS
  Frames <- OnePhoto
  MaxRetrans = 2
  MaxPresses = 1
  MaxLost = 0
  MaxUartLost = 1
  PatientUser = TRUE
SPECIFICATION Spec
PROPERTY CaptureEnds
CHECK_DEADLOCK FALSE
