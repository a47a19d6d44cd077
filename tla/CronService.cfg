CONSTANTS
  Ids = {1}
  MaxJobs = 1
  Intervals = {1}
  CronActions = {TRUE, FALSE}
  MaxTime = 3
  MaxBoots = 0
SPECIFICATION Spec
PROPERTY DueJobFires
CHECK_DEADLOCK FALSE
