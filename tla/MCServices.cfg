CONSTANTS
  r1 = r1
  r2 = r2
  r3 = r3
  NoRequest = NoRequest
  Requests = {r1, r2, r3}
  Channel <- TextOrVoice
  Careless = {}
  MaxSends = 2
  InLen = 1
  OutLen = 2
  GraceIsEnough = TRUE
  Ids = {1, 2}
  MaxJobs = 2
  Intervals = {1}
  CronActions = {FALSE}
  MaxTime = 3
  CronBoots = 1
  Chats = {1, 2}
  TruncateEvery = 2
  KeepLines = 2
  MaxLines = 6
  SessionBoots = 2
SPECIFICATION Spec
INVARIANTS TypesOK  AnswersInOrder 
            HistoryIsRecent
PROPERTY ServicesEnd
CHECK_DEADLOCK FALSE
