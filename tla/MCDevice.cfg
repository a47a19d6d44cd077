CONSTANTS
  Chunks = 2
  RingSize = 1
  RingPrebuffer = 1
  FilePrebuffer = 2
  PlaybackFaults = {"file", "player"}
  Sentences = 4
  PipeLen = 2
  Speakers = {"agent", "dispatcher"}
  MaxSessions = 2
  MaxCalls = 2
  MaxWarms = 1
  ChannelFaults = {"device", "capture", "read", "connect", "send", "playback"}
  Frames <- TwoPhotos
  MaxRetrans = 2
  MaxPresses = 2
  MaxLost = 3
  MaxUartLost = 1
  PatientUser = TRUE
  MaxFiles = 3
  MaxListed = 2
  MaxVisits = 2
  MaxPlays = 2
  MaxResponses = 2
  MaxPieces = 3
  OmniPrebuffer = 2
SPECIFICATION Spec
INVARIANTS TypesOK  
            OnlyMissingAgain 
PROPERTY DeviceEnds
CHECK_DEADLOCK FALSE
