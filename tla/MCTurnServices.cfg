CONSTANTS
  Count = 2
  Tiers = {0, 3}
  Profiles = {"auto"}
  MaxFailures = 3
  RecoverySec = 4
  DebounceSec = 2
  MaxBackoff = 3
  Bonuses = {0}
  EditSlots = {0}
  FailCap = 3
  q1 = q1
  q2 = q2
  q3 = q3
  q4 = q4
  CacheSlots = {0, 1}
  Prompts = {q1, q2, q3, q4}
  Hash <- TwoCollide
  TTL = 1
  MaxTime = 3
  PoolSlots = {p1, p2}
  MaxCalls = 3
  ShortIds = {id1, id2}
  LongIds = {id3}
  NoBuf = NoBuf
SPECIFICATION Spec
INVARIANTS TypesOK PickIsBest RecoversInTime LastPutWins
           OutputsApart EachIdAnsweredOnce
PROPERTY RoundEnds
