CONSTANTS
  Producers = {p1, p2}
  Consumers = {c1, c2}
  TimedConsumers = {c1}
  Msgs = {m1, m2, m3}
  QueueLen = 2
  Bus = Bus
  Nobody = Nobody
  NoMsg = NoMsg
SPECIFICATION FairSpec
INVARIANTS TypeOK OneOwner NoLostWakeup
PROPERTIES FifoSpec CallsReturn
CHECK_DEADLOCK TRUE
