SPECIFICATION FairSpec
CONSTANTS
  fanout = fanout
  realtime = realtime
  Events = {fanout, realtime}
  OwnedOutboxEventTypes = {realtime}
  HandlersOf <- MCHandlersOf
  Acknowledged = {}
  CoreWorkers = {c1, c2}
  RealtimeWorkers = {r}
  MaxAttempts = 3
  MaxRows = 2
  MaxRedeliveries = 1
  MaxFaults = 2
  Idle = Idle
INVARIANTS TypeOK DeliveredToAll GivenUpAfterMaxAttempts
PROPERTIES NotHandledAgain EveryEventConcluded
CHECK_DEADLOCK FALSE
