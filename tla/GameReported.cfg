\* The Lobby may fail once, or the object be evicted once.
SPECIFICATION Spec
CONSTANTS
  Conn = {c1, c2}
  NoConn = NoConn
  Moves = {m1}
  NoMove = NoMove
  InitialClock = 2
  ReconnectGrace = 1
  CreatorDeadline = 1
  AlarmRetry = 1
  Retention = 1
  Faults = {"lobby", "crash", "hibernate"}
  MaxTime = 2
  MaxRevision = 5
  MaxQueue = 1
  MaxFaults = 1
PROPERTIES
  Reported
CHECK_DEADLOCK FALSE
