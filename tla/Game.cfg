\* Three sockets; an eviction, a failed write or an identity that cannot be attached.
SPECIFICATION Safe
CONSTANTS
  Conn = {c1, c2, c3}
  NoConn = NoConn
  Moves = {m1}
  NoMove = NoMove
  InitialClock = 2
  ReconnectGrace = 1
  CreatorDeadline = 1
  AlarmRetry = 1
  Retention = 1
  Faults = {"install", "crash", "write"}
  MaxTime = 1
  MaxRevision = 4
  MaxQueue = 2
  MaxFaults = 1
SYMMETRY Interchangeable
INVARIANTS
  GameSound
  AlarmArmed
PROPERTIES
  WinnerFinal
  MovesKept
CHECK_DEADLOCK FALSE
