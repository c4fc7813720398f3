\* Two sockets, two moves, a clock of two ticks and a grace period of one;
\* time for a game that starts at time 0 or 1 to end.
SPECIFICATION Spec
CONSTANTS
  Conn = {c1, c2}
  NoConn = NoConn
  Moves = {m1, m2}
  NoMove = NoMove
  InitialClock = 2
  ReconnectGrace = 1
  MaxTime = 9
  MaxRevision = 4
INVARIANTS
  RoomInv
PROPERTIES
  OutcomeFinal
  NoMoveAfterFlag
  FreshMoves
  SeatHeldForGrace
  GameEnds
CHECK_DEADLOCK FALSE
