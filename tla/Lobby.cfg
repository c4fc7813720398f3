SPECIFICATION Spec
CONSTANTS
  Guests = {g1, g2}
  MaxInvites = 2
  Slots = {q1, q2}
  Owner = owner
  Nobody = nobody
  Lost = lost
  NoInvite = 0
INVARIANTS
  LobbyInv
  SeatIsTheGuests
PROPERTIES
  ReservationEnds
  ImplementsDirectory
CHECK_DEADLOCK FALSE
