SPECIFICATION Spec
CONSTANTS
  Requests = {p1, p2}
  MaxPlayers = 4
  MaxRounds = 2
  MaxRooms = 5
  MaxTrouble = 3
  Results = {won, drawn}
  Draw = drawn
  None = none
INVARIANTS
  TournamentInv
PROPERTIES
  MatchesFinal
  TournamentEnds
CHECK_DEADLOCK FALSE
