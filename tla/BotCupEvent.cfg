SPECIFICATION EventSpec
CONSTANTS
    Teams <- MCTeams
    Tables <- MCTables
    Organisers = {o1, o2}
    RoundRobinMax = 4
    SwissRounds = 2
    MinSealed = 5
    GateResults <- MCGateResults
    Suspects <- MCSuspects
    MaxPairings = 4
    MaxChanges = 1
SYMMETRY MCSymmetry
INVARIANTS
    BracketSound
    RankingSound
    NotStuck
PROPERTY PublishedStands
CHECK_DEADLOCK FALSE
