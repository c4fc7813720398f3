SPECIFICATION Spec
CONSTANTS
    Bank = 3
    TurnLimit = 2
    Graces = {0, 4}
    MaxPlies = 4
    MaxLate = 1
INVARIANTS
    BlameDeserved
    RunSound
PROPERTY RunEnds
CHECK_DEADLOCK FALSE
