SPECIFICATION Spec
CONSTANTS
    Runners = {r1, r2}
    Checks = {1}
    Games = {2, 3, 4, 5}
    None = None
    MaxAttempts = 2
    MaxFaults = 1
    MaxRequeued = 1
INVARIANTS DoneMeansPlayed VerdictSound
PROPERTY JobsEnd
CHECK_DEADLOCK FALSE
