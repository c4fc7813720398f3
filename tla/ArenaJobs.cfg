\* Two workers, one bot, a practice match of it with itself.
SPECIFICATION CompSpec
CONSTANTS
  m1 = m1
  m2 = m2
  m3 = m3
  m4 = m4
  v1 = v1
  v2 = v2
  Matches = {m3}
  Versions = {v1}
  Rounds = {1}
  NoRound = 0
  RoundCount = 1
  RoundOf <- MCRoundOf
  Player <- MCPlayer
  Ranked = {}
  Worker = {w1, w2}
  NoWorker = NoWorker
  NoJob = NoJob
  MaxAttempts = 3
  Lease = 1
  MaxFrames = 2
  MaxPly = 1
  MaxTries = 3
INVARIANTS
  JobsInv
PROPERTIES
  JobsEnd
CHECK_DEADLOCK FALSE
