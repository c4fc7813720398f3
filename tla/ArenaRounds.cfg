\* One worker, two bots, two rounds, the first of two matches.
SPECIFICATION CompSafe
CONSTANTS
  m1 = m1
  m2 = m2
  m3 = m3
  m4 = m4
  v1 = v1
  v2 = v2
  Matches = {m1, m2, m4}
  Versions = {v1, v2}
  Rounds = {1, 2}
  NoRound = 0
  RoundCount = 2
  RoundOf <- MCRoundOf
  Player <- MCPlayer
  Ranked = {m1}
  Worker = {w1}
  NoWorker = NoWorker
  NoJob = NoJob
  MaxAttempts = 1
  Lease = 1
  MaxFrames = 2
  MaxPly = 2
  MaxTries = 2
INVARIANTS
  JobsInv
  Ledger
  RoundGate
PROPERTIES
  SettledForGood
CHECK_DEADLOCK FALSE
