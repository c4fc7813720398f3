----------------------------- MODULE ArenaJobs -----------------------------
(***************************************************************************)
(* The arena's job queue and everything that settles its jobs: the SQLite  *)
(* tables of packages/arena-node/src/persistence and the worker processes  *)
(* of worker/job-worker.mjs that share them.  Every transaction            *)
(* (BEGIN IMMEDIATE) is one action.  A worker claims a job under a lease,  *)
(* plays or builds for a while, and reports; meanwhile its lease may       *)
(* expire and the job be given to another worker.                          *)
(*                                                                         *)
(* Abstracted: which of the queued jobs is the oldest (created_at has a    *)
(* resolution of a second, and ids decide the rest); the lease token, drawn *)
(* once per attempt and so the attempt's number; bots, which are their     *)
(* versions; replays, digests and ratings, of which the rated games remain. *)
(***************************************************************************)
EXTENDS Integers, Sequences, FiniteSets

CONSTANTS
  Matches, Versions,  \* the targets of match jobs and of build jobs
  Rounds, NoRound,    \* a competition launches one tournament per round
  RoundOf,            \* the round of each match, NoRound if it is not in one
  Player,             \* the version in each seat of each match
  Ranked,             \* the matches of kind "ranked"
  Worker, NoWorker, NoJob,
  MaxAttempts,        \* max_attempts of a new job
  Lease,              \* leaseDurationMs
  MaxFrames,          \* maxRetainedFramesPerMatch
  MaxPly, MaxTries    \* bounds: moves in a match, attempts an administrator grants

Jobs == Matches \cup Versions
Seats == {"A", "B"}

ASSUME TargetsAssumption ==
  /\ Matches \cap Versions = {} /\ NoJob \notin Jobs
  /\ IsFiniteSet(Matches)
  /\ NoWorker \notin Worker /\ NoRound \notin Rounds
ASSUME PairingAssumption ==
  /\ RoundOf \in [Matches -> Rounds \cup {NoRound}]
  /\ Player \in [Matches -> [Seats -> Versions]]
  /\ Ranked \subseteq Matches
  /\ \A m \in Matches : m \in Ranked \/ RoundOf[m] # NoRound
                          => Player[m]["A"] # Player[m]["B"]
ASSUME LimitAssumption ==
  /\ MaxAttempts \in Nat \ {0} /\ Lease \in Nat \ {0} /\ MaxFrames \in Nat \ {0, 1}
  /\ MaxPly \in Nat /\ MaxTries \in Nat

VARIABLES
  job,         \* table jobs
  attempts,    \* table job_attempts: of each job, the status of each attempt
  target,      \* matches.status and bot_versions.build_status
  result,      \* table match_results, and the attempt that produced each
  seq,         \* matches.settlement_seq; 0 is null
  rated,       \* bot_ratings.rated_games
  standing,    \* table tournament_standings
  tournament,  \* tournaments.status
  frames,      \* table match_live_frames: rows <<attempt, ply>> of each match
  worker       \* the worker processes; ply is that of the next live frame

tables == <<job, attempts, target, result, seq, rated, standing, tournament, frames>>
vars == <<job, attempts, target, result, seq, rated, standing, tournament, frames, worker>>

Expired == -1    \* datetime('now') > lease_until
NoResult == [attempt |-> 0, winner |-> "none"]
NoClaim == [phase |-> "idle", job |-> NoJob, attempt |-> 0, ply |-> 0]
NewJob ==
  [status |-> "queued", attempt |-> 0, max |-> MaxAttempts, owner |-> NoWorker,
   left |-> Expired]

JobType ==
  [status : {"none", "queued", "claimed", "completed", "failed"},
   attempt : Nat, max : Nat, owner : Worker \cup {NoWorker},
   left : Expired .. Lease]   \* seconds until lease_until has passed

AttemptStatus == {"active", "fenced", "completed", "failed"}

WorkerType ==
  [phase : {"idle", "polling", "working", "aborted", "stopping", "stopped"},
   job : Jobs \cup {NoJob}, attempt : Nat, ply : Nat]

\* "running" is a match's active and a version's building, "done" completed and
\* ready, "failed" a match's error.
TargetStatus == {"none", "pending", "running", "done", "failed"}

TypeOK ==
  /\ job \in [Jobs -> JobType]
  /\ attempts \in [Jobs -> Seq(AttemptStatus)]
  /\ target \in [Jobs -> TargetStatus]
  /\ result \in [Matches -> [attempt : Nat, winner : Seats \cup {"draw", "none"}]]
  /\ seq \in [Matches -> Nat]
  /\ rated \in [Versions -> Nat]
  /\ standing \in [Rounds -> [Versions -> [played : Nat, points : Nat]]]
  /\ tournament \in [Rounds -> {"none", "pending", "completed"}]
  /\ frames \in [Matches -> SUBSET (Nat \X Nat)]
  /\ worker \in [Worker -> WorkerType]

Init ==
  /\ job = [j \in Jobs |-> [NewJob EXCEPT !.status = "none"]]
  /\ attempts = [j \in Jobs |-> <<>>]
  /\ target = [j \in Jobs |-> "none"]
  /\ result = [m \in Matches |-> NoResult]
  /\ seq = [m \in Matches |-> 0]
  /\ rated = [v \in Versions |-> 0]
  /\ standing = [r \in Rounds |-> [v \in Versions |-> [played |-> 0, points |-> 0]]]
  /\ tournament = [r \in Rounds |-> "none"]
  /\ frames = [m \in Matches |-> {}]
  /\ worker = [w \in Worker |-> NoClaim]

-----------------------------------------------------------------------------
(* Uploads, matches and tournaments (the HTTP API).                        *)

Upload(v) ==
  /\ target[v] = "none"
  /\ target' = [target EXCEPT ![v] = "pending"]
  /\ job' = [job EXCEPT ![v] = NewJob]
  /\ UNCHANGED <<attempts, result, seq, rated, standing, tournament, frames, worker>>

Playable(m) == \A s \in Seats : target[Player[m][s]] = "done"

\* createMatch, by a request that may fail before it enqueues the job.
CreateMatch(m) ==
  /\ RoundOf[m] = NoRound /\ target[m] = "none" /\ Playable(m)
  /\ target' = [target EXCEPT ![m] = "pending"]
  /\ UNCHANGED <<job, attempts, result, seq, rated, standing, tournament, frames, worker>>

\* enqueueJob, by the same request or by its repetition.
Enqueue(m) ==
  /\ RoundOf[m] = NoRound /\ target[m] # "none" /\ job[m].status = "none"
  /\ job' = [job EXCEPT ![m] = NewJob]
  /\ UNCHANGED <<attempts, target, result, seq, rated, standing, tournament, frames, worker>>

MatchesOf(r) == {m \in Matches : RoundOf[m] = r}

\* createTournament: all matches of a round with their jobs, or none.
CreateTournament(r) ==
  /\ tournament[r] = "none"
  /\ \A m \in MatchesOf(r) : Playable(m)
  /\ tournament' = [tournament EXCEPT ![r] = "pending"]
  /\ target' = [j \in Jobs |-> IF j \in MatchesOf(r) THEN "pending" ELSE target[j]]
  /\ job' = [j \in Jobs |-> IF j \in MatchesOf(r) THEN NewJob ELSE job[j]]
  /\ UNCHANGED <<attempts, result, seq, rated, standing, frames, worker>>

Regranted(r) ==
  [r EXCEPT !.status = "queued", !.owner = NoWorker, !.left = Expired,
            !.max = IF @ > r.attempt + MaxAttempts THEN @ ELSE r.attempt + MaxAttempts]

\* Mutant: any match may be retried.
RetryAny(m) ==
  /\ RoundOf[m] # NoRound
  /\ target[m] # "none"
  /\ job[m].attempt + MaxAttempts <= MaxTries
  /\ target' = [target EXCEPT ![m] = "pending"]
  /\ job' = [job EXCEPT ![m] = Regranted(@)]
  /\ UNCHANGED <<attempts, result, seq, rated, standing, tournament, frames, worker>>

\* retryCompetitionMatch and retryMatch: an errored match of a tournament gets
\* more attempts.
Retry(m) ==
  /\ RoundOf[m] # NoRound
  /\ target[m] = "failed"
  /\ job[m].attempt + MaxAttempts <= MaxTries
  /\ target' = [target EXCEPT ![m] = "pending"]
  /\ job' = [job EXCEPT ![m] = Regranted(@)]
  /\ UNCHANGED <<attempts, result, seq, rated, standing, tournament, frames, worker>>

-----------------------------------------------------------------------------
(* The queue.                                                              *)

LeaseExpired(j) == job[j].status = "claimed" /\ job[j].left = Expired
Holds(w, j) == job[j].status = "claimed" /\ job[j].owner = w /\ job[j].left # Expired

Busy(w) == \E j \in Jobs : Holds(w, j)
Mine(w) == /\ job[worker[w].job].status = "claimed"
           /\ job[worker[w].job].attempt = worker[w].attempt

Requeued(r) == [r EXCEPT !.status = "queued", !.owner = NoWorker, !.left = Expired]
GivenUp(r) == [r EXCEPT !.status = "failed", !.owner = NoWorker, !.left = Expired]

Exhausted(j) == job[j].attempt >= job[j].max

AttemptsFenced(j) ==
  IF attempts[j][job[j].attempt] = "active"
  THEN [attempts[j] EXCEPT ![job[j].attempt] = "fenced"] ELSE attempts[j]

Waiting(status) == IF status = "running" THEN "pending" ELSE status

\* Mutant: only jobs without attempts left are recovered.
RecoverExpiredExhausted ==
  /\ job' = [j \in Jobs |-> IF LeaseExpired(j) /\ Exhausted(j) THEN GivenUp(job[j])
                            ELSE job[j]]
  /\ target' = [j \in Jobs |-> IF LeaseExpired(j) /\ Exhausted(j) THEN "failed"
                               ELSE target[j]]
  /\ attempts' = [j \in Jobs |-> IF LeaseExpired(j) /\ Exhausted(j)
                                 THEN AttemptsFenced(j) ELSE attempts[j]]
  /\ UNCHANGED <<result, seq, rated, standing, tournament, frames>>

RecoverExpired ==
  /\ job' = [j \in Jobs |-> IF ~LeaseExpired(j) THEN job[j]
                            ELSE IF Exhausted(j) THEN GivenUp(job[j])
                            ELSE Requeued(job[j])]
  /\ target' = [j \in Jobs |-> IF ~LeaseExpired(j) THEN target[j]
                               ELSE IF Exhausted(j) THEN "failed" ELSE Waiting(target[j])]
  /\ attempts' = [j \in Jobs |-> IF LeaseExpired(j) THEN AttemptsFenced(j) ELSE attempts[j]]
  /\ UNCHANGED <<result, seq, rated, standing, tournament, frames>>

\* runOnce first recovers expired leases, in a transaction of its own.
Poll(w) ==
  /\ worker[w].phase = "idle"
  /\ RecoverExpired
  /\ worker' = [worker EXCEPT ![w].phase = "polling"]

\* claimNextJob: a worker that still owns a lease gets nothing, and a job without
\* attempts left fails instead of being claimed.
ClaimNothing(w) ==
  /\ worker[w].phase = "polling"
  /\ \/ Busy(w)
     \/ \A j \in Jobs : job[j].status # "queued"
  /\ worker' = [worker EXCEPT ![w] = NoClaim]
  /\ UNCHANGED tables

ClaimExhausted(w) ==
  /\ worker[w].phase = "polling"
  /\ ~Busy(w)
  /\ \E j \in Jobs :
       /\ job[j].status = "queued" /\ Exhausted(j)
       /\ job' = [job EXCEPT ![j] = GivenUp(@)]
       /\ target' = [target EXCEPT ![j] = "failed"]
  /\ worker' = [worker EXCEPT ![w] = NoClaim]
  /\ UNCHANGED <<attempts, result, seq, rated, standing, tournament, frames>>

Claim(w) ==
  /\ worker[w].phase = "polling"
  /\ ~Busy(w)
  /\ \E j \in Jobs :
       /\ job[j].status = "queued" /\ ~Exhausted(j)
       /\ job' = [job EXCEPT ![j].status = "claimed", ![j].attempt = @ + 1,
                             ![j].owner = w, ![j].left = Lease]
       /\ attempts' = [attempts EXCEPT ![j] = Append(@, "active")]
       /\ target' = [target EXCEPT ![j] = IF @ = "pending" THEN "running" ELSE @]
       /\ worker' = [worker EXCEPT ![w] =
            [phase |-> "working", job |-> j, attempt |-> job[j].attempt + 1, ply |-> 0]]
  /\ UNCHANGED <<result, seq, rated, standing, tournament, frames>>

Active(w) == worker[w].phase \in {"working", "aborted", "stopping"}

\* A heartbeat extends a lease that has not expired; one that cannot aborts the run.
Heartbeat(w) ==
  /\ worker[w].phase = "working"
  /\ IF Mine(w) /\ job[worker[w].job].left # Expired
     THEN /\ job' = [job EXCEPT ![worker[w].job].left = Lease]
          /\ UNCHANGED worker
     ELSE /\ worker' = [worker EXCEPT ![w].phase = "aborted"]
          /\ UNCHANGED job
  /\ UNCHANGED <<attempts, target, result, seq, rated, standing, tournament, frames>>

-----------------------------------------------------------------------------
(* Playing and settling.                                                   *)

MayRecord(m, a) ==
  /\ target[m] = "running"
  /\ job[m].status = "claimed" /\ job[m].attempt = a /\ job[m].left # Expired

\* recordFrame drops the frames of older attempts and keeps of this one the position
\* before the first move and the latest moves.
Recorded(m, a, ply) ==
  LET rows == {f \in frames[m] : f[1] >= a} \cup {<<a, ply>>}
      latest == {f \in rows : f[1] = a /\ f[2] > 0
                   /\ Cardinality({g \in rows : g[1] = a /\ g[2] > f[2]}) < MaxFrames - 1}
  IN  IF Cardinality({f \in rows : f[1] = a}) > MaxFrames
      THEN {f \in rows : f[1] # a \/ f[2] = 0} \cup latest ELSE rows

\* The position before the first move (executeMatchJob), then one more for each move
\* (onAcceptedMove).  A frame that is refused is dropped, the match goes on.
Play(w) ==
  /\ Active(w) /\ worker[w].job \in Matches /\ worker[w].ply <= MaxPly
  /\ LET m == worker[w].job
         a == worker[w].attempt
     IN  frames' = IF MayRecord(m, a)
                   THEN [frames EXCEPT ![m] = Recorded(m, a, worker[w].ply)] ELSE frames
  /\ worker' = [worker EXCEPT ![w].ply = @ + 1]
  /\ UNCHANGED <<job, attempts, target, result, seq, rated, standing, tournament>>

\* Mutant: the attempt is not compared.
MaySettleAnyAttempt(j, a) ==
  job[j].status = "claimed" /\ job[j].left # Expired

MaySettle(j, a) ==
  /\ job[j].status = "claimed" /\ job[j].attempt = a /\ job[j].left # Expired
  /\ attempts[j][a] = "active"

\* Mutant: the highest number is taken again.
NextSeqAgain ==
  CHOOSE n \in {0} \cup {seq[m] : m \in Matches} : \A m \in Matches : seq[m] <= n

NextSeq ==
  1 + CHOOSE n \in {0} \cup {seq[m] : m \in Matches} : \A m \in Matches : seq[m] <= n
Points(winner, s) == IF winner = "draw" THEN 1 ELSE IF winner = s THEN 3 ELSE 0

\* Mutant: only the winner's standing counts the match.
StandingsWinnerOnly(m, winner) ==
  [standing EXCEPT ![RoundOf[m]] =
     [v \in Versions |->
        IF \E s \in Seats : Player[m][s] = v /\ Points(winner, s) > 0
        THEN LET s == CHOOSE x \in Seats : Player[m][x] = v
             IN  [played |-> @[v].played + 1, points |-> @[v].points + Points(winner, s)]
        ELSE @[v]]]

Standings(m, winner) ==
  [standing EXCEPT ![RoundOf[m]] =
     [v \in Versions |->
        IF \E s \in Seats : Player[m][s] = v
        THEN LET s == CHOOSE x \in Seats : Player[m][x] = v
             IN  [played |-> @[v].played + 1, points |-> @[v].points + Points(winner, s)]
        ELSE @[v]]]

AllDone(r, m) == \A n \in MatchesOf(r) : n = m \/ target[n] = "done"

\* finalizeMatch, when the match has no result and the lease is good.
Finalize(m, a, winner) ==
  /\ result' = [result EXCEPT ![m] = [attempt |-> a, winner |-> winner]]
  /\ seq' = [seq EXCEPT ![m] = NextSeq]
  /\ rated' = IF m \in Ranked
              THEN [v \in Versions |-> IF \E s \in Seats : Player[m][s] = v
                                       THEN rated[v] + 1 ELSE rated[v]]
              ELSE rated
  /\ standing' = IF RoundOf[m] # NoRound THEN Standings(m, winner) ELSE standing
  /\ target' = [target EXCEPT ![m] = "done"]
  /\ frames' = [frames EXCEPT ![m] = {}]
  /\ tournament' = IF RoundOf[m] # NoRound /\ AllDone(RoundOf[m], m)
                   THEN [tournament EXCEPT ![RoundOf[m]] = "completed"] ELSE tournament
  /\ job' = [job EXCEPT ![m].status = "completed"]
  /\ attempts' = [attempts EXCEPT ![m][a] = "completed"]

\* The run ended with a result.  A result that exists is returned again or is a
\* conflict; a lease that was lost settles nothing.
Settle(w) ==
  /\ worker[w].phase = "working" /\ worker[w].job \in Matches
  /\ LET m == worker[w].job
         a == worker[w].attempt
     IN  IF result[m] = NoResult /\ MaySettle(m, a)
         THEN \E winner \in Seats \cup {"draw"} : Finalize(m, a, winner)
         ELSE UNCHANGED tables
  /\ worker' = [worker EXCEPT ![w] = NoClaim]

\* After stop() the process ends with its run; otherwise it polls again.
Ended(w) ==
  worker' = [worker EXCEPT ![w] =
    IF worker[w].phase = "stopping" THEN [NoClaim EXCEPT !.phase = "stopped"]
    ELSE NoClaim]

MayComplete(j, a) ==
  job[j].status = "claimed" /\ job[j].attempt = a /\ job[j].left # Expired

\* completeBuildJob.  A build takes no notice of an abort.  The refusal throws, so
\* the transaction that marks the attempt as fenced is rolled back.
Built(w) ==
  /\ Active(w) /\ worker[w].job \in Versions
  /\ LET v == worker[w].job
         a == worker[w].attempt
     IN  IF MayComplete(v, a)
         THEN /\ \E ok \in BOOLEAN :
                   /\ job' = [job EXCEPT ![v].status = IF ok THEN "completed" ELSE "failed"]
                   /\ attempts' = [attempts EXCEPT ![v][a] =
                                     IF ok THEN "completed" ELSE "failed"]
                   /\ target' = [target EXCEPT ![v] = IF ok THEN "done" ELSE "failed"]
              /\ UNCHANGED <<result, seq, rated, standing, tournament, frames>>
         ELSE UNCHANGED tables
  /\ Ended(w)

\* The run fails, or was aborted: nothing is reported, the lease runs out.
RunEnds(w) ==
  /\ Active(w)
  /\ Ended(w)
  /\ UNCHANGED tables

-----------------------------------------------------------------------------
(* Workers stop, start and crash; time passes.  A worker without a job that *)
(* stops is one that takes no step.                                        *)

\* stop(): the run is aborted and its job released for another attempt.
Stop(w) ==
  /\ worker[w].phase \in {"working", "aborted"}
  /\ LET j == worker[w].job
         a == worker[w].attempt
     IN  IF Mine(w)
         THEN /\ job' = [job EXCEPT ![j] = Requeued(@)]
              /\ attempts' = [attempts EXCEPT ![j] = AttemptsFenced(j)]
              /\ target' = [target EXCEPT ![j] = Waiting(@)]
         ELSE UNCHANGED <<job, attempts, target>>
  /\ worker' = [worker EXCEPT ![w].phase = "stopping"]
  /\ UNCHANGED <<result, seq, rated, standing, tournament, frames>>

Crash(w) ==
  /\ Active(w)
  /\ worker' = [worker EXCEPT ![w] = [NoClaim EXCEPT !.phase = "stopped"]]
  /\ UNCHANGED tables

Start(w) ==
  /\ worker[w].phase = "stopped"
  /\ worker' = [worker EXCEPT ![w] = NoClaim]
  /\ UNCHANGED tables

Tick ==
  /\ \E j \in Jobs : job[j].status = "claimed" /\ job[j].left # Expired
  /\ job' = [j \in Jobs |-> IF job[j].status = "claimed" /\ job[j].left # Expired
                            THEN [job[j] EXCEPT !.left = @ - 1] ELSE job[j]]
  /\ UNCHANGED <<attempts, target, result, seq, rated, standing, tournament, frames, worker>>

Next ==
  \/ \E v \in Versions : Upload(v)
  \/ \E m \in Matches : CreateMatch(m) \/ Enqueue(m) \/ Retry(m)
  \/ \E r \in Rounds : CreateTournament(r)
  \/ \E w \in Worker :
       \/ Poll(w) \/ ClaimNothing(w) \/ ClaimExhausted(w) \/ Claim(w)
       \/ Heartbeat(w) \/ Play(w) \/ Settle(w) \/ Built(w) \/ RunEnds(w)
       \/ Stop(w) \/ Crash(w) \/ Start(w)
  \/ Tick

Safe == Init /\ [][Next]_vars

\* Workers poll, runs end, a stopped process is started again, and time passes.
Fairness ==
  /\ \A w \in Worker :
       /\ WF_vars(Poll(w))
       /\ WF_vars(ClaimNothing(w) \/ ClaimExhausted(w) \/ Claim(w))
       /\ WF_vars(Settle(w) \/ Built(w) \/ RunEnds(w))
       /\ WF_vars(Start(w))
  /\ WF_vars(Tick)

Spec == Safe /\ Fairness

-----------------------------------------------------------------------------
(* Properties.                                                             *)

Done == {m \in Matches : target[m] = "done"}
Of(j, status) == {a \in 1 .. Len(attempts[j]) : attempts[j][a] = status}

\* The tables jobs, matches and bot_versions, which every operation updates side by
\* side, tell the same story of each job.
StatusesAgree ==
  \A j \in Jobs :
    CASE job[j].status = "none" -> target[j] = "none" \/ (j \in Matches /\ target[j] = "pending")
      [] job[j].status = "queued" -> target[j] = "pending"
      [] job[j].status = "claimed" -> target[j] = "running"
      [] job[j].status = "completed" -> target[j] = "done"
      [] job[j].status = "failed" -> target[j] = "failed"

\* A job has a living attempt exactly while it is claimed, and then it is the last:
\* an attempt that lost its lease has been fenced before the next one starts.
OneLivingAttempt ==
  \A j \in Jobs :
    /\ Len(attempts[j]) = job[j].attempt
    /\ Of(j, "active") = IF job[j].status = "claimed" THEN {job[j].attempt} ELSE {}

\* At most one attempt of a job counts, and it is the one its result is from.
SettledByOneAttempt ==
  \A j \in Jobs :
    /\ Of(j, "completed") = IF target[j] = "done" THEN {job[j].attempt} ELSE {}
    /\ j \in Matches /\ target[j] = "done" => result[j].attempt = job[j].attempt

\* A settled match keeps its result, its place in the order and its status, whatever
\* a stalled worker, a retry or a restart does.
SettledForGood ==
  [][\A m \in Matches : target[m] = "done" =>
       target'[m] = "done" /\ result'[m] = result[m] /\ seq'[m] = seq[m]]_vars

\* The settlement sequence numbers the settled matches 1, 2, ... without a gap.
SettlementsNumbered ==
  /\ {seq[m] : m \in Done} = 1 .. Cardinality(Done)
  /\ \A m \in Matches \ Done : seq[m] = 0

\* Every settled match is counted once in the standings of its tournament and, if
\* ranked, in the rated games of both its bots.
PlayedIn(v, M) == {m \in M : \E s \in Seats : Player[m][s] = v}
Ledger ==
  \A v \in Versions :
    /\ rated[v] = Cardinality(PlayedIn(v, Ranked \cap Done))
    /\ \A r \in Rounds :
         /\ standing[r][v].played = Cardinality(PlayedIn(v, MatchesOf(r) \cap Done))
         /\ standing[r][v].points =
              3 * Cardinality({m \in MatchesOf(r) \cap Done :
                                 result[m].winner \in Seats /\ Player[m][result[m].winner] = v})
              + Cardinality({m \in PlayedIn(v, MatchesOf(r) \cap Done) :
                               result[m].winner = "draw"})

\* A tournament is completed exactly when each of its matches is settled.
TournamentDone ==
  \A r \in Rounds : MatchesOf(r) # {} =>
    (tournament[r] = "completed" <=> \A m \in MatchesOf(r) : target[m] = "done")

\* Spectators see the moves of one attempt at a time, never those of a worker that was
\* overtaken, and no rows are left of a settled match.
FramesOfOneAttempt ==
  \A m \in Matches :
    /\ \A f, g \in frames[m] : f[1] = g[1] /\ f[1] <= job[m].attempt
    /\ target[m] = "done" => frames[m] = {}

\* A match is given up only after all the attempts it was granted.
GivenUpWhenExhausted ==
  \A m \in Matches : target[m] = "failed" => job[m].attempt >= job[m].max

\* Each queued job is completed or given up: no crash, stop or lost lease leaves it
\* claimed for ever.
JobsEnd ==
  \A j \in Jobs : job[j].status = "queued" ~> job[j].status \in {"completed", "failed"}

\* A worker that runs has a job; a job starts without attempts, and the matches of a
\* round with their tournament.
WorkersSound == \A w \in Worker : Active(w) => worker[w].job \in Jobs
NotQueued == \A j \in Jobs : job[j].status = "none" => job[j].attempt = 0
NotLaunched ==
  \A r \in Rounds : tournament[r] = "none" => \A m \in MatchesOf(r) : job[m].status = "none"

\* Jobs, attempts, matches, frames and tournaments agree with one another (all
\* transactions): what the proofs of ArenaProofs carry through every step.
JobsInv ==
  /\ TypeOK
  /\ StatusesAgree /\ OneLivingAttempt /\ SettledByOneAttempt
  /\ GivenUpWhenExhausted
  /\ WorkersSound
  /\ FramesOfOneAttempt
  /\ SettlementsNumbered
  /\ NotQueued /\ NotLaunched /\ TournamentDone

=============================================================================
