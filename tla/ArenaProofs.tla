---------------------------- MODULE ArenaProofs ----------------------------
(***************************************************************************)
(* What TLAPS proves of ArenaJobs and of ArenaCompetition for every set of *)
(* workers, matches, bots and rounds, every length of a lease and every    *)
(* number of attempts: the jobs one by one, the ledger of their results,   *)
(* and the rounds of the competition that gate each other on both.         *)
(***************************************************************************)
EXTENDS ArenaCompetition, FiniteSetTheorems, SequenceTheorems, TLAPS

-----------------------------------------------------------------------------
(* One job: its row, its attempts and its target.                          *)

\* What the queue maintains of a single job, whatever happens to the others.
Sound(j, r, as, t) ==
  /\ r.status = "none" => t = "none" \/ (j \in Matches /\ t = "pending")
  /\ r.status = "queued" => t = "pending"
  /\ r.status = "claimed" => t = "running"
  /\ r.status = "completed" => t = "done"
  /\ r.status = "failed" => t = "failed"
  /\ Len(as) = r.attempt
  /\ r.status = "none" => r.attempt = 0
  /\ \A a \in 1 .. Len(as) :
       /\ as[a] = "active" <=> r.status = "claimed" /\ a = r.attempt
       /\ as[a] = "completed" <=> t = "done" /\ a = r.attempt
  /\ r.status = "claimed" \/ t = "done" => r.attempt \in 1 .. Len(as)

JobRow(j, r, as, t) ==
  /\ r \in JobType /\ as \in Seq(AttemptStatus) /\ t \in TargetStatus
  /\ Sound(j, r, as, t)

LEMMA RowAt ==
  ASSUME JobsInv, NEW j \in Jobs
  PROVE  JobRow(j, job[j], attempts[j], target[j])
<1>1. job[j] \in JobType /\ attempts[j] \in Seq(AttemptStatus) /\ target[j] \in TargetStatus
  BY DEF JobsInv, TypeOK
<1>2. Len(attempts[j]) = job[j].attempt
  BY DEF JobsInv, OneLivingAttempt
<1>3. ASSUME NEW a \in 1 .. Len(attempts[j])
      PROVE  attempts[j][a] = "active" <=> job[j].status = "claimed" /\ a = job[j].attempt
  <2>1. a \in Of(j, "active") <=> attempts[j][a] = "active"
    BY <1>3 DEF Of
  <2>2. Of(j, "active") = IF job[j].status = "claimed" THEN {job[j].attempt} ELSE {}
    BY DEF JobsInv, OneLivingAttempt
  <2> QED BY <2>1, <2>2
<1>4. Of(j, "completed") = IF target[j] = "done" THEN {job[j].attempt} ELSE {}
  BY DEF JobsInv, SettledByOneAttempt
<1>5. ASSUME NEW a \in 1 .. Len(attempts[j])
      PROVE  attempts[j][a] = "completed" <=> target[j] = "done" /\ a = job[j].attempt
  <2>1. a \in Of(j, "completed") <=> attempts[j][a] = "completed"
    BY <1>5 DEF Of
  <2> QED BY <1>4, <2>1
<1>6. job[j].status = "claimed" => job[j].attempt \in 1 .. Len(attempts[j])
  <2>1. job[j].status = "claimed" => job[j].attempt \in Of(j, "active")
    BY DEF JobsInv, OneLivingAttempt
  <2> QED BY <2>1 DEF Of
<1>7. target[j] = "done" => job[j].attempt \in 1 .. Len(attempts[j])
  <2>1. target[j] = "done" => job[j].attempt \in Of(j, "completed")
    BY <1>4
  <2> QED BY <2>1 DEF Of
<1>8. /\ job[j].status = "none" => target[j] = "none" \/ (j \in Matches /\ target[j] = "pending")
      /\ job[j].status = "queued" => target[j] = "pending"
      /\ job[j].status = "claimed" => target[j] = "running"
      /\ job[j].status = "completed" => target[j] = "done"
      /\ job[j].status = "failed" => target[j] = "failed"
  BY DEF JobsInv, StatusesAgree
<1>9. job[j].status = "none" => job[j].attempt = 0
  BY DEF JobsInv, NotQueued
<1> QED
  BY <1>1, <1>2, <1>3, <1>5, <1>6, <1>7, <1>8, <1>9 DEF JobRow, Sound

\* The invariants of the rows follow from the rows.
LEMMA RowsTogether ==
  /\ \A j \in Jobs : JobRow(j, job[j], attempts[j], target[j])
  /\ \A k \in Matches : target[k] = "done" => result[k].attempt = job[k].attempt
  => StatusesAgree /\ OneLivingAttempt /\ SettledByOneAttempt /\ NotQueued
<1> SUFFICES ASSUME \A j \in Jobs : JobRow(j, job[j], attempts[j], target[j]),
                    \A m \in Matches :
                      target[m] = "done" => result[m].attempt = job[m].attempt
             PROVE  StatusesAgree /\ OneLivingAttempt /\ SettledByOneAttempt /\ NotQueued
  OBVIOUS
<1>1. StatusesAgree
  <2> SUFFICES ASSUME NEW j \in Jobs
               PROVE  CASE job[j].status = "none" -> target[j] = "none"
                                \/ (j \in Matches /\ target[j] = "pending")
                        [] job[j].status = "queued" -> target[j] = "pending"
                        [] job[j].status = "claimed" -> target[j] = "running"
                        [] job[j].status = "completed" -> target[j] = "done"
                        [] job[j].status = "failed" -> target[j] = "failed"
    BY DEF StatusesAgree
  <2>1. Sound(j, job[j], attempts[j], target[j]) /\ job[j] \in JobType
    BY DEF JobRow
  <2>2. job[j].status \in {"none", "queued", "claimed", "completed", "failed"}
    BY <2>1 DEF JobType
  <2> QED BY <2>1, <2>2 DEF Sound
<1>2. OneLivingAttempt
  <2> SUFFICES ASSUME NEW j \in Jobs
               PROVE  /\ Len(attempts[j]) = job[j].attempt
                      /\ Of(j, "active") = IF job[j].status = "claimed"
                                           THEN {job[j].attempt} ELSE {}
    BY DEF OneLivingAttempt
  <2>1. Sound(j, job[j], attempts[j], target[j])
    BY DEF JobRow
  <2> QED BY <2>1 DEF Sound, Of
<1>3. SettledByOneAttempt
  <2> SUFFICES ASSUME NEW j \in Jobs
               PROVE  /\ Of(j, "completed") = IF target[j] = "done"
                                              THEN {job[j].attempt} ELSE {}
                      /\ j \in Matches /\ target[j] = "done"
                           => result[j].attempt = job[j].attempt
    BY DEF SettledByOneAttempt
  <2>1. Sound(j, job[j], attempts[j], target[j])
    BY DEF JobRow
  <2> QED BY <2>1 DEF Sound, Of
<1>4. NotQueued
  BY DEF NotQueued, JobRow, Sound
<1> QED BY <1>1, <1>2, <1>3, <1>4

LEMMA RowsTogetherNext ==
  (/\ \A j \in Jobs : JobRow(j, job[j], attempts[j], target[j])
   /\ \A k \in Matches : target[k] = "done" => result[k].attempt = job[k].attempt)'
  => (StatusesAgree /\ OneLivingAttempt /\ SettledByOneAttempt /\ NotQueued)'
BY RowsTogether, PTL

\* A job is inserted without attempts.
LEMMA NewRow ==
  ASSUME NEW j, NEW as \in Seq(AttemptStatus), Len(as) = 0
  PROVE  /\ JobRow(j, NewJob, as, "pending")
         /\ NewJob.status = "queued" /\ NewJob.attempt = 0
BY LimitAssumption DEF JobRow, Sound, NewJob, JobType, TargetStatus, Expired

\* Time and heartbeats change only the lease.
LEMMA LeaseRow ==
  ASSUME NEW j, NEW r \in JobType, NEW as \in Seq(AttemptStatus), NEW t,
         JobRow(j, r, as, t), NEW n \in Expired .. Lease
  PROVE  JobRow(j, [r EXCEPT !.left = n], as, t)
BY DEF JobRow, Sound, JobType

LEMMA LeaseRange ==
  /\ Expired \in Expired .. Lease /\ Lease \in Expired .. Lease
  /\ NoWorker \in Worker \cup {NoWorker}
BY LimitAssumption DEF Expired

LEMMA AppendKept ==
  ASSUME NEW as \in Seq(AttemptStatus), NEW a \in 1 .. Len(as)
  PROVE  Append(as, "active")[a] = as[a]
OBVIOUS

\* A claim starts the next attempt.
LEMMA ClaimRow ==
  ASSUME NEW j, NEW r \in JobType, NEW as \in Seq(AttemptStatus), NEW t,
         JobRow(j, r, as, t), r.status = "queued",
         NEW w \in Worker
  PROVE  JobRow(j, [r EXCEPT !.status = "claimed", !.attempt = @ + 1, !.owner = w,
                             !.left = Lease],
                Append(as, "active"), "running")
<1> DEFINE n == r.attempt + 1
           q == [r EXCEPT !.status = "claimed", !.attempt = n, !.owner = w, !.left = Lease]
           bs == Append(as, "active")
<1>1. as \in Seq(AttemptStatus) /\ Len(as) = r.attempt /\ t = "pending" /\ r.attempt \in Nat
  BY DEF JobRow, Sound, JobType
<1>2. n \in Nat /\ n = Len(as) + 1
  BY <1>1
<1>3. \A a \in 1 .. Len(as) : as[a] # "active" /\ as[a] # "completed"
  BY <1>1 DEF JobRow, Sound
<1>4. "active" \in AttemptStatus
  BY DEF AttemptStatus
<1>5. bs \in Seq(AttemptStatus) /\ Len(bs) = Len(as) + 1
  BY <1>1, <1>4, AppendProperties
<1>6. bs[Len(as) + 1] = "active" /\ \A a \in 1 .. Len(as) : bs[a] = as[a]
  <2>1. bs[Len(as) + 1] = "active"
    BY <1>1, <1>4, AppendProperties
  <2>2. ASSUME NEW a \in 1 .. Len(as)
        PROVE  bs[a] = as[a]
    BY AppendKept
  <2> QED BY <2>1, <2>2
<1> HIDE DEF n
<1>7. q \in JobType /\ q.status = "claimed" /\ q.attempt = n
  BY <1>2, LeaseRange DEF JobType
<1> HIDE DEF q, bs
<1>8. Sound(j, q, bs, "running")
  <2>1. Len(bs) = q.attempt /\ q.attempt \in 1 .. Len(bs)
    BY <1>1, <1>2, <1>5, <1>7
  <2>2. ASSUME NEW a \in 1 .. Len(bs)
        PROVE  (bs[a] = "active" <=> a = q.attempt) /\ bs[a] # "completed"
    <3>1. a = n \/ a \in 1 .. Len(as)
      BY <1>1, <1>2, <1>5
    <3> QED BY <3>1, <1>1, <1>2, <1>3, <1>6, <1>7
  <2> QED BY <2>1, <2>2, <1>7 DEF Sound
<1>9. JobRow(j, q, bs, "running")
  BY <1>5, <1>7, <1>8 DEF JobRow, TargetStatus
<1> QED BY <1>9 DEF q, n, bs

\* A lease that is lost leaves a fenced attempt, whether the job is queued again or
\* given up.
LEMMA FencedRow ==
  ASSUME NEW j, NEW r \in JobType, NEW as \in Seq(AttemptStatus), NEW t,
         JobRow(j, r, as, t), r.status = "claimed"
  PROVE  /\ JobRow(j, Requeued(r), [as EXCEPT ![r.attempt] = "fenced"], "pending")
         /\ JobRow(j, GivenUp(r), [as EXCEPT ![r.attempt] = "fenced"], "failed")
<1> DEFINE bs == [as EXCEPT ![r.attempt] = "fenced"]
<1>1. as \in Seq(AttemptStatus) /\ Len(as) = r.attempt /\ r.attempt \in 1 .. Len(as)
      /\ t = "running"
  BY DEF JobRow, Sound
<1>2. \A a \in 1 .. Len(as) : a # r.attempt => as[a] # "active" /\ as[a] # "completed"
  BY <1>1 DEF JobRow, Sound
<1>3. "fenced" \in AttemptStatus
  BY DEF AttemptStatus
<1>4. /\ bs \in Seq(AttemptStatus) /\ Len(bs) = Len(as) /\ bs[r.attempt] = "fenced"
      /\ \A a \in 1 .. Len(as) : a # r.attempt => bs[a] = as[a]
  <2>1. bs \in Seq(AttemptStatus) /\ Len(bs) = Len(as)
    BY <1>1, <1>3, ExceptSeq
  <2>2. as \in [1 .. Len(as) -> AttemptStatus]
    BY <1>1, LenProperties
  <2>3. bs[r.attempt] = "fenced" /\ \A a \in 1 .. Len(as) : a # r.attempt => bs[a] = as[a]
    BY <1>1, <2>2
  <2> QED BY <2>1, <2>3
<1>5. \A a \in 1 .. Len(as) : bs[a] # "active" /\ bs[a] # "completed"
  BY <1>2, <1>4
<1>6. /\ Requeued(r) \in JobType /\ Requeued(r).status = "queued"
      /\ Requeued(r).attempt = r.attempt
  BY LeaseRange DEF Requeued, JobType
<1>7. GivenUp(r) \in JobType /\ GivenUp(r).status = "failed" /\ GivenUp(r).attempt = r.attempt
  BY LeaseRange DEF GivenUp, JobType
<1> HIDE DEF bs
<1>8. Sound(j, Requeued(r), bs, "pending")
  BY <1>1, <1>4, <1>5, <1>6 DEF Sound
<1>9. Sound(j, GivenUp(r), bs, "failed")
  BY <1>1, <1>4, <1>5, <1>7 DEF Sound
<1> QED BY <1>4, <1>6, <1>7, <1>8, <1>9 DEF JobRow, bs, TargetStatus

LEMMA AttemptsFencedIs ==
  ASSUME NEW j \in Jobs, JobRow(j, job[j], attempts[j], target[j]), job[j].status = "claimed"
  PROVE  AttemptsFenced(j) = [attempts[j] EXCEPT ![job[j].attempt] = "fenced"]
BY DEF JobRow, Sound, AttemptsFenced

LEMMA LeaseLost ==
  ASSUME NEW j \in Jobs, JobRow(j, job[j], attempts[j], target[j]), job[j].status = "claimed"
  PROVE  /\ JobRow(j, Requeued(job[j]), AttemptsFenced(j), "pending")
         /\ JobRow(j, GivenUp(job[j]), AttemptsFenced(j), "failed")
<1> DEFINE as == attempts[j]
           r == job[j]
           t == target[j]
<1>1. JobRow(j, r, as, t) /\ r \in JobType /\ as \in Seq(AttemptStatus)
      /\ r.status = "claimed"
  BY DEF JobRow
<1>2. AttemptsFenced(j) = [as EXCEPT ![r.attempt] = "fenced"]
  BY AttemptsFencedIs
<1> HIDE DEF as, r, t
<1>3. /\ JobRow(j, Requeued(r), [as EXCEPT ![r.attempt] = "fenced"], "pending")
      /\ JobRow(j, GivenUp(r), [as EXCEPT ![r.attempt] = "fenced"], "failed")
  BY <1>1, FencedRow
<1> QED BY <1>2, <1>3 DEF as, r, t

\* A queued job is given up without a new attempt.
LEMMA GivenUpRow ==
  ASSUME NEW j, NEW r \in JobType, NEW as \in Seq(AttemptStatus), NEW t,
         JobRow(j, r, as, t), r.status = "queued"
  PROVE  JobRow(j, GivenUp(r), as, "failed")
<1>1. as \in Seq(AttemptStatus) /\ t = "pending"
  BY DEF JobRow, Sound
<1>2. GivenUp(r) \in JobType /\ GivenUp(r).status = "failed" /\ GivenUp(r).attempt = r.attempt
  BY LeaseRange DEF GivenUp, JobType
<1>3. Sound(j, GivenUp(r), as, "failed")
  BY <1>1, <1>2 DEF JobRow, Sound
<1> QED BY <1>1, <1>2, <1>3 DEF JobRow, TargetStatus

\* A retry queues a job that was given up, with attempts left.
LEMMA RegrantedRow ==
  ASSUME NEW j, NEW r \in JobType, NEW as \in Seq(AttemptStatus), NEW t,
         JobRow(j, r, as, t), t = "failed"
  PROVE  JobRow(j, Regranted(r), as, "pending")
<1> DEFINE n == IF r.max > r.attempt + MaxAttempts THEN r.max ELSE r.attempt + MaxAttempts
           q == [r EXCEPT !.status = "queued", !.owner = NoWorker, !.left = Expired, !.max = n]
<1>1. as \in Seq(AttemptStatus) /\ r.status # "claimed"
  BY DEF JobRow, Sound
<1>2. n \in Nat
  BY LimitAssumption DEF JobType
<1> HIDE DEF n
<1>3. q \in JobType /\ q.status = "queued" /\ q.attempt = r.attempt
  BY <1>2, LeaseRange DEF JobType
<1> HIDE DEF q
<1>4. Sound(j, q, as, "pending")
  BY <1>1, <1>3 DEF JobRow, Sound
<1>5. Regranted(r) = q
  BY DEF Regranted, q, n
<1> QED BY <1>1, <1>3, <1>4, <1>5 DEF JobRow, TargetStatus

\* The attempt that holds the lease completes or fails.
LEMMA EndedRow ==
  ASSUME NEW j, NEW r \in JobType, NEW as \in Seq(AttemptStatus), NEW t,
         JobRow(j, r, as, t), r.status = "claimed"
  PROVE  /\ JobRow(j, [r EXCEPT !.status = "completed"],
                   [as EXCEPT ![r.attempt] = "completed"], "done")
         /\ JobRow(j, [r EXCEPT !.status = "failed"],
                   [as EXCEPT ![r.attempt] = "failed"], "failed")
<1>1. as \in Seq(AttemptStatus) /\ Len(as) = r.attempt /\ t = "running"
      /\ r.attempt \in 1 .. Len(as)
  BY DEF JobRow, Sound
<1>2. \A a \in 1 .. Len(as) : as[a] # "completed" /\ (a # r.attempt => as[a] # "active")
  BY <1>1 DEF JobRow, Sound
<1> DEFINE cs == [as EXCEPT ![r.attempt] = "completed"]
           fs == [as EXCEPT ![r.attempt] = "failed"]
           c == [r EXCEPT !.status = "completed"]
           f == [r EXCEPT !.status = "failed"]
<1>3. "completed" \in AttemptStatus /\ "failed" \in AttemptStatus
  BY DEF AttemptStatus
<1>4. /\ cs \in Seq(AttemptStatus) /\ Len(cs) = Len(as) /\ cs[r.attempt] = "completed"
      /\ \A a \in 1 .. Len(as) : a # r.attempt => cs[a] = as[a]
  <2>1. cs \in Seq(AttemptStatus) /\ Len(cs) = Len(as)
    BY <1>1, <1>3, ExceptSeq
  <2>2. as \in [1 .. Len(as) -> AttemptStatus]
    BY <1>1, LenProperties
  <2>3. cs[r.attempt] = "completed" /\ \A a \in 1 .. Len(as) : a # r.attempt => cs[a] = as[a]
    BY <1>1, <2>2
  <2> QED BY <2>1, <2>3
<1>5. /\ fs \in Seq(AttemptStatus) /\ Len(fs) = Len(as) /\ fs[r.attempt] = "failed"
      /\ \A a \in 1 .. Len(as) : a # r.attempt => fs[a] = as[a]
  <2>1. fs \in Seq(AttemptStatus) /\ Len(fs) = Len(as)
    BY <1>1, <1>3, ExceptSeq
  <2>2. as \in [1 .. Len(as) -> AttemptStatus]
    BY <1>1, LenProperties
  <2>3. fs[r.attempt] = "failed" /\ \A a \in 1 .. Len(as) : a # r.attempt => fs[a] = as[a]
    BY <1>1, <2>2
  <2> QED BY <2>1, <2>3
<1>6. c \in JobType /\ c.status = "completed" /\ c.attempt = r.attempt
  BY DEF JobType
<1>7. f \in JobType /\ f.status = "failed" /\ f.attempt = r.attempt
  BY DEF JobType
<1> HIDE DEF cs, fs, c, f
<1>8. Sound(j, c, cs, "done")
  BY <1>1, <1>2, <1>4, <1>6 DEF Sound
<1>9. Sound(j, f, fs, "failed")
  BY <1>1, <1>2, <1>5, <1>7 DEF Sound
<1> QED BY <1>4, <1>5, <1>6, <1>7, <1>8, <1>9 DEF JobRow, c, cs, f, fs, TargetStatus

-----------------------------------------------------------------------------
(* The tables: a step that leaves results, frames and tournaments alone.   *)

RowsSound ==
  /\ job \in [Jobs -> JobType] /\ attempts \in [Jobs -> Seq(AttemptStatus)]
  /\ target \in [Jobs -> TargetStatus]
  /\ \A j \in Jobs : JobRow(j, job[j], attempts[j], target[j])

LEMMA InvRows == JobsInv => RowsSound
<1> SUFFICES ASSUME JobsInv PROVE RowsSound
  OBVIOUS
<1>1. \A j \in Jobs : JobRow(j, job[j], attempts[j], target[j])
  BY RowAt
<1> QED BY <1>1 DEF JobsInv, TypeOK, RowsSound

WorkersTyped == worker \in [Worker -> WorkerType] /\ WorkersSound

TournamentTyped == tournament \in [Rounds -> {"none", "pending", "completed"}]

LEMMA RowsStep ==
  ASSUME JobsInv, RowsSound', WorkersTyped', GivenUpWhenExhausted',
         TournamentTyped', NotLaunched', TournamentDone',
         \A j \in Jobs : job'[j].attempt >= job[j].attempt,
         \A m \in Matches : target'[m] = "done" <=> target[m] = "done",
         \A m \in Matches : target[m] = "done" => job'[m].attempt = job[m].attempt,
         UNCHANGED <<result, seq, rated, standing, frames>>
  PROVE  JobsInv'
<1>1. TypeOK'
  BY DEF JobsInv, TypeOK, RowsSound, WorkersTyped, TournamentTyped
<1>2. \A k \in Matches : target[k] = "done" => result[k].attempt = job[k].attempt
  BY DEF JobsInv, SettledByOneAttempt, Jobs
<1>3. (\A k \in Matches : target[k] = "done" => result[k].attempt = job[k].attempt)'
  BY <1>2
<1>4. (\A j \in Jobs : JobRow(j, job[j], attempts[j], target[j]))'
  BY DEF RowsSound
<1>5. (StatusesAgree /\ OneLivingAttempt /\ SettledByOneAttempt /\ NotQueued)'
  BY <1>3, <1>4, RowsTogetherNext
<1>6. FramesOfOneAttempt'
  <2> SUFFICES ASSUME NEW m \in Matches
               PROVE  /\ \A f, g \in frames[m] : f[1] = g[1] /\ f[1] <= job'[m].attempt
                      /\ target'[m] = "done" => frames[m] = {}
    BY DEF FramesOfOneAttempt
  <2>1. /\ \A f, g \in frames[m] : f[1] = g[1] /\ f[1] <= job[m].attempt
        /\ target[m] = "done" => frames[m] = {}
    BY DEF JobsInv, FramesOfOneAttempt
  <2>2. job[m].attempt \in Nat /\ job'[m].attempt \in Nat /\ job'[m].attempt >= job[m].attempt
    BY DEF JobsInv, TypeOK, RowsSound, JobType, Jobs
  <2>3. \A f \in frames[m] : f[1] \in Nat
    BY DEF JobsInv, TypeOK
  <2> QED BY <2>1, <2>2, <2>3
<1>7. SettlementsNumbered'
  <2>1. Done' = Done
    BY DEF Done
  <2> QED BY <2>1 DEF JobsInv, SettlementsNumbered
<1> QED
  BY <1>1, <1>5, <1>6, <1>7 DEF JobsInv, WorkersTyped

\* Tournaments, too, are left alone.
LEMMA QueueStep ==
  ASSUME JobsInv, RowsSound', WorkersTyped', GivenUpWhenExhausted',
         \A j \in Jobs : job'[j].attempt >= job[j].attempt,
         \A m \in Matches : target'[m] = "done" <=> target[m] = "done",
         \A m \in Matches : target[m] = "done" => job'[m].attempt = job[m].attempt,
         \A m \in Matches :
           RoundOf[m] # NoRound /\ job[m].status = "none" => job'[m].status = "none",
         UNCHANGED <<result, seq, rated, standing, tournament, frames>>
  PROVE  JobsInv'
<1>1. NotLaunched'
  BY TargetsAssumption DEF JobsInv, NotLaunched, MatchesOf
<1>2. TournamentDone'
  <2>1. \A r \in Rounds : (\A m \in MatchesOf(r) : target'[m] = "done")
                            <=> (\A m \in MatchesOf(r) : target[m] = "done")
    BY DEF MatchesOf
  <2> QED BY <2>1 DEF JobsInv, TournamentDone, MatchesOf
<1>3. TournamentTyped'
  BY DEF JobsInv, TypeOK, TournamentTyped
<1> QED BY <1>1, <1>2, <1>3, RowsStep

\* Nothing in the tables changes.
LEMMA TablesKept ==
  ASSUME JobsInv, WorkersTyped', UNCHANGED tables
  PROVE  JobsInv'
<1>1. RowsSound'
  BY InvRows DEF tables, RowsSound
<1>2. GivenUpWhenExhausted'
  BY DEF JobsInv, GivenUpWhenExhausted, tables
<1>3. \A j \in Jobs : job'[j].attempt >= job[j].attempt
  BY DEF JobsInv, TypeOK, JobType, tables
<1> QED BY <1>1, <1>2, <1>3, QueueStep DEF tables

\* One row changes.
LEMMA OneStep ==
  ASSUME JobsInv, NEW x \in Jobs, NEW r, NEW as, NEW t, JobRow(x, r, as, t),
         job' = [job EXCEPT ![x] = r],
         attempts' = [attempts EXCEPT ![x] = as],
         target' = [target EXCEPT ![x] = t],
         r.attempt >= job[x].attempt,
         x \in Matches =>
           /\ t # "done" /\ target[x] # "done"
           /\ t = "failed" => r.attempt >= r.max
           /\ RoundOf[x] # NoRound /\ job[x].status = "none" => r.status = "none",
         WorkersTyped',
         UNCHANGED <<result, seq, rated, standing, tournament, frames>>
  PROVE  JobsInv'
<1>1. RowsSound
  BY InvRows
<1>2. r \in JobType /\ as \in Seq(AttemptStatus) /\ t \in TargetStatus
  BY DEF JobRow
<1>3. \A j \in Jobs : IF j = x THEN job'[j] = r /\ attempts'[j] = as /\ target'[j] = t
                      ELSE /\ job'[j] = job[j] /\ attempts'[j] = attempts[j]
                           /\ target'[j] = target[j]
  BY <1>1 DEF RowsSound
<1>4. RowsSound'
  <2>1. job' \in [Jobs -> JobType]
    BY <1>1, <1>2 DEF RowsSound
  <2>2. attempts' \in [Jobs -> Seq(AttemptStatus)]
    BY <1>1, <1>2 DEF RowsSound
  <2>3. target' \in [Jobs -> TargetStatus]
    BY <1>1, <1>2 DEF RowsSound
  <2>4. \A j \in Jobs : JobRow(j, job'[j], attempts'[j], target'[j])
    BY <1>1, <1>3 DEF RowsSound
  <2> QED BY <2>1, <2>2, <2>3, <2>4 DEF RowsSound
<1>5. GivenUpWhenExhausted'
  BY <1>3 DEF JobsInv, GivenUpWhenExhausted, Jobs
<1>6. \A j \in Jobs : job'[j].attempt >= job[j].attempt
  <2>1. \A j \in Jobs : job[j].attempt \in Nat
    BY <1>1 DEF RowsSound, JobType
  <2> QED BY <1>3, <2>1
<1>7. /\ \A m \in Matches : target'[m] = "done" <=> target[m] = "done"
      /\ \A m \in Matches : target[m] = "done" => job'[m].attempt = job[m].attempt
      /\ \A m \in Matches :
           RoundOf[m] # NoRound /\ job[m].status = "none" => job'[m].status = "none"
  BY <1>3 DEF Jobs
<1> QED BY <1>4, <1>5, <1>6, <1>7, QueueStep

\* A worker that is not running a job.
LEMMA Resting ==
  ASSUME JobsInv, NEW w \in Worker, NEW x \in WorkerType,
         x.phase \notin {"working", "aborted", "stopping"},
         worker' = [worker EXCEPT ![w] = x]
  PROVE  WorkersTyped'
BY DEF JobsInv, TypeOK, WorkersTyped, WorkersSound, Active

\* A worker that runs, on the job it had or a new one.
LEMMA Running ==
  ASSUME JobsInv, NEW w \in Worker, NEW x \in WorkerType, x.job \in Jobs,
         worker' = [worker EXCEPT ![w] = x]
  PROVE  WorkersTyped'
BY DEF JobsInv, TypeOK, WorkersTyped, WorkersSound, Active

LEMMA SameWorkers ==
  ASSUME JobsInv, UNCHANGED worker
  PROVE  WorkersTyped'
BY DEF JobsInv, TypeOK, WorkersTyped, WorkersSound, Active

LEMMA NoClaimType ==
  /\ NoClaim \in WorkerType /\ NoClaim.phase = "idle"
  /\ [NoClaim EXCEPT !.phase = "stopped"] \in WorkerType
BY DEF NoClaim, WorkerType

LEMMA EndedWorkers ==
  ASSUME JobsInv, NEW w \in Worker, Ended(w)
  PROVE  WorkersTyped'
<1> DEFINE s == [NoClaim EXCEPT !.phase = "stopped"]
<1>1. s \in WorkerType /\ s.phase = "stopped"
  BY NoClaimType DEF NoClaim, WorkerType
<1>2. CASE worker[w].phase = "stopping"
  <2>1. worker' = [worker EXCEPT ![w] = s]
    BY <1>2 DEF Ended
  <2> QED BY <1>1, <2>1, Resting
<1>3. CASE worker[w].phase # "stopping"
  <2>1. worker' = [worker EXCEPT ![w] = NoClaim]
    BY <1>3 DEF Ended
  <2> QED BY <2>1, NoClaimType, Resting
<1> QED BY <1>2, <1>3

-----------------------------------------------------------------------------
(* The API.                                                                *)

\* Only the status of the row decides the status of the target.
LEMMA RowFacts ==
  ASSUME JobsInv, NEW j \in Jobs
  PROVE  /\ job[j] \in JobType /\ attempts[j] \in Seq(AttemptStatus)
         /\ target[j] \in TargetStatus /\ job[j].attempt \in Nat
         /\ job \in [Jobs -> JobType] /\ attempts \in [Jobs -> Seq(AttemptStatus)]
         /\ target \in [Jobs -> TargetStatus]
         /\ Len(attempts[j]) = job[j].attempt
         /\ job[j].status = "none" => job[j].attempt = 0
         /\ job[j].status \in {"none", "queued", "claimed", "completed", "failed"}
BY RowAt DEF JobsInv, TypeOK, JobRow, Sound, JobType

LEMMA KeptRow ==
  ASSUME JobsInv, NEW j \in Jobs
  PROVE  /\ job = [job EXCEPT ![j] = job[j]]
         /\ attempts = [attempts EXCEPT ![j] = attempts[j]]
         /\ target = [target EXCEPT ![j] = target[j]]
BY DEF JobsInv, TypeOK

LEMMA UploadStep ==
  ASSUME JobsInv, NEW v \in Versions, Upload(v)
  PROVE  JobsInv'
<1>1. v \in Jobs /\ v \notin Matches
  BY TargetsAssumption DEF Jobs
<1>2. JobRow(v, job[v], attempts[v], target[v])
  BY <1>1, RowAt
<1>3. job[v].status = "none"
  BY <1>1, <1>2, RowFacts DEF Upload, JobRow, Sound
<1>4. Len(attempts[v]) = 0 /\ attempts[v] \in Seq(AttemptStatus) /\ job[v].attempt = 0
  BY <1>1, <1>3, RowFacts
<1>5. JobRow(v, NewJob, attempts[v], "pending") /\ NewJob.attempt = 0
  BY <1>4, NewRow
<1>6. attempts' = [attempts EXCEPT ![v] = attempts[v]]
  BY <1>1, KeptRow DEF Upload
<1>7. WorkersTyped'
  BY SameWorkers DEF Upload
<1>8. job' = [job EXCEPT ![v] = NewJob] /\ target' = [target EXCEPT ![v] = "pending"]
  BY DEF Upload
<1>9. NewJob.attempt >= job[v].attempt
  BY <1>4, <1>5
<1>10. UNCHANGED <<result, seq, rated, standing, tournament, frames>>
  BY DEF Upload
<1> QED BY <1>1, <1>5, <1>6, <1>7, <1>8, <1>9, <1>10, OneStep

LEMMA CreateMatchStep ==
  ASSUME JobsInv, NEW m \in Matches, CreateMatch(m)
  PROVE  JobsInv'
<1>1. m \in Jobs
  BY DEF Jobs
<1>2. JobRow(m, job[m], attempts[m], "none") /\ target[m] = "none"
  BY <1>1, RowAt DEF CreateMatch
<1>3. JobRow(m, job[m], attempts[m], "pending")
  BY <1>1, <1>2, RowFacts DEF JobRow, Sound, TargetStatus
<1>4. job' = [job EXCEPT ![m] = job[m]] /\ attempts' = [attempts EXCEPT ![m] = attempts[m]]
  BY <1>1, KeptRow DEF CreateMatch
<1>5. WorkersTyped'
  BY SameWorkers DEF CreateMatch
<1>6. job[m].attempt >= job[m].attempt
  BY <1>1, RowFacts
<1> QED BY <1>1, <1>2, <1>3, <1>4, <1>5, <1>6, OneStep DEF CreateMatch

LEMMA EnqueueStep ==
  ASSUME JobsInv, NEW m \in Matches, Enqueue(m)
  PROVE  JobsInv'
<1>1. m \in Jobs
  BY DEF Jobs
<1>2. Len(attempts[m]) = 0 /\ attempts[m] \in Seq(AttemptStatus) /\ job[m].attempt = 0
  BY <1>1, RowFacts DEF Enqueue
<1>3. target[m] = "pending"
  BY <1>1, RowAt DEF Enqueue, JobRow, Sound
<1>4. JobRow(m, NewJob, attempts[m], "pending") /\ NewJob.attempt = 0
  BY <1>2, NewRow
<1>5. target' = [target EXCEPT ![m] = "pending"]
      /\ attempts' = [attempts EXCEPT ![m] = attempts[m]]
  BY <1>1, <1>3, KeptRow DEF Enqueue
<1>6. WorkersTyped'
  BY SameWorkers DEF Enqueue
<1>7. job' = [job EXCEPT ![m] = NewJob] /\ NewJob.attempt >= job[m].attempt
  BY <1>2, <1>4 DEF Enqueue
<1>8. RoundOf[m] = NoRound /\ UNCHANGED <<result, seq, rated, standing, tournament, frames>>
  BY DEF Enqueue
<1> QED BY <1>1, <1>3, <1>4, <1>5, <1>6, <1>7, <1>8, OneStep

LEMMA RetryStep ==
  ASSUME JobsInv, NEW m \in Matches, Retry(m)
  PROVE  JobsInv'
<1>1. m \in Jobs
  BY DEF Jobs
<1>2. JobRow(m, job[m], attempts[m], "failed") /\ target[m] = "failed"
  BY <1>1, RowAt DEF Retry
<1>3. JobRow(m, Regranted(job[m]), attempts[m], "pending")
  BY <1>1, <1>2, RowFacts, RegrantedRow
<1>4. Regranted(job[m]).attempt >= job[m].attempt
  BY <1>1, RowFacts DEF Regranted, JobType
<1>5. job[m].status # "none"
  BY <1>2 DEF JobRow, Sound
<1>6. attempts' = [attempts EXCEPT ![m] = attempts[m]]
  BY <1>1, KeptRow DEF Retry
<1>7. job' = [job EXCEPT ![m] = Regranted(job[m])]
  BY DEF Retry
<1>8. WorkersTyped'
  BY SameWorkers DEF Retry
<1> QED BY <1>1, <1>2, <1>3, <1>4, <1>5, <1>6, <1>7, <1>8, OneStep DEF Retry

-----------------------------------------------------------------------------
(* The queue.                                                              *)

LEMMA PollStep ==
  ASSUME JobsInv, NEW w \in Worker, Poll(w)
  PROVE  JobsInv'
<1> DEFINE x == [worker[w] EXCEPT !.phase = "polling"]
<1>1. WorkersTyped'
  <2>1. x \in WorkerType /\ x.phase = "polling"
    BY DEF JobsInv, TypeOK, WorkerType
  <2>2. worker' = [worker EXCEPT ![w] = x]
    BY DEF Poll
  <2> HIDE DEF x
  <2> QED BY <2>1, <2>2, Resting
<1>2. ASSUME NEW j \in Jobs
      PROVE  /\ JobRow(j, job'[j], attempts'[j], target'[j])
             /\ job'[j].attempt = job[j].attempt
             /\ job[j].status # "claimed" => job'[j] = job[j] /\ target'[j] = target[j]
             /\ job[j].status = "claimed" => target[j] = "running" /\ target'[j] # "done"
             /\ target'[j] = "failed" =>
                  \/ target[j] = "failed" /\ job'[j] = job[j]
                  \/ job'[j].attempt >= job'[j].max
  <2>1. JobRow(j, job[j], attempts[j], target[j])
    BY RowAt
  <2>2. job'[j] = (IF ~LeaseExpired(j) THEN job[j]
                   ELSE IF Exhausted(j) THEN GivenUp(job[j]) ELSE Requeued(job[j]))
    BY DEF Poll, RecoverExpired
  <2>3. target'[j] = (IF ~LeaseExpired(j) THEN target[j]
                      ELSE IF Exhausted(j) THEN "failed" ELSE Waiting(target[j]))
    BY DEF Poll, RecoverExpired
  <2>4. attempts'[j] = (IF LeaseExpired(j) THEN AttemptsFenced(j) ELSE attempts[j])
    BY DEF Poll, RecoverExpired
  <2>5. CASE ~LeaseExpired(j)
    BY <2>1, <2>2, <2>3, <2>4, <2>5 DEF JobRow, Sound
  <2>6. CASE LeaseExpired(j)
    <3>1. job[j].status = "claimed" /\ target[j] = "running" /\ job[j] \in JobType
      BY <2>1, <2>6 DEF LeaseExpired, JobRow, Sound
    <3>2. /\ JobRow(j, Requeued(job[j]), AttemptsFenced(j), "pending")
          /\ JobRow(j, GivenUp(job[j]), AttemptsFenced(j), "failed")
      BY <2>1, <3>1, LeaseLost
    <3>3. Waiting(target[j]) = "pending"
      BY <3>1 DEF Waiting
    <3>4. /\ Requeued(job[j]).attempt = job[j].attempt
          /\ GivenUp(job[j]).attempt = job[j].attempt /\ GivenUp(job[j]).max = job[j].max
      BY <3>1 DEF Requeued, GivenUp, JobType
    <3>5. CASE Exhausted(j)
      BY <2>2, <2>3, <2>4, <2>6, <3>1, <3>2, <3>4, <3>5 DEF Exhausted
    <3>6. CASE ~Exhausted(j)
      BY <2>2, <2>3, <2>4, <2>6, <3>1, <3>2, <3>3, <3>4, <3>6
    <3> QED BY <3>5, <3>6
  <2> QED BY <2>5, <2>6
<1>3. RowsSound'
  <2>1. job' \in [Jobs -> JobType]
    BY <1>2 DEF Poll, RecoverExpired, JobRow
  <2>2. attempts' \in [Jobs -> Seq(AttemptStatus)]
    BY <1>2 DEF Poll, RecoverExpired, JobRow
  <2>3. target' \in [Jobs -> TargetStatus]
    BY <1>2 DEF Poll, RecoverExpired, JobRow
  <2> QED BY <1>2, <2>1, <2>2, <2>3 DEF RowsSound
<1>4. GivenUpWhenExhausted'
  BY <1>2 DEF JobsInv, GivenUpWhenExhausted, Jobs
<1>5. \A j \in Jobs : job'[j].attempt >= job[j].attempt
  BY <1>2, RowFacts
<1>6. /\ \A m \in Matches : target'[m] = "done" <=> target[m] = "done"
      /\ \A m \in Matches : target[m] = "done" => job'[m].attempt = job[m].attempt
      /\ \A m \in Matches :
           RoundOf[m] # NoRound /\ job[m].status = "none" => job'[m].status = "none"
  BY <1>2 DEF Jobs
<1> QED BY <1>1, <1>3, <1>4, <1>5, <1>6, QueueStep DEF Poll, RecoverExpired

LEMMA ClaimExhaustedStep ==
  ASSUME JobsInv, NEW w \in Worker, ClaimExhausted(w)
  PROVE  JobsInv'
<1>1. PICK j \in Jobs : /\ job[j].status = "queued" /\ Exhausted(j)
                        /\ job' = [job EXCEPT ![j] = GivenUp(@)]
                        /\ target' = [target EXCEPT ![j] = "failed"]
  BY DEF ClaimExhausted
<1>2. JobRow(j, job[j], attempts[j], target[j]) /\ target[j] = "pending"
  BY <1>1, RowAt DEF JobRow, Sound
<1>3. JobRow(j, GivenUp(job[j]), attempts[j], "failed")
  BY <1>1, <1>2, RowFacts, GivenUpRow
<1>4. GivenUp(job[j]).attempt = job[j].attempt /\ GivenUp(job[j]).max = job[j].max
  BY <1>1, RowFacts DEF GivenUp, JobType
<1>5. GivenUp(job[j]).attempt >= GivenUp(job[j]).max
  BY <1>1, <1>4 DEF Exhausted
<1>6. GivenUp(job[j]).attempt >= job[j].attempt
  BY <1>1, <1>4, RowFacts
<1>7. job' = [job EXCEPT ![j] = GivenUp(job[j])] /\ target' = [target EXCEPT ![j] = "failed"]
      /\ attempts' = [attempts EXCEPT ![j] = attempts[j]]
  BY <1>1, KeptRow DEF ClaimExhausted
<1>8. WorkersTyped'
  BY NoClaimType, Resting DEF ClaimExhausted
<1>9. UNCHANGED <<result, seq, rated, standing, tournament, frames>>
  BY DEF ClaimExhausted
<1>10. target[j] # "done" /\ job[j].status # "none"
  BY <1>1, <1>2
<1> QED BY <1>3, <1>5, <1>6, <1>7, <1>8, <1>9, <1>10, OneStep

LEMMA ClaimStep ==
  ASSUME JobsInv, NEW w \in Worker, Claim(w)
  PROVE  JobsInv'
<1>1. PICK j \in Jobs :
        /\ job[j].status = "queued" /\ ~Exhausted(j)
        /\ job' = [job EXCEPT ![j].status = "claimed", ![j].attempt = @ + 1,
                              ![j].owner = w, ![j].left = Lease]
        /\ attempts' = [attempts EXCEPT ![j] = Append(@, "active")]
        /\ target' = [target EXCEPT ![j] = IF @ = "pending" THEN "running" ELSE @]
        /\ worker' = [worker EXCEPT ![w] =
             [phase |-> "working", job |-> j, attempt |-> job[j].attempt + 1, ply |-> 0]]
  BY DEF Claim
<1> DEFINE r == job[j]
           q == [r EXCEPT !.status = "claimed", !.attempt = @ + 1, !.owner = w, !.left = Lease]
           x == [phase |-> "working", job |-> j, attempt |-> job[j].attempt + 1, ply |-> 0]
<1>2. JobRow(j, r, attempts[j], target[j]) /\ target[j] = "pending" /\ r \in JobType
  BY <1>1, RowAt DEF JobRow, Sound
<1>3. JobRow(j, q, Append(attempts[j], "active"), "running")
  BY <1>1, <1>2, RowFacts, ClaimRow
<1>4. q.attempt = job[j].attempt + 1 /\ job[j].attempt \in Nat
  BY <1>2 DEF JobType
<1>5. q.attempt >= job[j].attempt
  BY <1>4
<1>6. job' = [job EXCEPT ![j] = q]
  BY <1>1
<1>7. /\ attempts' = [attempts EXCEPT ![j] = Append(attempts[j], "active")]
      /\ target' = [target EXCEPT ![j] = "running"]
  BY <1>1, <1>2
<1>8. WorkersTyped'
  <2>1. x \in WorkerType /\ x.job \in Jobs
    BY <1>4 DEF WorkerType
  <2>2. worker' = [worker EXCEPT ![w] = x]
    BY <1>1
  <2> HIDE DEF x
  <2> QED BY <2>1, <2>2, Running
<1>9. UNCHANGED <<result, seq, rated, standing, tournament, frames>>
  BY DEF Claim
<1>10. target[j] # "done" /\ job[j].status # "none"
  BY <1>1, <1>2
<1> HIDE DEF q
<1> QED BY <1>3, <1>5, <1>6, <1>7, <1>8, <1>9, <1>10, OneStep

\* The job of a worker that runs exists; when the worker still holds it, it runs.
LEMMA ActiveJob ==
  ASSUME JobsInv, NEW w \in Worker, Active(w)
  PROVE  /\ worker[w].job \in Jobs /\ worker[w] \in WorkerType
         /\ worker[w].attempt \in Nat /\ worker[w].ply \in Nat
BY DEF JobsInv, TypeOK, WorkersSound, WorkerType

LEMMA HeartbeatStep ==
  ASSUME JobsInv, NEW w \in Worker, Heartbeat(w)
  PROVE  JobsInv'
<1>1. Active(w)
  BY DEF Heartbeat, Active
<1> DEFINE j == worker[w].job
           r == job[j]
           q == [r EXCEPT !.left = Lease]
           x == [worker[w] EXCEPT !.phase = "aborted"]
<1>2. j \in Jobs /\ worker[w] \in WorkerType
  BY <1>1, ActiveJob
<1>3. CASE Mine(w) /\ job[j].left # Expired
  <2>1. job' = [job EXCEPT ![j] = q]
    BY <1>3 DEF Heartbeat
  <2>2. UNCHANGED <<worker, attempts, target, result, seq, rated, standing, tournament, frames>>
    BY <1>3 DEF Heartbeat
  <2>3. r.status = "claimed"
    BY <1>3 DEF Mine
  <2>4. JobRow(j, r, attempts[j], target[j]) /\ r \in JobType /\ target[j] = "running"
    BY <1>2, <2>3, RowAt DEF JobRow, Sound
  <2>5. JobRow(j, q, attempts[j], target[j])
    BY <1>2, <2>4, RowFacts, LeaseRow, LeaseRange
  <2>6. q.attempt = job[j].attempt /\ job[j].attempt \in Nat
    BY <2>4 DEF JobType
  <2>7. q.attempt >= job[j].attempt
    BY <2>6
  <2>8. attempts' = [attempts EXCEPT ![j] = attempts[j]]
        /\ target' = [target EXCEPT ![j] = target[j]]
    BY <1>2, <2>2, KeptRow
  <2>9. WorkersTyped'
    BY <2>2, SameWorkers
  <2>10. target[j] \notin {"done", "failed"} /\ job[j].status # "none"
    BY <2>3, <2>4
  <2>11. UNCHANGED <<result, seq, rated, standing, tournament, frames>>
    BY <2>2
  <2> HIDE DEF q, j
  <2> QED BY <1>2, <2>1, <2>5, <2>7, <2>8, <2>9, <2>10, <2>11, OneStep
<1>4. CASE ~(Mine(w) /\ job[j].left # Expired)
  <2>1. worker' = [worker EXCEPT ![w] = x] /\ UNCHANGED tables
    BY <1>4 DEF Heartbeat, tables
  <2>2. x \in WorkerType /\ x.job \in Jobs
    BY <1>2 DEF WorkerType
  <2> HIDE DEF x
  <2>3. WorkersTyped'
    BY <2>1, <2>2, Running
  <2> QED BY <2>1, <2>3, TablesKept
<1> QED BY <1>3, <1>4

LEMMA ClaimNothingStep ==
  ASSUME JobsInv, NEW w \in Worker, ClaimNothing(w)
  PROVE  JobsInv'
<1>1. WorkersTyped'
  BY NoClaimType, Resting DEF ClaimNothing
<1> QED BY <1>1, TablesKept DEF ClaimNothing

-----------------------------------------------------------------------------
(* Playing and settling.                                                   *)

\* The frames kept are those of the attempt that records.
LEMMA RecordedOfAttempt ==
  ASSUME JobsInv, NEW m \in Matches, NEW ply \in Nat, MayRecord(m, job[m].attempt)
  PROVE  /\ Recorded(m, job[m].attempt, ply) \in SUBSET (Nat \X Nat)
         /\ \A f \in Recorded(m, job[m].attempt, ply) : f[1] = job[m].attempt
<1> DEFINE a == job[m].attempt
           rows == {f \in frames[m] : f[1] >= a} \cup {<<a, ply>>}
<1>1. a \in Nat /\ frames[m] \in SUBSET (Nat \X Nat)
  BY RowFacts DEF Jobs, JobsInv, TypeOK
<1>2. rows \in SUBSET (Nat \X Nat)
  BY <1>1
<1>3. ASSUME NEW f \in rows PROVE f[1] = a
  <2>1. CASE f \in frames[m] /\ f[1] >= a
    <3>1. f[1] <= a
      BY <2>1 DEF JobsInv, FramesOfOneAttempt
    <3>2. f[1] \in Nat
      BY <1>1, <2>1
    <3> QED BY <2>1, <3>1, <3>2, <1>1
  <2>2. CASE f = <<a, ply>>
    BY <2>2
  <2> QED BY <2>1, <2>2
<1>4. Recorded(m, a, ply) \subseteq rows
  BY DEF Recorded
<1> HIDE DEF rows, a
<1>5. Recorded(m, a, ply) \in SUBSET (Nat \X Nat) /\ \A f \in Recorded(m, a, ply) : f[1] = a
  BY <1>2, <1>3, <1>4
<1> QED BY <1>5 DEF a

LEMMA PlayStep ==
  ASSUME JobsInv, NEW w \in Worker, Play(w)
  PROVE  JobsInv'
<1> DEFINE m == worker[w].job
           a == worker[w].attempt
           x == [worker[w] EXCEPT !.ply = @ + 1]
<1>1. m \in Matches /\ Active(w) /\ m \in Jobs
  BY DEF Play, Jobs
<1>2. worker[w] \in WorkerType /\ a \in Nat /\ worker[w].ply \in Nat
  BY <1>1, ActiveJob
<1>3. WorkersTyped'
  <2>1. x \in WorkerType /\ x.job \in Jobs
    BY <1>1, <1>2 DEF WorkerType
  <2>2. worker' = [worker EXCEPT ![w] = x]
    BY DEF Play
  <2> HIDE DEF x
  <2> QED BY <2>1, <2>2, Running
<1>4. frames \in [Matches -> SUBSET (Nat \X Nat)]
  BY DEF JobsInv, TypeOK
<1>5. CASE MayRecord(m, a)
  <2>1. a = job[m].attempt /\ target[m] = "running"
    BY <1>5 DEF MayRecord
  <2> DEFINE fs == Recorded(m, a, worker[w].ply)
  <2>2. fs \in SUBSET (Nat \X Nat) /\ \A f \in fs : f[1] = job[m].attempt
    BY <1>1, <1>2, <1>5, <2>1, RecordedOfAttempt
  <2>3. frames' = [frames EXCEPT ![m] = fs]
    BY <1>5 DEF Play
  <2> HIDE DEF fs
  <2>4. frames' \in [Matches -> SUBSET (Nat \X Nat)]
    BY <1>1, <1>4, <2>2, <2>3
  <2>5. UNCHANGED <<job, attempts, target, result, seq, rated, standing, tournament>>
    BY DEF Play
  <2>6. FramesOfOneAttempt'
    <3> SUFFICES ASSUME NEW k \in Matches
                 PROVE  /\ \A f, g \in frames'[k] : f[1] = g[1] /\ f[1] <= job[k].attempt
                        /\ target[k] = "done" => frames'[k] = {}
      BY <2>5 DEF FramesOfOneAttempt
    <3>1. CASE k = m
      <4>1. job[m].attempt \in Nat /\ frames'[k] = fs
        BY <1>1, <1>4, <2>3, <3>1, RowFacts
      <4> QED BY <4>1, <2>1, <2>2, <3>1
    <3>2. CASE k # m
      <4>1. frames'[k] = frames[k]
        BY <1>4, <2>3, <3>2
      <4> QED BY <4>1 DEF JobsInv, FramesOfOneAttempt
    <3> QED BY <3>1, <3>2
  <2>7. TypeOK'
    BY <1>3, <2>4, <2>5 DEF JobsInv, TypeOK, WorkersTyped
  <2>8. (StatusesAgree /\ OneLivingAttempt /\ SettledByOneAttempt /\ NotQueued)'
    BY <2>5 DEF JobsInv, StatusesAgree, OneLivingAttempt, SettledByOneAttempt, NotQueued, Of
  <2>9. (GivenUpWhenExhausted /\ SettlementsNumbered /\ NotLaunched /\ TournamentDone)'
    BY <2>5 DEF JobsInv, GivenUpWhenExhausted, SettlementsNumbered, NotLaunched,
                TournamentDone, Done
  <2> QED BY <1>3, <2>6, <2>7, <2>8, <2>9 DEF JobsInv, WorkersTyped
<1>6. CASE ~MayRecord(m, a)
  <2>1. UNCHANGED tables
    BY <1>6 DEF Play, tables
  <2> QED BY <1>3, <2>1, TablesKept
<1> QED BY <1>5, <1>6

\* A new settlement takes the number after the last.
LEMMA NextSeqIs ==
  ASSUME JobsInv
  PROVE  NextSeq = Cardinality(Done) + 1 /\ IsFiniteSet(Done) /\ Cardinality(Done) \in Nat
<1> DEFINE c == Cardinality(Done)
           S == {0} \cup {seq[m] : m \in Matches}
           Top(n) == n \in S /\ \A m \in Matches : seq[m] <= n
<1>1. IsFiniteSet(Done) /\ c \in Nat
  BY TargetsAssumption, FS_Subset, FS_CardinalityType DEF Done
<1>2. {seq[m] : m \in Done} = 1 .. c /\ \A m \in Matches \ Done : seq[m] = 0
  BY DEF JobsInv, SettlementsNumbered
<1>3. \A m \in Matches : seq[m] \in Nat /\ seq[m] <= c
  <2> SUFFICES ASSUME NEW m \in Matches PROVE seq[m] \in Nat /\ seq[m] <= c
    OBVIOUS
  <2>1. seq[m] \in Nat
    BY DEF JobsInv, TypeOK
  <2>2. m \in Done => seq[m] \in 1 .. c
    BY <1>2
  <2> HIDE DEF c
  <2> QED BY <1>1, <1>2, <2>1, <2>2
<1>4. c \in S
  <2>1. CASE c = 0
    BY <2>1
  <2>2. CASE c # 0
    <3>1. c \in {seq[m] : m \in Done}
      BY <1>1, <1>2, <2>2
    <3> QED BY <3>1 DEF Done
  <2> QED BY <2>1, <2>2
<1> HIDE DEF c
<1>5. Top(c)
  BY <1>3, <1>4
<1>6. ASSUME NEW n, Top(n) PROVE n = c
  <2>1. n \in S /\ S \subseteq Nat /\ \A k \in S : k <= c
    BY <1>1, <1>3, <1>6
  <2>2. c <= n
    <3>1. c = 0 \/ \E m \in Matches : c = seq[m]
      BY <1>4
    <3> QED BY <1>1, <1>6, <2>1, <3>1
  <2> QED BY <1>1, <2>1, <2>2
<1>7. (CHOOSE n \in S : \A m \in Matches : seq[m] <= n) = c
  <2> DEFINE d == CHOOSE n \in S : \A m \in Matches : seq[m] <= n
  <2>1. Top(d)
    BY <1>5
  <2> HIDE DEF d, Top
  <2>2. d = c
    BY <1>6, <2>1
  <2> QED BY <2>2 DEF d
<1>8. NextSeq = 1 + c
  BY <1>7 DEF NextSeq
<1> QED BY <1>1, <1>8 DEF c

LEMMA PointsType ==
  ASSUME NEW winner, NEW s
  PROVE  Points(winner, s) \in Nat
BY DEF Points

LEMMA StandingsType ==
  ASSUME JobsInv, NEW m \in Matches, NEW winner
  PROVE  Standings(m, winner) \in [Rounds -> [Versions -> [played : Nat, points : Nat]]]
<1> DEFINE row == standing[RoundOf[m]]
           T == [played : Nat, points : Nat]
           new == [v \in Versions |->
                     IF \E s \in Seats : Player[m][s] = v
                     THEN LET s == CHOOSE x \in Seats : Player[m][x] = v
                          IN  [played |-> row[v].played + 1,
                               points |-> row[v].points + Points(winner, s)]
                     ELSE row[v]]
<1>1. standing \in [Rounds -> [Versions -> T]]
  BY DEF JobsInv, TypeOK
<1>2. Standings(m, winner) = [standing EXCEPT ![RoundOf[m]] = new]
  BY DEF Standings
<1>3. RoundOf[m] \in Rounds => new \in [Versions -> T]
  <2> SUFFICES ASSUME RoundOf[m] \in Rounds, NEW v \in Versions
               PROVE  new[v] \in T
    BY Zenon
  <2>1. row[v] \in T /\ row[v].played \in Nat /\ row[v].points \in Nat
    BY <1>1
  <2> DEFINE p == Points(winner, CHOOSE x \in Seats : Player[m][x] = v)
  <2>2. p \in Nat
    BY PointsType
  <2>3. new[v] = [played |-> row[v].played + 1, points |-> row[v].points + p] \/ new[v] = row[v]
    OBVIOUS
  <2> HIDE DEF p, row, new
  <2> QED BY <2>1, <2>2, <2>3
<1> HIDE DEF new
<1>4. CASE RoundOf[m] \in Rounds
  BY <1>1, <1>2, <1>3, <1>4
<1>5. CASE RoundOf[m] \notin Rounds
  BY <1>1, <1>2, <1>5
<1> QED BY <1>4, <1>5

LEMMA FinalizeStep ==
  ASSUME JobsInv, NEW m \in Matches, NEW a \in Nat, NEW winner \in Seats \cup {"draw"},
         MaySettle(m, a), Finalize(m, a, winner), WorkersTyped'
  PROVE  JobsInv'
<1> DEFINE q == [job[m] EXCEPT !.status = "completed"]
           bs == [attempts[m] EXCEPT ![job[m].attempt] = "completed"]
<1>1. m \in Jobs /\ job[m].status = "claimed" /\ job[m].attempt = a
  BY DEF Jobs, MaySettle
<1>2. JobRow(m, job[m], attempts[m], target[m]) /\ target[m] = "running"
  BY <1>1, RowAt DEF JobRow, Sound
<1>3. JobRow(m, q, bs, "done") /\ q.attempt = a
  BY <1>1, <1>2, RowFacts, EndedRow DEF JobType
<1>4. q \in JobType /\ bs \in Seq(AttemptStatus)
  BY <1>3 DEF JobRow
<1>5. /\ job' = [job EXCEPT ![m] = q]
      /\ attempts' = [attempts EXCEPT ![m] = bs]
      /\ target' = [target EXCEPT ![m] = "done"]
  BY <1>1 DEF Finalize
<1> HIDE DEF q, bs
<1>6. \A j \in Jobs : IF j = m THEN job'[j] = q /\ attempts'[j] = bs /\ target'[j] = "done"
                      ELSE /\ job'[j] = job[j] /\ attempts'[j] = attempts[j]
                           /\ target'[j] = target[j]
  BY <1>1, <1>5, RowFacts
<1>7. /\ job' \in [Jobs -> JobType] /\ attempts' \in [Jobs -> Seq(AttemptStatus)]
      /\ target' \in [Jobs -> TargetStatus]
  <2>1. job' \in [Jobs -> JobType] /\ attempts' \in [Jobs -> Seq(AttemptStatus)]
    BY <1>1, <1>4, <1>5, RowFacts
  <2>2. "done" \in TargetStatus
    BY DEF TargetStatus
  <2> QED BY <1>1, <1>5, <2>1, <2>2, RowFacts
<1>8. result' = [result EXCEPT ![m] = [attempt |-> a, winner |-> winner]]
  BY DEF Finalize
<1>9. result' \in [Matches -> [attempt : Nat, winner : Seats \cup {"draw", "none"}]]
  <2>1. result \in [Matches -> [attempt : Nat, winner : Seats \cup {"draw", "none"}]]
    BY DEF JobsInv, TypeOK
  <2>2. [attempt |-> a, winner |-> winner]
          \in [attempt : Nat, winner : Seats \cup {"draw", "none"}]
    OBVIOUS
  <2> QED BY <1>8, <2>1, <2>2
<1>10. seq' = [seq EXCEPT ![m] = Cardinality(Done) + 1] /\ seq \in [Matches -> Nat]
  BY NextSeqIs DEF Finalize, JobsInv, TypeOK
<1>11. seq' \in [Matches -> Nat]
  BY <1>10, NextSeqIs
<1>12. rated' \in [Versions -> Nat]
  BY DEF Finalize, JobsInv, TypeOK
<1>13. standing' \in [Rounds -> [Versions -> [played : Nat, points : Nat]]]
  BY StandingsType DEF Finalize, JobsInv, TypeOK
<1>14. tournament' \in [Rounds -> {"none", "pending", "completed"}]
  BY DEF Finalize, JobsInv, TypeOK
<1>15. frames' = [frames EXCEPT ![m] = {}] /\ frames \in [Matches -> SUBSET (Nat \X Nat)]
  BY DEF Finalize, JobsInv, TypeOK
<1>16. TypeOK'
  <2>1. frames' \in [Matches -> SUBSET (Nat \X Nat)]
    BY <1>15
  <2> QED BY <1>7, <1>9, <1>11, <1>12, <1>13, <1>14, <2>1 DEF TypeOK, WorkersTyped
<1>17. (\A j \in Jobs : JobRow(j, job[j], attempts[j], target[j]))'
  BY <1>3, <1>6, RowAt
<1>18. (\A k \in Matches : target[k] = "done" => result[k].attempt = job[k].attempt)'
  <2> SUFFICES ASSUME NEW k \in Matches, target'[k] = "done"
               PROVE  result'[k].attempt = job'[k].attempt
    OBVIOUS
  <2>1. k \in Jobs /\ result \in [Matches -> [attempt : Nat, winner : Seats \cup {"draw", "none"}]]
    BY DEF Jobs, JobsInv, TypeOK
  <2>2. CASE k = m
    <3>1. result'[k] = [attempt |-> a, winner |-> winner]
      BY <1>8, <2>1, <2>2
    <3> QED BY <1>3, <1>6, <2>1, <2>2, <3>1
  <2>3. CASE k # m
    <3>1. result'[k] = result[k] /\ target[k] = "done" /\ job'[k] = job[k]
      BY <1>6, <1>8, <2>1, <2>3
    <3> QED BY <3>1, <2>1 DEF JobsInv, SettledByOneAttempt
  <2> QED BY <2>2, <2>3
<1>19. (StatusesAgree /\ OneLivingAttempt /\ SettledByOneAttempt /\ NotQueued)'
  BY <1>17, <1>18, RowsTogetherNext
<1>20. FramesOfOneAttempt'
  <2> SUFFICES ASSUME NEW k \in Matches
               PROVE  /\ \A f, g \in frames'[k] : f[1] = g[1] /\ f[1] <= job'[k].attempt
                      /\ target'[k] = "done" => frames'[k] = {}
    BY DEF FramesOfOneAttempt
  <2>1. CASE k = m
    BY <1>15, <2>1
  <2>2. CASE k # m
    <3>1. frames'[k] = frames[k] /\ job'[k] = job[k] /\ target'[k] = target[k]
      BY <1>6, <1>15, <2>2 DEF Jobs
    <3> QED BY <3>1 DEF JobsInv, FramesOfOneAttempt
  <2> QED BY <2>1, <2>2
<1>21. GivenUpWhenExhausted'
  BY <1>6 DEF JobsInv, GivenUpWhenExhausted, Jobs
<1>22. SettlementsNumbered'
  <2>1. m \notin Done /\ Done' = Done \cup {m}
    BY <1>2, <1>6 DEF Done, Jobs
  <2>2. Cardinality(Done') = Cardinality(Done) + 1
    BY <2>1, NextSeqIs, FS_AddElement
  <2> DEFINE c == Cardinality(Done)
  <2>3. {seq[k] : k \in Done} = 1 .. c /\ \A k \in Matches \ Done : seq[k] = 0
    BY DEF JobsInv, SettlementsNumbered
  <2>4. c \in Nat /\ Done \subseteq Matches /\ Cardinality(Done') = c + 1
    BY <2>2, NextSeqIs DEF Done
  <2>5. seq' = [seq EXCEPT ![m] = c + 1] /\ seq \in [Matches -> Nat]
    BY <1>10
  <2> HIDE DEF c
  <2>6. seq'[m] = c + 1 /\ \A k \in Matches : k # m => seq'[k] = seq[k]
    BY <2>5
  <2>7. {seq'[k] : k \in Done'} = {seq[k] : k \in Done} \cup {c + 1}
    BY <2>1, <2>4, <2>6
  <2>8. 1 .. (c + 1) = (1 .. c) \cup {c + 1}
    BY <2>4
  <2>9. \A k \in Matches \ Done' : seq'[k] = 0
    BY <2>1, <2>3, <2>6
  <2> QED BY <2>3, <2>4, <2>7, <2>8, <2>9 DEF SettlementsNumbered
<1>23. \A r \in Rounds : tournament'[r] = IF r = RoundOf[m] /\ AllDone(r, m)
                                          THEN "completed" ELSE tournament[r]
  BY TargetsAssumption DEF Finalize, JobsInv, TypeOK
<1>24. NotLaunched'
  <2> SUFFICES ASSUME NEW r \in Rounds, tournament'[r] = "none", NEW k \in MatchesOf(r)
               PROVE  job'[k].status = "none"
    BY DEF NotLaunched
  <2>1. tournament[r] = "none"
    BY <1>23
  <2>2. k \in Matches /\ job[k].status = "none"
    BY <2>1 DEF JobsInv, NotLaunched, MatchesOf
  <2>3. job'[k] = job[k]
    BY <1>1, <1>6, <2>2 DEF Jobs
  <2> QED BY <2>2, <2>3
<1>25. TournamentDone'
  <2> SUFFICES ASSUME NEW r \in Rounds, MatchesOf(r) # {}
               PROVE  tournament'[r] = "completed" <=> \A k \in MatchesOf(r) : target'[k] = "done"
    BY DEF TournamentDone
  <2>1. tournament[r] = "completed" <=> \A k \in MatchesOf(r) : target[k] = "done"
    BY DEF JobsInv, TournamentDone
  <2>2. \A k \in MatchesOf(r) : target'[k] = "done" <=> k = m \/ target[k] = "done"
    BY <1>6 DEF MatchesOf, Jobs
  <2>3. CASE r = RoundOf[m]
    <3>1. AllDone(r, m) <=> \A k \in MatchesOf(r) : target'[k] = "done"
      BY <2>2 DEF AllDone
    <3>2. tournament[r] # "completed"
      BY <1>2, <2>1, <2>3 DEF MatchesOf
    <3> QED BY <1>23, <2>3, <3>1, <3>2
  <2>4. CASE r # RoundOf[m]
    <3>1. m \notin MatchesOf(r)
      BY <2>4 DEF MatchesOf
    <3>2. tournament'[r] = tournament[r]
      BY <1>23, <2>4
    <3> QED BY <2>1, <2>2, <3>1, <3>2
  <2> QED BY <2>3, <2>4
<1> QED
  BY <1>16, <1>19, <1>20, <1>21, <1>22, <1>24, <1>25 DEF JobsInv, WorkersTyped

LEMMA SettleStep ==
  ASSUME JobsInv, NEW w \in Worker, Settle(w)
  PROVE  JobsInv'
<1> DEFINE m == worker[w].job
           a == worker[w].attempt
<1>1. WorkersTyped'
  BY NoClaimType, Resting DEF Settle
<1>2. m \in Matches /\ Active(w)
  BY DEF Settle, Active
<1>3. a \in Nat
  BY <1>2, ActiveJob
<1>4. CASE result[m] = NoResult /\ MaySettle(m, a)
  <2>1. PICK winner \in Seats \cup {"draw"} : Finalize(m, a, winner)
    BY <1>4 DEF Settle
  <2> HIDE DEF m, a
  <2> QED BY <1>1, <1>2, <1>3, <1>4, <2>1, FinalizeStep
<1>5. CASE ~(result[m] = NoResult /\ MaySettle(m, a))
  <2>1. UNCHANGED tables
    BY <1>5 DEF Settle
  <2> QED BY <1>1, <2>1, TablesKept
<1> QED BY <1>4, <1>5

LEMMA BuiltStep ==
  ASSUME JobsInv, NEW w \in Worker, Built(w)
  PROVE  JobsInv'
<1> DEFINE v == worker[w].job
           a == worker[w].attempt
<1>1. WorkersTyped'
  BY EndedWorkers DEF Built
<1>2. v \in Jobs /\ v \notin Matches
  BY TargetsAssumption DEF Built, Jobs
<1>3. CASE MayComplete(v, a)
  <2>1. PICK ok \in BOOLEAN :
          /\ job' = [job EXCEPT ![v].status = IF ok THEN "completed" ELSE "failed"]
          /\ attempts' = [attempts EXCEPT ![v][a] = IF ok THEN "completed" ELSE "failed"]
          /\ target' = [target EXCEPT ![v] = IF ok THEN "done" ELSE "failed"]
    BY <1>3 DEF Built
  <2>2. UNCHANGED <<result, seq, rated, standing, tournament, frames>>
    BY <1>3 DEF Built
  <2>3. job[v].status = "claimed" /\ a = job[v].attempt
    BY <1>3 DEF MayComplete
  <2>4. JobRow(v, job[v], attempts[v], target[v]) /\ job[v] \in JobType
    BY <1>2, RowAt DEF JobRow
  <2> DEFINE c == [job[v] EXCEPT !.status = "completed"]
             f == [job[v] EXCEPT !.status = "failed"]
             cs == [attempts[v] EXCEPT ![job[v].attempt] = "completed"]
             fs == [attempts[v] EXCEPT ![job[v].attempt] = "failed"]
  <2>5. JobRow(v, c, cs, "done") /\ JobRow(v, f, fs, "failed")
    BY <1>2, <2>3, <2>4, RowFacts, EndedRow
  <2>6. c.attempt >= job[v].attempt /\ f.attempt >= job[v].attempt
    BY <2>4 DEF JobType
  <2>7. CASE ok
    <3>1. /\ job' = [job EXCEPT ![v] = c] /\ attempts' = [attempts EXCEPT ![v] = cs]
          /\ target' = [target EXCEPT ![v] = "done"]
      BY <2>1, <2>3, <2>7
    <3> HIDE DEF c, f, cs, fs, v
    <3> QED BY <1>1, <1>2, <2>2, <2>5, <2>6, <3>1, OneStep
  <2>8. CASE ~ok
    <3>1. /\ job' = [job EXCEPT ![v] = f] /\ attempts' = [attempts EXCEPT ![v] = fs]
          /\ target' = [target EXCEPT ![v] = "failed"]
      BY <2>1, <2>3, <2>8
    <3> HIDE DEF c, f, cs, fs, v
    <3> QED BY <1>1, <1>2, <2>2, <2>5, <2>6, <3>1, OneStep
  <2> QED BY <2>7, <2>8
<1>4. CASE ~MayComplete(v, a)
  <2>1. UNCHANGED tables
    BY <1>4 DEF Built
  <2> QED BY <1>1, <2>1, TablesKept
<1> QED BY <1>3, <1>4

-----------------------------------------------------------------------------
(* Stops, crashes and time.                                                *)

LEMMA StopStep ==
  ASSUME JobsInv, NEW w \in Worker, Stop(w)
  PROVE  JobsInv'
<1> DEFINE j == worker[w].job
           x == [worker[w] EXCEPT !.phase = "stopping"]
<1>1. j \in Jobs /\ worker[w] \in WorkerType
  BY ActiveJob DEF Stop, Active
<1>2. WorkersTyped'
  <2>1. x \in WorkerType /\ x.job \in Jobs /\ worker' = [worker EXCEPT ![w] = x]
    BY <1>1 DEF WorkerType, Stop
  <2> HIDE DEF x
  <2> QED BY <2>1, Running
<1>3. CASE Mine(w)
  <2>1. /\ job' = [job EXCEPT ![j] = Requeued(@)]
        /\ attempts' = [attempts EXCEPT ![j] = AttemptsFenced(j)]
        /\ target' = [target EXCEPT ![j] = Waiting(@)]
        /\ UNCHANGED <<result, seq, rated, standing, tournament, frames>>
    BY <1>3 DEF Stop
  <2>2. job[j].status = "claimed"
    BY <1>3 DEF Mine
  <2>3. JobRow(j, job[j], attempts[j], target[j]) /\ target[j] = "running"
        /\ job[j] \in JobType
    BY <1>1, <2>2, RowAt DEF JobRow, Sound
  <2> HIDE DEF j
  <2>4. JobRow(j, Requeued(job[j]), AttemptsFenced(j), "pending")
    BY <1>1, <2>2, <2>3, LeaseLost
  <2>5. Requeued(job[j]).attempt >= job[j].attempt
    BY <2>3 DEF Requeued, JobType
  <2>6. target' = [target EXCEPT ![j] = "pending"] /\ job' = [job EXCEPT ![j] = Requeued(job[j])]
    BY <2>1, <2>3 DEF Waiting
  <2>7. job[j].status # "none" /\ target[j] # "done"
        /\ attempts' = [attempts EXCEPT ![j] = AttemptsFenced(j)]
        /\ UNCHANGED <<result, seq, rated, standing, tournament, frames>>
    BY <2>1, <2>2, <2>3
  <2> QED BY <1>1, <1>2, <2>4, <2>5, <2>6, <2>7, OneStep
<1>4. CASE ~Mine(w)
  <2>1. UNCHANGED tables
    BY <1>4 DEF Stop, tables
  <2> QED BY <1>2, <2>1, TablesKept
<1> QED BY <1>3, <1>4

LEMMA RunEndsStep ==
  ASSUME JobsInv, NEW w \in Worker, RunEnds(w) \/ Crash(w) \/ Start(w)
  PROVE  JobsInv'
<1> DEFINE s == [NoClaim EXCEPT !.phase = "stopped"]
<1>1. s \in WorkerType /\ s.phase = "stopped"
  BY NoClaimType DEF NoClaim, WorkerType
<1>2. WorkersTyped'
  <2>1. CASE RunEnds(w)
    BY <2>1, EndedWorkers DEF RunEnds
  <2>2. CASE Crash(w)
    <3>1. worker' = [worker EXCEPT ![w] = s]
      BY <2>2 DEF Crash
    <3> HIDE DEF s
    <3> QED BY <1>1, <3>1, Resting
  <2>3. CASE Start(w)
    BY <2>3, NoClaimType, Resting DEF Start
  <2> QED BY <2>1, <2>2, <2>3
<1>3. UNCHANGED tables
  BY DEF RunEnds, Crash, Start
<1> QED BY <1>2, <1>3, TablesKept

LEMMA TickStep ==
  ASSUME JobsInv, Tick
  PROVE  JobsInv'
<1>1. ASSUME NEW j \in Jobs
      PROVE  /\ JobRow(j, job'[j], attempts[j], target[j])
             /\ job'[j].attempt = job[j].attempt /\ job'[j].max = job[j].max
             /\ job'[j].status = job[j].status
  <2> DEFINE r == job[j]
             n == r.left - 1
             q == [r EXCEPT !.left = n]
  <2>1. JobRow(j, r, attempts[j], target[j]) /\ r \in JobType
    BY RowAt, RowFacts
  <2>2. CASE job[j].status = "claimed" /\ job[j].left # Expired
    <3>1. job'[j] = q
      BY <2>2 DEF Tick
    <3>2. n \in Expired .. Lease
      BY <2>1, <2>2, LimitAssumption DEF JobType, Expired
    <3> HIDE DEF n
    <3>3. JobRow(j, q, attempts[j], target[j])
      BY <2>1, <3>2, RowFacts, LeaseRow
    <3>4. q.attempt = r.attempt /\ q.max = r.max /\ q.status = r.status
      BY <2>1 DEF JobType
    <3> QED BY <3>1, <3>3, <3>4
  <2>3. CASE ~(job[j].status = "claimed" /\ job[j].left # Expired)
    <3>1. job'[j] = job[j]
      BY <2>3 DEF Tick
    <3> QED BY <2>1, <3>1
  <2> QED BY <2>2, <2>3
<1>2. UNCHANGED <<attempts, target, result, seq, rated, standing, tournament, frames, worker>>
  BY DEF Tick
<1>3. RowsSound'
  <2>1. job' \in [Jobs -> JobType]
    BY <1>1 DEF Tick, JobRow
  <2> QED BY <1>1, <1>2, <2>1, InvRows DEF RowsSound
<1>4. GivenUpWhenExhausted'
  BY <1>1, <1>2 DEF JobsInv, GivenUpWhenExhausted, Jobs
<1>5. \A j \in Jobs : job'[j].attempt >= job[j].attempt
  BY <1>1, RowFacts
<1>6. WorkersTyped'
  BY <1>2, SameWorkers
<1>7. /\ \A m \in Matches : target'[m] = "done" <=> target[m] = "done"
      /\ \A m \in Matches : target[m] = "done" => job'[m].attempt = job[m].attempt
      /\ \A m \in Matches :
           RoundOf[m] # NoRound /\ job[m].status = "none" => job'[m].status = "none"
  BY <1>1, <1>2 DEF Jobs
<1> QED BY <1>2, <1>3, <1>4, <1>5, <1>6, <1>7, QueueStep

-----------------------------------------------------------------------------
(* A tournament is created with its matches and their jobs.                *)

LEMMA CreateTournamentStep ==
  ASSUME JobsInv, NEW r \in Rounds, CreateTournament(r)
  PROVE  JobsInv'
<1>1. /\ tournament[r] = "none"
      /\ tournament' = [tournament EXCEPT ![r] = "pending"]
      /\ target' = [j \in Jobs |-> IF j \in MatchesOf(r) THEN "pending" ELSE target[j]]
      /\ job' = [j \in Jobs |-> IF j \in MatchesOf(r) THEN NewJob ELSE job[j]]
      /\ UNCHANGED <<attempts, result, seq, rated, standing, frames, worker>>
  BY DEF CreateTournament
<1>2. ASSUME NEW j \in Jobs
      PROVE  /\ JobRow(j, job'[j], attempts[j], target'[j])
             /\ job'[j].attempt >= job[j].attempt
             /\ target'[j] = "failed" => job'[j] = job[j] /\ target[j] = "failed"
             /\ target'[j] = "done" <=> target[j] = "done"
             /\ target[j] = "done" => job'[j].attempt = job[j].attempt
  <2>1. CASE j \in MatchesOf(r)
    <3>1. job[j].status = "none"
      BY <1>1, <2>1 DEF JobsInv, NotLaunched
    <3>2. job[j].attempt = 0 /\ Len(attempts[j]) = 0 /\ attempts[j] \in Seq(AttemptStatus)
      BY <3>1, RowFacts
    <3>3. target[j] # "done"
      BY <3>1, <3>2, RowAt DEF JobRow, Sound
    <3>4. job'[j] = NewJob /\ target'[j] = "pending"
      BY <1>1, <2>1
    <3>5. JobRow(j, NewJob, attempts[j], "pending") /\ NewJob.attempt = 0
      BY <3>2, NewRow
    <3> QED BY <3>2, <3>3, <3>4, <3>5
  <2>2. CASE j \notin MatchesOf(r)
    <3>1. job'[j] = job[j] /\ target'[j] = target[j]
      BY <1>1, <2>2
    <3>2. JobRow(j, job[j], attempts[j], target[j]) /\ job[j].attempt \in Nat
      BY RowAt, RowFacts
    <3> QED BY <3>1, <3>2
  <2> QED BY <2>1, <2>2
<1>3. RowsSound'
  <2>1. job' \in [Jobs -> JobType]
    BY <1>1, <1>2 DEF JobRow
  <2>2. target' \in [Jobs -> TargetStatus]
    BY <1>1, <1>2 DEF JobRow
  <2>3. attempts' \in [Jobs -> Seq(AttemptStatus)]
    BY <1>1 DEF JobsInv, TypeOK
  <2> QED BY <1>1, <1>2, <2>1, <2>2, <2>3 DEF RowsSound
<1>4. WorkersTyped'
  BY <1>1, SameWorkers
<1>5. GivenUpWhenExhausted'
  BY <1>2 DEF JobsInv, GivenUpWhenExhausted, Jobs
<1>6. TournamentTyped'
  BY <1>1 DEF JobsInv, TypeOK, TournamentTyped
<1>7. \A k \in Rounds : tournament'[k] = IF k = r THEN "pending" ELSE tournament[k]
  BY <1>1 DEF JobsInv, TypeOK
<1>8. \A k \in Rounds : k # r => MatchesOf(k) \cap MatchesOf(r) = {}
  BY DEF MatchesOf
<1>9. NotLaunched'
  <2> SUFFICES ASSUME NEW k \in Rounds, tournament'[k] = "none", NEW m \in MatchesOf(k)
               PROVE  job'[m].status = "none"
    BY DEF NotLaunched
  <2>1. k # r /\ tournament[k] = "none"
    BY <1>7
  <2>2. job[m].status = "none" /\ m \in Jobs
    BY <2>1 DEF JobsInv, NotLaunched, MatchesOf, Jobs
  <2> QED BY <1>1, <1>8, <2>1, <2>2
<1>10. TournamentDone'
  <2> SUFFICES ASSUME NEW k \in Rounds, MatchesOf(k) # {}
               PROVE  tournament'[k] = "completed" <=> \A m \in MatchesOf(k) : target'[m] = "done"
    BY DEF TournamentDone
  <2>1. CASE k = r
    BY <1>1, <1>7, <2>1 DEF MatchesOf, Jobs
  <2>2. CASE k # r
    <3>1. \A m \in MatchesOf(k) : target'[m] = target[m]
      BY <1>1, <1>8, <2>2 DEF MatchesOf, Jobs
    <3> QED BY <1>7, <2>2, <3>1 DEF JobsInv, TournamentDone
  <2> QED BY <2>1, <2>2
<1>11. /\ \A m \in Matches : target'[m] = "done" <=> target[m] = "done"
       /\ \A m \in Matches : target[m] = "done" => job'[m].attempt = job[m].attempt
       /\ \A j \in Jobs : job'[j].attempt >= job[j].attempt
  BY <1>2 DEF Jobs
<1> QED BY <1>1, <1>3, <1>4, <1>5, <1>6, <1>9, <1>10, <1>11, RowsStep

-----------------------------------------------------------------------------
(* The theorems.                                                           *)

LEMMA InitJobs == Init => JobsInv
<1> SUFFICES ASSUME Init PROVE JobsInv
  OBVIOUS
<1> DEFINE r == [NewJob EXCEPT !.status = "none"]
<1>1. r \in JobType /\ r.status = "none" /\ r.attempt = 0
  BY LimitAssumption, LeaseRange DEF NewJob, JobType
<1>2. \A j \in Jobs : job[j] = r /\ attempts[j] = <<>> /\ target[j] = "none"
  BY DEF Init
<1> HIDE DEF r
<1>3. /\ <<>> \in Seq(AttemptStatus) /\ Len(<<>>) = 0
      /\ "none" \in TargetStatus
  BY DEF TargetStatus
<1>4. TypeOK
  <2>1. job \in [Jobs -> JobType] /\ attempts \in [Jobs -> Seq(AttemptStatus)]
        /\ target \in [Jobs -> TargetStatus]
    BY <1>1, <1>3 DEF Init, r
  <2>2. /\ result \in [Matches -> [attempt : Nat, winner : Seats \cup {"draw", "none"}]]
        /\ seq \in [Matches -> Nat] /\ rated \in [Versions -> Nat]
        /\ standing \in [Rounds -> [Versions -> [played : Nat, points : Nat]]]
        /\ tournament \in [Rounds -> {"none", "pending", "completed"}]
        /\ frames \in [Matches -> SUBSET (Nat \X Nat)]
    BY DEF Init, NoResult
  <2>3. worker \in [Worker -> WorkerType]
    BY NoClaimType DEF Init
  <2> QED BY <2>1, <2>2, <2>3 DEF TypeOK
<1>5. \A j \in Jobs : JobRow(j, job[j], attempts[j], target[j])
  <2> SUFFICES ASSUME NEW j \in Jobs PROVE JobRow(j, job[j], attempts[j], target[j])
    OBVIOUS
  <2> DEFINE as == attempts[j]
             t == target[j]
  <2>1. as \in Seq(AttemptStatus) /\ Len(as) = 0 /\ t = "none"
    BY <1>2, <1>3
  <2> HIDE DEF as, t
  <2>2. JobRow(j, r, as, t)
    BY <1>1, <1>3, <2>1 DEF JobRow, Sound
  <2> QED BY <1>2, <2>2 DEF as, t
<1>6. \A m \in Matches : target[m] = "none"
  BY <1>2 DEF Jobs
<1>7. StatusesAgree /\ OneLivingAttempt /\ SettledByOneAttempt /\ NotQueued
  BY <1>5, <1>6, RowsTogether
<1>8. GivenUpWhenExhausted /\ FramesOfOneAttempt
  BY <1>6 DEF GivenUpWhenExhausted, FramesOfOneAttempt, Init
<1>9. WorkersSound
  BY NoClaimType DEF WorkersSound, Active, Init
<1>10. SettlementsNumbered
  <2>1. Done = {}
    BY <1>6 DEF Done
  <2> QED BY <2>1, FS_EmptySet DEF SettlementsNumbered, Init
<1>11. NotLaunched
  BY <1>1, <1>2 DEF NotLaunched, MatchesOf, Jobs
<1>12. TournamentDone
  BY <1>6 DEF TournamentDone, MatchesOf, Init
<1> QED BY <1>4, <1>7, <1>8, <1>9, <1>10, <1>11, <1>12 DEF JobsInv

LEMMA NextJobs == JobsInv /\ [Next]_vars => JobsInv'
<1> SUFFICES ASSUME JobsInv, [Next]_vars PROVE JobsInv'
  OBVIOUS
<1>1. CASE UNCHANGED vars
  <2>1. WorkersTyped' /\ UNCHANGED tables
    BY <1>1, SameWorkers DEF vars, tables
  <2> QED BY <2>1, TablesKept
<1>2. CASE \E v \in Versions : Upload(v)
  BY <1>2, UploadStep
<1>3. CASE \E m \in Matches : CreateMatch(m) \/ Enqueue(m) \/ Retry(m)
  BY <1>3, CreateMatchStep, EnqueueStep, RetryStep
<1>4. CASE \E r \in Rounds : CreateTournament(r)
  BY <1>4, CreateTournamentStep
<1>5. ASSUME NEW w \in Worker,
             \/ Poll(w) \/ ClaimNothing(w) \/ ClaimExhausted(w) \/ Claim(w)
             \/ Heartbeat(w) \/ Play(w) \/ Settle(w) \/ Built(w) \/ RunEnds(w)
             \/ Stop(w) \/ Crash(w) \/ Start(w)
      PROVE  JobsInv'
  BY <1>5, PollStep, ClaimNothingStep, ClaimExhaustedStep, ClaimStep, HeartbeatStep,
     PlayStep, SettleStep, BuiltStep, StopStep, RunEndsStep
<1>6. CASE Tick
  BY <1>6, TickStep
<1> QED BY <1>1, <1>2, <1>3, <1>4, <1>5, <1>6 DEF Next

\* The tables agree with one another after every transaction of the API, of the queue
\* and of settlement, and of every worker's run.
THEOREM JobsSafe == Safe => []JobsInv
BY InitJobs, NextJobs, PTL DEF Safe

\* Every table keeps its type.
THEOREM TypesSafe == Safe => []TypeOK
<1>1. JobsInv => TypeOK
  BY DEF JobsInv
<1> QED BY <1>1, JobsSafe, PTL

\* jobs, matches and bot_versions tell the same story of each job.
THEOREM StatusesSafe == Safe => []StatusesAgree
<1>1. JobsInv => StatusesAgree
  BY DEF JobsInv
<1> QED BY <1>1, JobsSafe, PTL

\* An attempt lives exactly while its job is claimed (recoverExpiredJobs, claimNextJob,
\* releaseJob, finalizeMatch, completeBuildJob).
THEOREM AttemptsSafe == Safe => []OneLivingAttempt
<1>1. JobsInv => OneLivingAttempt
  BY DEF JobsInv
<1> QED BY <1>1, JobsSafe, PTL

\* A result is from exactly one attempt, the last (finalizeMatch).
THEOREM ResultsSafe == Safe => []SettledByOneAttempt
<1>1. JobsInv => SettledByOneAttempt
  BY DEF JobsInv
<1> QED BY <1>1, JobsSafe, PTL

\* Live frames are those of one attempt, never of an overtaken worker (recordFrame).
THEOREM FramesSafe == Safe => []FramesOfOneAttempt
<1>1. JobsInv => FramesOfOneAttempt
  BY DEF JobsInv
<1> QED BY <1>1, JobsSafe, PTL

\* Settlements are numbered without a gap (finalizeMatch).
THEOREM NumbersSafe == Safe => []SettlementsNumbered
<1>1. JobsInv => SettlementsNumbered
  BY DEF JobsInv
<1> QED BY <1>1, JobsSafe, PTL

\* A match is given up only after every attempt it was granted, retries included.
THEOREM GivenUpSafe == Safe => []GivenUpWhenExhausted
<1>1. JobsInv => GivenUpWhenExhausted
  BY DEF JobsInv
<1> QED BY <1>1, JobsSafe, PTL

\* A tournament is completed exactly when all its matches are settled (finalizeMatch).
THEOREM TournamentsSafe == Safe => []TournamentDone
<1>1. JobsInv => TournamentDone
  BY DEF JobsInv
<1> QED BY <1>1, JobsSafe, PTL

LEMMA SettledRow ==
  ASSUME JobsInv, NEW m \in Matches, target[m] = "done"
  PROVE  m \in Jobs /\ job[m].status = "completed"
<1>1. m \in Jobs
  BY DEF Jobs
<1> QED BY <1>1, RowAt, RowFacts DEF JobRow, Sound

\* Recovery and release leave a job alone that is not claimed.
LEMMA PollKeeps ==
  ASSUME JobsInv, NEW m \in Matches, target[m] = "done", NEW w \in Worker,
         Poll(w) \/ Stop(w)
  PROVE  target'[m] = "done" /\ UNCHANGED <<result, seq>>
<1>1. m \in Jobs /\ job[m].status = "completed"
  BY SettledRow
<1>2. CASE Poll(w)
  BY <1>1, <1>2 DEF Poll, RecoverExpired, LeaseExpired
<1>3. CASE Stop(w)
  <2>1. UNCHANGED <<result, seq>>
    BY <1>3 DEF Stop
  <2>2. CASE Mine(w)
    <3>1. target' = [target EXCEPT ![worker[w].job] = Waiting(@)]
          /\ worker[w].job # m
      BY <1>1, <1>3, <2>2 DEF Stop, Mine
    <3> QED BY <2>1, <3>1, <1>1, RowFacts
  <2>3. CASE ~Mine(w)
    BY <1>3, <2>1, <2>3 DEF Stop
  <2> QED BY <2>2, <2>3
<1> QED BY <1>2, <1>3

LEMMA SettleKeeps ==
  ASSUME JobsInv, NEW m \in Matches, target[m] = "done", NEW w \in Worker,
         Settle(w) \/ Built(w)
  PROVE  target'[m] = "done" /\ result'[m] = result[m] /\ seq'[m] = seq[m]
<1> DEFINE k == worker[w].job
           a == worker[w].attempt
<1>1. m \in Jobs /\ job[m].status = "completed" /\ target \in [Jobs -> TargetStatus]
  BY SettledRow, RowFacts
<1>2. CASE UNCHANGED tables
  BY <1>2 DEF tables
<1>3. CASE Settle(w) /\ MaySettle(k, a) /\ result[k] = NoResult
  <2>1. PICK winner \in Seats \cup {"draw"} : Finalize(k, a, winner)
    BY <1>3 DEF Settle
  <2>2. k # m
    BY <1>1, <1>3 DEF MaySettle
  <2>3. /\ target' = [target EXCEPT ![k] = "done"] /\ seq' = [seq EXCEPT ![k] = NextSeq]
        /\ result' = [result EXCEPT ![k] = [attempt |-> a, winner |-> winner]]
    BY <2>1 DEF Finalize
  <2>4. seq \in [Matches -> Nat]
        /\ result \in [Matches -> [attempt : Nat, winner : Seats \cup {"draw", "none"}]]
    BY DEF JobsInv, TypeOK
  <2> QED BY <1>1, <2>2, <2>3, <2>4
<1>4. CASE Built(w) /\ MayComplete(k, a)
  <2>1. k # m
    BY <1>1, <1>4 DEF MayComplete
  <2>2. PICK ok \in BOOLEAN : target' = [target EXCEPT ![k] = IF ok THEN "done" ELSE "failed"]
    BY <1>4 DEF Built
  <2>3. UNCHANGED <<result, seq>>
    BY <1>4 DEF Built
  <2> QED BY <1>1, <2>1, <2>2, <2>3
<1> QED BY <1>2, <1>3, <1>4 DEF Settle, Built

LEMMA SettledKept ==
  ASSUME JobsInv, [Next]_vars, NEW m \in Matches, target[m] = "done"
  PROVE  target'[m] = "done" /\ result'[m] = result[m] /\ seq'[m] = seq[m]
<1>1. m \in Jobs /\ job[m].status = "completed" /\ target \in [Jobs -> TargetStatus]
  BY SettledRow, RowFacts
<1>2. CASE UNCHANGED vars
  BY <1>2 DEF vars
<1>3. ASSUME NEW v \in Versions, Upload(v) PROVE target'[m] = "done" /\ UNCHANGED <<result, seq>>
  BY <1>1, <1>3 DEF Upload
<1>4. ASSUME NEW k \in Matches, CreateMatch(k) \/ Enqueue(k) \/ Retry(k)
      PROVE  target'[m] = "done" /\ UNCHANGED <<result, seq>>
  BY <1>1, <1>4 DEF CreateMatch, Enqueue, Retry
<1>5. ASSUME NEW r \in Rounds, CreateTournament(r)
      PROVE  target'[m] = "done" /\ UNCHANGED <<result, seq>>
  <2>1. m \notin MatchesOf(r)
    BY <1>1, <1>5 DEF CreateTournament, JobsInv, NotLaunched
  <2> QED BY <1>1, <1>5, <2>1 DEF CreateTournament
<1>6. ASSUME NEW w \in Worker,
             ClaimNothing(w) \/ RunEnds(w) \/ Crash(w) \/ Start(w) \/ Heartbeat(w) \/ Play(w)
      PROVE  target'[m] = "done" /\ UNCHANGED <<result, seq>>
  <2>1. UNCHANGED <<target, result, seq>>
    BY <1>6 DEF ClaimNothing, RunEnds, Crash, Start, Heartbeat, Play, tables
  <2> QED BY <2>1
<1>7. ASSUME NEW w \in Worker, ClaimExhausted(w)
      PROVE  target'[m] = "done" /\ UNCHANGED <<result, seq>>
  <2>1. PICK j \in Jobs : job[j].status = "queued" /\ target' = [target EXCEPT ![j] = "failed"]
    BY <1>7 DEF ClaimExhausted
  <2> QED BY <1>1, <1>7, <2>1 DEF ClaimExhausted
<1>8. ASSUME NEW w \in Worker, Claim(w)
      PROVE  target'[m] = "done" /\ UNCHANGED <<result, seq>>
  <2>1. PICK j \in Jobs : job[j].status = "queued"
               /\ target' = [target EXCEPT ![j] = IF @ = "pending" THEN "running" ELSE @]
    BY <1>8 DEF Claim
  <2> QED BY <1>1, <1>8, <2>1 DEF Claim
<1>9. CASE Tick
  BY <1>9 DEF Tick
<1> QED
  BY <1>2, <1>3, <1>4, <1>5, <1>6, <1>7, <1>8, <1>9, PollKeeps, SettleKeeps DEF Next

\* A settled match keeps its result, its number and its status, whatever a stalled
\* worker, a retry or a restart does.
THEOREM SettledSafe == Safe => SettledForGood
<1>1. JobsInv /\ [Next]_vars =>
        [\A m \in Matches : target[m] = "done" =>
           target'[m] = "done" /\ result'[m] = result[m] /\ seq'[m] = seq[m]]_vars
  BY SettledKept
<1> QED BY <1>1, JobsSafe, PTL DEF Safe, SettledForGood
-----------------------------------------------------------------------------
(* The ledger: ratings and standings count every settled match once.       *)

Wins(v, M, res) == {m \in M : res[m].winner \in Seats /\ Player[m][res[m].winner] = v}
Draws(v, M, res) == {m \in PlayedIn(v, M) : res[m].winner = "draw"}

\* The ledger of one version, for the settled matches D with their results.
Rated(v, n, D) == n = Cardinality(PlayedIn(v, Ranked \cap D))
Counted(v, r, row, D, res) ==
  /\ row.played = Cardinality(PlayedIn(v, MatchesOf(r) \cap D))
  /\ row.points = 3 * Cardinality(Wins(v, MatchesOf(r) \cap D, res))
                  + Cardinality(Draws(v, MatchesOf(r) \cap D, res))

LEMMA LedgerIs ==
  Ledger <=> \A v \in Versions :
               /\ Rated(v, rated[v], Done)
               /\ \A r \in Rounds : Counted(v, r, standing[r][v], Done, result)
BY DEF Ledger, Rated, Counted, Wins, Draws

LEMMA LedgerIsNext ==
  Ledger' <=> \A v \in Versions :
               /\ Rated(v, rated'[v], Done')
               /\ \A r \in Rounds : Counted(v, r, standing'[r][v], Done', result')
BY DEF Ledger, Rated, Counted, Wins, Draws

LEMMA FiniteMatches ==
  ASSUME NEW S, S \subseteq Matches
  PROVE  IsFiniteSet(S) /\ Cardinality(S) \in Nat
BY TargetsAssumption, FS_Subset, FS_CardinalityType

LEMMA OneMatchMore ==
  ASSUME NEW S, S \subseteq Matches, NEW m, m \notin S
  PROVE  Cardinality(S \cup {m}) = Cardinality(S) + 1
BY FiniteMatches, FS_AddElement

\* A step that settles nothing leaves the ledger as it is.
LEMMA QuietLedger ==
  ASSUME Ledger, Done' = Done, \A m \in Done : result'[m] = result[m], UNCHANGED <<rated, standing>>
  PROVE  Ledger'
<1> SUFFICES ASSUME NEW v \in Versions
             PROVE  /\ Rated(v, rated[v], Done)
                    /\ \A r \in Rounds : Counted(v, r, standing[r][v], Done, result')
  BY LedgerIsNext
<1>1. Rated(v, rated[v], Done)
  BY LedgerIs
<1>2. ASSUME NEW r \in Rounds  PROVE Counted(v, r, standing[r][v], Done, result')
  <2>1. Counted(v, r, standing[r][v], Done, result)
    BY LedgerIs
  <2>2. Wins(v, MatchesOf(r) \cap Done, result') = Wins(v, MatchesOf(r) \cap Done, result)
    BY DEF Wins
  <2>3. Draws(v, MatchesOf(r) \cap Done, result') = Draws(v, MatchesOf(r) \cap Done, result)
    BY DEF Draws, PlayedIn
  <2> QED  BY <2>1, <2>2, <2>3 DEF Counted
<1> QED  BY <1>1, <1>2

RatedAfter(v, m, n) == IF m \in Ranked /\ \E s \in Seats : Player[m][s] = v THEN n + 1 ELSE n

\* A settled match counts for a version that played it and for no other.
LEMMA RatedGrows ==
  ASSUME NEW v, NEW n \in Nat, NEW D, D \subseteq Matches, NEW m \in Matches, m \notin D,
         Rated(v, n, D), NEW after, after = RatedAfter(v, m, n)
  PROVE  Rated(v, after, D \cup {m})
<1> DEFINE P == PlayedIn(v, Ranked \cap D)
<1>1. P \subseteq Matches /\ m \notin P
  BY DEF PlayedIn
<1>2. CASE m \in Ranked /\ \E s \in Seats : Player[m][s] = v
  <2>1. PlayedIn(v, Ranked \cap (D \cup {m})) = P \cup {m}
    BY <1>2 DEF PlayedIn
  <2>2. Cardinality(P \cup {m}) = n + 1
    BY <1>1, OneMatchMore DEF Rated
  <2> QED  BY <1>2, <2>1, <2>2 DEF Rated, RatedAfter
<1>3. CASE ~(m \in Ranked /\ \E s \in Seats : Player[m][s] = v)
  <2>1. PlayedIn(v, Ranked \cap (D \cup {m})) = P
    BY <1>3 DEF PlayedIn
  <2> QED  BY <1>3, <2>1 DEF Rated, RatedAfter
<1> QED  BY <1>2, <1>3

\* The row of a version in the standings of the round a match is settled in.
RowAfter(v, m, row, winner) ==
  IF \E s \in Seats : Player[m][s] = v
  THEN LET s == CHOOSE x \in Seats : Player[m][x] = v
       IN  [played |-> row.played + 1, points |-> row.points + Points(winner, s)]
  ELSE row

LEMMA CountedElsewhere ==
  ASSUME NEW v, NEW r \in Rounds, NEW row, NEW D, NEW m \in Matches, m \notin D, RoundOf[m] # r,
         NEW res, NEW new, \A k \in D : new[k] = res[k], Counted(v, r, row, D, res)
  PROVE  Counted(v, r, row, D \cup {m}, new)
<1>1. MatchesOf(r) \cap (D \cup {m}) = MatchesOf(r) \cap D
  BY DEF MatchesOf
<1>2. Wins(v, MatchesOf(r) \cap D, new) = Wins(v, MatchesOf(r) \cap D, res)
  BY DEF Wins
<1>3. Draws(v, MatchesOf(r) \cap D, new) = Draws(v, MatchesOf(r) \cap D, res)
  BY DEF Draws, PlayedIn
<1> QED  BY <1>1, <1>2, <1>3 DEF Counted

LEMMA CountedHere ==
  ASSUME NEW v, NEW r \in Rounds, NEW row \in [played : Nat, points : Nat],
         NEW D, D \subseteq Matches, NEW m \in Matches, m \notin D, RoundOf[m] = r,
         NEW res, NEW new, \A k \in D : new[k] = res[k],
         NEW winner \in Seats \cup {"draw"}, new[m].winner = winner,
         Counted(v, r, row, D, res), NEW after, after = RowAfter(v, m, row, winner)
  PROVE  Counted(v, r, after, D \cup {m}, new)
<1> DEFINE M == MatchesOf(r) \cap D
           P == PlayedIn(v, M)
           W == Wins(v, M, res)
           E == Draws(v, M, res)
<1>1. MatchesOf(r) \cap (D \cup {m}) = M \cup {m} /\ M \subseteq Matches /\ M \subseteq D /\ m \notin M
  BY DEF MatchesOf
<1> HIDE DEF M
<1>2. Player[m]["A"] # Player[m]["B"]
  BY PairingAssumption, TargetsAssumption
<1>3. P \subseteq Matches /\ W \subseteq Matches /\ E \subseteq Matches
      /\ m \notin P /\ m \notin W /\ m \notin E
  BY <1>1 DEF PlayedIn, Wins, Draws
<1>4. Cardinality(P) \in Nat /\ Cardinality(W) \in Nat /\ Cardinality(E) \in Nat
  BY <1>3, FiniteMatches
<1>5. row.played = Cardinality(P) /\ row.points = 3 * Cardinality(W) + Cardinality(E)
      /\ row.played \in Nat /\ row.points \in Nat
  BY DEF Counted, M
<1>6. Wins(v, M \cup {m}, new) = IF winner \in Seats /\ Player[m][winner] = v THEN W \cup {m} ELSE W
  BY <1>1 DEF Wins
<1>7. PlayedIn(v, M \cup {m}) = IF \E s \in Seats : Player[m][s] = v THEN P \cup {m} ELSE P
  BY DEF PlayedIn
<1>8. Draws(v, M \cup {m}, new)
        = IF winner = "draw" /\ \E s \in Seats : Player[m][s] = v THEN E \cup {m} ELSE E
  BY <1>1 DEF Draws, PlayedIn
<1>9. /\ Cardinality(P \cup {m}) = Cardinality(P) + 1
      /\ Cardinality(W \cup {m}) = Cardinality(W) + 1
      /\ Cardinality(E \cup {m}) = Cardinality(E) + 1
  BY <1>3, OneMatchMore
<1> HIDE DEF P, W, E
<1>10. CASE ~ \E s \in Seats : Player[m][s] = v
  <2>1. after = row
    BY <1>10 DEF RowAfter
  <2>2. PlayedIn(v, M \cup {m}) = P /\ Wins(v, M \cup {m}, new) = W /\ Draws(v, M \cup {m}, new) = E
    BY <1>6, <1>7, <1>8, <1>10
  <2> QED  BY <1>1, <1>5, <2>1, <2>2 DEF Counted
<1>11. CASE \E s \in Seats : Player[m][s] = v
  <2> DEFINE s == CHOOSE x \in Seats : Player[m][x] = v
  <2>1. s \in Seats /\ Player[m][s] = v
    BY <1>11
  <2>2. \A x \in Seats : Player[m][x] = v => x = s
    BY <1>2, <2>1 DEF Seats
  <2>3. after.played = row.played + 1 /\ after.points = row.points + Points(winner, s)
    BY <1>11 DEF RowAfter
  <2> HIDE DEF s
  <2>4. after.played = Cardinality(PlayedIn(v, M \cup {m}))
    BY <1>5, <1>7, <1>9, <1>11, <2>3
  <2>5. after.points = 3 * Cardinality(Wins(v, M \cup {m}, new)) + Cardinality(Draws(v, M \cup {m}, new))
    <3>1. CASE winner = "draw"
      <4>1. Wins(v, M \cup {m}, new) = W /\ Draws(v, M \cup {m}, new) = E \cup {m} /\ Points(winner, s) = 1
        BY <1>6, <1>8, <1>11, <3>1 DEF Points, Seats
      <4>2. after.points = (3 * Cardinality(W) + Cardinality(E)) + 1
        BY <1>5, <2>3, <4>1
      <4>3. Cardinality(Draws(v, M \cup {m}, new)) = Cardinality(E) + 1
        BY <1>9, <4>1
      <4> QED  BY <1>4, <4>1, <4>2, <4>3
    <3>2. CASE winner = s
      <4>1. Wins(v, M \cup {m}, new) = W \cup {m} /\ Draws(v, M \cup {m}, new) = E /\ Points(winner, s) = 3
        BY <1>6, <1>8, <2>1, <3>2 DEF Points, Seats
      <4>2. after.points = (3 * Cardinality(W) + Cardinality(E)) + 3
        BY <1>5, <2>3, <4>1
      <4>3. Cardinality(Wins(v, M \cup {m}, new)) = Cardinality(W) + 1
        BY <1>9, <4>1
      <4> QED  BY <1>4, <4>1, <4>2, <4>3
    <3>3. CASE winner \in Seats /\ winner # s
      <4>1. Wins(v, M \cup {m}, new) = W /\ Draws(v, M \cup {m}, new) = E /\ Points(winner, s) = 0
        BY <1>6, <1>8, <2>2, <3>3 DEF Points, Seats
      <4> QED  BY <1>4, <1>5, <2>3, <4>1
    <3> QED  BY <3>1, <3>2, <3>3
  <2> QED  BY <1>1, <2>4, <2>5 DEF Counted
<1> QED  BY <1>10, <1>11

LEMMA FinalizeLedger ==
  ASSUME JobsInv, Ledger, NEW m \in Matches, NEW a, NEW winner \in Seats \cup {"draw"},
         MaySettle(m, a), Finalize(m, a, winner)
  PROVE  Ledger'
<1>1. m \in Jobs /\ target[m] = "running" /\ target \in [Jobs -> TargetStatus]
  BY RowAt, RowFacts DEF MaySettle, Jobs, JobRow, Sound
<1>2. m \notin Done /\ Done \subseteq Matches
  BY <1>1 DEF Done
<1>3. Done' = Done \cup {m}
  <2>1. target' = [target EXCEPT ![m] = "done"]
    BY DEF Finalize
  <2> QED  BY <1>1, <2>1 DEF Done, Jobs
<1>4. result'[m].winner = winner /\ \A k \in Done : result'[k] = result[k]
  <2>1. result' = [result EXCEPT ![m] = [attempt |-> a, winner |-> winner]]
    BY DEF Finalize
  <2>2. result \in [Matches -> [attempt : Nat, winner : Seats \cup {"draw", "none"}]]
    BY DEF JobsInv, TypeOK
  <2> QED  BY <1>2, <2>1, <2>2
<1>5. ASSUME NEW v \in Versions  PROVE Rated(v, rated'[v], Done')
  <2>1. rated[v] \in Nat /\ Rated(v, rated[v], Done)
    BY LedgerIs DEF JobsInv, TypeOK
  <2>2. rated'[v] = RatedAfter(v, m, rated[v])
    BY DEF Finalize, RatedAfter
  <2> QED  BY <1>2, <1>3, <2>1, <2>2, RatedGrows
<1>6. ASSUME NEW v \in Versions, NEW r \in Rounds
      PROVE  Counted(v, r, standing'[r][v], Done', result')
  <2>1. /\ standing \in [Rounds -> [Versions -> [played : Nat, points : Nat]]]
        /\ Counted(v, r, standing[r][v], Done, result)
    BY LedgerIs DEF JobsInv, TypeOK
  <2>2. standing[r][v] \in [played : Nat, points : Nat]
    BY <2>1
  <2>3. CASE RoundOf[m] = r
    <3>1. standing' = Standings(m, winner)
      BY <2>3, TargetsAssumption DEF Finalize
    <3>2. standing'[r][v] = RowAfter(v, m, standing[r][v], winner)
      BY <2>1, <2>3, <3>1 DEF Standings, RowAfter
    <3> QED  BY <1>2, <1>3, <1>4, <2>1, <2>2, <2>3, <3>2, CountedHere
  <2>4. CASE RoundOf[m] # r
    <3>1. standing'[r][v] = standing[r][v]
      <4>1. standing' = standing \/ standing' = Standings(m, winner)
        BY DEF Finalize
      <4>2. Standings(m, winner)[r] = standing[r]
        BY <2>1, <2>4 DEF Standings
      <4> QED  BY <4>1, <4>2
    <3> QED  BY <1>2, <1>3, <1>4, <2>1, <2>4, <3>1, CountedElsewhere
  <2> QED  BY <2>3, <2>4
<1> QED  BY <1>5, <1>6, LedgerIsNext

\* Only finalizeMatch settles a match; nothing else touches ratings and standings.
LEMMA NothingSettled ==
  ASSUME JobsInv, [Next]_vars,
         ~ \E m \in Matches, a \in Nat, winner \in Seats \cup {"draw"} :
             MaySettle(m, a) /\ Finalize(m, a, winner)
  PROVE  /\ \A m \in Matches : target'[m] = "done" => target[m] = "done"
         /\ UNCHANGED <<rated, standing>>
         /\ \A r \in Rounds : tournament[r] # "none" => tournament'[r] = tournament[r]
<1> DEFINE Quiet == /\ \A m \in Matches : target'[m] = "done" => target[m] = "done"
                    /\ UNCHANGED <<rated, standing>>
                    /\ \A r \in Rounds : tournament[r] # "none" => tournament'[r] = tournament[r]
<1>0. target \in [Jobs -> TargetStatus] /\ Matches \subseteq Jobs /\ Versions \cap Matches = {}
      /\ tournament \in [Rounds -> {"none", "pending", "completed"}]
  BY TargetsAssumption DEF JobsInv, TypeOK, Jobs
<1>1. CASE UNCHANGED vars
  BY <1>1 DEF vars
<1>2. ASSUME NEW v \in Versions, Upload(v) PROVE Quiet
  BY <1>0, <1>2 DEF Upload
<1>3. ASSUME NEW k \in Matches, CreateMatch(k) \/ Enqueue(k) \/ Retry(k) PROVE Quiet
  BY <1>0, <1>3 DEF CreateMatch, Enqueue, Retry
<1>4. ASSUME NEW r \in Rounds, CreateTournament(r) PROVE Quiet
  BY <1>0, <1>4 DEF CreateTournament
<1>5. ASSUME NEW w \in Worker, \/ ClaimNothing(w) \/ RunEnds(w) \/ Crash(w) \/ Start(w)
                               \/ Heartbeat(w) \/ Play(w)
      PROVE  Quiet
  <2>1. UNCHANGED <<target, rated, standing, tournament>>
    BY <1>5 DEF ClaimNothing, RunEnds, Crash, Start, Heartbeat, Play, tables
  <2> QED  BY <2>1
<1>6. ASSUME NEW w \in Worker, ClaimExhausted(w) PROVE Quiet
  <2>1. PICK j \in Jobs : target' = [target EXCEPT ![j] = "failed"]
    BY <1>6 DEF ClaimExhausted
  <2> QED  BY <1>0, <1>6, <2>1 DEF ClaimExhausted
<1>7. ASSUME NEW w \in Worker, Claim(w) PROVE Quiet
  <2>1. PICK j \in Jobs : target' = [target EXCEPT ![j] = IF @ = "pending" THEN "running" ELSE @]
    BY <1>7 DEF Claim
  <2> QED  BY <1>0, <1>7, <2>1 DEF Claim
<1>8. ASSUME NEW w \in Worker, Poll(w) PROVE Quiet
  <2>1. \A j \in Jobs : target'[j] = "done" => target[j] = "done"
    BY <1>8 DEF Poll, RecoverExpired, Waiting
  <2> QED  BY <1>0, <1>8, <2>1 DEF Poll, RecoverExpired
<1>9. ASSUME NEW w \in Worker, Stop(w) PROVE Quiet
  <2>1. \/ target' = [target EXCEPT ![worker[w].job] = Waiting(@)] \/ target' = target
    BY <1>9 DEF Stop
  <2>2. \A m \in Matches : target'[m] = "done" => target[m] = "done"
    BY <1>0, <2>1 DEF Waiting
  <2> QED  BY <1>9, <2>2 DEF Stop
<1>10. ASSUME NEW w \in Worker, Settle(w) PROVE Quiet
  <2>1. Active(w)
    BY <1>10 DEF Settle, Active
  <2>2. worker[w].attempt \in Nat
    BY <2>1, ActiveJob
  <2>3. UNCHANGED tables
    BY <1>10, <2>2 DEF Settle
  <2> QED  BY <2>3 DEF tables
<1>11. ASSUME NEW w \in Worker, Built(w) PROVE Quiet
  <2>1. CASE UNCHANGED tables
    BY <2>1 DEF tables
  <2>2. CASE MayComplete(worker[w].job, worker[w].attempt)
    <3>1. PICK t : target' = [target EXCEPT ![worker[w].job] = t]
      BY <1>11, <2>2 DEF Built
    <3>2. worker[w].job \in Versions
      BY <1>11 DEF Built
    <3> QED  BY <1>0, <1>11, <2>2, <3>1, <3>2 DEF Built
  <2> QED  BY <1>11, <2>1, <2>2 DEF Built
<1>12. CASE Tick
  BY <1>12 DEF Tick
<1> QED
  BY <1>1, <1>2, <1>3, <1>4, <1>5, <1>6, <1>7, <1>8, <1>9, <1>10, <1>11, <1>12 DEF Next

LEMMA NextLedger ==
  ASSUME JobsInv, Ledger, [Next]_vars
  PROVE  Ledger'
<1>1. CASE \E m \in Matches, a \in Nat, winner \in Seats \cup {"draw"} :
             MaySettle(m, a) /\ Finalize(m, a, winner)
  BY <1>1, FinalizeLedger
<1>2. CASE ~ \E m \in Matches, a \in Nat, winner \in Seats \cup {"draw"} :
               MaySettle(m, a) /\ Finalize(m, a, winner)
  <2>1. (\A m \in Matches : target'[m] = "done" => target[m] = "done") /\ UNCHANGED <<rated, standing>>
    BY <1>2, NothingSettled
  <2>2. \A m \in Matches : target[m] = "done" => target'[m] = "done" /\ result'[m] = result[m]
    BY SettledKept
  <2>3. Done' = Done /\ \A m \in Done : result'[m] = result[m]
    BY <2>1, <2>2 DEF Done
  <2> QED  BY <2>1, <2>3, QuietLedger
<1> QED  BY <1>1, <1>2

LEMMA InitLedger == Init => Ledger
<1> SUFFICES ASSUME Init PROVE Ledger
  OBVIOUS
<1>1. Done = {}
  BY DEF Init, Done, Jobs
<1> SUFFICES ASSUME NEW v \in Versions
             PROVE  /\ Rated(v, rated[v], Done)
                    /\ \A r \in Rounds : Counted(v, r, standing[r][v], Done, result)
  BY LedgerIs
<1>2. PlayedIn(v, Ranked \cap Done) = {}
  BY <1>1 DEF PlayedIn
<1>3. \A r \in Rounds : /\ PlayedIn(v, MatchesOf(r) \cap Done) = {}
                        /\ Wins(v, MatchesOf(r) \cap Done, result) = {}
                        /\ Draws(v, MatchesOf(r) \cap Done, result) = {}
  BY <1>1 DEF PlayedIn, Wins, Draws
<1>4. Cardinality({}) = 0
  BY FS_EmptySet
<1>5. rated[v] = 0 /\ \A r \in Rounds : standing[r][v].played = 0 /\ standing[r][v].points = 0
  BY DEF Init
<1>6. 3 * 0 + 0 = 0
  OBVIOUS
<1> QED  BY <1>2, <1>3, <1>4, <1>5, <1>6 DEF Rated, Counted

\* Every settled match is in the ratings of its bots and in the standings of its
\* tournament exactly once (finalizeMatch).
THEOREM LedgerSafe == Safe => []Ledger
<1>1. JobsInv /\ Ledger /\ [Next]_vars => Ledger'
  BY NextLedger
<1> QED BY <1>1, InitLedger, JobsSafe, PTL DEF Safe

-----------------------------------------------------------------------------
(* Competitions.                                                           *)

\* The phase, the current round and the tournaments launched so far go together.
CompSound ==
  /\ competition \in [phase : {"locked", "running", "completed"}, current : 0 .. RoundCount]
  /\ competition.phase = "locked" <=> competition.current = 0
  /\ \A r \in Rounds : tournament[r] # "none" <=> r <= competition.current
  /\ \A r \in Rounds : r < competition.current => RoundOver(r)
  /\ competition.phase = "completed" => competition.current = RoundCount /\ RoundOver(RoundCount)

CompInv == JobsInv /\ Ledger /\ CompSound

\* Every step of a competition is a step of its jobs.
LEMMA CompStep ==
  ASSUME [CompNext]_compVars
  PROVE  [Next]_vars
<1>1. CASE Launch \/ Complete
  BY <1>1, RoundsAssumption DEF Launch, Complete, Next
<1>2. ASSUME NEW r \in Rounds, NextRound(r)  PROVE Next
  <2>1. r + 1 \in Rounds
    BY <1>2, RoundsAssumption DEF NextRound
  <2> QED  BY <1>2, <2>1 DEF NextRound, Next
<1>3. ASSUME NEW m \in Matches, RetryMatch(m)  PROVE Next
  BY <1>3 DEF RetryMatch, Next
<1>4. CASE Work
  BY <1>4 DEF Work, Next
<1>5. CASE UNCHANGED compVars
  BY <1>5 DEF compVars
<1> QED  BY <1>1, <1>2, <1>3, <1>4, <1>5 DEF CompNext

\* Rounds that are over stay over.
LEMMA OverStays ==
  ASSUME JobsInv, [Next]_vars, NEW r \in Rounds, RoundOver(r)
  PROVE  RoundOver(r)'
BY SettledKept DEF RoundOver, MatchesOf

\* Only an administrator's request launches a tournament.
LEMMA LaunchedStay ==
  ASSUME JobsInv, [Next]_vars, NEW r \in Rounds, tournament[r] # "none"
  PROVE  tournament'[r] # "none"
<1>1. tournament[r] \in {"none", "pending", "completed"}
  BY DEF JobsInv, TypeOK
<1>2. CASE \E m \in Matches, a \in Nat, winner \in Seats \cup {"draw"} :
             MaySettle(m, a) /\ Finalize(m, a, winner)
  BY <1>1, <1>2 DEF Finalize, JobsInv, TypeOK
<1>3. CASE ~ \E m \in Matches, a \in Nat, winner \in Seats \cup {"draw"} :
               MaySettle(m, a) /\ Finalize(m, a, winner)
  BY <1>3, NothingSettled
<1> QED  BY <1>2, <1>3

LEMMA OnlyTheAdministrator ==
  ASSUME JobsInv, NEW r \in Rounds, tournament[r] = "none", Work \/ \E m \in Matches : Retry(m)
  PROVE  tournament'[r] = "none"
<1>1. ASSUME NEW w \in Worker, Settle(w)  PROVE tournament'[r] = "none"
  <2> DEFINE m == worker[w].job
             a == worker[w].attempt
  <2>1. CASE result[m] = NoResult /\ MaySettle(m, a)
    <3>1. PICK winner \in Seats \cup {"draw"} : Finalize(m, a, winner)
      BY <1>1, <2>1 DEF Settle
    <3>2. m \in Matches /\ job[m].status = "claimed"
      BY <1>1, <2>1 DEF Settle, MaySettle
    <3>3. RoundOf[m] # r
      BY <3>2 DEF JobsInv, NotLaunched, MatchesOf
    <3>4. tournament \in [Rounds -> {"none", "pending", "completed"}]
      BY DEF JobsInv, TypeOK
    <3> HIDE DEF m, a
    <3> QED  BY <3>1, <3>3, <3>4 DEF Finalize
  <2>2. CASE ~(result[m] = NoResult /\ MaySettle(m, a))
    BY <1>1, <2>2 DEF Settle, tables
  <2> QED  BY <2>1, <2>2
<1>2. ASSUME NEW w \in Worker, Built(w)  PROVE tournament'[r] = "none"
  BY <1>2 DEF Built, tables
<1>3. ASSUME NEW w \in Worker,
             \/ Poll(w) \/ ClaimNothing(w) \/ ClaimExhausted(w) \/ Claim(w)
             \/ Heartbeat(w) \/ Play(w) \/ RunEnds(w)
             \/ Stop(w) \/ Crash(w) \/ Start(w)
      PROVE  tournament'[r] = "none"
  BY <1>3 DEF Poll, RecoverExpired, ClaimNothing, ClaimExhausted, Claim, Heartbeat, Play, RunEnds,
     Stop, Crash, Start, tables
<1>4. ASSUME NEW v \in Versions, Upload(v)  PROVE tournament'[r] = "none"
  BY <1>4 DEF Upload
<1>5. ASSUME NEW m \in Matches, CreateMatch(m) \/ Enqueue(m) \/ Retry(m)  PROVE tournament'[r] = "none"
  BY <1>5 DEF CreateMatch, Enqueue, Retry
<1>6. CASE Tick
  BY <1>6 DEF Tick
<1> QED  BY <1>1, <1>2, <1>3, <1>4, <1>5, <1>6 DEF Work

\* A tournament is launched by creating it.
LEMMA LaunchedNow ==
  ASSUME JobsInv, NEW n \in Rounds, CreateTournament(n), NEW r \in Rounds
  PROVE  tournament'[r] # "none" <=> r = n \/ tournament[r] # "none"
BY DEF CreateTournament, JobsInv, TypeOK

LEMMA InitComp == CompInit => CompInv
<1> SUFFICES ASSUME CompInit  PROVE CompSound
  BY InitJobs, InitLedger DEF CompInit, CompInv
<1>1. Rounds = 1 .. RoundCount /\ RoundCount \in Nat \ {0}
  BY RoundsAssumption
<1> QED  BY <1>1 DEF CompInit, CompSound, Init

LEMMA NextComp ==
  ASSUME CompInv, [CompNext]_compVars
  PROVE  CompInv'
<1> DEFINE c == competition.current
<1>0. JobsInv /\ [Next]_vars /\ JobsInv' /\ Ledger'
  BY CompStep, NextJobs, NextLedger DEF CompInv
<1>1. Rounds = 1 .. RoundCount /\ RoundCount \in Nat \ {0} /\ c \in 0 .. RoundCount /\ c \in Nat
  BY RoundsAssumption DEF CompInv, CompSound
<1>2. \A r \in Rounds : RoundOver(r) => RoundOver(r)'
  BY <1>0, OverStays
<1>3. CompSound'
  <2>1. ASSUME NEW n \in Rounds, CreateTournament(n), n = c + 1, c > 0 => RoundOver(c),
               competition' = [phase |-> "running", current |-> n]
        PROVE  CompSound'
    <3>1. competition'.phase = "running" /\ competition'.current = n
          /\ competition' \in [phase : {"locked", "running", "completed"}, current : 0 .. RoundCount]
      BY <1>1, <2>1
    <3>2. \A r \in Rounds : tournament'[r] # "none" <=> r <= n
      <4>1. \A r \in Rounds : tournament[r] # "none" <=> r <= c
        BY DEF CompInv, CompSound
      <4>2. \A r \in Rounds : tournament'[r] # "none" <=> r = n \/ tournament[r] # "none"
        BY <1>0, <2>1, LaunchedNow
      <4>3. \A r \in Rounds : r <= n <=> r = n \/ r <= c
        BY <1>1, <2>1
      <4> QED  BY <4>1, <4>2, <4>3
    <3>3. \A r \in Rounds : r < n => RoundOver(r)'
      <4>1. ASSUME NEW r \in Rounds, r < n  PROVE RoundOver(r)
        <5>1. r < c \/ (r = c /\ c > 0)
          BY <1>1, <2>1, <4>1
        <5> QED  BY <2>1, <5>1 DEF CompInv, CompSound
      <4> QED  BY <1>2, <4>1
    <3>4. n # 0
      BY <1>1
    <3> QED  BY <3>1, <3>2, <3>3, <3>4 DEF CompSound
  <2>2. CASE Launch
    <3>1. c = 0 /\ 1 \in Rounds /\ CreateTournament(1) /\ competition' = [phase |-> "running", current |-> 1]
      BY <1>1, <2>2 DEF Launch
    <3> HIDE DEF c
    <3>2. 1 = c + 1 /\ ~(c > 0)
      BY <3>1
    <3> QED  BY <2>1, <3>1, <3>2
  <2>3. ASSUME NEW r \in Rounds, NextRound(r)  PROVE CompSound'
    <3>1. c = r /\ r + 1 \in Rounds /\ CreateTournament(r + 1) /\ RoundOver(r)
      BY <1>1, <2>3 DEF NextRound
    <3>2. competition' = [phase |-> "running", current |-> r + 1]
      BY <2>3 DEF NextRound, CompInv, CompSound
    <3> DEFINE n == r + 1
    <3>3. n \in Rounds /\ CreateTournament(n) /\ n = c + 1 /\ competition' = [phase |-> "running", current |-> n]
          /\ RoundOver(c)
      BY <3>1, <3>2
    <3> HIDE DEF n, c
    <3> QED  BY <2>1, <3>3
  <2>4. CASE Complete
    <3>1. c = RoundCount /\ RoundOver(RoundCount) /\ UNCHANGED vars /\ RoundCount \in Rounds
          /\ competition.phase = "running"
      BY <1>1, <2>4 DEF Complete
    <3>2. competition' = [phase |-> "completed", current |-> c]
      BY <2>4 DEF Complete, CompInv, CompSound
    <3>3. c # 0
      BY <1>1, <3>1
    <3>4. tournament' = tournament
      BY <3>1 DEF vars
    <3>5. competition'.phase = "completed" /\ competition'.current = c
          /\ competition' \in [phase : {"locked", "running", "completed"}, current : 0 .. RoundCount]
      BY <1>1, <3>2
    <3>6. RoundOver(RoundCount)' /\ \A r \in Rounds : r < c => RoundOver(r)'
      BY <1>2, <3>1 DEF CompInv, CompSound
    <3> QED  BY <3>1, <3>3, <3>4, <3>5, <3>6 DEF CompInv, CompSound
  <2>5. CASE UNCHANGED competition /\ \A r \in Rounds : tournament[r] = "none" => tournament'[r] = "none"
    <3>1. \A r \in Rounds : tournament'[r] # "none" <=> tournament[r] # "none"
      BY <1>0, <2>5, LaunchedStay
    <3>2. RoundCount \in Rounds
      BY <1>1
    <3> QED  BY <1>2, <2>5, <3>1, <3>2 DEF CompInv, CompSound
  <2>6. ASSUME NEW m \in Matches, RetryMatch(m)  PROVE CompSound'
    BY <1>0, <2>5, <2>6, OnlyTheAdministrator DEF RetryMatch
  <2>7. CASE Work
    <3>1. UNCHANGED competition
      BY <2>7 DEF Work
    <3> QED  BY <1>0, <2>5, <2>7, <3>1, OnlyTheAdministrator
  <2>8. CASE UNCHANGED compVars
    BY <2>5, <2>8 DEF compVars, vars
  <2> QED  BY <2>2, <2>3, <2>4, <2>6, <2>7, <2>8 DEF CompNext
<1> QED  BY <1>0, <1>3 DEF CompInv

LEMMA CompAlways == CompSafe => []CompInv
<1>1. CompInv /\ [CompNext]_compVars => CompInv'
  BY NextComp
<1> QED  BY <1>1, InitComp, PTL DEF CompSafe

\* The jobs of a competition stay sound, and its ledger exact, while rounds are launched
\* and failed matches retried.
THEOREM CompetitionJobs == CompSafe => [](JobsInv /\ Ledger)
<1>1. CompInv => JobsInv /\ Ledger
  BY DEF CompInv
<1> QED  BY <1>1, CompAlways, PTL

\* No round starts before every match of the rounds before it is settled, and a completed
\* competition has settled them all (nextRound, advanceExtendedPhase).
THEOREM RoundsGated == CompSafe => []RoundGate
<1>1. CompInv => RoundGate
  <2> SUFFICES ASSUME CompInv  PROVE RoundGate
    OBVIOUS
  <2>1. Rounds = 1 .. RoundCount /\ RoundCount \in Nat \ {0} /\ competition.current \in 0 .. RoundCount
    BY RoundsAssumption DEF CompInv, CompSound
  <2>2. ASSUME NEW r \in Rounds, NEW m \in Matches, RoundOf[m] \in Rounds, RoundOver(RoundOf[m])
        PROVE  target[m] = "done"
    BY <2>2 DEF RoundOver, MatchesOf
  <2>3. ASSUME NEW r \in Rounds, NEW m \in Matches, tournament[r] # "none", RoundOf[m] \in 1 .. r - 1
        PROVE  target[m] = "done"
    <3>1. RoundOf[m] \in Rounds /\ RoundOf[m] < competition.current
      BY <2>1, <2>3 DEF CompInv, CompSound
    <3> QED  BY <2>2, <3>1 DEF CompInv, CompSound
  <2>4. ASSUME NEW r \in Rounds, NEW m \in Matches, competition.phase = "completed", RoundOf[m] = r
        PROVE  target[m] = "done"
    <3>1. r < RoundCount \/ r = RoundCount
      BY <2>1
    <3>2. RoundOver(r)
      BY <2>4, <3>1 DEF CompInv, CompSound
    <3> QED  BY <2>2, <2>4, <3>2
  <2> QED  BY <2>1, <2>3, <2>4 DEF RoundGate
<1> QED  BY <1>1, CompAlways, PTL

\* Settled matches of a competition are settled for good, over its administrator's
\* launches and retries (retryCompetitionMatch).
THEOREM CompetitionSettled == CompSafe => SettledForGood
<1> DEFINE Kept == \A m \in Matches : target[m] = "done" =>
                     target'[m] = "done" /\ result'[m] = result[m] /\ seq'[m] = seq[m]
<1>1. CompInv /\ [CompNext]_compVars => [Kept]_vars
  BY CompStep, SettledKept DEF CompInv
<1>2. CompSafe => [][Kept]_vars
  BY <1>1, CompAlways, PTL DEF CompSafe
<1> QED  BY <1>2 DEF SettledForGood
=============================================================================
