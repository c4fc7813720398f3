---------------------------- MODULE BotCupQueue ----------------------------
(* The Bot Cup's work queue: the runner API on D1 (bot-cup-api runner/api.mjs, queue.mjs), *)
(* the organisers' runner machines (bot-cup-runner runner.mjs, client.mjs) and the         *)
(* admin's rerun and requeue, for one submission: its check, its smoke games and its       *)
(* verdict.  One D1 statement or batch is one step and a handler may be overtaken          *)
(* between two of them; a call whose answer is lost goes on beside its repetition.         *)
(* A runner has one slot.  Which of the queued jobs is handed out is left open: all jobs   *)
(* of a submission's check have the same priority.  requeueJob's read and write are one    *)
(* step.  A call's sending is one step with its first statement, and its answer one with   *)
(* its last: an answer lost after that is one whose runner gave up, or died, before.       *)
EXTENDS Naturals, FiniteSets, FiniteSetsExt

CONSTANTS
    Runners,
    Checks,        \* ids of check jobs, given out in order: 1..n
    Games,         \* ids of games and of the jobs that play them: n+1..m
    None,          \* no job, no runner
    MaxAttempts,   \* JOB_POLICY.maxAttempts
    MaxFaults,     \* bound: lost answers, deaths, infrastructure errors, forged replays,
                   \*        slow jobs, and games the admin has played again
    MaxRequeued    \* bound: jobs the admin puts back

ASSUME QueueAssumption ==
    /\ Checks \cup Games \subseteq Nat
    /\ Checks \cap Games = {}
    /\ Checks # {}
    /\ MaxAttempts \in Nat \ {0}
    /\ {MaxFaults, MaxRequeued} \subseteq Nat

VARIABLES
    job,       \* table jobs: [status, attempts, holder, late]
    match,     \* table matches: [status, result]
    sub,       \* submissions.status
    hand,      \* the runner's slot: [step, job, attempt, body]
    call,      \* calls the API works on: call[r][k], at most two of a runner
    faults,
    requeued,  \* the jobs the admin put back
    cut,       \* did a handler die between a game's result and the verdict?
    clean      \* games that were ever recorded without a fault

vars == <<job, match, sub, hand, call, faults, requeued, cut, clean>>

Jobs == Checks \cup Games
Slots == {1, 2}
Idle == [step |-> "idle", job |-> None, attempt |-> 0, body |-> "none"]
Holding(j, attempt) == [step |-> "work", job |-> j, attempt |-> attempt, body |-> "none"]
NoCall == [pc |-> "none"]

Free(r, k) == call[r][k] = NoCall
At(r, k, pc) == call' = [call EXCEPT ![r][k].pc = pc]
Waits(r, k) == ~Free(r, k) /\ ~call[r][k].orphan    \* the runner still waits for its answer
Fault == faults < MaxFaults /\ faults' = faults + 1

-----------------------------------------------------------------------------
(* The queue *)

Queued == [status |-> "queued", attempts |-> 0, holder |-> None, late |-> FALSE]
Released(j, status) == [job[j] EXCEPT !.status = status, !.holder = None, !.late = FALSE]

(* What is left of a result when its game is put back is never read: it is dropped here. *)
PutBack(g, status) == [match EXCEPT ![g] = [status |-> status, result |-> "none"]]

(* expiredLeaseStatus *)
ExpiredLeaseStatus(attempts) == IF attempts >= MaxAttempts THEN "failed" ELSE "queued"

(* finishJob is guarded by the attempt alone. *)
FinishJob(j, attempt) ==
    IF job[j].attempts = attempt THEN [job EXCEPT ![j] = Released(j, "done")] ELSE job

FreshGames == {g \in Games : job[g].status = "none"}
FirstGames(n) == {g \in FreshGames : Cardinality({h \in FreshGames : h < g}) < n}

(* smokeVerdict over the games afterMatch reads. *)
Counted == {g \in Games : match[g].status \notin {"none", "cancelled"}}
FinishedCounted == {g \in Games : match[g].status = "finished"}
SmokeVerdict ==
    IF Cardinality(Counted) < 2 \/ \E g \in Counted : match[g].status # "finished" THEN "none"
    ELSE IF \E g \in Counted : match[g].result = "fault" THEN "smoke_failed" ELSE "ready"

-----------------------------------------------------------------------------
(* The runner asks for work *)

Calls(r, k, c) == call' = [call EXCEPT ![r][k] = c]
MayCall(r, k) == Free(r, k) /\ \A h \in Slots : ~Waits(r, h)
Claiming(pc, j, attempt, expired) ==
    [pc |-> pc, orphan |-> FALSE, job |-> j, attempt |-> attempt, expired |-> expired]
Reporting(pc, j, attempt, body) ==
    [pc |-> pc, orphan |-> FALSE, job |-> j, attempt |-> attempt, body |-> body, verdict |-> "none"]

(* The answer reaches the runner, if it still waits. *)
Answered(r, k, next) ==
    /\ call' = [call EXCEPT ![r][k] = NoCall]
    /\ hand' = IF ~Free(r, k) /\ call[r][k].orphan THEN hand ELSE [hand EXCEPT ![r] = next]

(* claim's UPDATE of jobs: which of the queued jobs is left open. *)
LeaseJob(r, k, j) ==
    /\ job[j].status = "queued"
    /\ job' = [job EXCEPT ![j] = [status |-> "leased", attempts |-> job[j].attempts + 1,
                                  holder |-> r, late |-> FALSE]]
    /\ IF j \in Checks
       THEN Answered(r, k, Holding(j, job[j].attempts + 1))
       ELSE /\ Calls(r, k, [Claiming("start", j, job[j].attempts + 1, {}) EXCEPT
                                !.orphan = ~Free(r, k) /\ call[r][k].orphan])
            /\ hand' = IF Free(r, k) THEN [hand EXCEPT ![r].step = "claiming"] ELSE hand

(* fill asks for a job, and expireLeases comes first: its first statement ... *)
ExpiredMatches ==             \* overlooks the jobs without a game
    {g \in Games : job[g].status = "leased" /\ job[g].late}
Expired == {j \in Jobs : job[j].status = "leased" /\ job[j].late}
ExpiredStatus(j) == ExpiredLeaseStatus(job[j].attempts)
Claim(r, k) ==
    /\ hand[r].step = "idle"
    /\ MayCall(r, k)
    /\ IF Expired = {}
       THEN \E j \in Jobs : LeaseJob(r, k, j)
       ELSE /\ job' = [j \in Jobs |-> IF j \in Expired THEN Released(j, ExpiredStatus(j)) ELSE job[j]]
            /\ Calls(r, k, Claiming("expired", None, 0,
                                    {<<g, ExpiredStatus(g)>> : g \in Expired \cap Games}))
            /\ hand' = [hand EXCEPT ![r].step = "claiming"]
    /\ UNCHANGED <<match, sub, faults, requeued, cut, clean>>

(* ... and the batch for the games of these jobs. *)
AnyGame(g) == TRUE            \* without "AND status = 'running'"
Resettable(g) == match[g].status = "running"
ExpireMatches(r, k) ==
    /\ call[r][k].pc = "expired"
    /\ match' = [g \in Games |->
            IF \E p \in call[r][k].expired : p[1] = g /\ Resettable(g)
            THEN PutBack(g, (CHOOSE p \in call[r][k].expired : p[1] = g)[2])[g] ELSE match[g]]
    /\ call' = [call EXCEPT ![r][k].pc = "lease", ![r][k].expired = {}]
    /\ UNCHANGED <<job, sub, hand, faults, requeued, cut, clean>>

LeaseOne(r, k) ==
    /\ call[r][k].pc = "lease"
    /\ \/ \E j \in Jobs : LeaseJob(r, k, j)
       \/ /\ \A j \in Jobs : job[j].status # "queued"
          /\ Answered(r, k, Idle)
          /\ UNCHANGED job
    /\ UNCHANGED <<match, sub, faults, requeued, cut, clean>>

(* The game is marked as running by a statement of its own, whatever became of it. *)
StartMatch(r, k) ==
    /\ call[r][k].pc = "start"
    /\ match' = PutBack(call[r][k].job, "running")
    /\ Answered(r, k, Holding(call[r][k].job, call[r][k].attempt))
    /\ UNCHANGED <<job, sub, faults, requeued, cut, clean>>

-----------------------------------------------------------------------------
(* The runner reports *)

(* A claim's statements last less than a job, and less than a lease. *)
BeingClaimed(j) == \E r \in Runners, k \in Slots : call[r][k].pc = "start" /\ call[r][k].job = j

(* handle: what came of the job, or an infrastructure error. *)
Outcomes(j) == IF j \in Checks THEN {"builds", "broken"} ELSE {"clean", "fault"}
(* leasedJob does not look at the lease's end.  A report without the lease is refused, or  *)
(* welcomed as a repetition: the runner is done with the job either way.                  *)
HasLease(r) ==
    /\ job[hand[r].job].status = "leased"
    /\ job[hand[r].job].attempts = hand[r].attempt
    /\ job[hand[r].job].holder = r
Report(r, k, step, body) ==
    /\ MayCall(r, k)
    /\ IF HasLease(r)
       THEN /\ Calls(r, k, Reporting(step, hand[r].job, hand[r].attempt, body))
            /\ hand' = [hand EXCEPT ![r].step = step, ![r].body = body]
       ELSE Answered(r, k, Idle)
    /\ UNCHANGED <<job, match, sub, requeued, cut, clean>>

Work(r, k) ==
    /\ hand[r].step = "work"
    /\ ~BeingClaimed(hand[r].job)
    /\ \/ UNCHANGED faults /\ \E o \in Outcomes(hand[r].job) : Report(r, k, "complete", o)
       \/ Fault /\ hand[r].job \in Games /\ Report(r, k, "complete", "forged")
       \/ Fault /\ Report(r, k, "fail", "none")

Repeat(r, k) ==
    /\ hand[r].step \in {"complete", "fail"}
    /\ Report(r, k, hand[r].step, hand[r].body)
    /\ UNCHANGED faults

(* completeCheck *)
CompleteCheck(r, k) == LET c == call[r][k] IN
    /\ c.pc = "complete"
    /\ c.job \in Checks
    /\ IF c.body = "broken"
       THEN /\ job' = FinishJob(c.job, c.attempt)
            /\ sub' = IF sub = "checking" THEN "build_failed" ELSE sub
            /\ UNCHANGED match
       ELSE /\ Cardinality(FreshGames) >= 2
            /\ job' = [j \in Jobs |-> IF j \in FirstGames(2) THEN Queued
                                      ELSE FinishJob(c.job, c.attempt)[j]]
            /\ match' = [g \in Games |-> IF g \in FirstGames(2)
                                         THEN [status |-> "queued", result |-> "none"] ELSE match[g]]
            /\ UNCHANGED sub
    /\ Answered(r, k, Idle)
    /\ UNCHANGED <<faults, requeued, cut, clean>>

(* completeMatch: verifyReplay refutes the replay, or the result is recorded. *)
RefuteReplay(r, k) == LET c == call[r][k] IN
    /\ c.pc = "complete"
    /\ c.body = "forged"
    /\ job' = [job EXCEPT ![c.job] = Released(c.job, "failed")]
    /\ match' = PutBack(c.job, "failed")
    /\ Answered(r, k, Idle)
    /\ UNCHANGED <<sub, faults, requeued, cut, clean>>

Recorded(r, k, pc) == LET c == call[r][k] IN
    /\ c.pc = "complete"
    /\ c.body \in {"clean", "fault"}
    /\ job' = FinishJob(c.job, c.attempt)
    /\ match' = [match EXCEPT ![c.job] = [status |-> "finished", result |-> c.body]]
    /\ clean' = IF c.body = "clean" THEN clean \cup {c.job} ELSE clean
    /\ call' = [call EXCEPT ![r][k].pc = pc, ![r][k].verdict = SmokeVerdict]
    /\ UNCHANGED <<sub, hand, faults, requeued, cut>>
RecordAfterReading(r, k) == Recorded(r, k, "verdict")     \* afterMatch before the batch
RecordResult(r, k) == Recorded(r, k, "after")

(* afterMatch reads the games, then writes the verdict. *)
AfterMatch(r, k) ==
    /\ call[r][k].pc = "after"
    /\ call' = [call EXCEPT ![r][k].pc = "verdict", ![r][k].verdict = SmokeVerdict]
    /\ UNCHANGED <<job, match, sub, hand, faults, requeued, cut, clean>>
GiveVerdict(r, k) ==
    /\ call[r][k].pc = "verdict"
    /\ sub' = IF call[r][k].verdict # "none" /\ sub = "checking" THEN call[r][k].verdict ELSE sub
    /\ Answered(r, k, Idle)
    /\ UNCHANGED <<job, match, faults, requeued, cut, clean>>

(* fail: neither statement is guarded. *)
Fail(r, k) == LET c == call[r][k] IN
    /\ c.pc = "fail"
    /\ job' = [job EXCEPT ![c.job] = Released(c.job, ExpiredLeaseStatus(c.attempt))]
    /\ match' = IF c.job \in Games
                THEN PutBack(c.job, ExpiredLeaseStatus(c.attempt)) ELSE match
    /\ Answered(r, k, Idle)
    /\ UNCHANGED <<sub, faults, requeued, cut, clean>>

-----------------------------------------------------------------------------
(* What goes wrong *)

(* A call fails for the runner.  A claim is left to the next poll; a report is repeated   *)
(* (up to five times), then excused with fail, then dropped.                              *)
Repeats(r) == hand[r].step \in {"complete", "fail"} /\ UNCHANGED hand
Excuses(r) == /\ hand[r].step = "complete"
              /\ hand' = [hand EXCEPT ![r].step = "fail", ![r].body = "none"]
Drops(r) == hand' = [hand EXCEPT ![r] = Idle]
Fails(r) == Repeats(r) \/ Excuses(r) \/ Drops(r)

(* ... while the API goes on with it, *)
AnswerLost(r, k) ==
    /\ Waits(r, k)
    /\ Fault
    /\ Fails(r)
    /\ call' = [call EXCEPT ![r][k].orphan = TRUE]
    /\ UNCHANGED <<job, match, sub, requeued, cut, clean>>

(* or because the handler dies between two of its statements. *)
HandlerDies(r, k) ==
    /\ ~Free(r, k)
    /\ Fault
    /\ IF call[r][k].orphan THEN UNCHANGED hand ELSE Fails(r)
    /\ cut' = (cut \/ call[r][k].pc \in {"after", "verdict"})
    /\ call' = [call EXCEPT ![r][k] = NoCall]
    /\ UNCHANGED <<job, match, sub, requeued, clean>>

(* A runner is restarted without its jobs. *)
RunnerDies(r) ==
    /\ hand[r] # Idle
    /\ Fault
    /\ hand' = [hand EXCEPT ![r] = Idle]
    /\ call' = [call EXCEPT ![r] = [k \in Slots |-> IF Free(r, k) THEN NoCall
                                                    ELSE [call[r][k] EXCEPT !.orphan = TRUE]]]
    /\ UNCHANGED <<job, match, sub, requeued, cut, clean>>

(* Five minutes pass: while the job is at work, or after its runner lost it. *)
LeaseEnds(j) ==
    /\ job[j].status = "leased"
    /\ ~job[j].late
    /\ ~BeingClaimed(j)
    /\ IF \E r \in Runners : hand[r].job = j /\ hand[r].attempt = job[j].attempts
       THEN Fault ELSE UNCHANGED faults
    /\ job' = [job EXCEPT ![j].late = TRUE]
    /\ UNCHANGED <<match, sub, hand, call, requeued, cut, clean>>

-----------------------------------------------------------------------------
(* The admin *)

(* rerunMatch: a game that runs is not cancelled. *)
RerunMatch(g) ==
    /\ Fault
    /\ match[g].status # "none"
    /\ FreshGames # {}
    /\ LET n == Min(FreshGames) IN
       /\ match' = [match EXCEPT ![g] = IF @.status = "running" THEN @ ELSE PutBack(g, "cancelled")[g],
                                 ![n] = [status |-> "queued", result |-> "none"]]
       /\ job' = [job EXCEPT ![g] = IF @.status = "queued" THEN [@ EXCEPT !.status = "failed"] ELSE @,
                             ![n] = Queued]
    /\ UNCHANGED <<sub, hand, call, requeued, cut, clean>>

(* requeueJob *)
RequeueJob(j) ==
    /\ job[j].status = "failed"
    /\ requeued' = requeued \cup {j}
    /\ Cardinality(requeued') <= MaxRequeued
    /\ job' = [job EXCEPT ![j] = Queued]
    /\ match' = IF j \in Games THEN PutBack(j, "queued") ELSE match
    /\ UNCHANGED <<sub, hand, call, faults, cut, clean>>

-----------------------------------------------------------------------------
(* A submission was just stored with its check (enqueueCheck). *)
Init ==
    /\ job = [j \in Jobs |-> IF j = Min(Checks) THEN Queued ELSE [Queued EXCEPT !.status = "none"]]
    /\ match = [g \in Games |-> [status |-> "none", result |-> "none"]]
    /\ sub = "checking"
    /\ hand = [r \in Runners |-> Idle]
    /\ call = [r \in Runners |-> [k \in Slots |-> NoCall]]
    /\ faults = 0 /\ requeued = {}
    /\ cut = FALSE
    /\ clean = {}

(* complete, fail and claim, one statement at a time *)
Serve(r, k) ==
    \/ ExpireMatches(r, k) \/ LeaseOne(r, k) \/ StartMatch(r, k)
    \/ CompleteCheck(r, k) \/ RefuteReplay(r, k) \/ RecordResult(r, k)
    \/ AfterMatch(r, k) \/ GiveVerdict(r, k) \/ Fail(r, k)
Run(r) == \E k \in Slots : Claim(r, k) \/ Work(r, k) \/ Repeat(r, k)

Next ==
    \/ \E r \in Runners : Run(r) \/ RunnerDies(r)
    \/ \E r \in Runners, k \in Slots : Serve(r, k) \/ AnswerLost(r, k) \/ HandlerDies(r, k)
    \/ \E j \in Jobs : LeaseEnds(j) \/ RequeueJob(j)
    \/ \E g \in Games : RerunMatch(g)

Spec ==
    /\ Init /\ [][Next]_vars
    /\ \A r \in Runners : WF_vars(Run(r))
    /\ \A r \in Runners, k \in Slots : WF_vars(Serve(r, k))
    /\ \A j \in Jobs : WF_vars(LeaseEnds(j))

-----------------------------------------------------------------------------
(* Properties *)

(* Results are not lost behind a finished job: the game of a done job is finished, or     *)
(* cancelled, however late the statements of other claims and reports arrive.  It is not   *)
(* said of a job the admin put back: requeueJob gives its attempts out again, and a report *)
(* of an earlier attempt can finish it under a claim that then marks its game as running.  *)
DoneMeansPlayed ==
    \A g \in Games \ requeued :
        job[g].status = "done" => match[g].status \in {"finished", "cancelled"}

(* A verdict is not forgotten: when the checks are done and every smoke game is finished,  *)
(* the submission has left "checking", or a handler is about to see to it, or one died     *)
(* there.                                                                                 *)
AboutToDecide == \E r \in Runners, k \in Slots : call[r][k].pc \in {"after", "verdict"}
VerdictGiven ==
    /\ \A c \in Checks : job[c].status \in {"none", "done"}
    /\ SmokeVerdict # "none"
    => sub # "checking" \/ AboutToDecide \/ cut

(* A submission only becomes ready when two of its games were recorded without a fault.   *)
ReadyEarned == sub = "ready" => Cardinality(clean) >= 2

(* The verdict on a submission is given, and it is the right one.                         *)
VerdictSound == VerdictGiven /\ ReadyEarned

(* Lost runners, answers and handlers do not leave work behind: every job ends.           *)
JobsEnd == <>[](\A j \in Jobs : job[j].status \in {"none", "done", "failed"})
=============================================================================
