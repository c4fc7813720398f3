---------------------------- MODULE BotCupProofs ----------------------------
(***************************************************************************)
(* Proofs about the Bot Cup.                                               *)
(*                                                                         *)
(* Its queue, for any number of runners, checks, games, attempts and       *)
(* faults.  Attempts fence reports from claims: while a claim is about to  *)
(* mark its game as running, every report of that game is of an earlier    *)
(* attempt.  A verdict is owed to the handler that recorded the last game. *)
(*                                                                         *)
(* Its event, for any teams, tables and bounds.  The inductive invariant   *)
(* is EventFits: what the bracket is in each phase, and that a step that   *)
(* was planned fits the state its batch will find.                         *)
(***************************************************************************)
EXTENDS BotCupQueue, BotCupEvent, FiniteSetTheorems, SequenceTheorems, WellFoundedInduction, TLAPS

-----------------------------------------------------------------------------
(* What jobs, games, slots and calls look like.                             *)

Expiry == Games \X {"queued", "failed"}
Verdicts == {"none", "smoke_failed", "ready"}

JobType ==
  [status : {"queued", "leased", "done", "failed"}, attempts : Nat,
   holder : Runners \cup {None}, late : BOOLEAN]
    \cup [status : {"none"}, attempts : {0}, holder : {None}, late : BOOLEAN]

MatchType ==
  [status : {"none", "queued", "running", "finished", "failed", "cancelled"},
   result : {"none", "clean", "fault"}]

Claimant == [step |-> "claiming", job |-> None, attempt |-> 0, body |-> "none"]

WorkType == [step : {"work"}, job : Jobs, attempt : Nat, body : {"none"}]
Bodies == {"none", "builds", "broken", "clean", "fault", "forged"}
HandReports ==
  [step : {"complete"}, job : Checks, attempt : Nat, body : {"builds", "broken"}]
    \cup [step : {"complete"}, job : Games, attempt : Nat, body : {"clean", "fault", "forged"}]
    \cup [step : {"fail"}, job : Jobs, attempt : Nat, body : {"none"}]
HandType == {Idle, Claimant} \cup WorkType \cup HandReports

StartType == [pc : {"start"}, orphan : BOOLEAN, job : Games, attempt : Nat, expired : {{}}]
PollType == [pc : {"expired", "lease"}, orphan : BOOLEAN, job : {None}, attempt : {0},
             expired : SUBSET Expiry]
ReportType ==
  [pc : {"complete"}, orphan : BOOLEAN, job : Checks, attempt : Nat,
   body : {"builds", "broken"}, verdict : {"none"}]
    \cup [pc : {"complete"}, orphan : BOOLEAN, job : Games, attempt : Nat,
          body : {"clean", "fault", "forged"}, verdict : {"none"}]
    \cup [pc : {"fail"}, orphan : BOOLEAN, job : Jobs, attempt : Nat,
          body : {"none"}, verdict : {"none"}]
DecideType ==
  [pc : {"after", "verdict"}, orphan : BOOLEAN, job : Games, attempt : Nat,
   body : {"clean", "fault"}, verdict : Verdicts]
CallType == {NoCall} \cup PollType \cup StartType \cup ReportType \cup DecideType

TypeOK ==
  /\ job \in [Jobs -> JobType]
  /\ match \in [Games -> MatchType]
  /\ sub \in {"checking", "build_failed"} \cup Verdicts
  /\ hand \in [Runners -> HandType]
  /\ call \in [Runners -> [Slots -> CallType]]
  /\ clean \subseteq Games /\ IsFiniteSet(clean)
  /\ requeued \subseteq Jobs

-----------------------------------------------------------------------------
(* The strengthening.                                                       *)

Starting(c, j) == c.pc = "start" /\ c.job = j
ReportsOn(c, j) == c.pc \in {"complete", "fail"} /\ c.job = j
Holds(h, j) == h.step \in {"work", "complete", "fail"} /\ h.job = j
HandReportsOn(h, j) == h.step \in {"complete", "fail"} /\ h.job = j

\* Of a game's job: no attempt is ahead of the job's, a claim under way is not of a job that
\* is done, and what reports it is of an earlier attempt.
JobFenced(j) ==
  /\ \A r \in Runners : Holds(hand[r], j) => hand[r].attempt <= job[j].attempts
  /\ \A r \in Runners, k \in Slots :
       /\ Starting(call[r][k], j) => /\ call[r][k].attempt <= job[j].attempts
                                     /\ job[j].status # "done"
       /\ ReportsOn(call[r][k], j) => call[r][k].attempt <= job[j].attempts
  /\ \A r, s \in Runners, k, l \in Slots :
       Starting(call[r][k], j) =>
         /\ ReportsOn(call[s][l], j) => call[s][l].attempt < call[r][k].attempt
         /\ HandReportsOn(hand[s], j) => hand[s].attempt < call[r][k].attempt
Fenced == \A j \in Games \ requeued : JobFenced(j)

\* A handler that will write a verdict: it reads the games after the last one was recorded.
WillDecide ==
  \E r \in Runners, k \in Slots :
    call[r][k].pc = "after" \/ (call[r][k].pc = "verdict" /\ call[r][k].verdict # "none")
ChecksOver == \A c \in Checks : job[c].status \in {"none", "done"}
Decided == ChecksOver /\ SmokeVerdict # "none" => sub # "checking" \/ WillDecide \/ cut

\* A finished game without a fault is among those recorded so, and who carries "ready" saw two.
Recordings ==
  /\ \A g \in Games : match[g].status = "finished" =>
       match[g].result = "fault" \/ (match[g].result = "clean" /\ g \in clean)
  /\ \A r \in Runners, k \in Slots :
       call[r][k].pc = "verdict" /\ call[r][k].verdict = "ready" => Cardinality(clean) >= 2

QueueStrong ==
  /\ TypeOK /\ DoneMeansPlayed /\ ReadyEarned
  /\ Fenced /\ Decided /\ Recordings

-----------------------------------------------------------------------------
(* Records.                                                                 *)

LEMMA CallKinds ==
  ASSUME NEW c \in CallType
  PROVE  /\ c = NoCall \/ c.orphan \in BOOLEAN
         /\ c = NoCall <=> c.pc = "none"
         /\ c.pc = "expired" \/ c.pc = "lease" => c \in PollType
         /\ c.pc = "start" => c \in StartType
         /\ c.pc = "complete" \/ c.pc = "fail" => c \in ReportType
         /\ c.pc = "after" \/ c.pc = "verdict" => c \in DecideType
BY DEF CallType, PollType, StartType, ReportType, DecideType, NoCall

LEMMA HandKinds ==
  ASSUME NEW h \in HandType
  PROVE  /\ h.step = "idle" => h = Idle
         /\ h.step = "claiming" => h = Claimant
         /\ h.step = "work" => h \in WorkType
         /\ h.step = "complete" \/ h.step = "fail" => h \in HandReports
BY DEF HandType, WorkType, HandReports, Idle, Claimant

LEMMA NewHands ==
  /\ Idle \in HandType /\ Claimant \in HandType
  /\ \A j \in Jobs, n \in Nat : Holding(j, n) \in WorkType /\ Holding(j, n) \in HandType
BY DEF HandType, WorkType, Idle, Claimant, Holding

LEMMA ReleasedType ==
  ASSUME TypeOK, NEW j \in Jobs, NEW st \in {"queued", "done", "failed"}
  PROVE  /\ Released(j, st) \in JobType /\ Released(j, st).status = st
         /\ Released(j, st).attempts = job[j].attempts
<1>1. job[j] \in JobType
  BY DEF TypeOK
<1>2. CASE job[j].status = "none"
  <2>1. job[j] \in [status : {"none"}, attempts : {0}, holder : {None}, late : BOOLEAN]
    BY <1>1, <1>2 DEF JobType
  <2>2. job[j] \in [status : {"none"}, attempts : Nat, holder : Runners \cup {None}, late : BOOLEAN]
    BY <2>1
  <2> QED  BY <2>2 DEF JobType, Released
<1>3. CASE job[j].status # "none"
  BY <1>1, <1>3 DEF JobType, Released
<1> QED  BY <1>2, <1>3

LEMMA FinishJobType ==
  ASSUME TypeOK, NEW j \in Jobs, NEW n \in Nat
  PROVE  /\ FinishJob(j, n) \in [Jobs -> JobType]
         /\ \A i \in Jobs : i # j => FinishJob(j, n)[i] = job[i]
         /\ job[j].attempts = n => FinishJob(j, n)[j] = Released(j, "done")
         /\ job[j].attempts # n => FinishJob(j, n)[j] = job[j]
BY ReleasedType DEF TypeOK, FinishJob

LEMMA PutBackType ==
  ASSUME TypeOK, NEW g \in Games, NEW st \in {"queued", "running", "failed", "cancelled"}
  PROVE  /\ PutBack(g, st) \in [Games -> MatchType]
         /\ PutBack(g, st)[g] = [status |-> st, result |-> "none"]
         /\ \A h \in Games : h # g => PutBack(g, st)[h] = match[h]
BY DEF TypeOK, PutBack, MatchType

LEMMA QueuedType == Queued \in JobType /\ Queued.status = "queued" /\ Queued.attempts = 0
BY DEF Queued, JobType

LEMMA StatusOfExpired == \A n \in Nat : ExpiredLeaseStatus(n) \in {"queued", "failed"}
BY DEF ExpiredLeaseStatus

LEMMA SmokeVerdictType == SmokeVerdict \in Verdicts
BY DEF SmokeVerdict, Verdicts

-----------------------------------------------------------------------------
(* Calls and slots: what a step changes.                                    *)

\* One call is x now, the others are what they were.
OneCall(r, k, x) ==
  /\ x \in CallType
  /\ call'[r][k] = x
  /\ \A s \in Runners, l \in Slots : s # r \/ l # k => call'[s][l] = call[s][l]
  /\ call' \in [Runners -> [Slots -> CallType]]

OneHand(r, h) ==
  /\ hand'[r] = h
  /\ \A s \in Runners : s # r => hand'[s] = hand[s]
  /\ hand' \in [Runners -> HandType]

LEMMA CallSet ==
  ASSUME TypeOK, NEW r \in Runners, NEW k \in Slots, NEW x \in CallType,
         call' = [call EXCEPT ![r][k] = x]
  PROVE  OneCall(r, k, x)
<1>1. call' = [call EXCEPT ![r] = [call[r] EXCEPT ![k] = x]]
  OBVIOUS
<1>2. call[r] \in [Slots -> CallType] /\ [call[r] EXCEPT ![k] = x] \in [Slots -> CallType]
  BY DEF TypeOK
<1> DEFINE y == [call[r] EXCEPT ![k] = x]
<1>3. y[k] = x /\ \A l \in Slots : l # k => y[l] = call[r][l]
  BY <1>2
<1>4. call'[r] = y /\ \A s \in Runners : s # r => call'[s] = call[s]
  BY <1>1 DEF TypeOK
<1>5. call' \in [Runners -> [Slots -> CallType]]
  BY <1>1, <1>2 DEF TypeOK
<1> HIDE DEF y
<1> QED  BY <1>3, <1>4, <1>5 DEF OneCall

LEMMA HandSet ==
  ASSUME TypeOK, NEW r \in Runners, NEW h \in HandType, hand' = [hand EXCEPT ![r] = h]
  PROVE  OneHand(r, h)
BY DEF TypeOK, OneHand

LEMMA SameHands ==
  ASSUME TypeOK, NEW r \in Runners, UNCHANGED hand
  PROVE  OneHand(r, hand[r])
BY DEF TypeOK, OneHand

LEMMA AnsweredIs ==
  ASSUME TypeOK, NEW r \in Runners, NEW k \in Slots, NEW h \in HandType, Answered(r, k, h)
  PROVE  OneCall(r, k, NoCall) /\ \E x \in {h, hand[r]} : OneHand(r, x)
<1>1. NoCall \in CallType
  BY DEF CallType
<1>2. OneCall(r, k, NoCall)
  BY <1>1, CallSet DEF Answered
<1>3. hand' = [hand EXCEPT ![r] = h] \/ UNCHANGED hand
  BY DEF Answered
<1> QED  BY <1>2, <1>3, HandSet, SameHands

LEMMA HandFields ==
  ASSUME NEW h \in HandType, h.step \in {"work", "complete", "fail"}
  PROVE  /\ h.job \in Jobs /\ h.attempt \in Nat
         /\ [h EXCEPT !.step = "fail", !.body = "none"] \in HandReports
BY HandKinds DEF WorkType, HandReports, Jobs

LEMMA NewCalls ==
  /\ NoCall \in CallType /\ NoCall.pc = "none"
  /\ \A c \in PollType \cup StartType \cup ReportType \cup DecideType : c \in CallType
  /\ \A c \in CallType : c # NoCall => [c EXCEPT !.orphan = TRUE] \in CallType
<1>1. \A c \in PollType : [c EXCEPT !.orphan = TRUE] \in PollType
  BY DEF PollType
<1>2. \A c \in StartType : [c EXCEPT !.orphan = TRUE] \in StartType
  BY DEF StartType
<1>3. \A c \in ReportType : [c EXCEPT !.orphan = TRUE] \in ReportType
  <2> TAKE c \in ReportType
  <2> DEFINE d == [c EXCEPT !.orphan = TRUE]
  <2>1. CASE c.pc = "complete" /\ c.job \in Checks /\ c.body \in {"builds", "broken"}
    BY <2>1 DEF ReportType
  <2>2. CASE c.pc = "complete" /\ c.job \in Games /\ c.body \in {"clean", "fault", "forged"}
    BY <2>2 DEF ReportType
  <2>3. CASE c.pc = "fail" /\ c.body = "none"
    BY <2>3 DEF ReportType
  <2> QED  BY <2>1, <2>2, <2>3 DEF ReportType
<1>4. \A c \in DecideType : [c EXCEPT !.orphan = TRUE] \in DecideType
  BY DEF DecideType
<1>5. NoCall \in CallType /\ NoCall.pc = "none"
  BY DEF NoCall, CallType
<1>6. \A c \in PollType \cup StartType \cup ReportType \cup DecideType : c \in CallType
  BY DEF CallType
<1>7. \A c \in CallType : c # NoCall => c \in PollType \cup StartType \cup ReportType \cup DecideType
  BY DEF CallType
<1> QED  BY <1>1, <1>2, <1>3, <1>4, <1>5, <1>6, <1>7

(* The job that is handed out: its attempt is new.  A check goes to the runner's slot at   *)
(* once, a game's claim goes on to mark it as running.                                     *)
LEMMA LeaseJobIs ==
  ASSUME TypeOK, NEW r \in Runners, NEW k \in Slots, NEW j \in Jobs, LeaseJob(r, k, j),
         hand[r] = Idle \/ call[r][k].pc = "lease"
  PROVE  LET n == job[j].attempts + 1
             y == [status |-> "leased", attempts |-> n, holder |-> r, late |-> FALSE]
         IN  /\ job' = [job EXCEPT ![j] = y] /\ y \in JobType /\ n \in Nat
             /\ job[j].status = "queued"
             /\ \/ /\ j \in Checks
                   /\ OneCall(r, k, NoCall)
                   /\ \E h \in {Holding(j, n), hand[r]} : OneHand(r, h)
                \/ /\ j \in Games
                   /\ \E x \in StartType : x.job = j /\ x.attempt = n /\ OneCall(r, k, x)
                   /\ \E h \in {Claimant, hand[r]} : OneHand(r, h)
<1> DEFINE n == job[j].attempts + 1
           y == [status |-> "leased", attempts |-> n, holder |-> r, late |-> FALSE]
<1>1. n \in Nat /\ job[j] \in JobType
  BY DEF TypeOK, JobType
<1>2. y \in JobType
  BY <1>1 DEF JobType
<1>3. job' = [job EXCEPT ![j] = y] /\ job[j].status = "queued"
  BY DEF LeaseJob
<1> HIDE DEF y, n
<1>4. CASE j \in Checks
  <2>1. Answered(r, k, Holding(j, n))
    BY <1>4 DEF LeaseJob, n
  <2> QED  BY <1>1, <1>2, <1>3, <1>4, <2>1, AnsweredIs, NewHands DEF y, n
<1>5. CASE j \notin Checks
  <2> DEFINE b == ~Free(r, k) /\ call[r][k].orphan
             x == [Claiming("start", j, n, {}) EXCEPT !.orphan = b]
  <2>1. j \in Games
    BY <1>5 DEF Jobs
  <2>2. x \in StartType /\ x.job = j /\ x.attempt = n
    BY <1>1, <2>1 DEF StartType, Claiming
  <2>3. call' = [call EXCEPT ![r][k] = x]
    BY <1>5 DEF LeaseJob, Calls, n
  <2> HIDE DEF x
  <2>4. OneCall(r, k, x)
    BY <2>2, <2>3, CallSet, NewCalls
  <2>5. \E h \in {Claimant, hand[r]} : OneHand(r, h)
    <3>1. CASE Free(r, k)
      <4>1. hand[r] = Idle
        BY <3>1, NewCalls DEF Free
      <4>2. [hand[r] EXCEPT !.step = "claiming"] = Claimant
        BY <4>1 DEF Idle, Claimant
      <4>3. hand' = [hand EXCEPT ![r] = Claimant]
        BY <1>5, <3>1, <4>2 DEF LeaseJob
      <4> QED  BY <4>3, HandSet, NewHands
    <3>2. CASE ~Free(r, k)
      <4>1. UNCHANGED hand
        BY <1>5, <3>2 DEF LeaseJob
      <4> QED  BY <4>1, SameHands
    <3> QED  BY <3>1, <3>2
  <2> QED  BY <1>1, <1>2, <1>3, <2>1, <2>2, <2>4, <2>5 DEF y, n
<1> QED  BY <1>4, <1>5

(* A report is either refused, or a call under the lease the runner's slot names. *)
LEMMA ReportIs ==
  ASSUME TypeOK, NEW r \in Runners, NEW k \in Slots, NEW st \in {"complete", "fail"}, NEW b,
         hand[r] \in WorkType \cup HandReports,
         [hand[r] EXCEPT !.step = st, !.body = b] \in HandReports,
         Report(r, k, st, b)
  PROVE  /\ UNCHANGED <<job, match, sub, requeued, cut, clean>>
         /\ call[r][k] = NoCall
         /\ \/ /\ OneCall(r, k, NoCall)
               /\ \E x \in {Idle, hand[r]} : OneHand(r, x)
            \/ \E x \in ReportType, h \in HandReports :
                 /\ x.job = hand[r].job /\ x.attempt = hand[r].attempt
                 /\ h.job = hand[r].job /\ h.attempt = hand[r].attempt
                 /\ OneCall(r, k, x) /\ OneHand(r, h)
<1> DEFINE h == [hand[r] EXCEPT !.step = st, !.body = b]
           x == Reporting(st, hand[r].job, hand[r].attempt, b)
<1>1. UNCHANGED <<job, match, sub, requeued, cut, clean>> /\ call[r][k] = NoCall
  BY DEF Report, MayCall, Free
<1>2. CASE HasLease(r)
  <2>1. hand' = [hand EXCEPT ![r] = h]
    BY <1>2 DEF Report
  <2>2. call' = [call EXCEPT ![r][k] = x]
    BY <1>2 DEF Report, Calls
  <2>3. h.job = hand[r].job /\ h.attempt = hand[r].attempt /\ h.step = st /\ h.body = b
    BY DEF WorkType, HandReports
  <2>4. x.job = hand[r].job /\ x.attempt = hand[r].attempt
    BY DEF Reporting
  <2>5. x \in ReportType
    BY <2>3 DEF Reporting, ReportType, HandReports
  <2>6. h \in HandReports
    OBVIOUS
  <2> HIDE DEF h, x
  <2> QED  BY <1>1, <2>1, <2>2, <2>3, <2>4, <2>5, <2>6, CallSet, HandSet, NewCalls DEF HandType
<1>3. CASE ~HasLease(r)
  <2>1. Answered(r, k, Idle)
    BY <1>3 DEF Report
  <2> QED  BY <1>1, <2>1, AnsweredIs, NewHands
<1> QED  BY <1>2, <1>3

LEMMA WorkIs ==
  ASSUME TypeOK, NEW r \in Runners, NEW k \in Slots, Work(r, k) \/ Repeat(r, k)
  PROVE  /\ hand[r] \in WorkType \cup HandReports
         /\ hand[r] \in WorkType => ~BeingClaimed(hand[r].job)
         /\ \E st \in {"complete", "fail"}, b \in Bodies :
              /\ [hand[r] EXCEPT !.step = st, !.body = b] \in HandReports
              /\ Report(r, k, st, b)
<1>1. hand[r] \in HandType
  BY DEF TypeOK
<1>2. CASE Work(r, k)
  <2>1. hand[r] \in WorkType /\ ~BeingClaimed(hand[r].job)
    BY <1>1, <1>2, HandKinds DEF Work
  <2>2. hand[r].job \in Jobs
    BY <2>1 DEF WorkType
  <2>3. ASSUME NEW o \in Outcomes(hand[r].job)
        PROVE  [hand[r] EXCEPT !.step = "complete", !.body = o] \in HandReports
    BY <2>1, <2>2, <2>3 DEF Outcomes, WorkType, HandReports, Jobs
  <2>4. hand[r].job \in Games =>
          [hand[r] EXCEPT !.step = "complete", !.body = "forged"] \in HandReports
    BY <2>1 DEF WorkType, HandReports
  <2>5. [hand[r] EXCEPT !.step = "fail", !.body = "none"] \in HandReports
    BY <2>1 DEF WorkType, HandReports
  <2>6. Outcomes(hand[r].job) \subseteq Bodies /\ {"forged", "none"} \subseteq Bodies
    BY DEF Outcomes, Bodies
  <2> QED  BY <1>2, <2>1, <2>3, <2>4, <2>5, <2>6 DEF Work
<1>3. CASE Repeat(r, k)
  <2>1. hand[r] \in HandReports /\ hand[r].step \in {"complete", "fail"}
    BY <1>1, <1>3, HandKinds DEF Repeat
  <2>2. [hand[r] EXCEPT !.step = hand[r].step, !.body = hand[r].body] = hand[r]
    BY <2>1 DEF HandReports
  <2>3. hand[r] \notin WorkType /\ hand[r].body \in Bodies
    BY <2>1 DEF WorkType, HandReports, Bodies
  <2> QED  BY <1>3, <2>1, <2>2, <2>3 DEF Repeat
<1> QED  BY <1>2, <1>3

(* The runner's slot after a call that failed. *)
LEMMA FailsIs ==
  ASSUME TypeOK, NEW r \in Runners, Fails(r)
  PROVE  \E h \in HandType :
           /\ OneHand(r, h)
           /\ \/ h = Idle \/ h = hand[r]
              \/ /\ h \in HandReports /\ hand[r] \in HandReports
                 /\ h.job = hand[r].job /\ h.attempt = hand[r].attempt
<1>1. hand[r] \in HandType
  BY DEF TypeOK
<1>2. CASE Repeats(r)
  BY <1>1, <1>2, SameHands DEF Repeats
<1>3. CASE Drops(r)
  BY <1>3, HandSet, NewHands DEF Drops
<1>4. CASE Excuses(r)
  <2> DEFINE h == [hand[r] EXCEPT !.step = "fail", !.body = "none"]
  <2>1. hand[r] \in HandReports /\ h \in HandReports /\ h.job = hand[r].job /\ h.attempt = hand[r].attempt
    BY <1>1, <1>4, HandKinds, HandFields DEF Excuses, HandReports
  <2>2. hand' = [hand EXCEPT ![r] = h]
    BY <1>4 DEF Excuses
  <2> HIDE DEF h
  <2> QED  BY <2>1, <2>2, HandSet DEF HandType
<1> QED  BY <1>2, <1>3, <1>4 DEF Fails

-----------------------------------------------------------------------------
(* What keeps the strengthening.                                            *)

NoClaim(j) == \A s \in Runners, l \in Slots : ~Starting(call[s][l], j)

LEMMA Attempts ==
  ASSUME TypeOK, NEW r \in Runners, NEW k \in Slots, NEW j \in Jobs
  PROVE  /\ job[j].attempts \in Nat /\ job[j] \in JobType
         /\ call[r][k] \in CallType /\ hand[r] \in HandType
         /\ Starting(call[r][k], j) => call[r][k].attempt \in Nat
         /\ ReportsOn(call[r][k], j) => call[r][k].attempt \in Nat
         /\ Holds(hand[r], j) => hand[r].attempt \in Nat
         /\ HandReportsOn(hand[r], j) => Holds(hand[r], j)
<1>1. job[j] \in JobType /\ call[r][k] \in CallType /\ hand[r] \in HandType
  BY DEF TypeOK
<1>2. Starting(call[r][k], j) => call[r][k].attempt \in Nat
  BY <1>1, CallKinds DEF Starting, StartType
<1>3. ReportsOn(call[r][k], j) => call[r][k].attempt \in Nat
  BY <1>1, CallKinds DEF ReportsOn, ReportType
<1>4. Holds(hand[r], j) => hand[r].attempt \in Nat
  BY <1>1, HandFields DEF Holds
<1>5. HandReportsOn(hand[r], j) => Holds(hand[r], j)
  BY DEF HandReportsOn, Holds
<1> QED  BY <1>1, <1>2, <1>3, <1>4, <1>5 DEF JobType

\* New reports of a job come from a slot that holds it, while nobody claims it.
ReportKept(c, a, h, j) ==
  \/ ReportsOn(c, j) /\ a = c.attempt
  \/ HandReportsOn(h, j) /\ a = h.attempt
  \/ Holds(h, j) /\ a = h.attempt /\ NoClaim(j)

LEMMA FencedKept ==
  ASSUME TypeOK, TypeOK', Fenced, requeued \subseteq requeued',
         NEW j \in Games, j \notin requeued',
         job'[j].attempts >= job[j].attempts,
         job'[j].status = "done" => job[j].status = "done" \/ NoClaim(j),
         \A r \in Runners, k \in Slots :
           /\ Starting(call'[r][k], j) =>
                Starting(call[r][k], j) /\ call'[r][k].attempt = call[r][k].attempt
           /\ ReportsOn(call'[r][k], j) => ReportKept(call[r][k], call'[r][k].attempt, hand[r], j),
         \A r \in Runners :
           /\ Holds(hand'[r], j) =>
                \/ Holds(hand[r], j) /\ hand'[r].attempt = hand[r].attempt
                \/ \E k \in Slots :
                     Starting(call[r][k], j) /\ hand'[r].attempt = call[r][k].attempt
           /\ HandReportsOn(hand'[r], j) =>
                /\ Holds(hand[r], j) /\ hand'[r].attempt = hand[r].attempt
                /\ HandReportsOn(hand[r], j) \/ NoClaim(j)
  PROVE  JobFenced(j)'
<1>1. JobFenced(j) /\ j \in Jobs
  BY DEF Fenced, Jobs
<1>2. job[j].attempts \in Nat /\ job'[j].attempts \in Nat
  BY <1>1 DEF TypeOK, JobType
<1>3. ASSUME NEW r \in Runners, Holds(hand'[r], j)
      PROVE  hand'[r].attempt <= job'[j].attempts
  <2>1. hand'[r].attempt <= job[j].attempts /\ hand'[r].attempt \in Nat
    <3>1. CASE Holds(hand[r], j) /\ hand'[r].attempt = hand[r].attempt
      <4>1. hand[r].attempt \in Nat
        BY <1>1, <3>1, Attempts DEF Slots
      <4> QED  BY <1>1, <3>1, <4>1 DEF JobFenced
    <3>2. ASSUME NEW k \in Slots, Starting(call[r][k], j), hand'[r].attempt = call[r][k].attempt
          PROVE  hand'[r].attempt <= job[j].attempts /\ hand'[r].attempt \in Nat
      BY <1>1, <3>2, Attempts DEF JobFenced
    <3> QED  BY <1>3, <3>1, <3>2
  <2> QED  BY <1>2, <2>1
<1>4. ASSUME NEW r \in Runners, NEW k \in Slots, Starting(call'[r][k], j)
      PROVE  /\ call'[r][k].attempt <= job'[j].attempts /\ job'[j].status # "done"
             /\ Starting(call[r][k], j) /\ call'[r][k].attempt = call[r][k].attempt
  <2>1. Starting(call[r][k], j) /\ call'[r][k].attempt = call[r][k].attempt
    BY <1>4
  <2>2. call[r][k].attempt <= job[j].attempts /\ job[j].status # "done" /\ call[r][k].attempt \in Nat
    BY <1>1, <2>1, Attempts DEF JobFenced
  <2>3. job'[j].status # "done"
    BY <2>1, <2>2 DEF NoClaim
  <2> QED  BY <1>2, <2>1, <2>2, <2>3
<1>5. ASSUME NEW r \in Runners, NEW k \in Slots, ReportsOn(call'[r][k], j)
      PROVE  call'[r][k].attempt <= job'[j].attempts
  <2>1. ReportKept(call[r][k], call'[r][k].attempt, hand[r], j)
    BY <1>5
  <2>2. call'[r][k].attempt <= job[j].attempts /\ call'[r][k].attempt \in Nat
    BY <1>1, <2>1, Attempts DEF JobFenced, ReportKept
  <2> QED  BY <1>2, <2>2
<1>6. ASSUME NEW r \in Runners, NEW k \in Slots, Starting(call'[r][k], j),
             NEW s \in Runners, NEW l \in Slots
      PROVE  /\ ReportsOn(call'[s][l], j) => call'[s][l].attempt < call'[r][k].attempt
             /\ HandReportsOn(hand'[s], j) => hand'[s].attempt < call'[r][k].attempt
  <2>1. Starting(call[r][k], j) /\ call'[r][k].attempt = call[r][k].attempt /\ ~NoClaim(j)
    BY <1>4, <1>6 DEF NoClaim
  <2>2. ASSUME ReportsOn(call'[s][l], j)  PROVE call'[s][l].attempt < call'[r][k].attempt
    <3>1. ReportKept(call[s][l], call'[s][l].attempt, hand[s], j)
      BY <2>2
    <3> QED  BY <1>1, <2>1, <3>1 DEF JobFenced, ReportKept
  <2>3. ASSUME HandReportsOn(hand'[s], j)  PROVE hand'[s].attempt < call'[r][k].attempt
    <3>1. HandReportsOn(hand[s], j) /\ hand'[s].attempt = hand[s].attempt
      BY <2>1, <2>3
    <3> QED  BY <1>1, <2>1, <3>1 DEF JobFenced
  <2> QED  BY <2>2, <2>3
<1> QED  BY <1>3, <1>4, <1>5, <1>6 DEF JobFenced

(* One call and one slot change. *)
LEMMA FencedOne ==
  ASSUME TypeOK, TypeOK', Fenced, requeued \subseteq requeued',
         NEW j \in Games, j \notin requeued',
         job'[j].attempts >= job[j].attempts,
         job'[j].status = "done" => job[j].status = "done" \/ NoClaim(j),
         NEW r \in Runners, NEW k \in Slots, NEW x, NEW h, OneCall(r, k, x), OneHand(r, h),
         Starting(x, j) => Starting(call[r][k], j) /\ x.attempt = call[r][k].attempt,
         ReportsOn(x, j) => ReportKept(call[r][k], x.attempt, hand[r], j),
         Holds(h, j) => \/ Holds(hand[r], j) /\ h.attempt = hand[r].attempt
                        \/ Starting(call[r][k], j) /\ h.attempt = call[r][k].attempt,
         HandReportsOn(h, j) => /\ Holds(hand[r], j) /\ h.attempt = hand[r].attempt
                                /\ HandReportsOn(hand[r], j) \/ NoClaim(j)
  PROVE  JobFenced(j)'
<1>1. ASSUME NEW s \in Runners, NEW l \in Slots
      PROVE  /\ Starting(call'[s][l], j) =>
                  Starting(call[s][l], j) /\ call'[s][l].attempt = call[s][l].attempt
             /\ ReportsOn(call'[s][l], j) => ReportKept(call[s][l], call'[s][l].attempt, hand[s], j)
  BY DEF OneCall, ReportKept
<1>2. ASSUME NEW s \in Runners
      PROVE  /\ Holds(hand'[s], j) =>
                  \/ Holds(hand[s], j) /\ hand'[s].attempt = hand[s].attempt
                  \/ \E l \in Slots :
                       Starting(call[s][l], j) /\ hand'[s].attempt = call[s][l].attempt
             /\ HandReportsOn(hand'[s], j) =>
                  /\ Holds(hand[s], j) /\ hand'[s].attempt = hand[s].attempt
                  /\ HandReportsOn(hand[s], j) \/ NoClaim(j)
  BY Attempts DEF OneHand, Jobs
<1> QED  BY <1>1, <1>2, FencedKept

(* Nothing but the job's own row changes. *)
LEMMA FencedSame ==
  ASSUME TypeOK, TypeOK', Fenced, requeued \subseteq requeued', UNCHANGED <<call, hand>>,
         NEW j \in Games, j \notin requeued',
         job'[j].attempts >= job[j].attempts,
         job'[j].status = "done" => job[j].status = "done"
  PROVE  JobFenced(j)'
<1>1. ASSUME NEW s \in Runners, NEW l \in Slots
      PROVE  /\ Starting(call'[s][l], j) =>
                  Starting(call[s][l], j) /\ call'[s][l].attempt = call[s][l].attempt
             /\ ReportsOn(call'[s][l], j) => ReportKept(call[s][l], call'[s][l].attempt, hand[s], j)
  BY DEF ReportKept
<1>2. ASSUME NEW s \in Runners
      PROVE  /\ Holds(hand'[s], j) =>
                  \/ Holds(hand[s], j) /\ hand'[s].attempt = hand[s].attempt
                  \/ \E l \in Slots :
                       Starting(call[s][l], j) /\ hand'[s].attempt = call[s][l].attempt
             /\ HandReportsOn(hand'[s], j) =>
                  /\ Holds(hand[s], j) /\ hand'[s].attempt = hand[s].attempt
                  /\ HandReportsOn(hand[s], j) \/ NoClaim(j)
  BY DEF HandReportsOn, Holds
<1> QED  BY <1>1, <1>2, FencedKept

(* The verdict: nothing new to decide, and who will decide still will. *)
LEMMA PendingGames ==
  ASSUME NEW g \in Games, match[g].status \in {"queued", "running", "failed"}
  PROVE  SmokeVerdict = "none"
<1>1. g \in Counted /\ match[g].status # "finished"
  BY DEF Counted
<1> QED  BY <1>1 DEF SmokeVerdict

LEMMA PendingGamesNext ==
  ASSUME NEW g \in Games, match'[g].status \in {"queued", "running", "failed"}
  PROVE  SmokeVerdict' = "none"
<1>1. g \in Counted' /\ match'[g].status # "finished"
  BY DEF Counted
<1> QED  BY <1>1 DEF SmokeVerdict

LEMMA SameGames ==
  ASSUME UNCHANGED match  PROVE SmokeVerdict' = SmokeVerdict
BY DEF SmokeVerdict, Counted

LEMMA OverBefore ==
  ASSUME \A c \in Checks : job'[c].status \in {"none", "done"} => job[c].status = job'[c].status
  PROVE  ChecksOver' => ChecksOver
BY DEF ChecksOver

LEMMA DecidedKept ==
  ASSUME Decided,
         ChecksOver' => ChecksOver,
         SmokeVerdict' # "none" => SmokeVerdict # "none",
         sub # "checking" => sub' # "checking",
         cut => cut',
         WillDecide => WillDecide' \/ cut' \/ sub' # "checking"
  PROVE  Decided'
BY DEF Decided

LEMMA WillDecideOne ==
  ASSUME NEW r \in Runners, NEW k \in Slots, NEW x, OneCall(r, k, x),
         call[r][k].pc \notin {"after", "verdict"}
  PROVE  WillDecide => WillDecide'
<1>1. ASSUME NEW s \in Runners, NEW l \in Slots, call[s][l].pc \in {"after", "verdict"}
      PROVE  call'[s][l] = call[s][l]
  BY <1>1 DEF OneCall
<1> QED  BY <1>1 DEF WillDecide

LEMMA WillDecideSame == UNCHANGED call => (WillDecide => WillDecide')
BY DEF WillDecide

LEMMA MoreClean ==
  ASSUME clean \subseteq clean', IsFiniteSet(clean'), Cardinality(clean) >= 2
  PROVE  Cardinality(clean') >= 2
<1>1. Cardinality(clean) <= Cardinality(clean') /\ IsFiniteSet(clean)
  BY FS_Subset
<1>2. Cardinality(clean) \in Nat /\ Cardinality(clean') \in Nat
  BY <1>1, FS_CardinalityType
<1> QED  BY <1>1, <1>2

(* "ready" is only said of two games, each recorded without a fault. *)
LEMMA ReadyIsEarned ==
  ASSUME TypeOK, Recordings, SmokeVerdict = "ready"
  PROVE  Cardinality(clean) >= 2
<1>1. ~(Cardinality(Counted) < 2)
  BY DEF SmokeVerdict
<1>2. \A g \in Counted : match[g].status = "finished" /\ match[g].result # "fault"
  BY DEF SmokeVerdict
<1>3. Counted \subseteq clean
  BY <1>2 DEF Recordings, Counted
<1>4. IsFiniteSet(Counted) /\ Cardinality(Counted) <= Cardinality(clean) /\ IsFiniteSet(clean)
  BY <1>3, FS_Subset DEF TypeOK
<1>5. Cardinality(Counted) \in Nat /\ Cardinality(clean) \in Nat
  BY <1>4, FS_CardinalityType
<1> QED  BY <1>1, <1>4, <1>5

LEMMA RecordingsKept ==
  ASSUME Recordings, clean \subseteq clean', IsFiniteSet(clean'),
         \A g \in Games : match'[g].status = "finished" => match'[g] = match[g],
         \A r \in Runners, k \in Slots :
           call'[r][k].pc = "verdict" /\ call'[r][k].verdict = "ready" =>
             call[r][k].pc = "verdict" /\ call[r][k].verdict = "ready"
  PROVE  Recordings'
<1>1. ASSUME NEW g \in Games, match'[g].status = "finished"
      PROVE  match'[g].result = "fault" \/ (match'[g].result = "clean" /\ g \in clean')
  BY <1>1 DEF Recordings
<1>2. ASSUME NEW r \in Runners, NEW k \in Slots,
             call'[r][k].pc = "verdict", call'[r][k].verdict = "ready"
      PROVE  Cardinality(clean') >= 2
  BY <1>2, MoreClean DEF Recordings
<1> QED  BY <1>1, <1>2 DEF Recordings

LEMMA RecordingsOne ==
  ASSUME TypeOK, Recordings, UNCHANGED clean,
         \A g \in Games : match'[g].status = "finished" => match'[g] = match[g],
         NEW r \in Runners, NEW k \in Slots, NEW x, OneCall(r, k, x), x.pc # "verdict"
  PROVE  Recordings'
<1>1. \A s \in Runners, l \in Slots :
        call'[s][l].pc = "verdict" => call'[s][l] = call[s][l]
  BY DEF OneCall
<1> QED  BY <1>1, RecordingsKept DEF TypeOK

LEMMA RecordingsSame ==
  ASSUME TypeOK, Recordings, UNCHANGED <<clean, call>>,
         \A g \in Games : match'[g].status = "finished" => match'[g] = match[g]
  PROVE  Recordings'
<1>1. UNCHANGED clean /\ UNCHANGED call
  OBVIOUS
<1> QED  BY <1>1, RecordingsKept DEF TypeOK

-----------------------------------------------------------------------------
(* The steps keep the strengthening.                                        *)

LEMMA NoneStored == IsFiniteSet({}) /\ Cardinality({}) = 0
BY FS_EmptySet

LEMMA InitStrong == ASSUME QueueAssumption, Init PROVE QueueStrong
<1>1. Queued \in JobType /\ [Queued EXCEPT !.status = "none"] \in JobType
  BY DEF Queued, JobType
<1>2. job \in [Jobs -> JobType]
  BY <1>1 DEF Init
<1>3. \A j \in Jobs : job[j].status # "done"
  BY DEF Init, Queued
<1>4. match \in [Games -> MatchType] /\ \A g \in Games : match[g].status = "none"
  BY DEF Init, MatchType
<1>5. call \in [Runners -> [Slots -> CallType]]
      /\ \A r \in Runners, k \in Slots : call[r][k].pc = "none"
  BY NewCalls DEF Init
<1>6. hand \in [Runners -> HandType] /\ \A r \in Runners : hand[r].step = "idle"
  BY NewHands DEF Init, Idle
<1>7. TypeOK
  BY <1>2, <1>4, <1>5, <1>6, NoneStored DEF TypeOK, Init
<1>8. Counted = {}
  BY <1>4 DEF Counted
<1>9. SmokeVerdict = "none"
  BY <1>8, NoneStored DEF SmokeVerdict
<1>10. Fenced
  BY <1>5, <1>6 DEF Fenced, JobFenced, Starting, ReportsOn, Holds, HandReportsOn
<1>11. Decided /\ Recordings /\ ReadyEarned
  BY <1>4, <1>5, <1>9 DEF Decided, Recordings, ReadyEarned, Init
<1>12. DoneMeansPlayed
  BY <1>3 DEF DoneMeansPlayed, Jobs
<1> QED  BY <1>7, <1>10, <1>11, <1>12 DEF QueueStrong

(* A job is handed out: its attempt is ahead of all that was. *)
LEMMA LeaseKeeps ==
  ASSUME QueueAssumption, QueueStrong, NEW r \in Runners, NEW k \in Slots, NEW j \in Jobs,
         LeaseJob(r, k, j),
         \/ hand[r] = Idle /\ call[r][k] = NoCall
         \/ call[r][k].pc = "lease",
         UNCHANGED <<match, sub, faults, requeued, cut, clean>>
  PROVE  QueueStrong'
<1> DEFINE n == job[j].attempts + 1
           y == [status |-> "leased", attempts |-> n, holder |-> r, late |-> FALSE]
<1>1. TypeOK /\ DoneMeansPlayed /\ ReadyEarned /\ Fenced /\ Decided /\ Recordings
  BY DEF QueueStrong
<1>2. /\ job' = [job EXCEPT ![j] = y] /\ y \in JobType /\ n \in Nat
      /\ job[j].status = "queued"
      /\ \/ /\ j \in Checks
            /\ OneCall(r, k, NoCall)
            /\ \E h \in {Holding(j, n), hand[r]} : OneHand(r, h)
         \/ /\ j \in Games
            /\ \E x \in StartType : x.job = j /\ x.attempt = n /\ OneCall(r, k, x)
            /\ \E h \in {Claimant, hand[r]} : OneHand(r, h)
  BY <1>1, LeaseJobIs
<1>3. y.status = "leased" /\ y.attempts = n
  OBVIOUS
<1>4. job'[j] = y /\ \A i \in Jobs : i # j => job'[i] = job[i]
  BY <1>1, <1>2 DEF TypeOK
<1>5. job' \in [Jobs -> JobType]
  BY <1>1, <1>2 DEF TypeOK
<1> HIDE DEF y
<1>6. PICK x, h : /\ OneCall(r, k, x) /\ OneHand(r, h) /\ x.pc \in {"none", "start"}
                  /\ x.pc = "start" => /\ x \in StartType /\ x.job = j /\ x.attempt = n
                                       /\ j \in Games /\ h \in {Claimant, hand[r]}
                  /\ x.pc = "none" => h \in {Holding(j, n), hand[r]} /\ j \in Checks
  BY <1>2, NewCalls DEF StartType
<1>7. TypeOK'
  BY <1>1, <1>5, <1>6 DEF TypeOK, OneCall, OneHand
<1>8. DoneMeansPlayed' /\ ReadyEarned'
  <2>1. \A i \in Jobs : job'[i].status = "done" => job[i].status = "done"
    BY <1>3, <1>4
  <2> QED  BY <1>1, <2>1 DEF DoneMeansPlayed, ReadyEarned, Jobs
<1>9. Recordings'
  BY <1>1, <1>6, RecordingsOne
<1>10. Decided'
  <2>1. ChecksOver' => ChecksOver
    BY <1>3, <1>4, OverBefore DEF Jobs
  <2>2. call[r][k].pc \notin {"after", "verdict"}
    BY NewCalls
  <2>3. WillDecide => WillDecide'
    BY <1>6, <2>2, WillDecideOne
  <2> QED  BY <1>1, <2>1, <2>3, SameGames, DecidedKept
<1>11. Fenced'
  <2> SUFFICES ASSUME NEW i \in Games, i \notin requeued'  PROVE JobFenced(i)'
    BY DEF Fenced
  <2>1. i \in Jobs /\ JobFenced(i)
    BY <1>1 DEF Jobs, Fenced
  <2>2. call[r][k].pc \notin {"start", "complete", "fail"}
    BY NewCalls
  <2>3. job[i].attempts \in Nat
    BY <1>1, <2>1 DEF TypeOK, JobType
  <2>4. CASE i # j \/ x.pc = "none"
    <3>1. job'[i].attempts >= job[i].attempts /\ (job'[i].status = "done" => job[i].status = "done")
      BY <1>3, <1>4, <2>1, <2>3
    <3>2. ~Starting(x, i) /\ ~ReportsOn(x, i)
      BY <1>6, <2>4 DEF Starting, ReportsOn
    <3>3. h = hand[r] \/ (~Holds(h, i) /\ ~HandReportsOn(h, i))
      <4>1. i # j \/ j \in Checks
        BY <1>6, <2>4
      <4>2. i # j
        BY <4>1 DEF QueueAssumption
      <4> QED  BY <1>6, <4>2 DEF Holds, HandReportsOn, Holding, Claimant
    <3>4. HandReportsOn(hand[r], i) => Holds(hand[r], i)
      BY DEF HandReportsOn, Holds
    <3> QED  BY <1>1, <1>6, <1>7, <3>1, <3>2, <3>3, <3>4, FencedOne
  <2>5. CASE i = j /\ x.pc = "start"
    <3>1. job'[i].attempts = job[i].attempts + 1 /\ job'[i].status # "done"
      BY <1>3, <1>4, <2>5
    <3>2. Starting(x, i) /\ ~ReportsOn(x, i) /\ x.attempt = job[i].attempts + 1
      BY <1>6, <2>5 DEF Starting, ReportsOn
    <3>3. \A s \in Runners : Holds(hand'[s], i) => hand'[s] = hand[s]
      BY <1>6, <2>5 DEF OneHand, Holds, Claimant
    <3>4. \A s \in Runners, l \in Slots : ReportsOn(call'[s][l], i) => call'[s][l] = call[s][l]
      BY <1>6, <3>2 DEF OneCall
    <3>5. \A s \in Runners, l \in Slots :
            call'[s][l] = x \/ call'[s][l] = call[s][l]
      BY <1>6 DEF OneCall
    <3>6. ASSUME NEW s \in Runners, Holds(hand'[s], i)
          PROVE  hand'[s].attempt <= job'[i].attempts /\ hand'[s].attempt < x.attempt
                 /\ hand'[s] = hand[s]
      <4>1. hand[s].attempt <= job[i].attempts /\ hand[s].attempt \in Nat /\ hand'[s] = hand[s]
        BY <1>1, <2>1, <3>3, <3>6, Attempts DEF JobFenced
      <4> QED  BY <2>3, <3>1, <3>2, <4>1
    <3>7. ASSUME NEW s \in Runners, NEW l \in Slots, ReportsOn(call'[s][l], i)
          PROVE  call'[s][l].attempt <= job'[i].attempts /\ call'[s][l].attempt < x.attempt
                 /\ call'[s][l] = call[s][l]
      <4>1. call[s][l].attempt <= job[i].attempts /\ call[s][l].attempt \in Nat
            /\ call'[s][l] = call[s][l]
        BY <1>1, <2>1, <3>4, <3>7, Attempts DEF JobFenced
      <4> QED  BY <2>3, <3>1, <3>2, <4>1
    <3>8. ASSUME NEW s \in Runners, NEW l \in Slots, Starting(call'[s][l], i)
          PROVE  call'[s][l].attempt <= job'[i].attempts
      <4>1. CASE call'[s][l] = x
        BY <2>3, <3>1, <3>2, <4>1
      <4>2. CASE call'[s][l] = call[s][l]
        <5>1. call[s][l].attempt <= job[i].attempts /\ call[s][l].attempt \in Nat
          BY <1>1, <2>1, <3>8, <4>2, Attempts DEF JobFenced
        <5> QED  BY <2>3, <3>1, <4>2, <5>1
      <4> QED  BY <3>5, <4>1, <4>2
    <3>9. ASSUME NEW s \in Runners, NEW l \in Slots, Starting(call'[s][l], i),
                 NEW t \in Runners, NEW m \in Slots
          PROVE  /\ ReportsOn(call'[t][m], i) => call'[t][m].attempt < call'[s][l].attempt
                 /\ HandReportsOn(hand'[t], i) => hand'[t].attempt < call'[s][l].attempt
      <4>1. HandReportsOn(hand'[t], i) => Holds(hand'[t], i)
        BY DEF HandReportsOn, Holds
      <4>2. CASE call'[s][l] = x
        BY <3>6, <3>7, <4>1, <4>2
      <4>3. CASE call'[s][l] = call[s][l]
        BY <2>1, <3>6, <3>7, <3>9, <4>1, <4>3 DEF JobFenced
      <4> QED  BY <3>5, <4>2, <4>3
    <3> QED  BY <3>1, <3>6, <3>7, <3>8, <3>9 DEF JobFenced
  <2> QED  BY <1>6, <2>4, <2>5
<1> QED  BY <1>7, <1>8, <1>9, <1>10, <1>11 DEF QueueStrong

(* Calls come to nothing or lose their runners, slots are given up or excused. *)
Fewer(c, d) ==
  \/ d = NoCall \/ d = c
  \/ c # NoCall /\ d = [c EXCEPT !.orphan = TRUE]
Less(h, i) ==
  \/ i = Idle \/ i = h
  \/ h \in HandReports /\ i \in HandReports /\ i.job = h.job /\ i.attempt = h.attempt

LEMMA FewerIs ==
  ASSUME NEW c \in CallType, NEW d, Fewer(c, d)
  PROVE  /\ d \in CallType
         /\ d = NoCall \/ d.pc = c.pc
         /\ d.pc \in {"start", "complete", "fail"} => d.job = c.job /\ d.attempt = c.attempt
         /\ d.pc = "verdict" => d.verdict = c.verdict
<1>1. CASE d = NoCall \/ d = c
  BY <1>1, NewCalls
<1>2. CASE c # NoCall /\ d = [c EXCEPT !.orphan = TRUE]
  <2>1. d \in CallType
    BY <1>2, NewCalls
  <2>2. c \in PollType \cup StartType \cup ReportType \cup DecideType
    BY <1>2 DEF CallType
  <2>3. d.pc = c.pc
    BY <1>2, <2>2 DEF PollType, StartType, ReportType, DecideType
  <2>4. CASE c \in PollType
    BY <1>2, <2>1, <2>3, <2>4 DEF PollType
  <2>5. CASE c \in StartType
    BY <1>2, <2>1, <2>3, <2>5 DEF StartType
  <2>6. CASE c \in ReportType
    <3>1. c.pc \in {"complete", "fail"}
      BY <2>6 DEF ReportType
    <3>2. d.job = c.job /\ d.attempt = c.attempt
      BY <1>2, <2>6 DEF ReportType
    <3> QED  BY <2>1, <2>3, <3>1, <3>2
  <2>7. CASE c \in DecideType
    BY <1>2, <2>1, <2>3, <2>7 DEF DecideType
  <2> QED  BY <2>2, <2>4, <2>5, <2>6, <2>7
<1> QED  BY <1>1, <1>2 DEF Fewer

LEMMA QuietKeeps ==
  ASSUME QueueStrong,
         UNCHANGED <<job, match, sub, requeued, clean>>, cut => cut',
         call' \in [Runners -> [Slots -> CallType]], hand' \in [Runners -> HandType],
         \A r \in Runners, k \in Slots : Fewer(call[r][k], call'[r][k]),
         \A r \in Runners : Less(hand[r], hand'[r]),
         WillDecide => WillDecide' \/ cut'
  PROVE  QueueStrong'
<1>1. TypeOK /\ DoneMeansPlayed /\ ReadyEarned /\ Fenced /\ Decided /\ Recordings
  BY DEF QueueStrong
<1>2. UNCHANGED job /\ UNCHANGED match /\ UNCHANGED sub /\ UNCHANGED requeued /\ UNCHANGED clean
  OBVIOUS
<1>3. TypeOK'
  BY <1>1, <1>2 DEF TypeOK
<1>4. DoneMeansPlayed' /\ ReadyEarned'
  BY <1>1, <1>2 DEF DoneMeansPlayed, ReadyEarned
<1>5. ASSUME NEW r \in Runners, NEW k \in Slots
      PROVE  /\ call'[r][k] = NoCall \/ call'[r][k].pc = call[r][k].pc
             /\ call'[r][k].pc \in {"start", "complete", "fail"} =>
                  call'[r][k].job = call[r][k].job /\ call'[r][k].attempt = call[r][k].attempt
             /\ call'[r][k].pc = "verdict" => call'[r][k].verdict = call[r][k].verdict
  <2>1. call[r][k] \in CallType
    BY <1>1 DEF TypeOK
  <2> QED  BY <2>1, FewerIs
<1>6. Recordings'
  <2>1. \A r \in Runners, k \in Slots :
          call'[r][k].pc = "verdict" /\ call'[r][k].verdict = "ready" =>
            call[r][k].pc = "verdict" /\ call[r][k].verdict = "ready"
    BY <1>5, NewCalls
  <2> QED  BY <1>1, <1>2, <2>1, RecordingsKept DEF TypeOK
<1>7. Decided'
  <2>1. ChecksOver' => ChecksOver
    BY <1>2 DEF ChecksOver
  <2> QED  BY <1>1, <1>2, <2>1, SameGames, DecidedKept
<1>8. Fenced'
  <2> SUFFICES ASSUME NEW j \in Games, j \notin requeued'  PROVE JobFenced(j)'
    BY DEF Fenced
  <2>1. job'[j].attempts >= job[j].attempts /\ (job'[j].status = "done" => job[j].status = "done")
    BY <1>1, <1>2 DEF TypeOK, JobType, Jobs
  <2>2. ASSUME NEW r \in Runners, NEW k \in Slots
        PROVE  /\ Starting(call'[r][k], j) =>
                    Starting(call[r][k], j) /\ call'[r][k].attempt = call[r][k].attempt
               /\ ReportsOn(call'[r][k], j) => ReportKept(call[r][k], call'[r][k].attempt, hand[r], j)
    BY <1>5, NewCalls DEF Starting, ReportsOn, ReportKept
  <2>3. ASSUME NEW r \in Runners
        PROVE  /\ Holds(hand'[r], j) => Holds(hand[r], j) /\ hand'[r].attempt = hand[r].attempt
               /\ HandReportsOn(hand'[r], j) =>
                    HandReportsOn(hand[r], j) /\ hand'[r].attempt = hand[r].attempt
    <3>1. CASE hand'[r] = Idle \/ hand'[r] = hand[r]
      BY <3>1 DEF Holds, HandReportsOn, Idle
    <3>2. CASE /\ hand[r] \in HandReports /\ hand'[r] \in HandReports
               /\ hand'[r].job = hand[r].job /\ hand'[r].attempt = hand[r].attempt
      BY <3>2 DEF Holds, HandReportsOn, HandReports
    <3> QED  BY <3>1, <3>2 DEF Less
  <2>4. \A r \in Runners : HandReportsOn(hand'[r], j) => Holds(hand'[r], j)
    BY DEF HandReportsOn, Holds
  <2> QED  BY <1>1, <1>2, <1>3, <2>1, <2>2, <2>3, <2>4, FencedKept
<1> QED  BY <1>3, <1>4, <1>6, <1>7, <1>8 DEF QueueStrong

(* One call ends or loses its runner. *)
LEMMA FewerOne ==
  ASSUME QueueStrong, NEW r \in Runners, NEW k \in Slots, NEW x, NEW h,
         OneCall(r, k, x), OneHand(r, h), Fewer(call[r][k], x), Less(hand[r], h),
         UNCHANGED <<job, match, sub, requeued, clean>>, cut => cut',
         \/ call[r][k].pc \notin {"after", "verdict"} \/ cut'
         \/ x # NoCall
  PROVE  QueueStrong'
<1>1. \A s \in Runners, l \in Slots : Fewer(call[s][l], call'[s][l])
  BY DEF OneCall, Fewer
<1>2. \A s \in Runners : Less(hand[s], hand'[s])
  BY DEF OneHand, Less
<1>3. ASSUME WillDecide, x # NoCall  PROVE WillDecide'
  <2>1. PICK s \in Runners, l \in Slots :
          call[s][l].pc = "after" \/ (call[s][l].pc = "verdict" /\ call[s][l].verdict # "none")
    BY <1>3 DEF WillDecide
  <2>2. call'[s][l] # NoCall
    BY <1>3, <2>1, NewCalls DEF OneCall
  <2>3. call[s][l] \in CallType
    BY DEF QueueStrong, TypeOK
  <2>4. /\ call'[s][l].pc = call[s][l].pc
        /\ call'[s][l].pc = "verdict" => call'[s][l].verdict = call[s][l].verdict
    BY <1>1, <2>2, <2>3, FewerIs
  <2> QED  BY <2>1, <2>4 DEF WillDecide
<1>4. WillDecide => WillDecide' \/ cut'
  BY <1>3, WillDecideOne
<1>5. call' \in [Runners -> [Slots -> CallType]] /\ hand' \in [Runners -> HandType]
  BY DEF OneCall, OneHand
<1> QED  BY <1>1, <1>2, <1>4, <1>5, QuietKeeps

LEMMA ClaimKeeps ==
  ASSUME QueueAssumption, QueueStrong, NEW r \in Runners, NEW k \in Slots, Claim(r, k)
  PROVE  QueueStrong'
<1>1. TypeOK /\ DoneMeansPlayed /\ ReadyEarned /\ Fenced /\ Decided /\ Recordings
  BY DEF QueueStrong
<1>2. hand[r] = Idle /\ call[r][k] = NoCall
  BY <1>1, HandKinds DEF Claim, MayCall, Free, TypeOK
<1>3. UNCHANGED match /\ UNCHANGED sub /\ UNCHANGED requeued /\ UNCHANGED cut /\ UNCHANGED clean
  BY DEF Claim
<1>4. CASE Expired = {}
  <2>1. PICK j \in Jobs : LeaseJob(r, k, j)
    BY <1>4 DEF Claim
  <2> QED  BY <1>2, <2>1, LeaseKeeps DEF Claim
<1>5. CASE Expired # {}
  <2> DEFINE e == {<<g, ExpiredStatus(g)>> : g \in Expired \cap Games}
             x == Claiming("expired", None, 0, e)
  <2>1. \A i \in Expired : ExpiredStatus(i) \in {"queued", "failed"} /\ i \in Jobs
    BY <1>1, StatusOfExpired DEF Expired, ExpiredStatus, TypeOK, JobType
  <2>2. e \in SUBSET Expiry
    BY <2>1 DEF Expiry
  <2>3. call' = [call EXCEPT ![r][k] = x]
    BY <1>5 DEF Claim, Calls
  <2> HIDE DEF e
  <2>4. x \in PollType /\ x.pc = "expired"
    BY <2>2 DEF PollType, Claiming
  <2> HIDE DEF x
  <2>5. OneCall(r, k, x)
    BY <1>1, <2>3, <2>4, CallSet, NewCalls
  <2>6. [hand[r] EXCEPT !.step = "claiming"] = Claimant
    BY <1>2 DEF Idle, Claimant
  <2>7. hand' = [hand EXCEPT ![r] = Claimant]
    BY <1>5, <2>6 DEF Claim
  <2>8. OneHand(r, Claimant)
    BY <1>1, <2>7, HandSet, NewHands
  <2>9. job' = [i \in Jobs |-> IF i \in Expired THEN Released(i, ExpiredStatus(i)) ELSE job[i]]
    BY <1>5 DEF Claim
  <2>10. ASSUME NEW i \in Jobs
         PROVE  /\ job'[i] \in JobType /\ job'[i].attempts = job[i].attempts
                /\ job'[i].status \in {"queued", "failed"} \/ job'[i].status = job[i].status
    <3>1. CASE i \in Expired
      BY <1>1, <2>1, <2>9, <3>1, ReleasedType
    <3>2. CASE i \notin Expired
      BY <1>1, <2>9, <3>2 DEF TypeOK
    <3> QED  BY <3>1, <3>2
  <2>11. TypeOK'
    BY <1>1, <1>3, <2>5, <2>8, <2>9, <2>10 DEF TypeOK, OneCall, OneHand
  <2>12. DoneMeansPlayed' /\ ReadyEarned'
    BY <1>1, <1>3, <2>10 DEF DoneMeansPlayed, ReadyEarned, Jobs
  <2>13. Recordings'
    BY <1>1, <1>3, <2>4, <2>5, RecordingsOne
  <2>14. Decided'
    <3>1. ChecksOver' => ChecksOver
      BY <2>10, OverBefore DEF Jobs
    <3>2. WillDecide => WillDecide'
      BY <1>2, <2>5, NewCalls, WillDecideOne
    <3> QED  BY <1>1, <1>3, <3>1, <3>2, SameGames, DecidedKept
  <2>15. Fenced'
    <3> SUFFICES ASSUME NEW i \in Games, i \notin requeued'  PROVE JobFenced(i)'
      BY DEF Fenced
    <3>1. job'[i].attempts >= job[i].attempts /\ (job'[i].status = "done" => job[i].status = "done")
      BY <1>1, <2>10 DEF TypeOK, JobType, Jobs
    <3>2. ~Starting(x, i) /\ ~ReportsOn(x, i) /\ ~Holds(Claimant, i) /\ ~HandReportsOn(Claimant, i)
      BY <2>4 DEF Starting, ReportsOn, Holds, HandReportsOn, Claimant
    <3> QED  BY <1>1, <1>3, <2>5, <2>8, <2>11, <3>1, <3>2, FencedOne
  <2> QED  BY <2>11, <2>12, <2>13, <2>14, <2>15 DEF QueueStrong
<1> QED  BY <1>4, <1>5

LEMMA LeaseOneKeeps ==
  ASSUME QueueAssumption, QueueStrong, NEW r \in Runners, NEW k \in Slots, LeaseOne(r, k)
  PROVE  QueueStrong'
<1>1. TypeOK /\ call[r][k].pc = "lease"
  BY DEF QueueStrong, LeaseOne
<1>2. CASE \E j \in Jobs : LeaseJob(r, k, j)
  BY <1>1, <1>2, LeaseKeeps DEF LeaseOne
<1>3. CASE Answered(r, k, Idle) /\ UNCHANGED job
  <2>1. PICK h \in {Idle, hand[r]} : OneHand(r, h)
    BY <1>1, <1>3, AnsweredIs, NewHands
  <2>2. OneCall(r, k, NoCall)
    BY <1>1, <1>3, AnsweredIs, NewHands
  <2>3. UNCHANGED <<job, match, sub, requeued, clean>> /\ UNCHANGED cut
    BY <1>3 DEF LeaseOne
  <2>4. Fewer(call[r][k], NoCall) /\ Less(hand[r], h)
    BY DEF Fewer, Less
  <2> QED  BY <1>1, <2>1, <2>2, <2>3, <2>4, FewerOne
<1> QED  BY <1>2, <1>3 DEF LeaseOne

(* The games of expired leases: only those that run are touched. *)
LEMMA ExpireMatchesKeeps ==
  ASSUME QueueAssumption, QueueStrong, NEW r \in Runners, NEW k \in Slots, ExpireMatches(r, k)
  PROVE  QueueStrong'
<1>1. TypeOK /\ DoneMeansPlayed /\ ReadyEarned /\ Fenced /\ Decided /\ Recordings
  BY DEF QueueStrong
<1> DEFINE c == call[r][k]
           x == [c EXCEPT !.pc = "lease", !.expired = {}]
<1>2. c \in PollType
  BY <1>1, CallKinds DEF ExpireMatches, TypeOK
<1>3. UNCHANGED job /\ UNCHANGED sub /\ UNCHANGED hand /\ UNCHANGED requeued /\ UNCHANGED cut
      /\ UNCHANGED clean /\ c.pc = "expired"
  BY DEF ExpireMatches
<1>4. call' = [call EXCEPT ![r][k] = x]
  BY <1>1 DEF ExpireMatches, TypeOK
<1>5. x \in PollType /\ x.pc = "lease"
  BY <1>2 DEF PollType
<1>6. c.expired \subseteq Expiry
  BY <1>2 DEF PollType
<1> HIDE DEF x
<1>7. OneCall(r, k, x) /\ OneHand(r, hand[r])
  BY <1>1, <1>3, <1>4, <1>5, CallSet, NewCalls, SameHands
<1>8. ASSUME NEW g \in Games
      PROVE  /\ match'[g] \in MatchType
             /\ \/ match'[g] = match[g]
                \/ match[g].status = "running" /\ match'[g].status \in {"queued", "failed"}
  <2> DEFINE p == CHOOSE q \in c.expired : q[1] = g
  <2>1. CASE \E q \in c.expired : q[1] = g /\ Resettable(g)
    <3>1. p \in Expiry
      BY <1>6, <2>1
    <3>2. p[2] \in {"queued", "failed"}
      BY <3>1 DEF Expiry
    <3>3. match'[g] = PutBack(g, p[2])[g]
      BY <2>1 DEF ExpireMatches
    <3> HIDE DEF p
    <3>4. match'[g] = [status |-> p[2], result |-> "none"]
      BY <1>1, <3>2, <3>3, PutBackType
    <3>5. match'[g] \in MatchType
      BY <3>2, <3>4 DEF MatchType
    <3> QED  BY <2>1, <3>2, <3>4, <3>5 DEF Resettable
  <2>2. CASE ~ \E q \in c.expired : q[1] = g /\ Resettable(g)
    BY <1>1, <2>2 DEF ExpireMatches, TypeOK
  <2> QED  BY <2>1, <2>2
<1>9. match' \in [Games -> MatchType]
  <2>1. match' = [g \in Games |-> match'[g]]
    BY DEF ExpireMatches
  <2> QED  BY <1>8, <2>1
<1>10. TypeOK'
  BY <1>1, <1>3, <1>7, <1>9 DEF TypeOK, OneCall
<1>11. DoneMeansPlayed' /\ ReadyEarned'
  BY <1>1, <1>3, <1>8 DEF DoneMeansPlayed, ReadyEarned
<1>12. Recordings'
  BY <1>1, <1>3, <1>5, <1>7, <1>8, RecordingsOne
<1>13. Decided'
  <2>1. ChecksOver' => ChecksOver
    BY <1>3 DEF ChecksOver
  <2>2. WillDecide => WillDecide'
    BY <1>3, <1>7, WillDecideOne
  <2>3. SmokeVerdict' # "none" => SmokeVerdict # "none"
    <3>1. CASE \A g \in Games : match'[g] = match[g]
      <4>1. match' = match
        BY <1>1, <1>9, <3>1 DEF TypeOK
      <4> QED  BY <4>1, SameGames
    <3>2. CASE \E g \in Games : match'[g] # match[g]
      BY <1>8, <3>2, PendingGamesNext
    <3> QED  BY <3>1, <3>2
  <2> QED  BY <1>1, <1>3, <2>1, <2>2, <2>3, DecidedKept
<1>14. Fenced'
  <2> SUFFICES ASSUME NEW i \in Games, i \notin requeued'  PROVE JobFenced(i)'
    BY DEF Fenced
  <2>1. job'[i].attempts >= job[i].attempts /\ (job'[i].status = "done" => job[i].status = "done")
    BY <1>1, <1>3 DEF TypeOK, JobType, Jobs
  <2>2. ~Starting(x, i) /\ ~ReportsOn(x, i)
    BY <1>5 DEF Starting, ReportsOn
  <2>3. HandReportsOn(hand[r], i) => Holds(hand[r], i)
    BY DEF HandReportsOn, Holds
  <2> QED  BY <1>1, <1>3, <1>7, <1>10, <2>1, <2>2, <2>3, FencedOne
<1> QED  BY <1>10, <1>11, <1>12, <1>13, <1>14 DEF QueueStrong

(* The game is marked as running: its job is not done, the claim's attempt is the latest. *)
LEMMA StartMatchKeeps ==
  ASSUME QueueAssumption, QueueStrong, NEW r \in Runners, NEW k \in Slots, StartMatch(r, k)
  PROVE  QueueStrong'
<1>1. TypeOK /\ DoneMeansPlayed /\ ReadyEarned /\ Fenced /\ Decided /\ Recordings
  BY DEF QueueStrong
<1> DEFINE g == call[r][k].job
           n == call[r][k].attempt
<1>2. g \in Games /\ n \in Nat /\ call[r][k].pc = "start"
  BY <1>1, CallKinds DEF StartMatch, TypeOK, StartType
<1>3. UNCHANGED job /\ UNCHANGED sub /\ UNCHANGED requeued /\ UNCHANGED cut /\ UNCHANGED clean
  BY DEF StartMatch
<1>4. match' = PutBack(g, "running") /\ Answered(r, k, Holding(g, n))
  BY DEF StartMatch
<1> HIDE DEF g, n
<1>5. /\ match' \in [Games -> MatchType]
      /\ match'[g].status = "running"
      /\ \A h \in Games : h # g => match'[h] = match[h]
  BY <1>1, <1>2, <1>4, PutBackType
<1>6. Holding(g, n) \in HandType
  BY <1>2, NewHands DEF Jobs
<1>7. OneCall(r, k, NoCall) /\ \E h \in {Holding(g, n), hand[r]} : OneHand(r, h)
  BY <1>1, <1>4, <1>6, AnsweredIs
<1>8. PICK h \in {Holding(g, n), hand[r]} : OneHand(r, h)
  BY <1>7
<1>9. TypeOK'
  BY <1>1, <1>3, <1>5, <1>7, <1>8 DEF TypeOK, OneCall, OneHand
<1>10. DoneMeansPlayed' /\ ReadyEarned'
  <2>1. g \notin requeued => job[g].status # "done"
    BY <1>1, <1>2 DEF Fenced, JobFenced, Starting, g
  <2> QED  BY <1>1, <1>3, <1>5, <2>1 DEF DoneMeansPlayed, ReadyEarned
<1>11. Recordings'
  <2>1. \A i \in Games : match'[i].status = "finished" => match'[i] = match[i]
    BY <1>5
  <2> QED  BY <1>1, <1>3, <1>7, <2>1, NewCalls, RecordingsOne
<1>12. Decided'
  <2>1. ChecksOver' => ChecksOver
    BY <1>3 DEF ChecksOver
  <2>2. WillDecide => WillDecide'
    BY <1>2, <1>7, WillDecideOne
  <2>3. SmokeVerdict' = "none"
    BY <1>2, <1>5, PendingGamesNext
  <2> QED  BY <1>1, <1>3, <2>1, <2>2, <2>3, DecidedKept
<1>13. Fenced'
  <2> SUFFICES ASSUME NEW i \in Games, i \notin requeued'  PROVE JobFenced(i)'
    BY DEF Fenced
  <2>1. job'[i].attempts >= job[i].attempts /\ (job'[i].status = "done" => job[i].status = "done")
    BY <1>1, <1>3 DEF TypeOK, JobType, Jobs
  <2>2. ~Starting(NoCall, i) /\ ~ReportsOn(NoCall, i)
    BY NewCalls DEF Starting, ReportsOn
  <2>3. HandReportsOn(hand[r], i) => Holds(hand[r], i)
    BY DEF HandReportsOn, Holds
  <2>4. h = Holding(g, n) =>
          ~HandReportsOn(h, i) /\ (Holds(h, i) => Starting(call[r][k], i) /\ h.attempt = call[r][k].attempt)
    BY <1>2 DEF HandReportsOn, Holds, Holding, Starting, g, n
  <2> QED  BY <1>1, <1>3, <1>7, <1>8, <1>9, <2>1, <2>2, <2>3, <2>4, FencedOne
<1> QED  BY <1>9, <1>10, <1>11, <1>12, <1>13 DEF QueueStrong

(* A report is sent: by a slot that holds the job, while nobody claims it. *)
LEMMA ReportKeeps ==
  ASSUME QueueAssumption, QueueStrong, NEW r \in Runners, NEW k \in Slots,
         Work(r, k) \/ Repeat(r, k)
  PROVE  QueueStrong'
<1>1. TypeOK /\ DoneMeansPlayed /\ ReadyEarned /\ Fenced /\ Decided /\ Recordings
  BY DEF QueueStrong
<1>2. /\ hand[r] \in WorkType \cup HandReports
      /\ hand[r] \in WorkType => ~BeingClaimed(hand[r].job)
  BY <1>1, WorkIs
<1>3. PICK st \in {"complete", "fail"}, b \in Bodies :
        [hand[r] EXCEPT !.step = st, !.body = b] \in HandReports /\ Report(r, k, st, b)
  BY <1>1, WorkIs
<1>4. UNCHANGED <<job, match, sub, requeued, cut, clean>> /\ call[r][k] = NoCall
  BY <1>1, <1>2, <1>3, ReportIs
<1>5. CASE OneCall(r, k, NoCall) /\ \E h \in {Idle, hand[r]} : OneHand(r, h)
  <2>1. PICK h \in {Idle, hand[r]} : OneHand(r, h)
    BY <1>5
  <2>2. Fewer(call[r][k], NoCall) /\ Less(hand[r], h)
    BY DEF Fewer, Less
  <2>3. call[r][k].pc \notin {"after", "verdict"} /\ (cut => cut')
    BY <1>4, NewCalls
  <2> QED  BY <1>4, <1>5, <2>1, <2>2, <2>3, FewerOne
<1>6. ASSUME NEW x \in ReportType, NEW h \in HandReports,
             x.job = hand[r].job, x.attempt = hand[r].attempt,
             h.job = hand[r].job, h.attempt = hand[r].attempt,
             OneCall(r, k, x), OneHand(r, h)
      PROVE  QueueStrong'
  <2>1. UNCHANGED job /\ UNCHANGED match /\ UNCHANGED sub /\ UNCHANGED requeued
        /\ UNCHANGED cut /\ UNCHANGED clean
    BY <1>4
  <2>2. x.pc \in {"complete", "fail"} /\ x \in CallType
    BY <1>6, NewCalls DEF ReportType
  <2>3. TypeOK'
    BY <1>1, <1>6, <2>1 DEF TypeOK, OneCall, OneHand
  <2>4. DoneMeansPlayed' /\ ReadyEarned'
    BY <1>1, <2>1 DEF DoneMeansPlayed, ReadyEarned
  <2>5. Recordings'
    BY <1>1, <1>6, <2>1, <2>2, RecordingsOne
  <2>6. Decided'
    <3>1. ChecksOver' => ChecksOver
      BY <2>1 DEF ChecksOver
    <3>2. WillDecide => WillDecide'
      BY <1>4, <1>6, NewCalls, WillDecideOne
    <3> QED  BY <1>1, <2>1, <3>1, <3>2, SameGames, DecidedKept
  <2>7. Fenced'
    <3> SUFFICES ASSUME NEW i \in Games, i \notin requeued'  PROVE JobFenced(i)'
      BY DEF Fenced
    <3>1. job'[i].attempts >= job[i].attempts /\ (job'[i].status = "done" => job[i].status = "done")
      BY <1>1, <2>1 DEF TypeOK, JobType, Jobs
    <3>2. hand[r].step \in {"work", "complete", "fail"} /\ h.step \in {"complete", "fail"}
      BY <1>2, <1>6 DEF WorkType, HandReports
    <3>3. hand[r] \in WorkType \/ hand[r].step \in {"complete", "fail"}
      BY <1>2 DEF HandReports
    <3>4. hand[r].job = i => HandReportsOn(hand[r], i) \/ NoClaim(i)
      BY <1>2, <3>3 DEF HandReportsOn, NoClaim, BeingClaimed, Starting
    <3>5. ~Starting(x, i) /\ (ReportsOn(x, i) => x.job = i)
      BY <2>2 DEF Starting, ReportsOn
    <3>6. hand[r].job = i => Holds(hand[r], i)
      BY <3>2 DEF Holds
    <3>7. Holds(h, i) \/ HandReportsOn(h, i) => hand[r].job = i
      BY <1>6 DEF Holds, HandReportsOn
    <3>8. ReportsOn(x, i) => ReportKept(call[r][k], x.attempt, hand[r], i)
      BY <1>6, <3>4, <3>5, <3>6 DEF ReportKept
    <3> QED  BY <1>1, <1>6, <2>1, <2>3, <3>1, <3>4, <3>5, <3>6, <3>7, <3>8, FencedOne
  <2> QED  BY <2>3, <2>4, <2>5, <2>6, <2>7 DEF QueueStrong
<1> QED  BY <1>1, <1>2, <1>3, <1>5, <1>6, ReportIs

(* A call of a report ends with the runner's slot free: only the job's and the game's rows *)
(* are left to look at.                                                                    *)
LEMMA ReportCalls ==
  ASSUME TypeOK, NEW r \in Runners, NEW k \in Slots, call[r][k].pc \in {"complete", "fail"}
  PROVE  LET c == call[r][k] IN
         /\ c.job \in Jobs /\ c.attempt \in Nat
         /\ c.pc = "complete" /\ c.job \in Checks => c.body \in {"builds", "broken"} \/ c.job \in Games
         /\ c.body \in {"forged", "clean", "fault"} => c.job \in Games
<1>1. call[r][k] \in ReportType
  BY CallKinds DEF TypeOK
<1> QED  BY <1>1 DEF ReportType, Jobs

LEMMA AnsweredFences ==
  ASSUME TypeOK, TypeOK', Fenced, NEW r \in Runners, NEW k \in Slots, Answered(r, k, Idle),
         NEW j \in Games, j \notin requeued', requeued \subseteq requeued',
         job'[j].attempts >= job[j].attempts,
         job'[j].status = "done" => job[j].status = "done" \/ NoClaim(j)
  PROVE  JobFenced(j)'
<1>1. PICK h \in {Idle, hand[r]} : OneHand(r, h)
  BY AnsweredIs, NewHands
<1>2. OneCall(r, k, NoCall)
  BY AnsweredIs, NewHands
<1>3. ~Starting(NoCall, j) /\ ~ReportsOn(NoCall, j)
  BY NewCalls DEF Starting, ReportsOn
<1>4. HandReportsOn(hand[r], j) => Holds(hand[r], j)
  BY DEF HandReportsOn, Holds
<1>5. ~Holds(Idle, j) /\ ~HandReportsOn(Idle, j)
  BY DEF Holds, HandReportsOn, Idle
<1> QED  BY <1>1, <1>2, <1>3, <1>4, <1>5, FencedOne

LEMMA AnsweredTypes ==
  ASSUME TypeOK, NEW r \in Runners, NEW k \in Slots, Answered(r, k, Idle)
  PROVE  /\ call' \in [Runners -> [Slots -> CallType]] /\ hand' \in [Runners -> HandType]
         /\ OneCall(r, k, NoCall)
BY AnsweredIs, NewHands DEF OneCall, OneHand

\* A report of the job's attempt: nobody claims the job.
LEMMA NoClaimOf ==
  ASSUME TypeOK, Fenced, NEW r \in Runners, NEW k \in Slots, NEW j \in Games, j \notin requeued,
         ReportsOn(call[r][k], j), call[r][k].attempt = job[j].attempts
  PROVE  NoClaim(j)
<1>1. JobFenced(j) /\ j \in Jobs
  BY DEF Fenced, Jobs
<1>2. ASSUME NEW s \in Runners, NEW l \in Slots, Starting(call[s][l], j)  PROVE FALSE
  <2>1. call[s][l].attempt <= job[j].attempts /\ call[r][k].attempt < call[s][l].attempt
    BY <1>1, <1>2 DEF JobFenced
  <2>2. call[s][l].attempt \in Nat /\ job[j].attempts \in Nat
    BY <1>1, <1>2, Attempts
  <2> QED  BY <2>1, <2>2
<1> QED  BY <1>2 DEF NoClaim

(* A nonempty set of natural numbers has a smallest element. *)
LEMMA SmallestOf ==
  ASSUME NEW S \in SUBSET Nat, S # {}
  PROVE  Min(S) \in S /\ \A y \in S : Min(S) <= y
<1> DEFINE Below == OpToRel(<, Nat)
<1>1. IsWellFoundedOn(Below, Nat)
  BY NatLessThanWellFounded
<1>2. \A a, b \in Nat : <<b, a>> \in Below <=> b < a
  BY DEF OpToRel
<1> HIDE DEF Below
<1>3. PICK m \in S : \A y \in S : ~ (<<y, m>> \in Below)
  BY <1>1, WFMin
<1>4. ASSUME NEW y \in S  PROVE m <= y
  <2>1. m \in Nat /\ y \in Nat
    OBVIOUS
  <2>2. ~(y < m)
    BY <1>2, <1>3, <2>1
  <2> QED  BY <2>1, <2>2
<1> QED  BY <1>4 DEF Min

LEMMA SmallestFirst ==
  ASSUME QueueAssumption, Cardinality(FreshGames) >= 2
  PROVE  \E g \in Games : g \in FirstGames(2)
<1>1. FreshGames # {}
  BY NoneStored
<1>2. FreshGames \in SUBSET Nat /\ FreshGames \subseteq Games
  BY DEF QueueAssumption, FreshGames
<1>3. PICK g \in FreshGames : \A h \in FreshGames : g <= h
  BY <1>1, <1>2, SmallestOf
<1>4. \A h \in FreshGames : ~(h < g)
  BY <1>2, <1>3
<1>5. {h \in FreshGames : h < g} = {}
  BY <1>4
<1>6. Cardinality({h \in FreshGames : h < g}) < 2
  BY <1>5, NoneStored
<1> QED  BY <1>2, <1>3, <1>6 DEF FirstGames

(* The check ends: the build is broken, or two games are queued. *)
LEMMA CompleteCheckKeeps ==
  ASSUME QueueAssumption, QueueStrong, NEW r \in Runners, NEW k \in Slots, CompleteCheck(r, k)
  PROVE  QueueStrong'
<1>1. TypeOK /\ DoneMeansPlayed /\ ReadyEarned /\ Fenced /\ Decided /\ Recordings
  BY DEF QueueStrong
<1> DEFINE c == call[r][k]
<1>2. c.job \in Checks /\ c.job \in Jobs /\ c.attempt \in Nat /\ c.pc = "complete"
  BY <1>1, ReportCalls DEF CompleteCheck
<1>3. Answered(r, k, Idle) /\ UNCHANGED requeued /\ UNCHANGED cut /\ UNCHANGED clean
  BY DEF CompleteCheck
<1>4. /\ call' \in [Runners -> [Slots -> CallType]] /\ hand' \in [Runners -> HandType]
      /\ OneCall(r, k, NoCall)
  BY <1>1, <1>3, AnsweredTypes
<1> DEFINE f == FinishJob(c.job, c.attempt)
<1>5. f \in [Jobs -> JobType] /\ \A i \in Games : i \in Jobs /\ f[i] = job[i]
  <2>1. f \in [Jobs -> JobType] /\ \A i \in Jobs : i # c.job => f[i] = job[i]
    BY <1>1, <1>2, FinishJobType
  <2>2. \A i \in Games : i \in Jobs /\ i # c.job
    BY <1>2 DEF Jobs, QueueAssumption
  <2> QED  BY <2>1, <2>2
<1> HIDE DEF f
<1>6. CASE c.body = "broken"
  <2>1. job' = f /\ UNCHANGED match
    BY <1>6 DEF CompleteCheck, f
  <2>2. sub' \in {"checking", "build_failed"} \cup Verdicts /\ sub' # "checking"
        /\ (sub' = "ready" => sub = "ready")
    BY <1>1, <1>6 DEF CompleteCheck, TypeOK
  <2>3. TypeOK'
    BY <1>1, <1>3, <1>4, <1>5, <2>1, <2>2 DEF TypeOK
  <2>4. DoneMeansPlayed' /\ ReadyEarned'
    BY <1>1, <1>3, <1>5, <2>1, <2>2 DEF DoneMeansPlayed, ReadyEarned
  <2>5. Decided'
    BY <2>2 DEF Decided
  <2>6. Recordings'
    BY <1>1, <1>3, <1>4, <2>1, NewCalls, RecordingsOne
  <2>7. Fenced'
    <3> SUFFICES ASSUME NEW i \in Games, i \notin requeued'  PROVE JobFenced(i)'
      BY DEF Fenced
    <3>1. job'[i].attempts >= job[i].attempts /\ (job'[i].status = "done" => job[i].status = "done")
      BY <1>1, <1>5, <2>1 DEF TypeOK, JobType
    <3> QED  BY <1>1, <1>3, <2>3, <3>1, AnsweredFences
  <2> QED  BY <2>3, <2>4, <2>5, <2>6, <2>7 DEF QueueStrong
<1>7. CASE c.body # "broken"
  <2> DEFINE S == FirstGames(2)
  <2>1. /\ Cardinality(FreshGames) >= 2 /\ UNCHANGED sub
        /\ job' = [j \in Jobs |-> IF j \in S THEN Queued ELSE f[j]]
        /\ match' = [g \in Games |-> IF g \in S THEN [status |-> "queued", result |-> "none"]
                                     ELSE match[g]]
    BY <1>7 DEF CompleteCheck, f
  <2>2. PICK g \in Games : g \in S
    BY <2>1, SmallestFirst
  <2>3. \A i \in S : i \in Games /\ i \in Jobs /\ job[i].status = "none"
    BY DEF FirstGames, FreshGames, Jobs
  <2> HIDE DEF S
  <2>4. job' \in [Jobs -> JobType]
    BY <1>5, <2>1, QueuedType
  <2>5. \A i \in S : match'[i] = [status |-> "queued", result |-> "none"] /\ match'[i] \in MatchType
    BY <2>1, <2>3 DEF MatchType
  <2>6. \A i \in Games : i \notin S => match'[i] = match[i] /\ job'[i] = job[i]
    BY <1>5, <2>1
  <2>7. \A i \in S : job'[i] = Queued
    BY <2>1, <2>3
  <2>8. match' \in [Games -> MatchType]
    BY <1>1, <2>1, <2>5, <2>6 DEF TypeOK
  <2>9. TypeOK'
    BY <1>1, <1>3, <1>4, <2>1, <2>4, <2>8 DEF TypeOK
  <2>10. DoneMeansPlayed' /\ ReadyEarned'
    BY <1>1, <1>3, <2>1, <2>6, <2>7, QueuedType DEF DoneMeansPlayed, ReadyEarned
  <2>11. Decided'
    <3>1. SmokeVerdict' = "none"
      BY <2>2, <2>5, PendingGamesNext
    <3> QED  BY <3>1 DEF Decided
  <2>12. Recordings'
    <3>1. \A i \in Games : match'[i].status = "finished" => match'[i] = match[i]
      BY <2>5, <2>6
    <3> QED  BY <1>1, <1>3, <1>4, <3>1, NewCalls, RecordingsOne
  <2>13. Fenced'
    <3> SUFFICES ASSUME NEW i \in Games, i \notin requeued'  PROVE JobFenced(i)'
      BY DEF Fenced
    <3>1. CASE i \notin S
      <4>1. job'[i].attempts >= job[i].attempts /\ (job'[i].status = "done" => job[i].status = "done")
        BY <1>1, <2>6, <3>1 DEF TypeOK, JobType, Jobs
      <4> QED  BY <1>1, <1>3, <2>9, <4>1, AnsweredFences
    <3>2. CASE i \in S
      <4>1. job[i].status = "none" /\ job'[i] = Queued /\ job[i] \in JobType
        BY <1>1, <2>3, <2>7, <3>2 DEF TypeOK
      <4>2. job[i].attempts = 0
        BY <4>1 DEF JobType
      <4>3. job'[i].attempts >= job[i].attempts /\ job'[i].status # "done"
        BY <4>1, <4>2, QueuedType
      <4> QED  BY <1>1, <1>3, <2>9, <4>3, AnsweredFences
    <3> QED  BY <3>1, <3>2
  <2> QED  BY <2>9, <2>10, <2>11, <2>12, <2>13 DEF QueueStrong
<1> QED  BY <1>6, <1>7

(* A game's job is released and its game put back: by a refuted replay, or by fail. *)
LEMMA PutBackKeeps ==
  ASSUME QueueAssumption, QueueStrong, NEW r \in Runners, NEW k \in Slots,
         NEW j \in Jobs, NEW st \in {"queued", "failed"},
         job' = [job EXCEPT ![j] = Released(j, st)],
         match' = IF j \in Games THEN PutBack(j, st) ELSE match,
         call[r][k].pc \in {"complete", "fail"},
         Answered(r, k, Idle), UNCHANGED <<sub, requeued, cut, clean>>
  PROVE  QueueStrong'
<1>1. TypeOK /\ DoneMeansPlayed /\ ReadyEarned /\ Fenced /\ Decided /\ Recordings
  BY DEF QueueStrong
<1>2. UNCHANGED sub /\ UNCHANGED requeued /\ UNCHANGED cut /\ UNCHANGED clean
  OBVIOUS
<1>3. /\ call' \in [Runners -> [Slots -> CallType]] /\ hand' \in [Runners -> HandType]
      /\ OneCall(r, k, NoCall)
  BY <1>1, AnsweredTypes
<1>4. /\ job' \in [Jobs -> JobType]
      /\ job'[j].status = st /\ job'[j].attempts = job[j].attempts
      /\ \A i \in Jobs : i # j => job'[i] = job[i]
  BY <1>1, ReleasedType DEF TypeOK
<1>5. /\ match' \in [Games -> MatchType]
      /\ j \in Games => match'[j].status = st
      /\ \A g \in Games : g # j => match'[g] = match[g]
  <2>1. CASE j \in Games
    BY <1>1, <2>1, PutBackType
  <2>2. CASE j \notin Games
    BY <1>1, <2>2 DEF TypeOK
  <2> QED  BY <2>1, <2>2
<1>6. TypeOK'
  BY <1>1, <1>2, <1>3, <1>4, <1>5 DEF TypeOK
<1>7. DoneMeansPlayed' /\ ReadyEarned'
  <2>1. \A g \in Games : job'[g].status = "done" => g # j
    BY <1>4
  <2> QED  BY <1>1, <1>2, <1>4, <1>5, <2>1 DEF DoneMeansPlayed, ReadyEarned, Jobs
<1>8. Recordings'
  <2>1. \A g \in Games : match'[g].status = "finished" => match'[g] = match[g]
    BY <1>5
  <2> QED  BY <1>1, <1>2, <1>3, <2>1, NewCalls, RecordingsOne
<1>9. Decided'
  <2>1. ChecksOver' => ChecksOver
    BY <1>4, OverBefore DEF Jobs
  <2>2. SmokeVerdict' # "none" => SmokeVerdict # "none"
    <3>1. CASE j \in Games
      BY <1>5, <3>1, PendingGamesNext
    <3>2. CASE j \notin Games
      BY <3>2, SameGames
    <3> QED  BY <3>1, <3>2
  <2>3. WillDecide => WillDecide'
    BY <1>3, WillDecideOne
  <2> QED  BY <1>1, <1>2, <2>1, <2>2, <2>3, DecidedKept
<1>10. Fenced'
  <2> SUFFICES ASSUME NEW i \in Games, i \notin requeued'  PROVE JobFenced(i)'
    BY DEF Fenced
  <2>1. job'[i].attempts >= job[i].attempts /\ (job'[i].status = "done" => job[i].status = "done")
    BY <1>1, <1>4 DEF TypeOK, JobType, Jobs
  <2> QED  BY <1>1, <1>2, <1>6, <2>1, AnsweredFences
<1> QED  BY <1>6, <1>7, <1>8, <1>9, <1>10 DEF QueueStrong

LEMMA RefuteReplayKeeps ==
  ASSUME QueueAssumption, QueueStrong, NEW r \in Runners, NEW k \in Slots, RefuteReplay(r, k)
  PROVE  QueueStrong'
<1>1. TypeOK /\ call[r][k].pc = "complete" /\ call[r][k].body = "forged"
  BY DEF QueueStrong, RefuteReplay
<1>2. call[r][k].job \in Games /\ call[r][k].job \in Jobs
  BY <1>1, ReportCalls
<1> QED  BY <1>1, <1>2, PutBackKeeps DEF RefuteReplay

LEMMA FailKeeps ==
  ASSUME QueueAssumption, QueueStrong, NEW r \in Runners, NEW k \in Slots, Fail(r, k)
  PROVE  QueueStrong'
<1>1. TypeOK /\ call[r][k].pc = "fail"
  BY DEF QueueStrong, Fail
<1>2. call[r][k].job \in Jobs /\ ExpiredLeaseStatus(call[r][k].attempt) \in {"queued", "failed"}
  BY <1>1, ReportCalls, StatusOfExpired
<1> QED  BY <1>1, <1>2, PutBackKeeps DEF Fail

(* A result is recorded: a claim of the same attempt cannot be under way, so the job that  *)
(* is done stays played.                                                                   *)
LEMMA RecordResultKeeps ==
  ASSUME QueueAssumption, QueueStrong, NEW r \in Runners, NEW k \in Slots, RecordResult(r, k)
  PROVE  QueueStrong'
<1>1. TypeOK /\ DoneMeansPlayed /\ ReadyEarned /\ Fenced /\ Decided /\ Recordings
  BY DEF QueueStrong
<1> DEFINE c == call[r][k]
           g == c.job
           x == [c EXCEPT !.pc = "after", !.verdict = SmokeVerdict]
<1>2. c \in ReportType /\ c.pc = "complete" /\ c.body \in {"clean", "fault"}
  BY <1>1, CallKinds DEF RecordResult, Recorded, TypeOK
<1>3. c \in [pc : {"complete"}, orphan : BOOLEAN, job : Games, attempt : Nat,
             body : {"clean", "fault", "forged"}, verdict : {"none"}]
  BY <1>2 DEF ReportType
<1>4. x \in DecideType /\ x.pc = "after"
  BY <1>2, <1>3, SmokeVerdictType DEF DecideType
<1>5. /\ UNCHANGED sub /\ UNCHANGED hand /\ UNCHANGED requeued /\ UNCHANGED cut
      /\ job' = FinishJob(g, c.attempt)
      /\ match' = [match EXCEPT ![g] = [status |-> "finished", result |-> c.body]]
      /\ clean' = IF c.body = "clean" THEN clean \cup {g} ELSE clean
      /\ call' = [call EXCEPT ![r][k].pc = "after", ![r][k].verdict = SmokeVerdict]
  BY DEF RecordResult, Recorded
<1>6. call' = [call EXCEPT ![r][k] = x]
  BY <1>1, <1>5 DEF TypeOK
<1> HIDE DEF x
<1>7. OneCall(r, k, x) /\ OneHand(r, hand[r])
  BY <1>1, <1>4, <1>5, <1>6, CallSet, NewCalls, SameHands
<1>8. g \in Games /\ g \in Jobs /\ c.attempt \in Nat
  BY <1>3 DEF Jobs
<1>9. /\ job' \in [Jobs -> JobType]
      /\ \A i \in Jobs : i # g => job'[i] = job[i]
      /\ job'[g].attempts = job[g].attempts
      /\ job[g].attempts # c.attempt => job'[g] = job[g]
  BY <1>1, <1>5, <1>8, FinishJobType, ReleasedType
<1>10. /\ match' \in [Games -> MatchType]
       /\ match'[g].status = "finished" /\ match'[g].result = c.body
       /\ \A i \in Games : i # g => match'[i] = match[i]
  <2> DEFINE m == [status |-> "finished", result |-> c.body]
  <2>1. m \in MatchType /\ m.status = "finished" /\ m.result = c.body
    BY <1>2 DEF MatchType
  <2>2. match' = [match EXCEPT ![g] = m]
    BY <1>5
  <2> HIDE DEF m
  <2> QED  BY <1>1, <1>8, <2>1, <2>2 DEF TypeOK
<1> HIDE DEF g
<1>11. /\ clean \subseteq clean' /\ clean' \subseteq Games /\ IsFiniteSet(clean')
       /\ c.body = "clean" => g \in clean'
  BY <1>1, <1>5, <1>8, FS_AddElement DEF TypeOK
<1>12. TypeOK'
  BY <1>1, <1>5, <1>7, <1>9, <1>10, <1>11 DEF TypeOK, OneCall
<1>13. DoneMeansPlayed' /\ ReadyEarned'
  <2>1. DoneMeansPlayed'
    BY <1>1, <1>5, <1>9, <1>10 DEF DoneMeansPlayed, Jobs
  <2>2. ReadyEarned'
    BY <1>1, <1>5, <1>11, MoreClean DEF ReadyEarned
  <2> QED  BY <2>1, <2>2
<1>14. Recordings'
  <2>1. ASSUME NEW i \in Games, match'[i].status = "finished"
        PROVE  match'[i].result = "fault" \/ (match'[i].result = "clean" /\ i \in clean')
    BY <1>1, <1>2, <1>10, <1>11, <2>1 DEF Recordings
  <2>2. ASSUME NEW s \in Runners, NEW l \in Slots,
               call'[s][l].pc = "verdict", call'[s][l].verdict = "ready"
        PROVE  Cardinality(clean') >= 2
    <3>1. call'[s][l] = call[s][l]
      BY <1>4, <1>7, <2>2 DEF OneCall
    <3> QED  BY <1>1, <1>11, <2>2, <3>1, MoreClean DEF Recordings
  <2> QED  BY <2>1, <2>2 DEF Recordings
<1>15. Decided'
  <2>1. WillDecide'
    BY <1>4, <1>7 DEF WillDecide, OneCall
  <2> QED  BY <2>1 DEF Decided
<1>16. Fenced'
  <2> SUFFICES ASSUME NEW i \in Games, i \notin requeued'  PROVE JobFenced(i)'
    BY DEF Fenced
  <2>1. job'[i].attempts >= job[i].attempts
    BY <1>1, <1>9 DEF TypeOK, JobType, Jobs
  <2>2. job'[i].status = "done" => job[i].status = "done" \/ NoClaim(i)
    <3>1. CASE i # g
      BY <1>9, <3>1 DEF Jobs
    <3>2. CASE i = g /\ job[g].attempts = c.attempt
      <4>1. ReportsOn(call[r][k], i)
        BY <1>2, <3>2 DEF ReportsOn, g
      <4> QED  BY <1>1, <1>5, <3>2, <4>1, NoClaimOf
    <3>3. CASE i = g /\ job[g].attempts # c.attempt
      BY <1>9, <3>3
    <3> QED  BY <3>1, <3>2, <3>3
  <2>3. ~Starting(x, i) /\ ~ReportsOn(x, i)
    BY <1>4 DEF Starting, ReportsOn
  <2>4. HandReportsOn(hand[r], i) => Holds(hand[r], i)
    BY DEF HandReportsOn, Holds
  <2> QED  BY <1>1, <1>5, <1>7, <1>12, <2>1, <2>2, <2>3, <2>4, FencedOne
<1> QED  BY <1>12, <1>13, <1>14, <1>15, <1>16 DEF QueueStrong

(* The games are read again: the verdict a handler carries is of now. *)
LEMMA AfterMatchKeeps ==
  ASSUME QueueAssumption, QueueStrong, NEW r \in Runners, NEW k \in Slots, AfterMatch(r, k)
  PROVE  QueueStrong'
<1>1. TypeOK /\ DoneMeansPlayed /\ ReadyEarned /\ Fenced /\ Decided /\ Recordings
  BY DEF QueueStrong
<1> DEFINE c == call[r][k]
           x == [c EXCEPT !.pc = "verdict", !.verdict = SmokeVerdict]
<1>2. c \in DecideType /\ c.pc = "after"
  BY <1>1, CallKinds DEF AfterMatch, TypeOK
<1>3. x \in DecideType /\ x.pc = "verdict" /\ x.verdict = SmokeVerdict
  BY <1>2, SmokeVerdictType DEF DecideType
<1>4. /\ UNCHANGED job /\ UNCHANGED match /\ UNCHANGED sub /\ UNCHANGED hand
      /\ UNCHANGED requeued /\ UNCHANGED cut /\ UNCHANGED clean
      /\ call' = [call EXCEPT ![r][k].pc = "verdict", ![r][k].verdict = SmokeVerdict]
  BY DEF AfterMatch
<1>5. call' = [call EXCEPT ![r][k] = x]
  BY <1>1, <1>4 DEF TypeOK
<1> HIDE DEF x
<1>6. OneCall(r, k, x) /\ OneHand(r, hand[r])
  BY <1>1, <1>3, <1>4, <1>5, CallSet, NewCalls, SameHands
<1>7. TypeOK'
  BY <1>1, <1>4, <1>6 DEF TypeOK, OneCall
<1>8. DoneMeansPlayed' /\ ReadyEarned'
  BY <1>1, <1>4 DEF DoneMeansPlayed, ReadyEarned
<1>9. Recordings'
  <2>1. ASSUME NEW s \in Runners, NEW l \in Slots,
               call'[s][l].pc = "verdict", call'[s][l].verdict = "ready"
        PROVE  Cardinality(clean') >= 2
    <3>1. CASE s = r /\ l = k
      <4>1. SmokeVerdict = "ready"
        BY <1>3, <1>6, <2>1, <3>1 DEF OneCall
      <4> QED  BY <1>1, <1>4, <4>1, ReadyIsEarned
    <3>2. CASE s # r \/ l # k
      BY <1>1, <1>4, <1>6, <2>1, <3>2 DEF OneCall, Recordings
    <3> QED  BY <3>1, <3>2
  <2> QED  BY <1>1, <1>4, <2>1 DEF Recordings
<1>10. Decided'
  <2>1. ASSUME SmokeVerdict # "none"  PROVE WillDecide'
    BY <1>3, <1>6, <2>1 DEF WillDecide, OneCall
  <2>2. SmokeVerdict' = SmokeVerdict
    BY <1>4, SameGames
  <2> QED  BY <2>1, <2>2 DEF Decided
<1>11. Fenced'
  <2> SUFFICES ASSUME NEW i \in Games, i \notin requeued'  PROVE JobFenced(i)'
    BY DEF Fenced
  <2>1. job'[i].attempts >= job[i].attempts /\ (job'[i].status = "done" => job[i].status = "done")
    BY <1>1, <1>4 DEF TypeOK, JobType, Jobs
  <2>2. ~Starting(x, i) /\ ~ReportsOn(x, i)
    BY <1>3 DEF Starting, ReportsOn
  <2>3. HandReportsOn(hand[r], i) => Holds(hand[r], i)
    BY DEF HandReportsOn, Holds
  <2> QED  BY <1>1, <1>4, <1>6, <1>7, <2>1, <2>2, <2>3, FencedOne
<1> QED  BY <1>7, <1>8, <1>9, <1>10, <1>11 DEF QueueStrong

(* The verdict is written, unless one was. *)
LEMMA GiveVerdictKeeps ==
  ASSUME QueueAssumption, QueueStrong, NEW r \in Runners, NEW k \in Slots, GiveVerdict(r, k)
  PROVE  QueueStrong'
<1>1. TypeOK /\ DoneMeansPlayed /\ ReadyEarned /\ Fenced /\ Decided /\ Recordings
  BY DEF QueueStrong
<1> DEFINE c == call[r][k]
<1>2. c \in DecideType /\ c.pc = "verdict" /\ c.verdict \in Verdicts
  BY <1>1, CallKinds DEF GiveVerdict, TypeOK, DecideType
<1>3. /\ UNCHANGED job /\ UNCHANGED match /\ UNCHANGED requeued /\ UNCHANGED cut /\ UNCHANGED clean
      /\ sub' = IF c.verdict # "none" /\ sub = "checking" THEN c.verdict ELSE sub
      /\ Answered(r, k, Idle)
  BY DEF GiveVerdict
<1>4. /\ call' \in [Runners -> [Slots -> CallType]] /\ hand' \in [Runners -> HandType]
      /\ OneCall(r, k, NoCall)
  BY <1>1, <1>3, AnsweredTypes
<1>5. TypeOK'
  BY <1>1, <1>2, <1>3, <1>4 DEF TypeOK
<1>6. DoneMeansPlayed'
  BY <1>1, <1>3 DEF DoneMeansPlayed
<1>7. ReadyEarned'
  <2>1. sub' = "ready" => sub = "ready" \/ c.verdict = "ready"
    BY <1>3
  <2> QED  BY <1>1, <1>2, <1>3, <2>1 DEF ReadyEarned, Recordings
<1>8. Recordings'
  BY <1>1, <1>3, <1>4, NewCalls, RecordingsOne
<1>9. Decided'
  <2>1. ChecksOver' => ChecksOver
    BY <1>3 DEF ChecksOver
  <2>2. sub # "checking" => sub' # "checking"
    BY <1>3
  <2>3. ASSUME WillDecide, sub' = "checking"  PROVE WillDecide'
    <3>1. PICK s \in Runners, l \in Slots :
            call[s][l].pc = "after" \/ (call[s][l].pc = "verdict" /\ call[s][l].verdict # "none")
      BY <2>3 DEF WillDecide
    <3>2. c.verdict = "none"
      BY <1>2, <1>3, <2>3 DEF Verdicts
    <3>3. s # r \/ l # k
      BY <1>2, <3>1, <3>2
    <3>4. call'[s][l] = call[s][l]
      BY <1>4, <3>3 DEF OneCall
    <3> QED  BY <3>1, <3>4 DEF WillDecide
  <2> QED  BY <1>1, <1>3, <2>1, <2>2, <2>3, SameGames, DecidedKept
<1>10. Fenced'
  <2> SUFFICES ASSUME NEW i \in Games, i \notin requeued'  PROVE JobFenced(i)'
    BY DEF Fenced
  <2>1. job'[i].attempts >= job[i].attempts /\ (job'[i].status = "done" => job[i].status = "done")
    BY <1>1, <1>3 DEF TypeOK, JobType, Jobs
  <2> QED  BY <1>1, <1>3, <1>5, <2>1, AnsweredFences
<1> QED  BY <1>5, <1>6, <1>7, <1>8, <1>9, <1>10 DEF QueueStrong

LEMMA AnswerLostKeeps ==
  ASSUME QueueAssumption, QueueStrong, NEW r \in Runners, NEW k \in Slots, AnswerLost(r, k)
  PROVE  QueueStrong'
<1>1. TypeOK /\ Fails(r) /\ call[r][k] # NoCall
  BY DEF QueueStrong, AnswerLost, Waits, Free
<1> DEFINE x == [call[r][k] EXCEPT !.orphan = TRUE]
<1>2. call[r][k] \in CallType
  BY <1>1 DEF TypeOK
<1>3. x \in CallType /\ Fewer(call[r][k], x)
  BY <1>1, <1>2, NewCalls DEF Fewer
<1>4. call' = [call EXCEPT ![r][k] = x]
  BY <1>1 DEF AnswerLost, TypeOK
<1>5. x.pc = call[r][k].pc /\ x # NoCall
  <2>1. call[r][k] \in PollType \cup StartType \cup ReportType \cup DecideType
    BY <1>1, <1>2 DEF CallType
  <2>2. x.pc = call[r][k].pc
    BY <2>1 DEF PollType, StartType, ReportType, DecideType
  <2> QED  BY <1>1, <1>2, <2>2, CallKinds, NewCalls
<1> HIDE DEF x
<1>6. OneCall(r, k, x)
  BY <1>1, <1>3, <1>4, CallSet
<1>7. PICK h \in HandType : OneHand(r, h) /\ Less(hand[r], h)
  BY <1>1, FailsIs DEF Less
<1>8. UNCHANGED <<job, match, sub, requeued, clean>> /\ UNCHANGED cut
  BY DEF AnswerLost
<1> QED  BY <1>3, <1>5, <1>6, <1>7, <1>8, FewerOne

LEMMA HandlerDiesKeeps ==
  ASSUME QueueAssumption, QueueStrong, NEW r \in Runners, NEW k \in Slots, HandlerDies(r, k)
  PROVE  QueueStrong'
<1>1. TypeOK
  BY DEF QueueStrong
<1>2. call' = [call EXCEPT ![r][k] = NoCall]
  BY DEF HandlerDies
<1>3. OneCall(r, k, NoCall) /\ Fewer(call[r][k], NoCall)
  BY <1>1, <1>2, CallSet, NewCalls DEF Fewer
<1>4. \E h \in HandType : OneHand(r, h) /\ Less(hand[r], h)
  <2>1. CASE UNCHANGED hand
    BY <1>1, <2>1, SameHands DEF Less, TypeOK
  <2>2. CASE Fails(r)
    BY <1>1, <2>2, FailsIs DEF Less
  <2> QED  BY <2>1, <2>2 DEF HandlerDies
<1>5. PICK h \in HandType : OneHand(r, h) /\ Less(hand[r], h)
  BY <1>4
<1>6. UNCHANGED <<job, match, sub, requeued, clean>>
  BY DEF HandlerDies
<1>7. (cut => cut') /\ (call[r][k].pc \in {"after", "verdict"} => cut')
  BY DEF HandlerDies
<1> QED  BY <1>3, <1>5, <1>6, <1>7, FewerOne

LEMMA RunnerDiesKeeps ==
  ASSUME QueueAssumption, QueueStrong, NEW r \in Runners, RunnerDies(r)
  PROVE  QueueStrong'
<1>1. TypeOK
  BY DEF QueueStrong
<1> DEFINE y == [k \in Slots |-> IF Free(r, k) THEN NoCall ELSE [call[r][k] EXCEPT !.orphan = TRUE]]
<1>2. ASSUME NEW k \in Slots
      PROVE  y[k] \in CallType /\ Fewer(call[r][k], y[k]) /\ (call[r][k] # NoCall => y[k] # NoCall)
  <2>1. call[r][k] \in CallType
    BY <1>1 DEF TypeOK
  <2>2. CASE call[r][k] = NoCall
    BY <2>2, NewCalls DEF Free, Fewer
  <2>3. CASE call[r][k] # NoCall
    <3> DEFINE x == [call[r][k] EXCEPT !.orphan = TRUE]
    <3>1. y[k] = x
      BY <2>3 DEF Free
    <3>2. x \in CallType /\ Fewer(call[r][k], x)
      BY <2>1, <2>3, NewCalls DEF Fewer
    <3>3. call[r][k] \in PollType \cup StartType \cup ReportType \cup DecideType
      BY <2>1, <2>3 DEF CallType
    <3>4. x.pc = call[r][k].pc
      BY <3>3 DEF PollType, StartType, ReportType, DecideType
    <3>5. x # NoCall
      BY <2>1, <2>3, <3>4, CallKinds, NewCalls
    <3> HIDE DEF x, y
    <3> QED  BY <3>1, <3>2, <3>5
  <2> QED  BY <2>2, <2>3
<1>3. y \in [Slots -> CallType]
  BY <1>2
<1>4. call' = [call EXCEPT ![r] = y] /\ hand' = [hand EXCEPT ![r] = Idle]
  BY DEF RunnerDies
<1> HIDE DEF y
<1>5. call' \in [Runners -> [Slots -> CallType]] /\ hand' \in [Runners -> HandType]
  BY <1>1, <1>3, <1>4, NewHands DEF TypeOK
<1>6. \A s \in Runners : (s # r => call'[s] = call[s]) /\ (s = r => call'[s] = y)
  BY <1>1, <1>4 DEF TypeOK
<1>7. \A s \in Runners, l \in Slots :
        Fewer(call[s][l], call'[s][l]) /\ (call[s][l] # NoCall => call'[s][l] # NoCall)
  BY <1>2, <1>6 DEF Fewer
<1>8. \A s \in Runners : Less(hand[s], hand'[s])
  BY <1>1, <1>4 DEF TypeOK, Less
<1>9. UNCHANGED <<job, match, sub, requeued, clean>> /\ UNCHANGED cut
  BY DEF RunnerDies
<1>10. WillDecide => WillDecide'
  <2> SUFFICES ASSUME WillDecide  PROVE WillDecide'
    OBVIOUS
  <2>1. PICK s \in Runners, l \in Slots :
          call[s][l].pc = "after" \/ (call[s][l].pc = "verdict" /\ call[s][l].verdict # "none")
    BY DEF WillDecide
  <2>2. call'[s][l] # NoCall /\ Fewer(call[s][l], call'[s][l])
    BY <1>7, <2>1, NewCalls
  <2>3. call[s][l] \in CallType
    BY <1>1 DEF TypeOK
  <2>4. /\ call'[s][l].pc = call[s][l].pc
        /\ call'[s][l].pc = "verdict" => call'[s][l].verdict = call[s][l].verdict
    BY <2>2, <2>3, FewerIs
  <2> QED  BY <2>1, <2>4 DEF WillDecide
<1> QED  BY <1>5, <1>7, <1>8, <1>9, <1>10, QuietKeeps

(* Rows change under calls and slots that stay. *)
LEMMA RowsKeep ==
  ASSUME QueueStrong, UNCHANGED <<call, hand, sub, cut, clean>>,
         requeued \subseteq requeued', requeued' \subseteq Jobs,
         job' \in [Jobs -> JobType], match' \in [Games -> MatchType],
         \A g \in Games : match'[g].status = "finished" => match'[g] = match[g],
         \A c \in Checks : job'[c].status \in {"none", "done"} => job[c].status = job'[c].status,
         \A g \in Games \ requeued' :
           /\ job'[g].attempts >= job[g].attempts
           /\ job'[g].status = "done" =>
                job[g].status = "done" /\ (match[g].status \in {"finished", "cancelled"}
                                             => match'[g].status \in {"finished", "cancelled"}),
         SmokeVerdict' # "none" => SmokeVerdict # "none"
  PROVE  QueueStrong'
<1>1. TypeOK /\ DoneMeansPlayed /\ ReadyEarned /\ Fenced /\ Decided /\ Recordings
  BY DEF QueueStrong
<1>2. UNCHANGED call /\ UNCHANGED hand /\ UNCHANGED sub /\ UNCHANGED cut /\ UNCHANGED clean
  OBVIOUS
<1>3. TypeOK'
  BY <1>1, <1>2 DEF TypeOK
<1>4. DoneMeansPlayed' /\ ReadyEarned'
  BY <1>1, <1>2 DEF DoneMeansPlayed, ReadyEarned
<1>5. Recordings'
  BY <1>1, RecordingsSame
<1>6. Decided'
  <2>1. ChecksOver' => ChecksOver
    BY OverBefore
  <2> QED  BY <1>1, <1>2, <2>1, WillDecideSame, DecidedKept
<1>7. Fenced'
  BY <1>1, <1>2, <1>3, FencedSame DEF Fenced
<1> QED  BY <1>3, <1>4, <1>5, <1>6, <1>7 DEF QueueStrong

LEMMA LeaseEndsKeeps ==
  ASSUME QueueAssumption, QueueStrong, NEW j \in Jobs, LeaseEnds(j)
  PROVE  QueueStrong'
<1>1. TypeOK
  BY DEF QueueStrong
<1> DEFINE y == [job[j] EXCEPT !.late = TRUE]
<1>2. job[j] \in JobType /\ job[j].status = "leased"
  BY <1>1 DEF LeaseEnds, TypeOK
<1>3. y \in JobType /\ y.status = "leased" /\ y.attempts = job[j].attempts
  BY <1>2 DEF JobType
<1>4. job' = [job EXCEPT ![j] = y]
  BY DEF LeaseEnds
<1> HIDE DEF y
<1>5. /\ job' \in [Jobs -> JobType] /\ job'[j] = y
      /\ \A i \in Jobs : i # j => job'[i] = job[i]
  BY <1>1, <1>3, <1>4 DEF TypeOK
<1>6. \A i \in Jobs : /\ job'[i].attempts = job[i].attempts /\ job'[i].attempts \in Nat
                      /\ job'[i].status \in {"none", "done"} => job'[i].status = job[i].status
  <2>1. \A i \in Jobs : job'[i].attempts \in Nat
    BY <1>5 DEF JobType
  <2> QED  BY <1>3, <1>5, <2>1
<1>7. UNCHANGED <<call, hand, sub, cut, clean>> /\ UNCHANGED match /\ UNCHANGED requeued
  BY DEF LeaseEnds
<1>8. SmokeVerdict' # "none" => SmokeVerdict # "none"
  BY <1>7, SameGames
<1>9. match' \in [Games -> MatchType] /\ requeued' \subseteq Jobs
  BY <1>1, <1>7 DEF TypeOK
<1>10. \A i \in Games \ requeued' : /\ job'[i].attempts >= job[i].attempts
                                    /\ job'[i].status = "done" => job[i].status = "done"
  BY <1>6 DEF Jobs
<1>11. \A c \in Checks : job'[c].status \in {"none", "done"} => job[c].status = job'[c].status
  BY <1>6 DEF Jobs
<1> QED  BY <1>5, <1>7, <1>8, <1>9, <1>10, <1>11, RowsKeep

LEMMA RequeueJobKeeps ==
  ASSUME QueueAssumption, QueueStrong, NEW j \in Jobs, RequeueJob(j)
  PROVE  QueueStrong'
<1>1. TypeOK
  BY DEF QueueStrong
<1>2. /\ job' \in [Jobs -> JobType] /\ job'[j].status = "queued"
      /\ \A i \in Jobs : i # j => job'[i] = job[i]
  BY <1>1, QueuedType DEF RequeueJob, TypeOK
<1>3. /\ match' \in [Games -> MatchType]
      /\ j \in Games => match'[j].status = "queued"
      /\ \A g \in Games : g # j => match'[g] = match[g]
      /\ j \notin Games => UNCHANGED match
  <2>1. CASE j \in Games
    BY <1>1, <2>1, PutBackType DEF RequeueJob
  <2>2. CASE j \notin Games
    BY <1>1, <2>2 DEF RequeueJob, TypeOK
  <2> QED  BY <2>1, <2>2
<1>4. UNCHANGED <<call, hand, sub, cut, clean>> /\ requeued' = requeued \cup {j}
  BY DEF RequeueJob
<1>5. requeued \subseteq requeued' /\ requeued' \subseteq Jobs
  BY <1>1, <1>4 DEF TypeOK
<1>6. SmokeVerdict' # "none" => SmokeVerdict # "none"
  BY <1>3, PendingGamesNext, SameGames
<1>7. \A g \in Games : match'[g].status = "finished" => match'[g] = match[g]
  BY <1>3
<1>8. \A c \in Checks : job'[c].status \in {"none", "done"} => job[c].status = job'[c].status
  BY <1>2 DEF Jobs
<1>9. ASSUME NEW g \in Games \ requeued'
      PROVE  /\ job'[g].attempts >= job[g].attempts
             /\ job'[g].status = "done" =>
                  job[g].status = "done" /\ (match[g].status \in {"finished", "cancelled"}
                                               => match'[g].status \in {"finished", "cancelled"})
  <2>1. g # j /\ g \in Jobs /\ g \in Games
    BY <1>4, <1>9 DEF Jobs
  <2>2. job'[g] = job[g] /\ match'[g] = match[g] /\ job[g].attempts \in Nat
    BY <1>1, <1>2, <1>3, <2>1 DEF TypeOK, JobType
  <2> QED  BY <2>2
<1> QED  BY <1>2, <1>3, <1>4, <1>5, <1>6, <1>7, <1>8, <1>9, RowsKeep

LEMMA RerunMatchKeeps ==
  ASSUME QueueAssumption, QueueStrong, NEW g \in Games, RerunMatch(g)
  PROVE  QueueStrong'
<1>1. TypeOK
  BY DEF QueueStrong
<1> DEFINE n == Min(FreshGames)
           fresh == [status |-> "queued", result |-> "none"]
<1>2. n \in Games /\ n \in Jobs /\ job[n].status = "none"
  <2>1. FreshGames \in SUBSET Nat /\ FreshGames # {}
    BY DEF RerunMatch, FreshGames, QueueAssumption
  <2>2. n \in FreshGames
    BY <2>1, SmallestOf
  <2> QED  BY <2>2 DEF FreshGames, Jobs
<1>3. /\ match' = [match EXCEPT ![g] = IF match[g].status = "running" THEN match[g]
                                      ELSE PutBack(g, "cancelled")[g],
                              ![n] = fresh]
      /\ job' = [job EXCEPT ![g] = IF job[g].status = "queued"
                                  THEN [job[g] EXCEPT !.status = "failed"] ELSE job[g],
                          ![n] = Queued]
      /\ UNCHANGED <<call, hand, sub, cut, clean>> /\ UNCHANGED requeued
  BY <1>1, <1>2 DEF RerunMatch, TypeOK, Jobs
<1> HIDE DEF n
<1> DEFINE lost == [job[g] EXCEPT !.status = "failed"]
<1>4. job[g] \in JobType /\ job[n] \in JobType /\ g \in Jobs
  BY <1>1, <1>2 DEF TypeOK, Jobs
<1>5. job[g].status = "queued" =>
        lost \in JobType /\ lost.status = "failed" /\ lost.attempts = job[g].attempts
  BY <1>4 DEF JobType
<1>6. fresh \in MatchType /\ fresh.status = "queued"
  BY DEF MatchType
<1>7. PutBack(g, "cancelled")[g].status = "cancelled" /\ PutBack(g, "cancelled")[g] \in MatchType
  BY <1>1, PutBackType
<1> HIDE DEF lost, fresh
<1>8. ASSUME NEW j \in Jobs
      PROVE  \/ j = n /\ job'[j] = Queued
             \/ j = g /\ j # n /\ job[g].status = "queued" /\ job'[j] = lost
             \/ j # n /\ job'[j] = job[j]
  BY <1>1, <1>2, <1>3, <1>4 DEF lost, TypeOK
<1>9. ASSUME NEW h \in Games
      PROVE  \/ h = n /\ match'[h] = fresh
             \/ h = g /\ h # n /\ match'[h] = PutBack(g, "cancelled")[g]
             \/ h # n /\ match'[h] = match[h]
  BY <1>1, <1>2, <1>3 DEF TypeOK
<1>10. job' \in [Jobs -> JobType]
  <2>1. job' = [j \in Jobs |-> job'[j]]
    BY <1>1, <1>3 DEF TypeOK
  <2>2. \A j \in Jobs : job'[j] \in JobType
    BY <1>1, <1>5, <1>8, QueuedType DEF TypeOK
  <2> QED  BY <2>1, <2>2
<1>11. match' \in [Games -> MatchType]
  <2>1. match' = [h \in Games |-> match'[h]]
    BY <1>1, <1>3 DEF TypeOK
  <2>2. \A h \in Games : match'[h] \in MatchType
    BY <1>1, <1>6, <1>7, <1>9 DEF TypeOK
  <2> QED  BY <2>1, <2>2
<1>12. SmokeVerdict' = "none"
  BY <1>2, <1>6, <1>9, PendingGamesNext
<1>13. \A h \in Games : match'[h].status = "finished" => match'[h] = match[h]
  BY <1>6, <1>7, <1>9
<1>14. \A c \in Checks : job'[c].status \in {"none", "done"} => job[c].status = job'[c].status
  BY <1>5, <1>8, QueuedType DEF Jobs
<1>15. ASSUME NEW h \in Games \ requeued'
       PROVE  /\ job'[h].attempts >= job[h].attempts
              /\ job'[h].status = "done" =>
                   job[h].status = "done" /\ (match[h].status \in {"finished", "cancelled"}
                                                => match'[h].status \in {"finished", "cancelled"})
  <2>1. h \in Jobs /\ job[h] \in JobType
    BY <1>1 DEF TypeOK, Jobs
  <2>2. job[h].attempts \in Nat
    BY <2>1 DEF JobType
  <2>3. CASE h = n
    <3>1. job[h].attempts = 0
      BY <1>2, <2>1, <2>3 DEF JobType
    <3>2. job'[h] = Queued
      BY <1>8, <2>1, <2>3
    <3> QED  BY <3>1, <3>2, QueuedType
  <2>4. CASE h # n
    <3>1. match[h].status \in {"finished", "cancelled"} => match'[h].status \in {"finished", "cancelled"}
      BY <1>7, <1>9, <2>4
    <3>2. job'[h] = job[h] \/ (h = g /\ job[g].status = "queued" /\ job'[h] = lost)
      BY <1>8, <2>1, <2>4
    <3> QED  BY <1>5, <2>2, <3>1, <3>2
  <2> QED  BY <2>3, <2>4
<1>16. requeued \subseteq requeued' /\ requeued' \subseteq Jobs
  BY <1>1, <1>3 DEF TypeOK
<1> QED  BY <1>3, <1>10, <1>11, <1>12, <1>13, <1>14, <1>15, <1>16, RowsKeep

-----------------------------------------------------------------------------
(* The theorems.                                                            *)

LEMMA NextKeeps ==
  ASSUME QueueAssumption, QueueStrong, [Next]_vars
  PROVE  QueueStrong'
<1>1. CASE UNCHANGED vars
  <2>1. UNCHANGED <<call, hand, sub, cut, clean, job, match, requeued>>
    BY <1>1 DEF vars
  <2> QED  BY <2>1 DEF QueueStrong, TypeOK, DoneMeansPlayed, ReadyEarned, Fenced, JobFenced,
                       Starting, ReportsOn, Holds, HandReportsOn, Decided, ChecksOver, WillDecide,
                       SmokeVerdict, Counted, Recordings
<1>2. ASSUME NEW r \in Runners, Run(r) \/ RunnerDies(r)  PROVE QueueStrong'
  BY <1>2, ClaimKeeps, ReportKeeps, RunnerDiesKeeps DEF Run
<1>3. ASSUME NEW r \in Runners, NEW k \in Slots, Serve(r, k)  PROVE QueueStrong'
  BY <1>3, ExpireMatchesKeeps, LeaseOneKeeps, StartMatchKeeps, CompleteCheckKeeps,
     RefuteReplayKeeps, RecordResultKeeps, AfterMatchKeeps, GiveVerdictKeeps, FailKeeps DEF Serve
<1>4. ASSUME NEW r \in Runners, NEW k \in Slots, AnswerLost(r, k) \/ HandlerDies(r, k)
      PROVE  QueueStrong'
  BY <1>4, AnswerLostKeeps, HandlerDiesKeeps
<1>5. ASSUME NEW j \in Jobs, LeaseEnds(j) \/ RequeueJob(j)  PROVE QueueStrong'
  BY <1>5, LeaseEndsKeeps, RequeueJobKeeps
<1>6. ASSUME NEW g \in Games, RerunMatch(g)  PROVE QueueStrong'
  BY <1>6, RerunMatchKeeps
<1> QED  BY <1>1, <1>2, <1>3, <1>4, <1>5, <1>6 DEF Next

LEMMA AlwaysStrong == Spec => []QueueStrong
<1>1. Init => QueueStrong
  BY QueueAssumption, InitStrong
<1>2. QueueStrong /\ [Next]_vars => QueueStrong'
  BY QueueAssumption, NextKeeps
<1> QED  BY <1>1, <1>2, PTL DEF Spec

(* Results are not lost behind a finished job, for any number of runners, lost answers,    *)
(* dead handlers and late statements: claim marks a game as running by a statement of its  *)
(* own, whatever became of the game (runner/api.mjs), and is still never too late, because *)
(* a report can finish a job only under its current attempt, and the runner learns of that *)
(* attempt only when the game is marked.  requeueJob gives attempts out again and is left  *)
(* out, as in the property.                                                                *)
THEOREM ResultsAreKept == Spec => []DoneMeansPlayed
<1>1. QueueStrong => DoneMeansPlayed
  BY DEF QueueStrong
<1> QED  BY <1>1, AlwaysStrong, PTL

(* A verdict is owed and deserved: when the checks are over and every smoke game is        *)
(* finished, the submission has left "checking", or a handler that read the games since is *)
(* about to write, or one died there (afterMatch's read and write, runner/api.mjs); and    *)
(* "ready" is only said of a submission with two games recorded without a fault.           *)
THEOREM VerdictAlwaysSound == Spec => []VerdictSound
<1>1. WillDecide => AboutToDecide
  BY DEF WillDecide, AboutToDecide
<1>2. QueueStrong => VerdictSound
  BY <1>1 DEF QueueStrong, Decided, ChecksOver, VerdictSound, VerdictGiven
<1> QED  BY <1>2, AlwaysStrong, PTL

(***************************************************************************)
(* The event: BotCupEvent.  NotStuck needs only the types of the state and *)
(* of what the steps will write.  The bracket, the ranking and the winners *)
(* need EventFits: the shape of the bracket in every phase, and that what  *)
(* a planned step will write fits the state its batch will find, though    *)
(* games end, are played again or change their results and teams are       *)
(* disqualified in between.                                                *)
(***************************************************************************)

-----------------------------------------------------------------------------
(* What a filter leaves.                                                    *)

Upto(P, i) == {j \in P : j <= i}

LEMMA InUpto ==
  ASSUME NEW P, NEW i
  PROVE  /\ \A j \in P : j \in Upto(P, i) <=> j <= i
         /\ Upto(P, i) \subseteq P
BY DEF Upto

LEMMA UptoIs ==
  ASSUME NEW n \in Nat, NEW P \in SUBSET (1 .. n), NEW i \in Nat
  PROVE  /\ IsFiniteSet(P) /\ IsFiniteSet(Upto(P, i))
         /\ Cardinality(P) \in Nat /\ Cardinality(Upto(P, i)) \in Nat
         /\ Cardinality(Upto(P, i)) <= Cardinality(P)
<1>1. IsFiniteSet(1 .. n)
  BY FS_Interval
<1>2. IsFiniteSet(P)
  BY <1>1, FS_Subset
<1>3. Upto(P, i) \in SUBSET P
  BY DEF Upto
<1> QED  BY <1>2, <1>3, FS_Subset, FS_CardinalityType

\* There is a k-th place.
LEMMA NthIs ==
  ASSUME NEW n \in Nat, NEW P \in SUBSET (1 .. n), NEW k \in 1 .. Cardinality(P)
  PROVE  Nth(P, k) \in P /\ Cardinality(Upto(P, Nth(P, k))) = k
<1> DEFINE Enough == {i \in 0 .. n : Cardinality(Upto(P, i)) >= k}
<1>0. \A j \in P : j \in Nat /\ 1 <= j /\ j <= n
  OBVIOUS
<1>1. k \in Nat /\ k >= 1 /\ Cardinality(P) \in Nat /\ k <= Cardinality(P)
  <2>1. Cardinality(P) \in Nat
    BY UptoIs
  <2> QED  BY <2>1
<1>2. Upto(P, n) = P /\ Upto(P, 0) = {}
  <2>1. Upto(P, n) \subseteq P /\ \A j \in P : j \in Upto(P, n) <=> j <= n
    BY InUpto
  <2>2. Upto(P, 0) \subseteq P /\ \A j \in P : j \in Upto(P, 0) <=> j <= 0
    BY InUpto
  <2>3. \A j \in P : j \in Upto(P, n) /\ j \notin Upto(P, 0)
    BY <1>0, <2>1, <2>2
  <2> QED  BY <2>1, <2>2, <2>3
<1>3. n \in Enough /\ Enough \in SUBSET Nat
  BY <1>1, <1>2
<1>4. PICK i \in Enough : \A j \in Enough : i <= j
  <2> HIDE DEF Enough
  <2> QED  BY <1>3, SmallestOf
<1>5. i # 0
  BY <1>1, <1>2, FS_EmptySet
<1>6. i - 1 \in Nat /\ i \in Nat /\ i \in 1 .. n
  BY <1>5
<1>7. /\ Cardinality(Upto(P, i)) \in Nat /\ Cardinality(Upto(P, i)) >= k
      /\ Cardinality(Upto(P, i - 1)) \in Nat /\ Cardinality(Upto(P, i - 1)) < k
  <2>1. Cardinality(Upto(P, i)) \in Nat /\ Cardinality(Upto(P, i - 1)) \in Nat
    BY <1>6, UptoIs
  <2>2. i - 1 \notin Enough
    BY <1>4, <1>6
  <2> QED  BY <1>1, <1>6, <2>1, <2>2
<1>10. /\ Upto(P, i) \subseteq P /\ \A j \in P : j \in Upto(P, i) <=> j <= i
      /\ Upto(P, i - 1) \subseteq P /\ \A j \in P : j \in Upto(P, i - 1) <=> j <= i - 1
  <2>1. \A a : Upto(P, a) \subseteq P /\ \A j \in P : j \in Upto(P, a) <=> j <= a
    BY InUpto
  <2> QED  BY <2>1
<1>8. i \in P
  <2>1. i \notin P => Upto(P, i) = Upto(P, i - 1)
    <3>1. i \notin P => \A j \in P : j \in Upto(P, i) <=> j \in Upto(P, i - 1)
      BY <1>0, <1>6, <1>10
    <3> QED  BY <1>10, <3>1
  <2> QED  BY <1>1, <1>7, <2>1
<1>9. Cardinality(Upto(P, i)) = k
  <2>1. Upto(P, i) = Upto(P, i - 1) \cup {i}
    <3>1. \A j \in P : j \in Upto(P, i) <=> j \in Upto(P, i - 1) \/ j = i
      BY <1>0, <1>6, <1>10
    <3> QED  BY <1>8, <1>10, <3>1
  <2>2. IsFiniteSet(Upto(P, i - 1))
    BY <1>6, UptoIs
  <2>3. i \notin Upto(P, i - 1)
    BY <1>6 DEF Upto
  <2>4. Cardinality(Upto(P, i)) = Cardinality(Upto(P, i - 1)) + 1
    BY <2>1, <2>2, <2>3, FS_AddElement
  <2> QED  BY <1>1, <1>7, <2>4
<1> QED  BY <1>8, <1>9 DEF Nth, Upto

\* Two places are counted apart.
LEMMA PlacesApart ==
  ASSUME NEW n \in Nat, NEW P \in SUBSET (1 .. n), NEW i \in P, NEW j \in P,
         Cardinality(Upto(P, i)) = Cardinality(Upto(P, j))
  PROVE  i = j
<1>1. ASSUME NEW a \in P, NEW b \in P, a < b
      PROVE  Cardinality(Upto(P, a)) # Cardinality(Upto(P, b))
  <2>0. \A x \in P : x \in Nat
    OBVIOUS
  <2>1. Upto(P, a) \in SUBSET Upto(P, b) /\ b \in Upto(P, b) /\ b \notin Upto(P, a)
    <3>1. Upto(P, a) \subseteq P /\ \A x \in P : x \in Upto(P, a) <=> x <= a
      BY InUpto
    <3>2. Upto(P, b) \subseteq P /\ \A x \in P : x \in Upto(P, b) <=> x <= b
      BY InUpto
    <3>3. \A x \in P : x <= a => x <= b
      BY <1>1, <2>0
    <3>4. b <= b /\ ~(b <= a)
      BY <1>1, <2>0
    <3> QED  BY <3>1, <3>2, <3>3, <3>4
  <2>2. IsFiniteSet(Upto(P, b))
    BY <2>0, UptoIs
  <2> QED  BY <2>1, <2>2, FS_Subset
<1> QED  BY <1>1

LEMMA FilterIs ==
  ASSUME NEW T, NEW s \in Seq(T), NEW keep
  PROVE  /\ Filter(s, keep) \in Seq(T)
         /\ Range(Filter(s, keep)) = Range(s) \cap keep
         /\ IsInjective(s) => IsInjective(Filter(s, keep))
         /\ Range(s) \subseteq keep => Filter(s, keep) = s
<1> DEFINE P == {i \in DOMAIN s : s[i] \in keep}
           c == Cardinality(P)
           f == Filter(s, keep)
<1>1. /\ Len(s) \in Nat /\ DOMAIN s = 1 .. Len(s) /\ s \in [1 .. Len(s) -> T]
      /\ P \in SUBSET (1 .. Len(s))
  OBVIOUS
<1>2. c \in Nat
  <2>1. 0 \in Nat
    OBVIOUS
  <2> QED  BY <1>1, <2>1, UptoIs
<1>3. f = [k \in 1 .. c |-> s[Nth(P, k)]]
  BY DEF Filter
<1> HIDE DEF P, f
<1>4. \A k \in 1 .. c : Nth(P, k) \in P /\ Cardinality(Upto(P, Nth(P, k))) = k
  BY <1>1, NthIs
<1>5. \A k \in 1 .. c : Nth(P, k) \in 1 .. Len(s) /\ s[Nth(P, k)] \in keep
  BY <1>4 DEF P
<1>6. f \in Seq(T)
  <2>1. f \in [1 .. c -> T]
    BY <1>1, <1>3, <1>5
  <2> QED  BY <1>2, <2>1, SeqDef
<1>7. Range(f) = Range(s) \cap keep
  <2>1. Range(f) \subseteq Range(s) \cap keep
    BY <1>1, <1>3, <1>5 DEF Range
  <2>2. ASSUME NEW i \in 1 .. Len(s), s[i] \in keep  PROVE s[i] \in Range(f)
    <3>1. i \in P /\ i \in Nat
      BY <2>2 DEF P
    <3> DEFINE k == Cardinality(Upto(P, i))
    <3>2. k \in Nat /\ k <= c /\ k # 0
      <4>1. i \in Upto(P, i)
        BY <3>1 DEF Upto
      <4>2. IsFiniteSet(Upto(P, i)) /\ k \in Nat /\ k <= c
        BY <1>1, <3>1, UptoIs
      <4> QED  BY <4>1, <4>2, FS_EmptySet
    <3>3. k \in 1 .. c
      BY <1>2, <3>2
    <3>4. Nth(P, k) = i
      BY <1>1, <1>4, <3>1, <3>3, PlacesApart
    <3> QED  BY <1>3, <3>3, <3>4 DEF Range
  <2> QED  BY <1>1, <2>1, <2>2 DEF Range
<1>8. ASSUME IsInjective(s)  PROVE IsInjective(f)
  <2>1. SUFFICES ASSUME NEW a \in 1 .. c, NEW b \in 1 .. c, s[Nth(P, a)] = s[Nth(P, b)]
                 PROVE  a = b
    BY <1>3 DEF IsInjective
  <2>2. Nth(P, a) = Nth(P, b)
    BY <1>1, <1>5, <1>8, <2>1 DEF IsInjective
  <2> QED  BY <1>4, <2>2
<1>9. ASSUME Range(s) \subseteq keep  PROVE f = s
  <2>1. P = 1 .. Len(s)
    BY <1>1, <1>9 DEF P, Range
  <2>2. c = Len(s)
    BY <1>1, <2>1, FS_Interval
  <2>3. ASSUME NEW k \in 1 .. c  PROVE Nth(P, k) = k
    <3>1. Upto(P, k) = 1 .. k
      BY <1>1, <2>1, <2>2 DEF Upto
    <3>2. Cardinality(Upto(P, k)) = k
      BY <3>1, FS_Interval
    <3>3. k \in P
      BY <2>1, <2>2
    <3> QED  BY <1>1, <1>4, <3>2, <3>3, PlacesApart
  <2> QED  BY <1>1, <1>3, <2>2, <2>3
<1> QED  BY <1>6, <1>7, <1>8, <1>9 DEF f

-----------------------------------------------------------------------------
(* The types of the state and of what a step will write, and the document   *)
(* that a step publishes with the tables behind it: they hold however many  *)
(* organisers' steps overlap.                                               *)

Results == {"pass", "fail", "pending"}

WritesTyped(p) ==
    p # NoPlan =>
        /\ "sealed" \in DOMAIN p.writes => p.doc = "sealed" /\ p.writes["sealed"] \subseteq Teams
        /\ "qualified" \in DOMAIN p.writes => p.doc = "gate" /\ p.writes["qualified"] \subseteq Teams
        /\ "ranking" \in DOMAIN p.writes => p.doc = "final"
        /\ "round" \in DOMAIN p.writes => p.writes["round"] \in Nat
        /\ "interview" \in DOMAIN p.writes =>
              \A t \in DOMAIN p.writes["interview"] : p.writes["interview"][t] \in Results
        /\ p.step = "interview" => DOMAIN p.writes = {"interview"}

EventTyped ==
    /\ sealed \subseteq Teams /\ qualified \subseteq Teams
    /\ round \in Nat
    /\ table \in Tables
    /\ interview \in [Teams -> Results]
    /\ DOMAIN plan = Organisers
    /\ overtaken \in BOOLEAN
    /\ \A o \in Organisers : WritesTyped(plan[o])

-----------------------------------------------------------------------------
(* The bracket.                                                             *)

Entries == [team : Teams, seed : 1 .. 4]
Pairings ==
    [round : {1, 2}, slot : {"SF1", "SF2", "F", "3RD"}, high : Entries, low : Entries,
     ties : Nat, winner : Teams \cup {NoTeam}, open : BOOLEAN,
     score : {"high", "low", "level"}]

\* The side of row that t, one of its two teams, has; and the other side.
Side(row, t) == IF t = row.high.team THEN row.high ELSE row.low
Other(row, t) == IF t = row.high.team THEN row.low ELSE row.high

Meet(row, x, y) ==
    IF x.seed <= y.seed THEN row.high = x /\ row.low = y ELSE row.high = y /\ row.low = x

\* The semi-finals of four teams of eligible.
Semis(a, b, eligible) ==
    /\ a.round = 1 /\ a.slot = "SF1" /\ a.high.seed = 1 /\ a.low.seed = 4
    /\ b.round = 1 /\ b.slot = "SF2" /\ b.high.seed = 2 /\ b.low.seed = 3
    /\ {a.high.team, a.low.team, b.high.team, b.low.team} \subseteq eligible
    /\ a.high.team # a.low.team /\ b.high.team # b.low.team
    /\ {a.high.team, a.low.team} \cap {b.high.team, b.low.team} = {}

\* The final and the third place match once wa won a and wb won b.
Finals(a, wa, b, wb, f, third) ==
    /\ f.round = 2 /\ f.slot = "F" /\ third.round = 2 /\ third.slot = "3RD"
    /\ wa # NoTeam /\ wb # NoTeam
    /\ Meet(f, Side(a, wa), Side(b, wb))
    /\ Meet(third, Other(a, wa), Other(b, wb))

Bracket(rs, eligible) ==
    /\ rs \in Seq(Pairings)
    /\ Len(rs) \in {2, 4}
    /\ \A i \in 1 .. Len(rs) : rs[i].winner \in {NoTeam, rs[i].high.team, rs[i].low.team}
    /\ Semis(rs[1], rs[2], eligible)
    /\ Len(rs) = 4 => Finals(rs[1], rs[1].winner, rs[2], rs[2].winner, rs[3], rs[4])

\* The teams who may be in the knockout.
Eligible == qualified \cap Interviewed({"pass"})

-----------------------------------------------------------------------------
(* What a step will write fits the state it will be written to.             *)

Early == {"registration", "frozen", "gate", "qualifying", "verification"}

RankFits(r, teams, gone, failed) ==
    /\ r \in Seq(Teams) /\ IsInjective(r)
    /\ teams \ gone \subseteq Range(r) /\ Range(r) \subseteq teams
    /\ \A i, j \in DOMAIN r : i < j /\ r[i] \in failed => r[j] \in failed

Failed == Interviewed({"fail"})

Podium(r, f, wf, third, wt) ==
    SubSeq(r, 1, 4) = <<wf, Other(f, wf).team, wt, Other(third, wt).team>>

Before(p) ==
    /\ phase \in Early
    /\ p.doc # "final"
    /\ "phase" \in DOMAIN p.writes => p.writes["phase"] \in Early
    /\ "qualified" \in DOMAIN p.writes =>
          "phase" \in DOMAIN p.writes /\ p.writes["phase"] # phase
    /\ DOMAIN p.writes \cap {"winner", "tiebreak", "pairings", "ranking"} = {}

Starts(p) ==
    /\ phase = "verification" /\ p.doc = "none"
    /\ DOMAIN p.writes = {"phase", "pairings"} /\ p.writes["phase"] = "knockout"
    /\ Len(p.writes["pairings"]) = 2
    /\ Bracket(p.writes["pairings"], Eligible)

Finishes(p) ==
    /\ phase = "verification" /\ p.doc = "final"
    /\ DOMAIN p.writes = {"phase", "ranking"} /\ p.writes["phase"] = "finished"
    /\ RankFits(p.writes["ranking"], qualified, out, Failed)

\* The winners a step will write are the ones there are, where there are any.
Decides(w, rs) ==
    /\ DOMAIN w \subseteq DOMAIN rs
    /\ \A i \in DOMAIN w : /\ w[i] \in {rs[i].high.team, rs[i].low.team}
                           /\ rs[i].winner # NoTeam => w[i] = rs[i].winner

Advances(p) ==
    /\ phase = "knockout" /\ "winner" \in DOMAIN p.writes
    /\ Decides(p.writes["winner"], rows)
    /\ \/ DOMAIN p.writes = {"winner", "tiebreak"} /\ p.doc = "none"
       \/ /\ DOMAIN p.writes = {"winner", "pairings"} /\ p.doc = "none"
          /\ Len(rows) = 2 /\ DOMAIN p.writes["winner"] = {1, 2}
          /\ p.writes["pairings"] \in Seq(Pairings) /\ Len(p.writes["pairings"]) = 2
          /\ p.writes["pairings"][1].winner = NoTeam /\ p.writes["pairings"][2].winner = NoTeam
          /\ Finals(rows[1], p.writes["winner"][1], rows[2], p.writes["winner"][2],
                    p.writes["pairings"][1], p.writes["pairings"][2])
       \/ /\ DOMAIN p.writes = {"winner", "phase", "ranking"} /\ p.doc = "final"
          /\ p.writes["phase"] = "finished"
          /\ Len(rows) = 4 /\ DOMAIN p.writes["winner"] = {3, 4}
          /\ RankFits(p.writes["ranking"], qualified, out, Failed)
          /\ Podium(p.writes["ranking"], rows[3], p.writes["winner"][3],
                    rows[4], p.writes["winner"][4])

Fits(p) == p = NoPlan \/ Before(p) \/ Starts(p) \/ Finishes(p) \/ Advances(p)

Staged ==
    \/ phase \in Early /\ rows = << >>
    \/ phase = "knockout" /\ Bracket(rows, Eligible)
    \/ /\ phase = "finished"
       /\ RankFits(ranking, qualified, out, Failed)
       /\ \/ rows = << >>
          \/ /\ Bracket(rows, Eligible) /\ Len(rows) = 4
             /\ rows[3].winner # NoTeam /\ rows[4].winner # NoTeam
             /\ Podium(ranking, rows[3], rows[3].winner, rows[4], rows[4].winner)

\* Until the batch of an overtaken plan is run, the event is at a stage of its
\* way and every plan that no batch has overtaken fits it.
EventFits ==
    ~overtaken =>
        /\ Staged
        /\ \A o \in Organisers \ stale : Fits(plan[o])

-----------------------------------------------------------------------------
(* Types.                                                                   *)

LEMMA StepIs ==
  ASSUME NEW name, NEW doc, NEW writes
  PROVE  /\ Step(name, doc, writes) # NoPlan
         /\ Step(name, doc, writes).step = name
         /\ Step(name, doc, writes).doc = doc
         /\ Step(name, doc, writes).writes = writes
<1>1. "doc" \in DOMAIN Step(name, doc, writes) /\ "doc" \notin DOMAIN NoPlan
  BY DEF Step, NoPlan
<1> QED  BY <1>1 DEF Step

LEMMA EventInitTyped ==
  EventInit => EventTyped
<1> SUFFICES ASSUME EventInit  PROVE EventTyped
  OBVIOUS
<1>1. table \in Tables
  BY EventAssumption DEF EventInit
<1>2. \A o \in Organisers : WritesTyped(plan[o])
  BY DEF EventInit, WritesTyped
<1> QED  BY <1>1, <1>2 DEF EventInit, EventTyped, Results

\* A step is worked out to write values of the right types.
LEMMA PlanOfTyped ==
  ASSUME EventTyped, NEW o \in Organisers, NEW name, NEW doc, NEW writes,
         PlanOf(o, Step(name, doc, writes)),
         "sealed" \in DOMAIN writes => doc = "sealed" /\ writes["sealed"] \subseteq Teams,
         "qualified" \in DOMAIN writes => doc = "gate" /\ writes["qualified"] \subseteq Teams,
         "ranking" \in DOMAIN writes => doc = "final",
         "round" \in DOMAIN writes => writes["round"] \in Nat,
         "interview" \in DOMAIN writes =>
            \A t \in DOMAIN writes["interview"] : writes["interview"][t] \in Results,
         name = "interview" => DOMAIN writes = {"interview"}
  PROVE  DOMAIN plan' = Organisers /\ \A q \in Organisers : WritesTyped(plan'[q])
<1>1. WritesTyped(Step(name, doc, writes))
  BY StepIs DEF WritesTyped
<1>2. \A q \in Organisers : plan'[q] = IF q = o THEN Step(name, doc, writes) ELSE plan[q]
  BY DEF EventTyped, PlanOf
<1> QED  BY <1>1, <1>2 DEF EventTyped, PlanOf

LEMMA PlanTyped ==
  ASSUME EventTyped, NEW o \in Organisers, Plan(o)
  PROVE  EventTyped'
<1>0. UNCHANGED Unplanned
  BY DEF Plan
<1>1. SUFFICES DOMAIN plan' = Organisers /\ \A q \in Organisers : WritesTyped(plan'[q])
  BY <1>0 DEF EventTyped, Unplanned
<1>2. CASE PlanFreeze(o)
  <2>1. PICK ready \in SUBSET (Teams \ out) :
          PlanOf(o, Step("freeze", "sealed", [phase |-> "frozen", sealed |-> ready]))
    BY <1>2 DEF PlanFreeze
  <2> QED  BY <2>1, PlanOfTyped
<1>3. CASE PlanGateStart(o)
  BY <1>3, PlanOfTyped DEF PlanGateStart
<1>4. CASE PlanGateClose(o)
  <2>1. sealed \cap passed \subseteq Teams
    BY DEF EventTyped
  <2> QED  BY <1>4, <2>1, PlanOfTyped DEF PlanGateClose
<1>5. CASE PlanQualifyingStart(o)
  BY <1>5, PlanOfTyped DEF PlanQualifyingStart
<1>6. CASE PlanSwissNextRound(o)
  <2>1. round + 1 \in Nat
    BY DEF EventTyped
  <2> QED  BY <1>6, <2>1, PlanOfTyped DEF PlanSwissNextRound
<1>7. CASE PlanQualifyingClose(o)
  BY <1>7, PlanOfTyped DEF PlanQualifyingClose
<1>8. ASSUME NEW t \in Teams, NEW r \in {"pass", "fail", "pending"}, PlanInterview(o, t, r)
      PROVE  DOMAIN plan' = Organisers /\ \A q \in Organisers : WritesTyped(plan'[q])
  <2> DEFINE w == [interview |-> [x \in {t} |-> r]]
  <2>1. /\ DOMAIN w = {"interview"}
        /\ \A x \in DOMAIN w["interview"] : w["interview"][x] \in Results
    BY DEF Results
  <2>2. PlanOf(o, Step("interview", "none", w))
    BY <1>8 DEF PlanInterview
  <2> HIDE DEF w
  <2> QED  BY <2>1, <2>2, PlanOfTyped
<1>9. CASE PlanKnockoutStart(o)
  BY <1>9, PlanOfTyped DEF PlanKnockoutStart
<1>10. CASE PlanKnockoutAdvance(o)
  <2> DEFINE level == {i \in Current : Decide(rows[i]) = NoTeam}
             winner == [i \in Current \ level |-> Decide(rows[i])]
  <2> HIDE DEF level, winner
  <2>1. \/ PlanOf(o, Step("knockout-advance", "none", [winner |-> winner, tiebreak |-> level]))
        \/ PlanOf(o, Step("knockout-advance", "none", [winner |-> winner, pairings |-> NextRound]))
        \/ PlanOf(o, Step("knockout-advance", "final",
                          [winner |-> winner, phase |-> "finished", ranking |-> FinalRanking(Placed)]))
    BY <1>10 DEF PlanKnockoutAdvance, level, winner
  <2> QED  BY <2>1, PlanOfTyped
<1>11. CASE PlanFinish(o)
  BY <1>11, PlanOfTyped DEF PlanFinish
<1> QED  BY <1>2, <1>3, <1>4, <1>5, <1>6, <1>7, <1>8, <1>9, <1>10, <1>11 DEF Plan

LEMMA CommitTyped ==
  ASSUME EventTyped, NEW o \in Organisers, Commit(o)
  PROVE  EventTyped'
<1>1. plan[o] # NoPlan /\ WritesTyped(plan[o])
  BY DEF EventTyped, Commit
<1>2. /\ Written(o, "sealed", sealed) \subseteq Teams
      /\ Written(o, "qualified", qualified) \subseteq Teams
      /\ Written(o, "round", round) \in Nat
      /\ Interviews(o) \in [Teams -> Results]
  <2>1. \A t \in DOMAIN Written(o, "interview", << >>) : Written(o, "interview", << >>)[t] \in Results
    <3>1. CASE "interview" \in DOMAIN plan[o].writes
      BY <1>1, <3>1 DEF WritesTyped, Written
    <3>2. CASE "interview" \notin DOMAIN plan[o].writes
      BY <3>2 DEF Written
    <3> QED  BY <3>1, <3>2
  <2>2. Interviews(o) \in [Teams -> Results]
    BY <2>1 DEF Interviews, EventTyped
  <2> QED  BY <1>1, <2>2 DEF WritesTyped, EventTyped, Written
<1>3. /\ sealed' \subseteq Teams /\ qualified' \subseteq Teams /\ round' \in Nat
      /\ interview' \in [Teams -> Results] /\ table' = table
  BY <1>2 DEF Commit
<1>4. \A q \in Organisers : plan'[q] = NoPlan \/ plan'[q] = plan[q]
  BY DEF Commit, EventTyped
<1>5. DOMAIN plan' = Organisers /\ overtaken' \in BOOLEAN
  BY DEF Commit, EventTyped
<1> QED  BY <1>3, <1>4, <1>5 DEF EventTyped, WritesTyped

LEMMA EventTypedStep ==
  ASSUME EventTyped, [EventNext]_eventVars
  PROVE  EventTyped'
<1>1. ASSUME NEW o \in Organisers, Plan(o)  PROVE EventTyped'
  BY <1>1, PlanTyped
<1>2. ASSUME NEW o \in Organisers, Commit(o)  PROVE EventTyped'
  BY <1>2, CommitTyped
<1>3. ASSUME NEW o \in Organisers, Abort(o)  PROVE EventTyped'
  <2>1. \A q \in Organisers : plan'[q] = NoPlan \/ plan'[q] = plan[q]
    BY <1>3 DEF Abort, EventTyped
  <2> QED  BY <1>3, <2>1 DEF Abort, EventTyped, WritesTyped, Unplanned
<1>4. CASE GateEnds
  BY <1>4 DEF GateEnds, EventTyped
<1>5. CASE QualifyingEnds
  BY <1>5 DEF QualifyingEnds, EventTyped
<1>6. ASSUME NEW stage \in {"gate", "qualifying"}, RerunStage(stage)  PROVE EventTyped'
  BY <1>6 DEF RerunStage, EventTyped
<1>7. ASSUME NEW i \in DOMAIN rows, PairingEnds(i) \/ RerunKnockout(i) \/ SetKnockoutResult(i)
      PROVE  EventTyped'
  BY <1>7 DEF PairingEnds, RerunKnockout, SetKnockoutResult, EventTyped
<1>8. ASSUME NEW t \in Teams, Disqualify(t)  PROVE EventTyped'
  BY <1>8 DEF Disqualify, EventTyped
<1>9. CASE UNCHANGED eventVars
  BY <1>9 DEF eventVars, EventTyped
<1> QED  BY <1>1, <1>2, <1>3, <1>4, <1>5, <1>6, <1>7, <1>8, <1>9 DEF EventNext

LEMMA EventAlwaysTyped == EventSpec => []EventTyped
<1>1. EventInit => EventTyped
  BY EventInitTyped
<1>2. EventTyped /\ [EventNext]_eventVars => EventTyped'
  BY EventTypedStep
<1> QED  BY <1>1, <1>2, PTL DEF EventSpec

-----------------------------------------------------------------------------
(* No gap between the steps' conditions.                                    *)

LEMMA StandingsAre ==
  ASSUME EventTyped
  PROVE  /\ Standings \in Seq(Teams) /\ IsInjective(Standings)
         /\ Range(Standings) = qualified \ out
<1>1. table \in Seq(Teams) /\ IsInjective(table) /\ Range(table) = Teams
  BY EventAssumption DEF EventTyped
<1> QED  BY <1>1, FilterIs DEF Standings, EventTyped

\* With every interview held the top four are ready, whoever failed.
LEMMA ReadyAre ==
  ASSUME EventTyped, \A t \in qualified : interview[t] # "pending"
  PROVE  InterviewsReady
<1>1. /\ NotFailed \in Seq(Teams)
      /\ Range(NotFailed) = (qualified \ out) \cap Interviewed({"pass", "pending"})
  BY StandingsAre, FilterIs DEF NotFailed
<1>2. Contenders \in Seq(Teams) /\ Range(Contenders) \subseteq Range(NotFailed)
  <2>0. Len(NotFailed) \in Nat
    BY <1>1
  <2> DEFINE n == IF Len(NotFailed) < 4 THEN Len(NotFailed) ELSE 4
  <2>1. n \in Nat /\ n <= Len(NotFailed) /\ Contenders = SubSeq(NotFailed, 1, n)
    BY <2>0 DEF Contenders, AtMost4
  <2> HIDE DEF n
  <2>2. /\ Contenders \in Seq(Teams) /\ Len(Contenders) = n
        /\ \A i \in 1 .. n : Contenders[i] = NotFailed[i]
    BY <1>1, <2>1
  <2>3. \A i \in 1 .. n : i \in DOMAIN NotFailed
    BY <1>1, <2>0, <2>1
  <2> QED  BY <2>2, <2>3 DEF Range
<1>3. Range(Contenders) \subseteq Interviewed({"pass"})
  BY <1>1, <1>2 DEF Interviewed
<1> QED  BY <1>2, <1>3, FilterIs DEF InterviewsReady, Seeded

\* Whoever is disqualified or fails the interview, once the games are played
\* and the interviews held the organisers have a step to take: the conditions
\* of the next round, the close, the knockout and of finishing without it
\* (planSwissNextRound ... planFinishWithoutKnockout) leave no gap, however
\* many organisers' steps overlap.
THEOREM EventNotStuck == EventSpec => []NotStuck
<1>1. ASSUME EventTyped  PROVE NotStuck
  <2>1. ASSUME phase = "qualifying", "qualifying" \notin unplayed, ~Stranded
        PROVE  CanStartQualifying \/ CanPairNextRound \/ CanCloseQualifying
    <3>1. Cardinality(Active) \in Nat
      <4>1. Active \in SUBSET Teams
        BY <1>1 DEF EventTyped, Active
      <4> QED  BY <4>1, EventAssumption, FS_Subset, FS_CardinalityType
    <3>2. round \in Nat /\ SwissRounds \in Nat
      BY <1>1, EventAssumption DEF EventTyped
    <3> QED  BY <2>1, <3>1, <3>2 DEF Stranded, CanStartQualifying, CanPairNextRound,
                                     CanCloseQualifying
  <2>2. ASSUME phase = "verification", \A t \in qualified : interview[t] # "pending"
        PROVE  CanStartKnockout \/ CanFinish
    <3>1. InterviewsReady
      BY <1>1, <2>2, ReadyAre
    <3>2. Len(Seeded) \in Nat
      <4>1. Standings \in Seq(Teams)
        BY <1>1, StandingsAre
      <4>2. NotFailed \in Seq(Teams)
        BY <4>1, FilterIs DEF NotFailed
      <4>3. Contenders \in Seq(Teams)
        BY <4>2 DEF Contenders, AtMost4
      <4> QED  BY <4>3, FilterIs DEF Seeded
    <3> QED  BY <2>2, <3>1, <3>2 DEF CanStartKnockout, CanFinish
  <2> QED  BY <2>1, <2>2 DEF NotStuck
<1> QED  BY <1>1, EventAlwaysTyped, PTL

-----------------------------------------------------------------------------
(* Rankings.                                                                *)

LEMMA ConcatApart ==
  ASSUME NEW T, NEW s \in Seq(T), NEW t \in Seq(T),
         IsInjective(s), IsInjective(t), Range(s) \cap Range(t) = {}
  PROVE  /\ s \o t \in Seq(T) /\ IsInjective(s \o t)
         /\ Range(s \o t) = Range(s) \cup Range(t)
<1> DEFINE c == s \o t
<1>1. /\ c \in Seq(T) /\ Len(c) = Len(s) + Len(t)
      /\ Len(s) \in Nat /\ Len(t) \in Nat
      /\ DOMAIN s = 1 .. Len(s) /\ DOMAIN t = 1 .. Len(t) /\ DOMAIN c = 1 .. Len(c)
      /\ \A i \in 1 .. Len(c) : c[i] = IF i <= Len(s) THEN s[i] ELSE t[i - Len(s)]
  OBVIOUS
<1> HIDE DEF c
<1>2. \A i \in 1 .. Len(c) : /\ i <= Len(s) => i \in DOMAIN s /\ c[i] = s[i]
                             /\ ~(i <= Len(s)) => i - Len(s) \in DOMAIN t /\ c[i] = t[i - Len(s)]
  BY <1>1
<1>6. \A i \in 1 .. Len(c) : /\ i <= Len(s) => c[i] \in Range(s)
                             /\ ~(i <= Len(s)) => c[i] \in Range(t)
  BY <1>2 DEF Range
<1>3. IsInjective(c)
  <2>1. SUFFICES ASSUME NEW i \in 1 .. Len(c), NEW j \in 1 .. Len(c), c[i] = c[j]
                 PROVE  i = j
    BY <1>1 DEF IsInjective
  <2>2. CASE i <= Len(s) /\ j <= Len(s)
    BY <1>2, <2>1, <2>2 DEF IsInjective
  <2>3. CASE ~(i <= Len(s)) /\ ~(j <= Len(s))
    <3>1. i - Len(s) = j - Len(s)
      BY <1>2, <2>1, <2>3 DEF IsInjective
    <3> QED  BY <1>1, <3>1
  <2>4. CASE i <= Len(s) /\ ~(j <= Len(s))
    BY <1>6, <2>1, <2>4
  <2>5. CASE ~(i <= Len(s)) /\ j <= Len(s)
    BY <1>6, <2>1, <2>5
  <2> QED  BY <2>2, <2>3, <2>4, <2>5
<1>4. Range(c) = Range(s) \cup Range(t)
  <2>1. Range(c) \subseteq Range(s) \cup Range(t)
    BY <1>1, <1>2 DEF Range
  <2>2. \A i \in 1 .. Len(s) : i \in 1 .. Len(c) /\ c[i] = s[i]
    BY <1>1
  <2>3. \A i \in 1 .. Len(t) : i + Len(s) \in 1 .. Len(c) /\ c[i + Len(s)] = t[i]
    BY <1>1
  <2>4. \A i \in DOMAIN s : s[i] \in Range(c)
    BY <1>1, <2>2 DEF Range
  <2>5. ASSUME NEW i \in DOMAIN t  PROVE t[i] \in Range(c)
    <3>1. i + Len(s) \in DOMAIN c /\ c[i + Len(s)] = t[i]
      BY <1>1, <2>3
    <3> QED  BY <3>1 DEF Range
  <2>6. Range(s) \subseteq Range(c) /\ Range(t) \subseteq Range(c)
    BY <2>4, <2>5 DEF Range
  <2> QED  BY <2>1, <2>6
<1> QED  BY <1>1, <1>3, <1>4 DEF c

\* Those who failed stay behind those who did not when they are put behind.
LEMMA FailedBehind ==
  ASSUME NEW T, NEW s \in Seq(T), NEW t \in Seq(T), NEW failed,
         Range(s) \cap failed = {}, Range(t) \subseteq failed
  PROVE  \A i, j \in DOMAIN (s \o t) :
            i < j /\ (s \o t)[i] \in failed => (s \o t)[j] \in failed
<1> DEFINE c == s \o t
<1>1. /\ c \in Seq(T) /\ Len(c) = Len(s) + Len(t)
      /\ Len(s) \in Nat /\ Len(t) \in Nat
      /\ DOMAIN s = 1 .. Len(s) /\ DOMAIN t = 1 .. Len(t) /\ DOMAIN c = 1 .. Len(c)
      /\ \A i \in 1 .. Len(c) : c[i] = IF i <= Len(s) THEN s[i] ELSE t[i - Len(s)]
  OBVIOUS
<1> HIDE DEF c
<1>2. \A i \in 1 .. Len(c) : /\ i <= Len(s) => i \in DOMAIN s /\ c[i] = s[i]
                             /\ ~(i <= Len(s)) => i - Len(s) \in DOMAIN t /\ c[i] = t[i - Len(s)]
  BY <1>1
<1>3. \A i \in 1 .. Len(c) : /\ i <= Len(s) => c[i] \notin failed
                             /\ ~(i <= Len(s)) => c[i] \in failed
  BY <1>2 DEF Range
<1>4. \A i, j \in 1 .. Len(c) : i < j /\ j <= Len(s) => i <= Len(s)
  BY <1>1
<1>5. \A i, j \in 1 .. Len(c) : i < j /\ c[i] \in failed => c[j] \in failed
  BY <1>3, <1>4
<1> QED  BY <1>1, <1>5 DEF c

\* The final document's ranking over teams placed that did not fail.
LEMMA FinalRankingFits ==
  ASSUME EventTyped, NEW placed \in Seq(Teams), IsInjective(placed),
         Range(placed) \subseteq qualified, Range(placed) \cap Failed = {}
  PROVE  /\ RankFits(FinalRanking(placed), qualified, out, Failed)
         /\ \A i \in 1 .. Len(placed) : FinalRanking(placed)[i] = placed[i]
         /\ Len(FinalRanking(placed)) >= Len(placed)
<1> DEFINE rest == Filter(Standings, Teams \ Range(placed))
           kept == Filter(rest, Interviewed({"pass", "pending"}))
           last == Filter(rest, Failed)
           front == placed \o kept
           r == front \o last
<1>1. rest \in Seq(Teams) /\ IsInjective(rest) /\ Range(rest) = (qualified \ out) \ Range(placed)
  <2>1. /\ rest \in Seq(Teams) /\ IsInjective(rest)
        /\ Range(rest) = Range(Standings) \cap (Teams \ Range(placed))
    BY StandingsAre, FilterIs
  <2> QED  BY <2>1, StandingsAre DEF EventTyped
<1> HIDE DEF rest
<1>2. kept \in Seq(Teams) /\ IsInjective(kept)
      /\ Range(kept) = Range(rest) \cap Interviewed({"pass", "pending"})
  BY <1>1, FilterIs
<1>3. last \in Seq(Teams) /\ IsInjective(last) /\ Range(last) = Range(rest) \cap Failed
  BY <1>1, FilterIs
<1> HIDE DEF kept, last
<1>4. /\ Interviewed({"pass", "pending"}) \cap Failed = {}
      /\ Interviewed({"pass", "pending"}) \cup Failed = Teams
  BY DEF Interviewed, Failed, EventTyped, Results
<1>5. /\ front \in Seq(Teams) /\ IsInjective(front)
      /\ Range(front) = Range(placed) \cup Range(kept)
  <2>1. Range(placed) \cap Range(kept) = {}
    BY <1>1, <1>2
  <2> QED  BY <1>2, <2>1, ConcatApart
<1>6. Range(front) \cap Failed = {} /\ Range(last) \subseteq Failed
  BY <1>2, <1>3, <1>4, <1>5
<1>13. Len(front) \in Nat /\ Len(placed) \in Nat /\ Len(front) >= Len(placed)
  BY <1>2
<1>14. \A i \in 1 .. Len(placed) : front[i] = placed[i]
  BY <1>2
<1> HIDE DEF front
<1>7. r \in Seq(Teams) /\ IsInjective(r) /\ Range(r) = Range(front) \cup Range(last)
  <2>1. Range(front) \cap Range(last) = {}
    BY <1>6
  <2> QED  BY <1>3, <1>5, <2>1, ConcatApart
<1>8. \A i, j \in DOMAIN r : i < j /\ r[i] \in Failed => r[j] \in Failed
  BY <1>3, <1>5, <1>6, FailedBehind
<1>9. r = FinalRanking(placed)
  BY DEF FinalRanking, RankedOver, Failed, rest, kept, last, front
<1>10. \A i \in 1 .. Len(placed) : r[i] = placed[i]
  <2>1. \A i \in 1 .. Len(front) : r[i] = front[i]
    BY <1>3, <1>5
  <2> QED  BY <1>13, <1>14, <2>1
<1>11. Len(r) >= Len(placed)
  BY <1>3, <1>5, <1>13
<1>12. qualified \ out \subseteq Range(r) /\ Range(r) \subseteq qualified
  <2>1. qualified \subseteq Teams
    BY DEF EventTyped
  <2> QED  BY <1>1, <1>2, <1>3, <1>4, <1>5, <1>7, <2>1
<1> QED  BY <1>7, <1>8, <1>9, <1>10, <1>11, <1>12 DEF RankFits

-----------------------------------------------------------------------------
(* Pairings of the knockout.                                                *)

LEMMA TeamIsNoTeam == NoTeam \notin Teams
BY EventAssumption

LEMMA PairingIs ==
  ASSUME NEW n \in {1, 2}, NEW slot \in {"SF1", "SF2", "F", "3RD"},
         NEW x \in Entries, NEW y \in Entries
  PROVE  LET p == Pairing(n, slot, x, y)
         IN  /\ p \in Pairings /\ p.winner = NoTeam /\ p.round = n /\ p.slot = slot
             /\ Meet(p, x, y)
<1>1. Pairing(n, slot, x, y) \in Pairings
  <2>1. CASE x.seed <= y.seed
    BY <2>1 DEF Pairing, Pairings
  <2>2. CASE ~(x.seed <= y.seed)
    BY <2>2 DEF Pairing, Pairings
  <2> QED  BY <2>1, <2>2
<1>2. LET p == Pairing(n, slot, x, y)
      IN  p.winner = NoTeam /\ p.round = n /\ p.slot = slot /\ Meet(p, x, y)
  BY DEF Pairing, Meet
<1> QED  BY <1>1, <1>2

LEMMA DecideIs ==
  ASSUME NEW row \in Pairings, row.winner \in {NoTeam, row.high.team, row.low.team}
  PROVE  /\ Decide(row) \in {NoTeam, row.high.team, row.low.team}
         /\ row.winner # NoTeam => Decide(row) = row.winner
         /\ WinnerEntry(row) = Side(row, Decide(row))
         /\ LoserEntry(row) = Other(row, Decide(row))
BY DEF Decide, WinnerEntry, LoserEntry, Side, Other

LEMMA GameIs ==
  ASSUME NEW row \in Pairings
  PROVE  /\ row.high \in Entries /\ row.low \in Entries
         /\ row.high.team \in Teams /\ row.low.team \in Teams
         /\ row.high.seed \in 1 .. 4 /\ row.low.seed \in 1 .. 4
         /\ \A t : Side(row, t) \in Entries /\ Other(row, t) \in Entries
BY DEF Pairings, Entries, Side, Other

LEMMA FirstRoundIs ==
  ASSUME NEW s \in Seq(Teams), Len(s) >= 4, IsInjective(s),
         NEW eligible, Range(s) \subseteq eligible
  PROVE  Len(FirstRound(s)) = 2 /\ Bracket(FirstRound(s), eligible)
<1>1. /\ s[1] \in Teams /\ s[2] \in Teams /\ s[3] \in Teams /\ s[4] \in Teams
      /\ {s[1], s[2], s[3], s[4]} \subseteq eligible
      /\ s[1] # s[2] /\ s[1] # s[3] /\ s[1] # s[4] /\ s[2] # s[3] /\ s[2] # s[4] /\ s[3] # s[4]
  <2>1. {1, 2, 3, 4} \subseteq DOMAIN s
    <3>1. DOMAIN s = 1 .. Len(s) /\ Len(s) \in Nat
      OBVIOUS
    <3> QED  BY <3>1
  <2>2. \A i \in {1, 2, 3, 4} : s[i] \in Teams /\ s[i] \in Range(s)
    BY <2>1 DEF Range
  <2>3. \A i, j \in {1, 2, 3, 4} : i # j => s[i] # s[j]
    BY <2>1 DEF IsInjective
  <2> QED  BY <2>2, <2>3
<1>2. \A n \in 1 .. 4 : /\ Entry(s, n) \in Entries
                        /\ Entry(s, n).team = s[n] /\ Entry(s, n).seed = n
  BY <1>1 DEF Entry, Entries
<1> DEFINE a == Pairing(1, "SF1", Entry(s, 1), Entry(s, 4))
           b == Pairing(1, "SF2", Entry(s, 2), Entry(s, 3))
<1>3. /\ a \in Pairings /\ a.winner = NoTeam /\ a.round = 1 /\ a.slot = "SF1"
      /\ a.high = Entry(s, 1) /\ a.low = Entry(s, 4)
  BY <1>2, PairingIs DEF Meet
<1>4. /\ b \in Pairings /\ b.winner = NoTeam /\ b.round = 1 /\ b.slot = "SF2"
      /\ b.high = Entry(s, 2) /\ b.low = Entry(s, 3)
  BY <1>2, PairingIs DEF Meet
<1>5. FirstRound(s) = <<a, b>>
  BY DEF FirstRound
<1> HIDE DEF a, b
<1>6. Semis(a, b, eligible)
  BY <1>1, <1>2, <1>3, <1>4 DEF Semis
<1>7. /\ FirstRound(s) \in Seq(Pairings) /\ Len(FirstRound(s)) = 2
      /\ FirstRound(s)[1] = a /\ FirstRound(s)[2] = b
  BY <1>3, <1>4, <1>5
<1>8. \A i \in 1 .. 2 : FirstRound(s)[i].winner = NoTeam
  BY <1>3, <1>4, <1>7
<1> QED  BY <1>6, <1>7, <1>8 DEF Bracket

\* What the bracket says of its games one by one.
LEMMA BracketGames ==
  ASSUME NEW rs, NEW eligible, Bracket(rs, eligible)
  PROVE  /\ rs \in Seq(Pairings) /\ DOMAIN rs = 1 .. Len(rs) /\ Len(rs) \in {2, 4}
         /\ \A i \in 1 .. Len(rs) : /\ rs[i] \in Pairings
                                    /\ rs[i].winner \in {NoTeam, rs[i].high.team, rs[i].low.team}
         /\ 1 \in DOMAIN rs /\ 2 \in DOMAIN rs
         /\ Len(rs) = 4 => 3 \in DOMAIN rs /\ 4 \in DOMAIN rs
<1>1. rs \in Seq(Pairings) /\ Len(rs) \in {2, 4}
  BY DEF Bracket
<1>2. DOMAIN rs = 1 .. Len(rs) /\ \A i \in 1 .. Len(rs) : rs[i] \in Pairings
  BY <1>1
<1> QED  BY <1>1, <1>2 DEF Bracket

\* Winners that are added or kept leave the bracket what it was.
Onward(rs, rs2) ==
    /\ rs2 \in Seq(Pairings) /\ Len(rs2) = Len(rs)
    /\ \A i \in 1 .. Len(rs) :
        /\ rs2[i].round = rs[i].round /\ rs2[i].slot = rs[i].slot
        /\ rs2[i].high = rs[i].high /\ rs2[i].low = rs[i].low
        /\ rs2[i].winner \in {NoTeam, rs[i].high.team, rs[i].low.team}
        /\ rs[i].winner # NoTeam => rs2[i].winner = rs[i].winner

LEMMA OnwardBracket ==
  ASSUME NEW rs, NEW rs2, NEW eligible, Bracket(rs, eligible), Onward(rs, rs2)
  PROVE  Bracket(rs2, eligible)
<1>1. /\ rs2 \in Seq(Pairings) /\ Len(rs2) = Len(rs) /\ Len(rs) \in {2, 4}
      /\ \A i \in 1 .. Len(rs) : rs2[i].winner \in {NoTeam, rs2[i].high.team, rs2[i].low.team}
  BY DEF Bracket, Onward
<1>2. ASSUME NEW i \in 1 .. Len(rs)
      PROVE  /\ rs2[i].round = rs[i].round /\ rs2[i].slot = rs[i].slot
             /\ rs2[i].high = rs[i].high /\ rs2[i].low = rs[i].low
             /\ rs[i].winner # NoTeam => rs2[i].winner = rs[i].winner
  BY DEF Onward
<1>3. 1 \in 1 .. Len(rs) /\ 2 \in 1 .. Len(rs)
      /\ (Len(rs) = 4 => 3 \in 1 .. Len(rs) /\ 4 \in 1 .. Len(rs))
  BY <1>1
<1>4. Semis(rs2[1], rs2[2], eligible)
  BY <1>2, <1>3 DEF Semis, Bracket
<1>5. Len(rs) = 4 => Finals(rs2[1], rs2[1].winner, rs2[2], rs2[2].winner, rs2[3], rs2[4])
  <2>1. SUFFICES ASSUME Len(rs) = 4
                 PROVE  Finals(rs2[1], rs2[1].winner, rs2[2], rs2[2].winner, rs2[3], rs2[4])
    OBVIOUS
  <2>2. Finals(rs[1], rs[1].winner, rs[2], rs[2].winner, rs[3], rs[4])
    BY <2>1 DEF Bracket
  <2>3. rs2[1].winner = rs[1].winner /\ rs2[2].winner = rs[2].winner
    BY <1>2, <1>3, <2>2 DEF Finals
  <2> QED  BY <1>2, <1>3, <2>1, <2>2, <2>3 DEF Finals, Meet, Side, Other
<1> QED  BY <1>1, <1>4, <1>5 DEF Bracket

\* The games that are played now, and who is in which slot.
LEMMA CurrentIs ==
  ASSUME NEW eligible, Bracket(rows, eligible)
  PROVE  /\ Len(rows) = 2 => /\ Current = {1, 2} /\ rows[1].slot = "SF1"
                             /\ InSlot("SF1") = rows[1] /\ InSlot("SF2") = rows[2]
         /\ Len(rows) = 4 => /\ Current = {3, 4} /\ ~\E i \in Current : rows[i].slot = "SF1"
                             /\ InSlot("F") = rows[3] /\ InSlot("3RD") = rows[4]
<1>1. DOMAIN rows = 1 .. Len(rows) /\ Len(rows) \in {2, 4}
  BY BracketGames
<1>2. rows[1].round = 1 /\ rows[2].round = 1 /\ rows[1].slot = "SF1" /\ rows[2].slot = "SF2"
  BY DEF Bracket, Semis
<1>3. ASSUME Len(rows) = 2
      PROVE  /\ Current = {1, 2}
             /\ InSlot("SF1") = rows[1] /\ InSlot("SF2") = rows[2]
  <2>1. DOMAIN rows = {1, 2}
    BY <1>1, <1>3
  <2>2. LastRound = 1
    <3>1. {rows[i].round : i \in DOMAIN rows} = {1}
      BY <1>2, <2>1
    <3> QED  BY <1>2, <2>1, <3>1 DEF LastRound
  <2>3. Current = {1, 2}
    BY <1>2, <2>1, <2>2 DEF Current
  <2>4. (CHOOSE i \in Current : /\ rows[i].slot = "SF1"
                                /\ \A j \in Current : rows[j].slot = "SF1" => j <= i) = 1
    BY <1>2, <2>3
  <2>5. (CHOOSE i \in Current : /\ rows[i].slot = "SF2"
                                /\ \A j \in Current : rows[j].slot = "SF2" => j <= i) = 2
    BY <1>2, <2>3
  <2> QED  BY <2>3, <2>4, <2>5 DEF InSlot
<1>4. ASSUME Len(rows) = 4
      PROVE  /\ Current = {3, 4} /\ ~\E i \in Current : rows[i].slot = "SF1"
             /\ InSlot("F") = rows[3] /\ InSlot("3RD") = rows[4]
  <2>1. DOMAIN rows = {1, 2, 3, 4}
    BY <1>1, <1>4
  <2>0. /\ rows[3].round = 2 /\ rows[4].round = 2
        /\ rows[3].slot = "F" /\ rows[4].slot = "3RD"
    BY <1>4 DEF Bracket, Finals
  <2>2. LastRound = 2
    <3>1. {rows[i].round : i \in DOMAIN rows} = {1, 2}
      BY <1>2, <2>0, <2>1
    <3>2. \A i \in DOMAIN rows : rows[i].round <= 2
      BY <1>2, <2>0, <2>1
    <3>3. ~ (\A i \in DOMAIN rows : rows[i].round <= 1)
      BY <2>0, <2>1
    <3> QED  BY <3>1, <3>2, <3>3 DEF LastRound
  <2>3. Current = {3, 4}
    BY <1>2, <2>0, <2>1, <2>2 DEF Current
  <2>4. (CHOOSE i \in Current : /\ rows[i].slot = "F"
                                /\ \A j \in Current : rows[j].slot = "F" => j <= i) = 3
    BY <2>0, <2>3
  <2>5. (CHOOSE i \in Current : /\ rows[i].slot = "3RD"
                                /\ \A j \in Current : rows[j].slot = "3RD" => j <= i) = 4
    BY <2>0, <2>3
  <2> QED  BY <2>0, <2>3, <2>4, <2>5 DEF InSlot
<1> QED  BY <1>2, <1>3, <1>4

\* The final and the third place match that the semi-finals' winners give.
LEMMA NextRoundIs ==
  ASSUME NEW eligible, Bracket(rows, eligible), Len(rows) = 2,
         Decide(rows[1]) # NoTeam, Decide(rows[2]) # NoTeam
  PROVE  /\ NextRound \in Seq(Pairings) /\ Len(NextRound) = 2
         /\ NextRound[1].winner = NoTeam /\ NextRound[2].winner = NoTeam
         /\ Finals(rows[1], Decide(rows[1]), rows[2], Decide(rows[2]),
                   NextRound[1], NextRound[2])
<1> DEFINE a == rows[1]
           b == rows[2]
           wa == Decide(a)
           wb == Decide(b)
           f == Pairing(2, "F", Side(a, wa), Side(b, wb))
           third == Pairing(2, "3RD", Other(a, wa), Other(b, wb))
<1>1. /\ a \in Pairings /\ b \in Pairings
      /\ a.winner \in {NoTeam, a.high.team, a.low.team}
      /\ b.winner \in {NoTeam, b.high.team, b.low.team}
  BY BracketGames
<1>2. NextRound = <<f, third>>
  <2>1. InSlot("SF1") = a /\ InSlot("SF2") = b
    BY CurrentIs
  <2>2. /\ WinnerEntry(a) = Side(a, wa) /\ LoserEntry(a) = Other(a, wa)
        /\ WinnerEntry(b) = Side(b, wb) /\ LoserEntry(b) = Other(b, wb)
    BY <1>1, DecideIs
  <2> QED  BY <2>1, <2>2 DEF NextRound
<1>3. /\ Side(a, wa) \in Entries /\ Other(a, wa) \in Entries
      /\ Side(b, wb) \in Entries /\ Other(b, wb) \in Entries
  BY <1>1, GameIs
<1>4. /\ f \in Pairings /\ f.winner = NoTeam /\ f.round = 2 /\ f.slot = "F"
      /\ Meet(f, Side(a, wa), Side(b, wb))
  BY <1>3, PairingIs
<1>5. /\ third \in Pairings /\ third.winner = NoTeam /\ third.round = 2 /\ third.slot = "3RD"
      /\ Meet(third, Other(a, wa), Other(b, wb))
  BY <1>3, PairingIs
<1> HIDE DEF f, third
<1>6. /\ NextRound \in Seq(Pairings) /\ Len(NextRound) = 2
      /\ NextRound[1] = f /\ NextRound[2] = third
  BY <1>2, <1>4, <1>5
<1> QED  BY <1>4, <1>5, <1>6 DEF Finals

LEMMA ConcatIs ==
  ASSUME NEW T, NEW s \in Seq(T), NEW t \in Seq(T)
  PROVE  /\ s \o t \in Seq(T) /\ Len(s \o t) = Len(s) + Len(t)
         /\ \A i \in 1 .. Len(s) + Len(t) :
                (s \o t)[i] = IF i <= Len(s) THEN s[i] ELSE t[i - Len(s)]
OBVIOUS

LEMMA TwoPairs ==
  ASSUME NEW T, NEW s \in Seq(T), NEW t \in Seq(T), Len(s) = 2, Len(t) = 2
  PROVE  LET c == s \o t
         IN  /\ c \in Seq(T) /\ Len(c) = 4
             /\ c[1] = s[1] /\ c[2] = s[2] /\ c[3] = t[1] /\ c[4] = t[2]
<1> DEFINE c == s \o t
<1>2. /\ c \in Seq(T) /\ Len(c) = Len(s) + Len(t)
      /\ \A i \in 1 .. Len(s) + Len(t) : c[i] = IF i <= Len(s) THEN s[i] ELSE t[i - Len(s)]
  BY ConcatIs
<1> HIDE DEF c
<1>1. c \in Seq(T) /\ Len(c) = 4
  BY <1>2
<1>3. \A i \in 1 .. 4 : c[i] = IF i <= 2 THEN s[i] ELSE t[i - 2]
  BY <1>2
<1>4. c[1] = s[1] /\ c[2] = s[2]
  BY <1>3
<1>5. c[3] = t[1]
  <2>1. 3 \in 1 .. 4 /\ ~(3 <= 2) /\ 3 - 2 = 1
    OBVIOUS
  <2> QED  BY <1>3, <2>1
<1>6. c[4] = t[2]
  <2>1. 4 \in 1 .. 4 /\ ~(4 <= 2) /\ 4 - 2 = 2
    OBVIOUS
  <2> QED  BY <1>3, <2>1
<1> QED  BY <1>1, <1>4, <1>5, <1>6 DEF c

LEMMA FirstFour ==
  ASSUME NEW T, NEW r \in Seq(T), NEW p \in Seq(T), Len(p) = 4, Len(r) >= 4,
         \A i \in 1 .. 4 : r[i] = p[i]
  PROVE  SubSeq(r, 1, 4) = p
<1>1. SubSeq(r, 1, 4) \in Seq(T) /\ Len(SubSeq(r, 1, 4)) = 4
  OBVIOUS
<1>2. ASSUME NEW i \in 1 .. 4  PROVE SubSeq(r, 1, 4)[i] = p[i]
  <2>1. SubSeq(r, 1, 4)[i] = r[i]
    OBVIOUS
  <2> QED  BY <2>1
<1> QED  BY <1>1, <1>2

LEMMA FinalsAppended ==
  ASSUME NEW rs, NEW eligible, Bracket(rs, eligible), Len(rs) = 2,
         NEW next \in Seq(Pairings), Len(next) = 2,
         next[1].winner = NoTeam, next[2].winner = NoTeam,
         Finals(rs[1], rs[1].winner, rs[2], rs[2].winner, next[1], next[2])
  PROVE  Bracket(rs \o next, eligible) /\ Len(rs \o next) = 4
<1> DEFINE c == rs \o next
<1>1. rs \in Seq(Pairings)
  BY BracketGames
<1>2. /\ c \in Seq(Pairings) /\ Len(c) = 4
      /\ c[1] = rs[1] /\ c[2] = rs[2] /\ c[3] = next[1] /\ c[4] = next[2]
  BY <1>1, TwoPairs
<1> HIDE DEF c
<1>3. \A i \in 1 .. 2 : rs[i].winner \in {NoTeam, rs[i].high.team, rs[i].low.team}
  BY BracketGames
<1>4. \A i \in 1 .. 4 : c[i].winner \in {NoTeam, c[i].high.team, c[i].low.team}
  <2>1. c[1].winner \in {NoTeam, c[1].high.team, c[1].low.team}
    BY <1>2, <1>3
  <2>2. c[2].winner \in {NoTeam, c[2].high.team, c[2].low.team}
    BY <1>2, <1>3
  <2>3. c[3].winner = NoTeam /\ c[4].winner = NoTeam
    BY <1>2
  <2>4. \A i \in 1 .. 4 : i = 1 \/ i = 2 \/ i = 3 \/ i = 4
    OBVIOUS
  <2> QED  BY <2>1, <2>2, <2>3, <2>4
<1>5. Semis(c[1], c[2], eligible) /\ Finals(c[1], c[1].winner, c[2], c[2].winner, c[3], c[4])
  BY <1>2 DEF Bracket
<1>6. Bracket(c, eligible)
  BY <1>2, <1>4, <1>5 DEF Bracket
<1> QED  BY <1>2, <1>6 DEF c

\* Who meets whom in the last round: the four teams of the semi-finals.
LEMMA FinalTeams ==
  ASSUME NEW rs, NEW eligible, Bracket(rs, eligible), Len(rs) = 4
  PROVE  /\ {rs[3].high.team, rs[3].low.team, rs[4].high.team, rs[4].low.team} \subseteq eligible
         /\ rs[3].high.team # rs[3].low.team /\ rs[4].high.team # rs[4].low.team
         /\ {rs[3].high.team, rs[3].low.team} \cap {rs[4].high.team, rs[4].low.team} = {}
         /\ {rs[3].high.team, rs[3].low.team}
              = {Side(rs[1], rs[1].winner).team, Side(rs[2], rs[2].winner).team}
         /\ {rs[4].high.team, rs[4].low.team}
              = {Other(rs[1], rs[1].winner).team, Other(rs[2], rs[2].winner).team}
         /\ rs[3].high.seed < rs[3].low.seed /\ rs[4].high.seed < rs[4].low.seed
<1>1. /\ Semis(rs[1], rs[2], eligible)
      /\ Finals(rs[1], rs[1].winner, rs[2], rs[2].winner, rs[3], rs[4])
  BY DEF Bracket
<1> DEFINE x == Side(rs[1], rs[1].winner)
           y == Side(rs[2], rs[2].winner)
           u == Other(rs[1], rs[1].winner)
           v == Other(rs[2], rs[2].winner)
<1>2. \/ x = rs[1].high /\ u = rs[1].low
      \/ x = rs[1].low /\ u = rs[1].high
  BY DEF Side, Other
<1>3. \/ y = rs[2].high /\ v = rs[2].low
      \/ y = rs[2].low /\ v = rs[2].high
  BY DEF Side, Other
<1>4. Meet(rs[3], x, y) /\ Meet(rs[4], u, v)
  BY <1>1 DEF Finals
<1> HIDE DEF x, y, u, v
<1>5. \/ rs[3].high = x /\ rs[3].low = y /\ x.seed <= y.seed
      \/ rs[3].high = y /\ rs[3].low = x /\ ~(x.seed <= y.seed)
  BY <1>4 DEF Meet
<1>6. \/ rs[4].high = u /\ rs[4].low = v /\ u.seed <= v.seed
      \/ rs[4].high = v /\ rs[4].low = u /\ ~(u.seed <= v.seed)
  BY <1>4 DEF Meet
<1>7. x.seed \in {1, 4} /\ u.seed \in {1, 4} /\ y.seed \in {2, 3} /\ v.seed \in {2, 3}
  BY <1>1, <1>2, <1>3 DEF Semis
<1>8. /\ {x.team, y.team, u.team, v.team} \subseteq eligible
      /\ x.team # u.team /\ y.team # v.team /\ x.team # y.team /\ x.team # v.team
      /\ u.team # y.team /\ u.team # v.team
  <2>1. /\ {rs[1].high.team, rs[1].low.team, rs[2].high.team, rs[2].low.team} \subseteq eligible
        /\ rs[1].high.team # rs[1].low.team /\ rs[2].high.team # rs[2].low.team
        /\ rs[1].high.team # rs[2].high.team /\ rs[1].high.team # rs[2].low.team
        /\ rs[1].low.team # rs[2].high.team /\ rs[1].low.team # rs[2].low.team
    BY <1>1 DEF Semis
  <2> QED  BY <1>2, <1>3, <2>1
<1>9. rs[3].high.seed < rs[3].low.seed /\ rs[4].high.seed < rs[4].low.seed
  BY <1>5, <1>6, <1>7
<1>10. {rs[3].high.team, rs[3].low.team} = {x.team, y.team}
  BY <1>5
<1>11. {rs[4].high.team, rs[4].low.team} = {u.team, v.team}
  BY <1>6
<1>12. /\ {rs[3].high.team, rs[3].low.team, rs[4].high.team, rs[4].low.team} \subseteq eligible
       /\ {rs[3].high.team, rs[3].low.team} \cap {rs[4].high.team, rs[4].low.team} = {}
  BY <1>8, <1>10, <1>11
<1>13. rs[3].high.team # rs[3].low.team /\ rs[4].high.team # rs[4].low.team
  BY <1>5, <1>6, <1>8
<1> QED  BY <1>9, <1>10, <1>11, <1>12, <1>13 DEF x, y, u, v

\* The four places of the final document.
LEMMA PlacedIs ==
  ASSUME NEW eligible \in SUBSET Teams, Bracket(rows, eligible), Len(rows) = 4,
         Decide(rows[3]) # NoTeam, Decide(rows[4]) # NoTeam
  PROVE  /\ Placed \in Seq(Teams) /\ Len(Placed) = 4 /\ IsInjective(Placed)
         /\ Range(Placed) \subseteq eligible
         /\ Placed = <<Decide(rows[3]), Other(rows[3], Decide(rows[3])).team,
                       Decide(rows[4]), Other(rows[4], Decide(rows[4])).team>>
<1> DEFINE f == rows[3]
           third == rows[4]
           p1 == Decide(f)
           p2 == Other(f, Decide(f)).team
           p3 == Decide(third)
           p4 == Other(third, Decide(third)).team
<1>1. /\ f \in Pairings /\ third \in Pairings
      /\ f.winner \in {NoTeam, f.high.team, f.low.team}
      /\ third.winner \in {NoTeam, third.high.team, third.low.team}
  BY BracketGames
<1>2. p1 \in {f.high.team, f.low.team} /\ p3 \in {third.high.team, third.low.team}
  BY <1>1, DecideIs
<1>3. Side(f, p1).team = p1 /\ Side(third, p3).team = p3
  BY <1>2 DEF Side
<1>4. Placed = <<p1, p2, p3, p4>>
  <2>1. InSlot("F") = f /\ InSlot("3RD") = third
    BY CurrentIs
  <2>2. /\ WinnerEntry(f) = Side(f, p1) /\ LoserEntry(f) = Other(f, p1)
        /\ WinnerEntry(third) = Side(third, p3) /\ LoserEntry(third) = Other(third, p3)
    BY <1>1, DecideIs
  <2> QED  BY <1>3, <2>1, <2>2 DEF Placed
<1>5. /\ {f.high.team, f.low.team, third.high.team, third.low.team} \subseteq eligible
      /\ f.high.team # f.low.team /\ third.high.team # third.low.team
      /\ {f.high.team, f.low.team} \cap {third.high.team, third.low.team} = {}
  BY FinalTeams
<1>6. /\ p2 \in {f.high.team, f.low.team} /\ p2 # p1
      /\ p4 \in {third.high.team, third.low.team} /\ p4 # p3
  BY <1>2, <1>5 DEF Other
<1> HIDE DEF f, third, p1, p2, p3, p4
<1>7. /\ {p1, p2, p3, p4} \subseteq eligible
      /\ p1 # p2 /\ p1 # p3 /\ p1 # p4 /\ p2 # p3 /\ p2 # p4 /\ p3 # p4
  BY <1>2, <1>5, <1>6
<1>8. /\ Placed \in Seq(Teams) /\ Len(Placed) = 4 /\ DOMAIN Placed = {1, 2, 3, 4}
      /\ Placed[1] = p1 /\ Placed[2] = p2 /\ Placed[3] = p3 /\ Placed[4] = p4
  <2>1. p1 \in Teams /\ p2 \in Teams /\ p3 \in Teams /\ p4 \in Teams
    BY <1>7
  <2>2. Placed \in Seq(Teams) /\ Len(Placed) = 4
    BY <1>4, <2>1
  <2>3. DOMAIN Placed = 1 .. 4
    BY <2>2
  <2> QED  BY <1>4, <2>2, <2>3
<1>9. IsInjective(Placed)
  BY <1>7, <1>8 DEF IsInjective
<1>10. Range(Placed) \subseteq eligible
  BY <1>7, <1>8 DEF Range
<1> QED  BY <1>4, <1>8, <1>9, <1>10 DEF f, third, p1, p2, p3, p4

-----------------------------------------------------------------------------
(* What a step is worked out to write fits the state it was read from.      *)

LEMMA EventInitFits ==
  ASSUME EventInit
  PROVE  EventFits
<1>1. \A o \in Organisers : plan[o] = NoPlan
  BY DEF EventInit
<1> QED  BY <1>1 DEF EventInit, EventFits, Staged, Early, Fits

LEMMA StageIs ==
  ASSUME Staged
  PROVE  /\ phase \in Early => rows = << >>
         /\ phase = "knockout" => Bracket(rows, Eligible)
BY DEF Staged, Early

LEMMA PlanStarts ==
  ASSUME EventTyped, CanStartKnockout
  PROVE  Starts(Step("knockout-start", "none",
                     [phase |-> "knockout", pairings |-> FirstRound(Seeded)]))
<1>1. /\ NotFailed \in Seq(Teams) /\ IsInjective(NotFailed)
      /\ Range(NotFailed) \subseteq qualified
  <2>1. Range(Standings) \subseteq qualified
    BY StandingsAre
  <2> QED  BY <2>1, StandingsAre, FilterIs DEF NotFailed
<1>2. /\ Contenders \in Seq(Teams) /\ IsInjective(Contenders)
      /\ Range(Contenders) \subseteq qualified
  <2>0. Len(NotFailed) \in Nat
    BY <1>1
  <2> DEFINE n == IF Len(NotFailed) < 4 THEN Len(NotFailed) ELSE 4
  <2>1. n \in Nat /\ n <= Len(NotFailed) /\ Contenders = SubSeq(NotFailed, 1, n)
    BY <2>0 DEF Contenders, AtMost4
  <2> HIDE DEF n
  <2>2. /\ Contenders \in Seq(Teams) /\ Len(Contenders) = n
        /\ \A i \in 1 .. n : Contenders[i] = NotFailed[i]
    BY <1>1, <2>1
  <2>3. /\ \A i \in 1 .. n : i \in DOMAIN NotFailed
        /\ DOMAIN Contenders = 1 .. n
    BY <1>1, <2>0, <2>1, <2>2
  <2>4. IsInjective(Contenders)
    BY <1>1, <2>2, <2>3 DEF IsInjective
  <2>5. Range(Contenders) \subseteq qualified
    BY <1>1, <2>2, <2>3 DEF Range
  <2> QED  BY <2>2, <2>4, <2>5
<1>3. /\ Seeded \in Seq(Teams) /\ IsInjective(Seeded)
      /\ Range(Seeded) = Range(Contenders) \cap Interviewed({"pass"})
  BY <1>2, FilterIs DEF Seeded
<1>4. Range(Seeded) \subseteq Eligible
  BY <1>2, <1>3 DEF Eligible
<1>5. Len(FirstRound(Seeded)) = 2 /\ Bracket(FirstRound(Seeded), Eligible)
  BY <1>3, <1>4, FirstRoundIs DEF CanStartKnockout
<1> QED  BY <1>5, StepIs DEF CanStartKnockout, Starts

LEMMA PlanFinishes ==
  ASSUME EventTyped, CanFinish
  PROVE  Finishes(Step("finish", "final",
                       [phase |-> "finished", ranking |-> FinalRanking(<< >>)]))
<1>1. << >> \in Seq(Teams) /\ IsInjective(<< >>) /\ Range(<< >>) = {}
  BY DEF IsInjective, Range
<1>2. RankFits(FinalRanking(<< >>), qualified, out, Failed)
  BY <1>1, FinalRankingFits
<1> QED  BY <1>2, StepIs DEF CanFinish, Finishes

LEMMA PlanAdvances ==
  ASSUME EventTyped, Staged, NEW o \in Organisers, PlanKnockoutAdvance(o)
  PROVE  \E p : Advances(p) /\ PlanOf(o, p)
<1> DEFINE level == {i \in Current : Decide(rows[i]) = NoTeam}
           winner == [i \in Current \ level |-> Decide(rows[i])]
<1>1. phase = "knockout" /\ Bracket(rows, Eligible)
  BY StageIs DEF PlanKnockoutAdvance
<1>2. /\ DOMAIN rows = 1 .. Len(rows) /\ Len(rows) \in {2, 4}
      /\ \A i \in 1 .. Len(rows) : /\ rows[i] \in Pairings
                                   /\ rows[i].winner \in {NoTeam, rows[i].high.team, rows[i].low.team}
  BY <1>1, BracketGames
<1>3. /\ Len(rows) = 2 => /\ Current = {1, 2} /\ rows[1].slot = "SF1"
      /\ Len(rows) = 4 => /\ Current = {3, 4} /\ ~\E i \in Current : rows[i].slot = "SF1"
  BY <1>1, CurrentIs
<1>4. Current \subseteq DOMAIN rows
  BY DEF Current
<1>5. /\ DOMAIN winner = Current \ level
      /\ \A i \in DOMAIN winner : winner[i] = Decide(rows[i]) /\ winner[i] # NoTeam /\ i \in DOMAIN rows
  BY <1>4
<1> DEFINE tie == Step("knockout-advance", "none", [winner |-> winner, tiebreak |-> level])
           next == Step("knockout-advance", "none", [winner |-> winner, pairings |-> NextRound])
           final == Step("knockout-advance", "final",
                         [winner |-> winner, phase |-> "finished", ranking |-> FinalRanking(Placed)])
<1>6. \/ level # {} /\ PlanOf(o, tie)
      \/ level = {} /\ (\E i \in Current : rows[i].slot = "SF1") /\ PlanOf(o, next)
      \/ level = {} /\ ~(\E i \in Current : rows[i].slot = "SF1") /\ PlanOf(o, final)
  BY DEF PlanKnockoutAdvance
<1>10. level = {} => \A i \in Current : Decide(rows[i]) # NoTeam
  OBVIOUS
<1> HIDE DEF level, winner
<1>7. Decides(winner, rows)
  <2>1. ASSUME NEW i \in DOMAIN winner
        PROVE  /\ winner[i] \in {rows[i].high.team, rows[i].low.team}
               /\ rows[i].winner # NoTeam => winner[i] = rows[i].winner
    BY <1>2, <1>5, DecideIs
  <2> QED  BY <1>5, <2>1 DEF Decides
<1>8. CASE level # {} /\ PlanOf(o, tie)
  <2>1. Advances(tie)
    BY <1>1, <1>7, StepIs DEF Advances
  <2> QED  BY <1>8, <2>1
<1>9. CASE level = {} /\ (\E i \in Current : rows[i].slot = "SF1") /\ PlanOf(o, next)
  <2>1. Len(rows) = 2 /\ Current = {1, 2} /\ DOMAIN winner = {1, 2}
    BY <1>2, <1>3, <1>5, <1>9
  <2>2. /\ winner[1] = Decide(rows[1]) /\ winner[2] = Decide(rows[2])
        /\ Decide(rows[1]) # NoTeam /\ Decide(rows[2]) # NoTeam
    BY <1>5, <1>9, <1>10, <2>1
  <2>3. /\ NextRound \in Seq(Pairings) /\ Len(NextRound) = 2
        /\ NextRound[1].winner = NoTeam /\ NextRound[2].winner = NoTeam
        /\ Finals(rows[1], winner[1], rows[2], winner[2], NextRound[1], NextRound[2])
    BY <1>1, <2>1, <2>2, NextRoundIs
  <2>4. Advances(next)
    BY <1>1, <1>7, <2>1, <2>3, StepIs DEF Advances
  <2> QED  BY <1>9, <2>4
<1>11. CASE level = {} /\ ~(\E i \in Current : rows[i].slot = "SF1") /\ PlanOf(o, final)
  <2>1. Len(rows) = 4 /\ Current = {3, 4} /\ DOMAIN winner = {3, 4}
    BY <1>2, <1>3, <1>5, <1>11
  <2>2. /\ winner[3] = Decide(rows[3]) /\ winner[4] = Decide(rows[4])
        /\ Decide(rows[3]) # NoTeam /\ Decide(rows[4]) # NoTeam
    BY <1>5, <1>10, <1>11, <2>1
  <2>3. Eligible \in SUBSET Teams /\ Eligible \subseteq qualified /\ Eligible \cap Failed = {}
    BY DEF Eligible, Failed, Interviewed, EventTyped
  <2>4. /\ Placed \in Seq(Teams) /\ Len(Placed) = 4 /\ IsInjective(Placed)
        /\ Range(Placed) \subseteq Eligible
        /\ Placed = <<winner[3], Other(rows[3], winner[3]).team,
                      winner[4], Other(rows[4], winner[4]).team>>
    BY <1>1, <2>1, <2>2, <2>3, PlacedIs
  <2> DEFINE r == FinalRanking(Placed)
  <2>5. /\ RankFits(r, qualified, out, Failed)
        /\ \A i \in 1 .. 4 : r[i] = Placed[i]
        /\ Len(r) >= 4
    <3>1. Range(Placed) \subseteq qualified /\ Range(Placed) \cap Failed = {}
      BY <2>3, <2>4
    <3> QED  BY <2>4, <3>1, FinalRankingFits
  <2> HIDE DEF r
  <2>6. SubSeq(r, 1, 4) = Placed
    <3>1. r \in Seq(Teams)
      BY <2>5 DEF RankFits
    <3> QED  BY <2>4, <2>5, <3>1, FirstFour
  <2>7. Podium(r, rows[3], winner[3], rows[4], winner[4])
    BY <2>4, <2>6 DEF Podium
  <2>8. Advances(final)
    BY <1>1, <1>7, <2>1, <2>5, <2>7, StepIs DEF Advances, r
  <2> QED  BY <1>11, <2>8
<1> QED  BY <1>6, <1>8, <1>9, <1>11

\* A step before the knockout writes no pairing and leaves its phases alone.
LEMMA PlanBefore ==
  ASSUME phase \in Early, NEW name, NEW doc, NEW writes,
         doc # "final",
         "phase" \in DOMAIN writes => writes["phase"] \in Early,
         "qualified" \in DOMAIN writes => "phase" \in DOMAIN writes /\ writes["phase"] # phase,
         DOMAIN writes \cap {"winner", "tiebreak", "pairings", "ranking"} = {}
  PROVE  Before(Step(name, doc, writes))
BY StepIs DEF Before

\* Whatever step is planned fits.
LEMMA PlanMade ==
  ASSUME EventTyped, Staged, NEW o \in Organisers, Plan(o)
  PROVE  \E p : Fits(p) /\ PlanOf(o, p)
<1>1. ASSUME NEW name, NEW doc, NEW writes, PlanOf(o, Step(name, doc, writes)),
             phase \in Early, doc # "final",
             "phase" \in DOMAIN writes => writes["phase"] \in Early,
             "qualified" \in DOMAIN writes => "phase" \in DOMAIN writes /\ writes["phase"] # phase,
             DOMAIN writes \cap {"winner", "tiebreak", "pairings", "ranking"} = {}
      PROVE  \E p : Fits(p) /\ PlanOf(o, p)
  <2>1. Before(Step(name, doc, writes))
    BY <1>1, PlanBefore
  <2> QED  BY <1>1, <2>1 DEF Fits
<1>2. CASE PlanFreeze(o)
  <2>1. PICK ready \in SUBSET (Teams \ out) :
          PlanOf(o, Step("freeze", "sealed", [phase |-> "frozen", sealed |-> ready]))
    BY <1>2 DEF PlanFreeze
  <2> DEFINE w == [phase |-> "frozen", sealed |-> ready]
  <2>2. w["phase"] = "frozen" /\ DOMAIN w = {"phase", "sealed"}
    OBVIOUS
  <2>3. phase \in Early /\ "frozen" \in Early
    BY <1>2 DEF PlanFreeze, Early
  <2> HIDE DEF w
  <2>4. PlanOf(o, Step("freeze", "sealed", w))
    BY <2>1 DEF w
  <2> QED  BY <1>1, <2>2, <2>3, <2>4
<1>3. CASE PlanGateStart(o)
  <2> DEFINE w == [phase |-> "gate", games |-> IF sealed = {} THEN {} ELSE {"gate"}]
  <2>2. w["phase"] = "gate" /\ DOMAIN w = {"phase", "games"}
    OBVIOUS
  <2>3. phase \in Early /\ "gate" \in Early /\ PlanOf(o, Step("gate-start", "none", w))
    BY <1>3 DEF PlanGateStart, Early
  <2> HIDE DEF w
  <2> QED  BY <1>1, <2>2, <2>3
<1>4. CASE PlanGateClose(o)
  <2> DEFINE w == [phase |-> "qualifying", qualified |-> sealed \cap passed]
  <2>2. w["phase"] = "qualifying" /\ DOMAIN w = {"phase", "qualified"}
    OBVIOUS
  <2>3. /\ phase \in Early /\ "qualifying" \in Early /\ phase # "qualifying"
        /\ PlanOf(o, Step("gate-close", "gate", w))
    BY <1>4 DEF PlanGateClose, Early
  <2> HIDE DEF w
  <2> QED  BY <1>1, <2>2, <2>3
<1>5. CASE PlanQualifyingStart(o)
  <2> DEFINE w == [format |-> ChooseFormat(Active), round |-> 1, games |-> {"qualifying"}]
  <2>2. DOMAIN w = {"format", "round", "games"}
    OBVIOUS
  <2>3. phase \in Early /\ PlanOf(o, Step("qualifying-start", "none", w))
    BY <1>5 DEF PlanQualifyingStart, CanStartQualifying, Early
  <2> HIDE DEF w
  <2> QED  BY <1>1, <2>2, <2>3
<1>6. CASE PlanSwissNextRound(o)
  <2> DEFINE w == [round |-> round + 1, games |-> {"qualifying"}]
  <2>2. DOMAIN w = {"round", "games"}
    OBVIOUS
  <2>3. phase \in Early /\ PlanOf(o, Step("swiss-next", "none", w))
    BY <1>6 DEF PlanSwissNextRound, CanPairNextRound, Early
  <2> HIDE DEF w
  <2> QED  BY <1>1, <2>2, <2>3
<1>7. CASE PlanQualifyingClose(o)
  <2> DEFINE w == [phase |-> "verification"]
  <2>2. w["phase"] = "verification" /\ DOMAIN w = {"phase"}
    OBVIOUS
  <2>3. /\ phase \in Early /\ "verification" \in Early
        /\ PlanOf(o, Step("qualifying-close", "qualifying", w))
    BY <1>7 DEF PlanQualifyingClose, CanCloseQualifying, Early
  <2> HIDE DEF w
  <2> QED  BY <1>1, <2>2, <2>3
<1>8. ASSUME NEW t \in Teams, NEW r \in {"pass", "fail", "pending"}, PlanInterview(o, t, r)
      PROVE  \E p : Fits(p) /\ PlanOf(o, p)
  <2> DEFINE w == [interview |-> [x \in {t} |-> r]]
  <2>2. DOMAIN w = {"interview"}
    OBVIOUS
  <2>3. phase \in Early /\ PlanOf(o, Step("interview", "none", w))
    BY <1>8 DEF PlanInterview, Early
  <2> HIDE DEF w
  <2> QED  BY <1>1, <2>2, <2>3
<1>9. CASE PlanKnockoutStart(o)
  BY <1>9, PlanStarts DEF PlanKnockoutStart, Fits
<1>10. CASE PlanKnockoutAdvance(o)
  BY <1>10, PlanAdvances DEF Fits
<1>11. CASE PlanFinish(o)
  BY <1>11, PlanFinishes DEF PlanFinish, Fits
<1> QED  BY <1>2, <1>3, <1>4, <1>5, <1>6, <1>7, <1>8, <1>9, <1>10, <1>11 DEF Plan

-----------------------------------------------------------------------------
(* Pairings, results and disqualifications leave what is planned fitting.      *)

\* Nothing but how games of the knockout went.
Kept(rs, rs2) ==
    /\ DOMAIN rs2 = DOMAIN rs /\ Len(rs2) = Len(rs)
    /\ \A i \in DOMAIN rs :
        /\ rs2[i].round = rs[i].round /\ rs2[i].slot = rs[i].slot
        /\ rs2[i].high = rs[i].high /\ rs2[i].low = rs[i].low
        /\ rs2[i].winner = rs[i].winner
    /\ rs \in Seq(Pairings) => rs2 \in Seq(Pairings)
    /\ rs = << >> => rs2 = << >>

LEMMA KeptBracket ==
  ASSUME NEW rs, NEW rs2, NEW eligible, Bracket(rs, eligible), Kept(rs, rs2)
  PROVE  Bracket(rs2, eligible)
<1>1. Onward(rs, rs2)
  <2>1. /\ rs \in Seq(Pairings) /\ DOMAIN rs = 1 .. Len(rs)
        /\ \A i \in 1 .. Len(rs) : rs[i].winner \in {NoTeam, rs[i].high.team, rs[i].low.team}
    BY BracketGames
  <2> QED  BY <2>1 DEF Onward, Kept
<1> QED  BY <1>1, OnwardBracket

LEMMA RankStays ==
  ASSUME NEW r, NEW teams, NEW gone, NEW gone2, NEW failed,
         gone \subseteq gone2, RankFits(r, teams, gone, failed)
  PROVE  RankFits(r, teams, gone2, failed)
BY DEF RankFits

Untouched == UNCHANGED <<phase, qualified, interview>> /\ out \subseteq out' /\ Kept(rows, rows')

LEMMA FitsStays ==
  ASSUME Untouched, Staged, NEW o \in Organisers, Fits(plan[o]), plan'[o] = plan[o]
  PROVE  Fits(plan[o])'
<1>1. phase' = phase /\ qualified' = qualified /\ Eligible' = Eligible /\ Failed' = Failed
  BY DEF Untouched, Eligible, Failed, Interviewed
<1>2. out \subseteq out' /\ Kept(rows, rows')
  BY DEF Untouched
<1>3. CASE plan[o] = NoPlan
  BY <1>3 DEF Fits
<1>4. CASE Before(plan[o])
  <2>1. Before(plan[o])'
    BY <1>1, <1>4 DEF Before
  <2> QED  BY <2>1 DEF Fits
<1>5. CASE Starts(plan[o])
  <2>1. Starts(plan[o])'
    BY <1>1, <1>5 DEF Starts
  <2> QED  BY <2>1 DEF Fits
<1>6. CASE Finishes(plan[o])
  <2>1. RankFits(plan[o].writes["ranking"], qualified, out', Failed)
    BY <1>2, <1>6, RankStays DEF Finishes
  <2>2. Finishes(plan[o])'
    BY <1>1, <1>6, <2>1 DEF Finishes
  <2> QED  BY <2>2 DEF Fits
<1>7. CASE Advances(plan[o])
  <2> DEFINE w == plan[o].writes
  <2>0. Bracket(rows, Eligible)
    BY <1>7, StageIs DEF Advances
  <2>1. 1 \in DOMAIN rows /\ 2 \in DOMAIN rows /\ (Len(rows) = 4 => 3 \in DOMAIN rows /\ 4 \in DOMAIN rows)
    BY <2>0, BracketGames
  <2>2. Decides(w["winner"], rows')
    BY <1>2, <1>7 DEF Advances, Decides, Kept
  <2>3. ASSUME NEW i \in DOMAIN rows
        PROVE  rows'[i].high = rows[i].high /\ rows'[i].low = rows[i].low
    BY <1>2 DEF Kept
  <2>4. ASSUME NEW wa, NEW wb, NEW f, NEW third, Finals(rows[1], wa, rows[2], wb, f, third)
        PROVE  Finals(rows'[1], wa, rows'[2], wb, f, third)
    BY <2>1, <2>3, <2>4 DEF Finals, Side, Other
  <2>5. ASSUME NEW r, NEW wf, NEW wt, Len(rows) = 4, Podium(r, rows[3], wf, rows[4], wt)
        PROVE  Podium(r, rows'[3], wf, rows'[4], wt)
    BY <2>1, <2>3, <2>5 DEF Podium, Other
  <2>6. Len(rows') = Len(rows)
    BY <1>2 DEF Kept
  <2>7. ASSUME NEW r, RankFits(r, qualified, out, Failed)
        PROVE  RankFits(r, qualified, out', Failed)
    BY <1>2, <2>7, RankStays
  <2>8. Advances(plan[o])'
    <3>1. phase' = "knockout" /\ "winner" \in DOMAIN plan'[o].writes
          /\ Decides(plan'[o].writes["winner"], rows')
      BY <1>1, <1>7, <2>2 DEF Advances
    <3>2. CASE DOMAIN w = {"winner", "tiebreak"} /\ plan[o].doc = "none"
      BY <3>1, <3>2 DEF Advances
    <3>3. CASE /\ DOMAIN w = {"winner", "pairings"} /\ plan[o].doc = "none"
               /\ Len(rows) = 2 /\ DOMAIN w["winner"] = {1, 2}
               /\ w["pairings"] \in Seq(Pairings) /\ Len(w["pairings"]) = 2
               /\ w["pairings"][1].winner = NoTeam /\ w["pairings"][2].winner = NoTeam
               /\ Finals(rows[1], w["winner"][1], rows[2], w["winner"][2],
                         w["pairings"][1], w["pairings"][2])
      <4>1. Finals(rows'[1], w["winner"][1], rows'[2], w["winner"][2],
                   w["pairings"][1], w["pairings"][2])
        BY <2>4, <3>3
      <4> QED  BY <2>6, <3>1, <3>3, <4>1 DEF Advances
    <3>4. CASE /\ DOMAIN w = {"winner", "phase", "ranking"} /\ plan[o].doc = "final"
               /\ w["phase"] = "finished"
               /\ Len(rows) = 4 /\ DOMAIN w["winner"] = {3, 4}
               /\ RankFits(w["ranking"], qualified, out, Failed)
               /\ Podium(w["ranking"], rows[3], w["winner"][3], rows[4], w["winner"][4])
      <4>1. Podium(w["ranking"], rows'[3], w["winner"][3], rows'[4], w["winner"][4])
        BY <2>5, <3>4
      <4>2. RankFits(w["ranking"], qualified', out', Failed')
        BY <1>1, <2>7, <3>4
      <4> QED  BY <2>6, <3>1, <3>4, <4>1, <4>2 DEF Advances
    <3> QED  BY <1>7, <3>2, <3>3, <3>4 DEF Advances
  <2> QED  BY <2>8 DEF Fits
<1> QED  BY <1>3, <1>4, <1>5, <1>6, <1>7 DEF Fits

LEMMA StagedStays ==
  ASSUME Untouched, ranking' = ranking, Staged
  PROVE  Staged'
<1>1. phase' = phase /\ qualified' = qualified /\ Eligible' = Eligible /\ Failed' = Failed
  BY DEF Untouched, Eligible, Failed, Interviewed
<1>2. out \subseteq out' /\ Kept(rows, rows')
  BY DEF Untouched
<1>3. rows = << >> => rows' = << >>
  BY <1>2 DEF Kept
<1>4. CASE phase \in Early /\ rows = << >>
  BY <1>1, <1>3, <1>4 DEF Staged, Early
<1>5. CASE phase = "knockout" /\ Bracket(rows, Eligible)
  <2>1. Bracket(rows', Eligible)
    BY <1>2, <1>5, KeptBracket
  <2> QED  BY <1>1, <1>5, <2>1 DEF Staged
<1>6. CASE /\ phase = "finished"
           /\ RankFits(ranking, qualified, out, Failed)
           /\ \/ rows = << >>
              \/ /\ Bracket(rows, Eligible) /\ Len(rows) = 4
                 /\ rows[3].winner # NoTeam /\ rows[4].winner # NoTeam
                 /\ Podium(ranking, rows[3], rows[3].winner, rows[4], rows[4].winner)
  <2>1. RankFits(ranking', qualified', out', Failed')
    BY <1>1, <1>2, <1>6, RankStays
  <2>2. CASE rows = << >>
    BY <1>1, <1>3, <1>6, <2>1, <2>2 DEF Staged
  <2>3. CASE /\ Bracket(rows, Eligible) /\ Len(rows) = 4
             /\ rows[3].winner # NoTeam /\ rows[4].winner # NoTeam
             /\ Podium(ranking, rows[3], rows[3].winner, rows[4], rows[4].winner)
    <3>1. 3 \in DOMAIN rows /\ 4 \in DOMAIN rows
      BY <2>3, BracketGames
    <3>2. /\ rows'[3].high = rows[3].high /\ rows'[3].low = rows[3].low
          /\ rows'[4].high = rows[4].high /\ rows'[4].low = rows[4].low
          /\ rows'[3].winner = rows[3].winner /\ rows'[4].winner = rows[4].winner
          /\ Len(rows') = Len(rows)
      BY <1>2, <3>1 DEF Kept
    <3>3. Bracket(rows', Eligible')
      BY <1>1, <1>2, <2>3, KeptBracket
    <3>4. Podium(ranking', rows'[3], rows'[3].winner, rows'[4], rows'[4].winner)
      BY <2>3, <3>2 DEF Podium, Other
    <3> QED  BY <1>1, <1>6, <2>1, <2>3, <3>2, <3>3, <3>4 DEF Staged
  <2> QED  BY <1>6, <2>2, <2>3
<1> QED  BY <1>4, <1>5, <1>6 DEF Staged

-----------------------------------------------------------------------------
(* What a batch leaves.                                                     *)

LEMMA GameWritten ==
  ASSUME NEW row \in Pairings, NEW t \in Teams \cup {NoTeam}
  PROVE  LET won == [row EXCEPT !.winner = t]
         IN  /\ won \in Pairings /\ won.winner = t
             /\ won.round = row.round /\ won.slot = row.slot
             /\ won.high = row.high /\ won.low = row.low
BY DEF Pairings

LEMMA GameOver ==
  ASSUME NEW row \in Pairings
  PROVE  LET over == [row EXCEPT !.ties = 0, !.score = "level"]
         IN  /\ over \in Pairings /\ over.winner = row.winner
             /\ over.round = row.round /\ over.slot = row.slot
             /\ over.high = row.high /\ over.low = row.low
BY DEF Pairings

LEMMA GameAgain ==
  ASSUME NEW row \in Pairings
  PROVE  LET again == [row EXCEPT !.ties = @ + 1, !.open = TRUE, !.score = "level"]
         IN  /\ again \in Pairings /\ again.winner = row.winner
             /\ again.round = row.round /\ again.slot = row.slot
             /\ again.high = row.high /\ again.low = row.low
<1> DEFINE again == [row EXCEPT !.ties = @ + 1, !.open = TRUE, !.score = "level"]
<1>1. row.ties + 1 \in Nat
  BY DEF Pairings
<1>2. again = [row EXCEPT !.ties = row.ties + 1, !.open = TRUE, !.score = "level"]
  BY DEF Pairings
<1>3. DOMAIN again = DOMAIN row
  BY DEF Pairings
<1>4. /\ again.winner = row.winner /\ again.round = row.round /\ again.slot = row.slot
      /\ again.high = row.high /\ again.low = row.low
  BY DEF Pairings
<1>5. again \in Pairings
  BY <1>1, <1>2 DEF Pairings
<1> QED  BY <1>4, <1>5

\* The games a batch leaves, before the pairings it adds.
Base(rs, winner, tiebreak, over) ==
    [i \in DOMAIN rs |->
        LET won == IF i \in DOMAIN winner THEN [rs[i] EXCEPT !.winner = winner[i]] ELSE rs[i]
        IN  IF over THEN [won EXCEPT !.ties = 0, !.score = "level"]
            ELSE IF i \in tiebreak
            THEN [won EXCEPT !.ties = @ + 1, !.open = TRUE, !.score = "level"]
            ELSE won]

LEMMA BaseIs ==
  ASSUME NEW rs, NEW eligible, Bracket(rs, eligible),
         NEW winner, Decides(winner, rs), NEW tiebreak, NEW over
  PROVE  LET base == Base(rs, winner, tiebreak, over)
         IN  /\ Onward(rs, base)
             /\ \A i \in DOMAIN winner : base[i].winner = winner[i] /\ winner[i] # NoTeam
             /\ \A i \in DOMAIN rs : i \notin DOMAIN winner => base[i].winner = rs[i].winner
<1> DEFINE base == Base(rs, winner, tiebreak, over)
<1>1. /\ rs \in Seq(Pairings) /\ DOMAIN rs = 1 .. Len(rs) /\ Len(rs) \in {2, 4}
      /\ \A i \in 1 .. Len(rs) : /\ rs[i] \in Pairings
                                 /\ rs[i].winner \in {NoTeam, rs[i].high.team, rs[i].low.team}
  BY BracketGames
<1>2. ASSUME NEW i \in DOMAIN rs
      PROVE  /\ base[i] \in Pairings
             /\ base[i].round = rs[i].round /\ base[i].slot = rs[i].slot
             /\ base[i].high = rs[i].high /\ base[i].low = rs[i].low
             /\ base[i].winner = IF i \in DOMAIN winner THEN winner[i] ELSE rs[i].winner
  <2> DEFINE won == IF i \in DOMAIN winner THEN [rs[i] EXCEPT !.winner = winner[i]] ELSE rs[i]
  <2>1. rs[i] \in Pairings /\ rs[i].high.team \in Teams /\ rs[i].low.team \in Teams
    BY <1>1, GameIs
  <2>2. i \in DOMAIN winner => winner[i] \in Teams \cup {NoTeam}
    BY <2>1 DEF Decides
  <2>3. /\ won \in Pairings /\ won.round = rs[i].round /\ won.slot = rs[i].slot
        /\ won.high = rs[i].high /\ won.low = rs[i].low
        /\ won.winner = IF i \in DOMAIN winner THEN winner[i] ELSE rs[i].winner
    BY <2>1, <2>2, GameWritten
  <2>4. base[i] = IF over THEN [won EXCEPT !.ties = 0, !.score = "level"]
                  ELSE IF i \in tiebreak
                  THEN [won EXCEPT !.ties = @ + 1, !.open = TRUE, !.score = "level"]
                  ELSE won
    BY DEF Base
  <2> HIDE DEF won, base
  <2>5. CASE over
    BY <2>3, <2>4, <2>5, GameOver
  <2>6. CASE ~over /\ i \in tiebreak
    BY <2>3, <2>4, <2>6, GameAgain
  <2>7. CASE ~over /\ i \notin tiebreak
    BY <2>3, <2>4, <2>7
  <2> QED  BY <2>5, <2>6, <2>7
<1>3. /\ DOMAIN base = DOMAIN rs /\ base \in Seq(Pairings) /\ Len(base) = Len(rs)
  <2>1. DOMAIN base = 1 .. Len(rs) /\ base = [i \in 1 .. Len(rs) |-> base[i]]
    BY <1>1 DEF Base
  <2>2. \A i \in 1 .. Len(rs) : base[i] \in Pairings
    BY <1>1, <1>2
  <2>3. Len(rs) \in Nat
    BY <1>1
  <2> HIDE DEF base
  <2>4. base \in [1 .. Len(rs) -> Pairings]
    BY <2>1, <2>2
  <2>5. base \in Seq(Pairings)
    BY <2>3, <2>4, SeqDef
  <2> QED  BY <1>1, <2>1, <2>3, <2>5
<1> HIDE DEF base
<1>4. \A i \in DOMAIN winner : /\ i \in DOMAIN rs /\ winner[i] \in {rs[i].high.team, rs[i].low.team}
                               /\ rs[i].winner # NoTeam => winner[i] = rs[i].winner
  BY DEF Decides
<1>5. \A i \in DOMAIN winner : base[i].winner = winner[i] /\ winner[i] # NoTeam
  <2>1. ASSUME NEW i \in DOMAIN winner  PROVE base[i].winner = winner[i] /\ winner[i] # NoTeam
    <3>1. rs[i].high.team \in Teams /\ rs[i].low.team \in Teams
      BY <1>1, <1>4, GameIs
    <3> QED  BY <1>2, <1>4, <3>1, TeamIsNoTeam
  <2> QED  BY <2>1
<1>6. \A i \in DOMAIN rs : i \notin DOMAIN winner => base[i].winner = rs[i].winner
  BY <1>2
<1>7. Onward(rs, base)
  <2>1. ASSUME NEW i \in 1 .. Len(rs)
        PROVE  /\ base[i].round = rs[i].round /\ base[i].slot = rs[i].slot
               /\ base[i].high = rs[i].high /\ base[i].low = rs[i].low
               /\ base[i].winner \in {NoTeam, rs[i].high.team, rs[i].low.team}
               /\ rs[i].winner # NoTeam => base[i].winner = rs[i].winner
    BY <1>1, <1>2, <1>4
  <2> QED  BY <1>3, <2>1 DEF Onward
<1> QED  BY <1>5, <1>6, <1>7 DEF base

LEMMA WrittenRowsAre ==
  ASSUME NEW o
  PROVE  \E over \in BOOLEAN :
            WrittenRows(o) = Base(rows, Written(o, "winner", << >>),
                                  Written(o, "tiebreak", {}), over)
                               \o Written(o, "pairings", << >>)
<1> DEFINE over == (Written(o, "pairings", << >>) # << >>) \/ (plan[o].doc = "final")
<1>1. over \in BOOLEAN
  OBVIOUS
<1>2. WrittenRows(o) = Base(rows, Written(o, "winner", << >>),
                            Written(o, "tiebreak", {}), over)
                         \o Written(o, "pairings", << >>)
  BY DEF WrittenRows, Base
<1> QED  BY <1>1, <1>2

\* While there are no pairings a batch leaves those it adds.
LEMMA NoRowsWritten ==
  ASSUME rows = << >>, NEW o, NEW next \in Seq(Pairings), Written(o, "pairings", << >>) = next
  PROVE  WrittenRows(o) = next
<1>1. PICK over \in BOOLEAN :
        WrittenRows(o) = Base(rows, Written(o, "winner", << >>),
                              Written(o, "tiebreak", {}), over) \o next
  BY WrittenRowsAre
<1> DEFINE base == Base(rows, Written(o, "winner", << >>), Written(o, "tiebreak", {}), over)
<1>2. base = << >>
  <2>1. DOMAIN rows = {}
    OBVIOUS
  <2>2. DOMAIN base = {} /\ base = [i \in {} |-> base[i]]
    BY <2>1 DEF Base
  <2> HIDE DEF base
  <2>3. base \in [1 .. 0 -> Pairings]
    BY <2>2
  <2>4. base \in Seq(Pairings) /\ Len(base) = 0
    BY <2>2, <2>3, SeqDef
  <2> QED  BY <2>4
<1> QED  BY <1>1, <1>2

LEMMA WrittenIs ==
  ASSUME NEW o, NEW column, NEW old
  PROVE  /\ column \in DOMAIN plan[o].writes => Written(o, column, old) = plan[o].writes[column]
         /\ column \notin DOMAIN plan[o].writes => Written(o, column, old) = old
BY DEF Written

\* The columns a batch may leave alone.
LEMMA CommitWrites ==
  ASSUME NEW o \in Organisers, Commit(o)
  PROVE  /\ phase' = Written(o, "phase", phase) /\ qualified' = Written(o, "qualified", qualified)
         /\ interview' = Interviews(o) /\ out' = out
         /\ rows' = WrittenRows(o) /\ ranking' = Written(o, "ranking", ranking)
BY DEF Commit

LEMMA InterviewsKept ==
  ASSUME EventTyped, NEW o \in Organisers, Commit(o), "interview" \notin DOMAIN plan[o].writes
  PROVE  interview' = interview
<1>1. Written(o, "interview", << >>) = << >>
  BY WrittenIs
<1>2. Interviews(o) = interview
  BY <1>1 DEF Interviews, EventTyped
<1> QED  BY <1>2, CommitWrites

LEMMA SameTeams ==
  ASSUME qualified' = qualified, interview' = interview
  PROVE  Eligible' = Eligible /\ Failed' = Failed
BY DEF Eligible, Failed, Interviewed

\* The batch of o's step writes its winners into the games there are, which
\* makes base of them, and its pairings behind.
WrittenOn(o, base) ==
    /\ Onward(rows, base)
    /\ rows' = base \o Written(o, "pairings", << >>)
    /\ \A i \in DOMAIN plan[o].writes["winner"] :
        /\ base[i].winner = plan[o].writes["winner"][i]
        /\ plan[o].writes["winner"][i] # NoTeam

\* What the batch of a knockout step leaves of the games there are.
LEMMA AdvanceWritten ==
  ASSUME EventTyped, Staged, NEW o \in Organisers, Advances(plan[o]), Commit(o)
  PROVE  \E base : WrittenOn(o, base)
<1> DEFINE w == plan[o].writes["winner"]
<1>1. Bracket(rows, Eligible) /\ Decides(w, rows)
  BY StageIs DEF Advances
<1>2. Written(o, "winner", << >>) = w
  BY WrittenIs DEF Advances
<1> HIDE DEF w
<1>3. PICK over \in BOOLEAN :
        WrittenRows(o) = Base(rows, w, Written(o, "tiebreak", {}), over)
                           \o Written(o, "pairings", << >>)
  BY <1>2, WrittenRowsAre
<1> DEFINE base == Base(rows, w, Written(o, "tiebreak", {}), over)
<1>4. Onward(rows, base) /\ \A i \in DOMAIN w : base[i].winner = w[i] /\ w[i] # NoTeam
  BY <1>1, BaseIs
<1>5. rows' = base \o Written(o, "pairings", << >>)
  BY <1>3, CommitWrites
<1> HIDE DEF base
<1>6. \A i \in DOMAIN plan[o].writes["winner"] :
        /\ base[i].winner = plan[o].writes["winner"][i]
        /\ plan[o].writes["winner"][i] # NoTeam
  BY <1>4 DEF w
<1>7. WrittenOn(o, base)
  BY <1>4, <1>5, <1>6 DEF WrittenOn
<1> QED  BY <1>7

LEMMA NothingAppended ==
  ASSUME NEW rs, NEW base, Onward(rs, base)
  PROVE  base \o << >> = base
BY DEF Onward

LEMMA CommitStaged ==
  ASSUME EventTyped, Staged, NEW o \in Organisers, Fits(plan[o]), Commit(o)
  PROVE  Staged'
<1>0. plan[o] # NoPlan
  BY DEF Commit
<1> DEFINE w == plan[o].writes
<1>1. CASE Before(plan[o])
  <2>1. phase \in Early /\ rows = << >>
    BY <1>1, StageIs DEF Before
  <2>2. phase' \in Early
    BY <1>1, <2>1, CommitWrites, WrittenIs DEF Before
  <2>3. Written(o, "pairings", << >>) = << >>
    BY <1>1, WrittenIs DEF Before
  <2>4. rows' = << >>
    <3>1. << >> \in Seq(Pairings)
      OBVIOUS
    <3> QED  BY <2>1, <2>3, <3>1, NoRowsWritten, CommitWrites
  <2> QED  BY <2>2, <2>4 DEF Staged
<1>2. CASE Starts(plan[o])
  <2>1. rows = << >> /\ phase' = "knockout" /\ qualified' = qualified /\ interview' = interview
    <3>1. "interview" \notin DOMAIN plan[o].writes
      BY <1>2 DEF Starts
    <3> QED  BY <1>2, <3>1, StageIs, CommitWrites, WrittenIs, InterviewsKept DEF Starts, Early
  <2>2. Written(o, "pairings", << >>) = w["pairings"] /\ Bracket(w["pairings"], Eligible)
    BY <1>2, WrittenIs DEF Starts
  <2>3. rows' = w["pairings"]
    <3>1. w["pairings"] \in Seq(Pairings)
      BY <2>2, BracketGames
    <3> QED  BY <2>1, <2>2, <3>1, NoRowsWritten, CommitWrites
  <2> QED  BY <2>1, <2>2, <2>3, SameTeams DEF Staged
<1>3. CASE Finishes(plan[o])
  <2>1. /\ rows = << >> /\ phase' = "finished" /\ qualified' = qualified
        /\ interview' = interview /\ out' = out /\ ranking' = w["ranking"]
    <3>1. "interview" \notin DOMAIN plan[o].writes
      BY <1>3 DEF Finishes
    <3> QED  BY <1>3, <3>1, StageIs, CommitWrites, WrittenIs, InterviewsKept DEF Finishes, Early
  <2>2. Written(o, "pairings", << >>) = << >>
    BY <1>3, WrittenIs DEF Finishes
  <2>3. rows' = << >>
    <3>1. << >> \in Seq(Pairings)
      OBVIOUS
    <3> QED  BY <2>1, <2>2, <3>1, NoRowsWritten, CommitWrites
  <2>4. RankFits(ranking', qualified', out', Failed')
    BY <1>3, <2>1, SameTeams DEF Finishes
  <2> QED  BY <2>1, <2>3, <2>4 DEF Staged
<1>4. CASE Advances(plan[o])
  <2>0. PICK base : WrittenOn(o, base)
    BY <1>4, AdvanceWritten
  <2>1. /\ Onward(rows, base)
        /\ rows' = base \o Written(o, "pairings", << >>)
        /\ \A i \in DOMAIN w["winner"] : base[i].winner = w["winner"][i] /\ w["winner"][i] # NoTeam
    BY <2>0 DEF WrittenOn
  <2>2. phase = "knockout" /\ Bracket(rows, Eligible)
    BY <1>4, StageIs DEF Advances
  <2>3. Bracket(base, Eligible) /\ Len(base) = Len(rows) /\ base \o << >> = base
    BY <2>1, <2>2, OnwardBracket, NothingAppended DEF Onward
  <2>4. "qualified" \notin DOMAIN w /\ "interview" \notin DOMAIN w
    BY <1>4 DEF Advances
  <2>5. /\ qualified' = qualified /\ interview' = interview /\ out' = out
        /\ Eligible' = Eligible /\ Failed' = Failed
    BY <2>4, CommitWrites, WrittenIs, SameTeams, InterviewsKept
  <2>6. /\ 1 \in DOMAIN rows /\ 2 \in DOMAIN rows /\ DOMAIN rows = 1 .. Len(rows)
        /\ Len(rows) = 4 => 3 \in DOMAIN rows /\ 4 \in DOMAIN rows
    BY <2>2, BracketGames
  <2>7. \A i \in DOMAIN rows : base[i].high = rows[i].high /\ base[i].low = rows[i].low
    BY <2>1, <2>6 DEF Onward
  <2>8. CASE DOMAIN w = {"winner", "tiebreak"} /\ plan[o].doc = "none"
    <3>1. phase' = phase /\ rows' = base
      <4>1. "phase" \notin DOMAIN w /\ "pairings" \notin DOMAIN w
        BY <2>8
      <4>2. Written(o, "phase", phase) = phase /\ Written(o, "pairings", << >>) = << >>
        BY <4>1, WrittenIs
      <4> QED  BY <2>1, <2>3, <4>2, CommitWrites
    <3> QED  BY <2>2, <2>3, <2>5, <3>1 DEF Staged
  <2>9. CASE /\ DOMAIN w = {"winner", "pairings"} /\ plan[o].doc = "none"
             /\ Len(rows) = 2 /\ DOMAIN w["winner"] = {1, 2}
             /\ w["pairings"] \in Seq(Pairings) /\ Len(w["pairings"]) = 2
             /\ w["pairings"][1].winner = NoTeam /\ w["pairings"][2].winner = NoTeam
             /\ Finals(rows[1], w["winner"][1], rows[2], w["winner"][2],
                       w["pairings"][1], w["pairings"][2])
    <3>1. phase' = phase /\ rows' = base \o w["pairings"]
      <4>1. "phase" \notin DOMAIN w /\ "pairings" \in DOMAIN w
        BY <2>9
      <4>2. Written(o, "phase", phase) = phase /\ Written(o, "pairings", << >>) = w["pairings"]
        BY <4>1, WrittenIs
      <4> QED  BY <2>1, <4>2, CommitWrites
    <3>2. Finals(base[1], base[1].winner, base[2], base[2].winner,
                 w["pairings"][1], w["pairings"][2])
      <4>1. base[1].winner = w["winner"][1] /\ base[2].winner = w["winner"][2]
        BY <2>1, <2>9
      <4> QED  BY <2>6, <2>7, <2>9, <4>1 DEF Finals, Side, Other
    <3>3. Bracket(rows', Eligible)
      BY <2>3, <2>9, <3>1, <3>2, FinalsAppended
    <3> QED  BY <2>2, <2>5, <3>1, <3>3 DEF Staged
  <2>10. CASE /\ DOMAIN w = {"winner", "phase", "ranking"} /\ plan[o].doc = "final"
              /\ w["phase"] = "finished"
              /\ Len(rows) = 4 /\ DOMAIN w["winner"] = {3, 4}
              /\ RankFits(w["ranking"], qualified, out, Failed)
              /\ Podium(w["ranking"], rows[3], w["winner"][3], rows[4], w["winner"][4])
    <3>1. phase' = "finished" /\ rows' = base /\ ranking' = w["ranking"]
      <4>1. "phase" \in DOMAIN w /\ "ranking" \in DOMAIN w /\ "pairings" \notin DOMAIN w
        BY <2>10
      <4>2. /\ Written(o, "phase", phase) = "finished" /\ Written(o, "pairings", << >>) = << >>
            /\ Written(o, "ranking", ranking) = w["ranking"]
        BY <2>10, <4>1, WrittenIs
      <4> QED  BY <2>1, <2>3, <4>2, CommitWrites
    <3>2. /\ base[3].winner = w["winner"][3] /\ base[4].winner = w["winner"][4]
          /\ base[3].winner # NoTeam /\ base[4].winner # NoTeam
      BY <2>1, <2>10
    <3>3. Podium(w["ranking"], base[3], base[3].winner, base[4], base[4].winner)
      BY <2>6, <2>7, <2>10, <3>2 DEF Podium, Other
    <3> QED  BY <2>3, <2>5, <2>10, <3>1, <3>2, <3>3 DEF Staged
  <2> QED  BY <1>4, <2>8, <2>9, <2>10 DEF Advances
<1> QED  BY <1>0, <1>1, <1>2, <1>3, <1>4 DEF Fits

LEMMA RowsAre ==
  ASSUME Staged
  PROVE  rows \in Seq(Pairings) /\ (rows # << >> => Bracket(rows, Eligible))
<1>1. rows = << >> \/ Bracket(rows, Eligible)
  BY DEF Staged
<1>2. << >> \in Seq(Pairings)
  OBVIOUS
<1> QED  BY <1>1, <1>2, BracketGames

LEMMA NothingKept ==
  ASSUME Staged, rows' = rows
  PROVE  Kept(rows, rows')
<1>1. rows \in Seq(Pairings) /\ rows' \in Seq(Pairings)
  BY RowsAre
<1> QED  BY <1>1 DEF Kept

\* A plan that the batch does not overtake fits what the batch leaves.
LEMMA FitsAfterCommit ==
  ASSUME EventTyped, Staged, NEW o \in Organisers, Fits(plan[o]), Commit(o),
         NEW q \in Organisers, q # o, Fits(plan[q]), ~Overtakes(o, q)
  PROVE  Fits(plan[q])'
<1>0. plan'[q] = plan[q] /\ plan[o] # NoPlan
  BY DEF Commit, EventTyped
<1>1. CASE plan[q] = NoPlan
  BY <1>0, <1>1 DEF Fits
<1>2. CASE plan[q] # NoPlan
  <2>1. /\ phase' = phase /\ rows' = rows
        /\ interview' = interview \/ plan[q].step = "interview"
    BY <1>2 DEF Overtakes
  <2>2. CASE Before(plan[q])
    <3>1. Before(plan[q])'
      BY <1>0, <2>1, <2>2 DEF Before
    <3> QED  BY <3>1 DEF Fits
  <2>3. CASE ~Before(plan[q])
    <3>1. plan[q].step # "interview"
      <4>1. plan[q].step = "interview" => DOMAIN plan[q].writes = {"interview"}
        BY <1>2 DEF EventTyped, WritesTyped
      <4>2. DOMAIN plan[q].writes # {"interview"}
        <5>1. "phase" \in DOMAIN plan[q].writes \/ "winner" \in DOMAIN plan[q].writes
          BY <1>2, <2>3 DEF Fits, Starts, Finishes, Advances
        <5> QED  BY <5>1
      <4> QED  BY <4>1, <4>2
    <3>2. "qualified" \notin DOMAIN plan[o].writes
      <4>1. CASE Before(plan[o])
        BY <2>1, <4>1, CommitWrites, WrittenIs DEF Before
      <4>2. CASE ~Before(plan[o])
        <5>1. /\ "qualified" \notin {"phase", "pairings"} /\ "qualified" \notin {"phase", "ranking"}
              /\ "qualified" \notin {"winner", "tiebreak"} /\ "qualified" \notin {"winner", "pairings"}
              /\ "qualified" \notin {"winner", "phase", "ranking"}
          OBVIOUS
        <5> QED  BY <1>0, <4>2, <5>1 DEF Fits, Starts, Finishes, Advances
      <4> QED  BY <4>1, <4>2
    <3>3. qualified' = qualified /\ out' = out
      BY <3>2, CommitWrites, WrittenIs
    <3>4. Kept(rows, rows')
      BY <2>1, NothingKept
    <3>5. Untouched
      BY <2>1, <3>1, <3>3, <3>4 DEF Untouched
    <3> QED  BY <1>0, <3>5, FitsStays
  <2> QED  BY <2>2, <2>3
<1> QED  BY <1>1, <1>2

-----------------------------------------------------------------------------
(* The steps of the event.                                                  *)

\* One game changes but for its pairing and winner.
LEMMA OneGameKept ==
  ASSUME NEW rs \in Seq(Pairings), NEW i \in DOMAIN rs, NEW rs2, NEW r \in Pairings,
         r.winner = rs[i].winner, r.round = rs[i].round, r.slot = rs[i].slot,
         r.high = rs[i].high, r.low = rs[i].low, rs2 = [rs EXCEPT ![i] = r]
  PROVE  Kept(rs, rs2)
<1>1. /\ DOMAIN rs = 1 .. Len(rs) /\ Len(rs) \in Nat
      /\ \A j \in 1 .. Len(rs) : rs[j] \in Pairings
  OBVIOUS
<1>4. \A j \in DOMAIN rs : rs2[j] = IF j = i THEN r ELSE rs[j]
  OBVIOUS
<1>5. rs2 \in Seq(Pairings) /\ DOMAIN rs2 = DOMAIN rs /\ Len(rs2) = Len(rs)
  <2>1. rs2 \in [1 .. Len(rs) -> Pairings]
    BY <1>1
  <2>2. rs2 \in Seq(Pairings)
    BY <1>1, <2>1, SeqDef
  <2> QED  BY <1>1, <2>1, <2>2
<1>6. rs # << >>
  OBVIOUS
<1> QED  BY <1>4, <1>5, <1>6 DEF Kept

LEMMA GamesKept ==
  ASSUME Staged, NEW i \in DOMAIN rows,
         PairingEnds(i) \/ RerunKnockout(i) \/ SetKnockoutResult(i)
  PROVE  Kept(rows, rows')
<1>1. rows \in Seq(Pairings)
  BY RowsAre
<1>2. rows[i] \in Pairings
  BY <1>1
<1>3. \A k : Scores(k) \subseteq {"high", "low", "level"}
  BY DEF Scores
<1>4. ASSUME NEW b \in BOOLEAN, NEW s \in {"high", "low", "level"}, NEW r,
             r = [rows[i] EXCEPT !.open = b, !.score = s], rows' = [rows EXCEPT ![i] = r]
      PROVE  Kept(rows, rows')
  <2>1. /\ r \in Pairings /\ r.winner = rows[i].winner /\ r.round = rows[i].round
        /\ r.slot = rows[i].slot /\ r.high = rows[i].high /\ r.low = rows[i].low
    <3> DEFINE row == rows[i]
    <3>1. row \in Pairings /\ r = [row EXCEPT !.open = b, !.score = s]
      BY <1>2, <1>4
    <3> HIDE DEF row
    <3>2. /\ r \in Pairings /\ r.winner = row.winner /\ r.round = row.round
          /\ r.slot = row.slot /\ r.high = row.high /\ r.low = row.low
      BY <1>4, <3>1 DEF Pairings
    <3> QED  BY <3>2 DEF row
  <2>2. rows' = [rows EXCEPT ![i] = r]
    BY <1>4
  <2> QED  BY <1>1, <2>1, <2>2, OneGameKept
<1>5. CASE PairingEnds(i)
  <2>1. PICK s \in {"high", "low", "level"} :
          rows' = [rows EXCEPT ![i].open = FALSE, ![i].score = s]
    BY <1>3, <1>5 DEF PairingEnds
  <2>2. rows' = [rows EXCEPT ![i] = [rows[i] EXCEPT !.open = FALSE, !.score = s]]
    BY <1>1, <1>2, <2>1
  <2> QED  BY <1>4, <2>2
<1>6. CASE RerunKnockout(i)
  <2>1. rows' = [rows EXCEPT ![i].open = TRUE, ![i].score = "level"]
    BY <1>6 DEF RerunKnockout
  <2>2. rows' = [rows EXCEPT ![i] = [rows[i] EXCEPT !.open = TRUE, !.score = "level"]]
    BY <1>1, <1>2, <2>1
  <2> QED  BY <1>4, <2>2
<1>7. CASE SetKnockoutResult(i)
  <2>1. PICK s \in {"high", "low", "level"} : rows' = [rows EXCEPT ![i].score = s]
    BY <1>3, <1>7 DEF SetKnockoutResult
  <2>2. [rows[i] EXCEPT !.score = s] = [rows[i] EXCEPT !.open = rows[i].open, !.score = s]
        /\ rows[i].open \in BOOLEAN
    BY <1>2 DEF Pairings
  <2>3. rows' = [rows EXCEPT ![i] = [rows[i] EXCEPT !.open = rows[i].open, !.score = s]]
    BY <2>1, <2>2
  <2> QED  BY <1>4, <2>2, <2>3
<1> QED  BY <1>5, <1>6, <1>7

\* What is planned fits the state the planning leaves.
LEMMA PlanFits ==
  ASSUME EventTyped, EventFits, NEW o \in Organisers, Plan(o)
  PROVE  EventFits'
<1>0. UNCHANGED <<Unplanned, stale>>
  BY DEF Plan
<1> SUFFICES ASSUME ~overtaken
             PROVE  Staged' /\ \A q \in Organisers \ stale : Fits(plan[q])'
  BY <1>0 DEF EventFits, Unplanned
<1>1. Staged
  BY DEF EventFits
<1>2. Kept(rows, rows')
  BY <1>0, <1>1, NothingKept DEF Unplanned
<1>3. Untouched /\ ranking' = ranking
  BY <1>0, <1>2 DEF Untouched, Unplanned
<1>4. Staged'
  BY <1>1, <1>3, StagedStays
<1>5. PICK p : Fits(p) /\ PlanOf(o, p)
  BY <1>1, PlanMade
<1>6. plan'[o] = p /\ \A q \in Organisers : q # o => plan'[q] = plan[q]
  BY <1>5 DEF PlanOf, EventTyped
<1>7. Fits(plan[o])'
  <2>1. /\ phase' = phase /\ rows' = rows /\ qualified' = qualified /\ out' = out
        /\ Eligible' = Eligible /\ Failed' = Failed
    BY <1>0, SameTeams DEF Unplanned
  <2>2. Before(p) => Before(plan[o])'
    BY <1>6, <2>1 DEF Before
  <2>3. Starts(p) => Starts(plan[o])'
    BY <1>6, <2>1 DEF Starts
  <2>4. Finishes(p) => Finishes(plan[o])'
    BY <1>6, <2>1 DEF Finishes
  <2>5. Advances(p) => Advances(plan[o])'
    BY <1>6, <2>1 DEF Advances
  <2> QED  BY <1>5, <1>6, <2>2, <2>3, <2>4, <2>5 DEF Fits
<1>8. ASSUME NEW q \in Organisers \ stale, q # o  PROVE Fits(plan[q])'
  BY <1>1, <1>3, <1>6, <1>8, FitsStays DEF EventFits
<1> QED  BY <1>4, <1>7, <1>8

\* A batch that is not overtaken leaves what fits; the plans it overtakes become
\* stale.
LEMMA CommitFits ==
  ASSUME EventTyped, EventFits, NEW o \in Organisers, Commit(o)
  PROVE  EventFits'
<1> SUFFICES ASSUME ~overtaken'
             PROVE  Staged' /\ \A q \in Organisers \ stale' : Fits(plan[q])'
  BY DEF EventFits
<1>1. ~overtaken /\ o \notin stale
  BY DEF Commit, EventTyped
<1>2. Staged /\ \A q \in Organisers \ stale : Fits(plan[q])
  BY <1>1 DEF EventFits
<1>3. Staged'
  BY <1>1, <1>2, CommitStaged
<1>4. ASSUME NEW q \in Organisers \ stale'  PROVE Fits(plan[q])'
  <2>1. CASE q = o
    BY <2>1 DEF Commit, EventTyped, Fits
  <2>2. CASE q # o
    <3>1. q \notin stale /\ ~Overtakes(o, q)
      BY <1>4, <2>2 DEF Commit
    <3> QED  BY <1>1, <1>2, <2>2, <3>1, FitsAfterCommit
  <2> QED  BY <2>1, <2>2
<1> QED  BY <1>3, <1>4

LEMMA EventFitsStep ==
  ASSUME EventTyped, EventFits, [EventNext]_eventVars
  PROVE  EventFits'
<1>1. ASSUME NEW o \in Organisers, Plan(o)  PROVE EventFits'
  BY <1>1, PlanFits
<1>2. ASSUME NEW o \in Organisers, Commit(o)  PROVE EventFits'
  BY <1>2, CommitFits
<1> DEFINE Still == UNCHANGED <<stale, overtaken, plan, ranking>> /\ (Staged => Untouched)
<1>3. ASSUME Still  PROVE EventFits'
  <2> SUFFICES ASSUME ~overtaken
               PROVE  Staged' /\ \A q \in Organisers \ stale : Fits(plan[q])'
    BY <1>3 DEF EventFits
  <2>0. Staged /\ Untouched
    BY <1>3 DEF EventFits
  <2>1. Staged'
    BY <1>3, <2>0, StagedStays
  <2>2. ASSUME NEW q \in Organisers \ stale  PROVE Fits(plan[q])'
    BY <1>3, <2>0, FitsStays DEF EventFits
  <2> QED  BY <2>1, <2>2
<1>4. ASSUME NEW o \in Organisers, Abort(o)  PROVE EventFits'
  <2>0. overtaken' = overtaken /\ stale' = stale \ {o}
    BY <1>4 DEF Abort, Unplanned
  <2> SUFFICES ASSUME ~overtaken
               PROVE  Staged' /\ \A q \in Organisers \ stale' : Fits(plan[q])'
    BY <2>0 DEF EventFits
  <2>1. Staged
    BY DEF EventFits
  <2>2. Untouched /\ ranking' = ranking
    BY <1>4, <2>1, NothingKept DEF Untouched, Abort, Unplanned
  <2>3. Staged'
    BY <2>1, <2>2, StagedStays
  <2>4. \A q \in Organisers : plan'[q] = IF q = o THEN NoPlan ELSE plan[q]
    BY <1>4 DEF Abort, EventTyped
  <2>5. ASSUME NEW q \in Organisers \ stale'  PROVE Fits(plan[q])'
    <3>1. CASE q = o
      BY <2>4, <3>1 DEF Fits
    <3>2. CASE q # o
      BY <2>0, <2>1, <2>2, <2>4, <3>2, FitsStays DEF EventFits
    <3> QED  BY <3>1, <3>2
  <2> QED  BY <2>3, <2>5
<1>5. CASE GateEnds
  BY <1>3, <1>5, NothingKept DEF GateEnds, Untouched
<1>6. CASE QualifyingEnds
  BY <1>3, <1>6, NothingKept DEF QualifyingEnds, Untouched
<1>7. ASSUME NEW stage \in {"gate", "qualifying"}, RerunStage(stage)  PROVE EventFits'
  BY <1>3, <1>7, NothingKept DEF RerunStage, Untouched
<1>8. ASSUME NEW i \in DOMAIN rows, PairingEnds(i) \/ RerunKnockout(i) \/ SetKnockoutResult(i)
      PROVE  EventFits'
  <2>1. Staged => Kept(rows, rows')
    BY <1>8, GamesKept
  <2> QED  BY <1>3, <1>8, <2>1 DEF Untouched, PairingEnds, RerunKnockout, SetKnockoutResult
<1>9. ASSUME NEW t \in Teams, Disqualify(t)  PROVE EventFits'
  BY <1>3, <1>9, NothingKept DEF Disqualify, Untouched
<1>10. CASE UNCHANGED eventVars
  BY <1>3, <1>10, NothingKept DEF eventVars, Untouched
<1> QED  BY <1>1, <1>2, <1>4, <1>5, <1>6, <1>7, <1>8, <1>9, <1>10 DEF EventNext

LEMMA EventAlwaysFits == EventSpec => [](EventTyped /\ EventFits)
<1>1. EventInit => EventTyped /\ EventFits
  BY EventInitTyped, EventInitFits
<1>2. EventTyped /\ EventFits /\ [EventNext]_eventVars => (EventTyped /\ EventFits)'
  BY EventTypedStep, EventFitsStep
<1> QED  BY <1>1, <1>2, PTL DEF EventSpec

-----------------------------------------------------------------------------

LEMMA SlotsAre ==
  ASSUME NEW eligible, Bracket(rows, eligible)
  PROVE  /\ RowsOf("SF1") = {1} /\ RowsOf("SF2") = {2}
         /\ Len(rows) = 2 => RowsOf("F") = {} /\ RowsOf("3RD") = {}
         /\ Len(rows) = 4 => RowsOf("F") = {3} /\ RowsOf("3RD") = {4}
<1>1. DOMAIN rows = 1 .. Len(rows) /\ Len(rows) \in {2, 4}
  BY BracketGames
<1>2. rows[1].slot = "SF1" /\ rows[2].slot = "SF2"
  BY DEF Bracket, Semis
<1>3. CASE Len(rows) = 2
  <2>1. DOMAIN rows = {1, 2}
    BY <1>1, <1>3
  <2> QED  BY <1>2, <1>3, <2>1 DEF RowsOf
<1>4. CASE Len(rows) = 4
  <2>1. DOMAIN rows = {1, 2, 3, 4}
    BY <1>1, <1>4
  <2>2. rows[3].slot = "F" /\ rows[4].slot = "3RD"
    BY <1>4 DEF Bracket, Finals
  <2> QED  BY <1>2, <1>4, <2>1, <2>2 DEF RowsOf
<1> QED  BY <1>1, <1>3, <1>4

\* Of any teams, whatever is decided about games in between and however many
\* organisers take steps at once, the final is between the semi-finals' winners
\* and the third place match between their losers, the better seed first
\* (knockoutFirstRound, nextKnockoutPairings, planKnockoutAdvance), as long as no
\* batch was run whose plan another had overtaken.
THEOREM EventBracket == EventSpec => []BracketSound
<1>1. ASSUME EventTyped, EventFits, ~overtaken  PROVE BracketSound
  <2>1. CASE rows = << >>
    <3>1. DOMAIN rows = {}
      BY <2>1
    <3> QED  BY <3>1 DEF BracketSound, RowsOf
  <2>2. CASE rows # << >>
    <3>1. Bracket(rows, Eligible)
      BY <1>1, <2>2, RowsAre DEF EventFits
    <3>2. /\ DOMAIN rows = 1 .. Len(rows) /\ Len(rows) \in {2, 4}
          /\ rows[1] \in Pairings /\ rows[2] \in Pairings
          /\ rows[1].winner \in {NoTeam, rows[1].high.team, rows[1].low.team}
          /\ rows[2].winner \in {NoTeam, rows[2].high.team, rows[2].low.team}
      BY <3>1, BracketGames
    <3>3. /\ rows[1].high.seed < rows[1].low.seed /\ rows[2].high.seed < rows[2].low.seed
      BY <3>1 DEF Bracket, Semis
    <3>4. \A i \in DOMAIN rows : i = 1 \/ i = 2 \/ (Len(rows) = 4 /\ (i = 3 \/ i = 4))
      BY <3>2
    <3>5. \A i \in DOMAIN rows : rows[i].high.seed < rows[i].low.seed
      BY <3>1, <3>3, <3>4, FinalTeams
    <3>6. ASSUME Len(rows) = 4
          PROVE  /\ {rows[3].high.team, rows[3].low.team} = {Won(1), Won(2)}
                 /\ {rows[4].high.team, rows[4].low.team} = {Lost(1), Lost(2)}
      <4>1. rows[1].winner # NoTeam /\ rows[2].winner # NoTeam
        BY <3>1, <3>6 DEF Bracket, Finals
      <4>2. /\ Side(rows[1], rows[1].winner).team = Won(1) /\ Side(rows[2], rows[2].winner).team = Won(2)
            /\ Other(rows[1], rows[1].winner).team = Lost(1) /\ Other(rows[2], rows[2].winner).team = Lost(2)
        BY <3>2, <4>1 DEF Side, Other, Won, Lost
      <4> QED  BY <3>1, <3>6, <4>2, FinalTeams
    <3> QED  BY <3>1, <3>2, <3>5, <3>6, SlotsAre DEF BracketSound
  <2> QED  BY <2>1, <2>2
<1>2. EventTyped /\ EventFits => BracketSound
  BY <1>1 DEF BracketSound
<1> QED  BY <1>2, EventAlwaysFits, PTL

\* The published ranking names every qualified team that is not disqualified,
\* no team twice, the finalists and the third place match first and nobody who
\* failed the interview above somebody who did not (finalDocument), whether or
\* not there was a knockout and whoever was disqualified while it was made, for
\* any number of organisers until the batch of an overtaken plan is run.
THEOREM EventRanking == EventSpec => []RankingSound
<1>1. ASSUME EventTyped, EventFits  PROVE RankingSound
  <2>1. SUFFICES ASSUME phase = "finished", ~overtaken
                 PROVE  /\ IsInjective(ranking)
                        /\ qualified \ out \subseteq Range(ranking) /\ Range(ranking) \subseteq qualified
                        /\ \A f \in RowsOf("F"), third \in RowsOf("3RD") :
                            SubSeq(ranking, 1, 4) = <<Won(f), Lost(f), Won(third), Lost(third)>>
                        /\ \A i, j \in DOMAIN ranking :
                            i < j /\ interview[ranking[i]] = "fail" => interview[ranking[j]] = "fail"
    BY DEF RankingSound
  <2>2. /\ RankFits(ranking, qualified, out, Failed)
        /\ \/ rows = << >>
           \/ /\ Bracket(rows, Eligible) /\ Len(rows) = 4
              /\ rows[3].winner # NoTeam /\ rows[4].winner # NoTeam
              /\ Podium(ranking, rows[3], rows[3].winner, rows[4], rows[4].winner)
    BY <1>1, <2>1 DEF EventFits, Staged, Early
  <2>3. \A f \in RowsOf("F"), third \in RowsOf("3RD") :
          SubSeq(ranking, 1, 4) = <<Won(f), Lost(f), Won(third), Lost(third)>>
    <3>1. CASE rows = << >>
      <4>1. DOMAIN rows = {}
        BY <3>1
      <4> QED  BY <4>1 DEF RowsOf
    <3>2. CASE rows # << >>
      <4>1. RowsOf("F") = {3} /\ RowsOf("3RD") = {4}
        BY <2>2, <3>2, SlotsAre
      <4>2. Other(rows[3], rows[3].winner).team = Lost(3) /\ Other(rows[4], rows[4].winner).team = Lost(4)
        BY DEF Other, Lost, Won
      <4> QED  BY <2>2, <3>2, <4>1, <4>2 DEF Podium, Won
    <3> QED  BY <3>1, <3>2
  <2>4. \A i, j \in DOMAIN ranking :
          i < j /\ interview[ranking[i]] = "fail" => interview[ranking[j]] = "fail"
    <3>1. \A i \in DOMAIN ranking : ranking[i] \in Failed <=> interview[ranking[i]] = "fail"
      <4>1. ranking \in Seq(Teams)
        BY <2>2 DEF RankFits
      <4>2. \A i \in DOMAIN ranking : ranking[i] \in Teams
        BY <4>1
      <4> QED  BY <4>2 DEF Failed, Interviewed
    <3> QED  BY <2>2, <3>1 DEF RankFits
  <2> QED  BY <2>2, <2>3, <2>4 DEF RankFits
<1> QED  BY <1>1, EventAlwaysFits, PTL

\* However many organisers press at once and whatever batches are run of plans
\* that others had overtaken, a stage that is published stays published with the
\* submissions, the qualified teams or the ranking it was published with
\* (audited, stage_results).
THEOREM EventPublished == EventSpec => PublishedStands
<1> DEFINE Stands == /\ docs \subseteq docs'
                     /\ "sealed" \in docs => sealed' = sealed
                     /\ "gate" \in docs => qualified' = qualified
                     /\ "final" \in docs => ranking' = ranking
<1>1. ASSUME EventTyped, [EventNext]_eventVars  PROVE Stands
  <2>1. ASSUME NEW o \in Organisers, Commit(o)  PROVE Stands
    <3>1. plan[o] # NoPlan /\ WritesTyped(plan[o]) /\ plan[o].doc \notin docs
      BY <1>1, <2>1 DEF EventTyped, Commit, Refused
    <3>2. /\ "sealed" \in docs => "sealed" \notin DOMAIN plan[o].writes
          /\ "gate" \in docs => "qualified" \notin DOMAIN plan[o].writes
          /\ "final" \in docs => "ranking" \notin DOMAIN plan[o].writes
      BY <3>1 DEF WritesTyped
    <3>3. /\ docs \subseteq docs' /\ sealed' = Written(o, "sealed", sealed)
          /\ qualified' = Written(o, "qualified", qualified)
          /\ ranking' = Written(o, "ranking", ranking)
      BY <2>1 DEF Commit
    <3> QED  BY <3>2, <3>3, WrittenIs
  <2>2. CASE UNCHANGED <<docs, sealed, qualified, ranking>>
    BY <2>2
  <2>3. ASSUME NEW o \in Organisers, Plan(o) \/ Abort(o)
        PROVE  UNCHANGED <<docs, sealed, qualified, ranking>>
    BY <2>3 DEF Plan, Abort, Unplanned
  <2>4. CASE GateEnds \/ QualifyingEnds \/ UNCHANGED eventVars
    BY <2>2, <2>4 DEF GateEnds, QualifyingEnds, eventVars
  <2>5. ASSUME NEW stage \in {"gate", "qualifying"}, RerunStage(stage)
        PROVE  UNCHANGED <<docs, sealed, qualified, ranking>>
    BY <2>5 DEF RerunStage
  <2>6. ASSUME NEW i \in DOMAIN rows, PairingEnds(i) \/ RerunKnockout(i) \/ SetKnockoutResult(i)
        PROVE  UNCHANGED <<docs, sealed, qualified, ranking>>
    BY <2>6 DEF PairingEnds, RerunKnockout, SetKnockoutResult
  <2>7. ASSUME NEW t \in Teams, Disqualify(t)
        PROVE  UNCHANGED <<docs, sealed, qualified, ranking>>
    BY <2>7 DEF Disqualify
  <2> QED  BY <1>1, <2>1, <2>2, <2>3, <2>4, <2>5, <2>6, <2>7 DEF EventNext
<1> HIDE DEF Stands
<1>2. EventSpec => [][Stands]_eventVars
  BY <1>1, EventAlwaysTyped, PTL DEF EventSpec
<1> QED  BY <1>2 DEF PublishedStands, Stands
=============================================================================
