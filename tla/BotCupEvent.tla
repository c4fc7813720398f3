---------------------------- MODULE BotCupEvent ----------------------------
(***************************************************************************)
(* The Bot Cup's tournament: organisers move the event from code freeze to *)
(* the final ranking.  Every step first reads the database and works out   *)
(* its statements (a plan) and then runs them with its audit row in one    *)
(* batch; games end, are played again or have their results changed, and   *)
(* teams are disqualified, between the two.  Nothing keeps two organisers  *)
(* from doing so at once: a batch runs whatever another wrote since its    *)
(* reads, unless both publish the same document.                           *)
(*                                                                         *)
(* A team's games with another are one row: played or not, and for whom    *)
(* they came out.  Which teams a qualifying round pairs is the subject of  *)
(* Pairing; here a round is played or not and leaves some table.           *)
(***************************************************************************)
EXTENDS Naturals, Sequences, FiniteSets, SequencesExt

CONSTANTS
    Teams,             \* the teams of the event
    Tables,            \* the orders of the teams the games can produce
    Organisers,        \* administrators whose steps overlap
    RoundRobinMax,     \* ROUND_ROBIN_MAX_TEAMS: above it, Swiss
    SwissRounds,       \* swissRoundCount
    MinSealed,         \* bound: at least so many teams have a ready submission
    GateResults,       \* bound: the sets of teams that may pass the gate
    Suspects,          \* bound: teams that may be disqualified
    MaxPairings,       \* bound: knockout pairings ever created
    MaxChanges         \* bound: games played again, results set by hand,
                       \* interviews decided again, steps begun while another
                       \* organiser's is under way

NoTeam == "none"          \* winner_team of a pairing that is not decided

ASSUME EventAssumption ==
    /\ IsFiniteSet(Teams) /\ NoTeam \notin Teams
    /\ Tables # {}
    /\ \A t \in Tables : t \in Seq(Teams) /\ IsInjective(t) /\ Range(t) = Teams
    /\ {RoundRobinMax, SwissRounds, MinSealed, MaxPairings, MaxChanges} \subseteq Nat
    /\ GateResults \subseteq SUBSET Teams /\ Suspects \subseteq Teams
    /\ SwissRounds > 0

KnockoutMaxTiebreaks == 2

VARIABLES
    phase,      \* the event's phase
    docs,       \* stages with a published result document
    sealed,     \* teams with a row in entrants
    passed,     \* teams whose gate games give the points asked for
    qualified,  \* entrants with gate_status qualified
    format,     \* of qualifying: none until its pairings exist
    round,      \* the last qualifying round created
    unplayed,   \* gate and qualifying: stages with games that are not finished
    table,      \* the order of all teams the qualifying games give now
    interview,  \* interview of every team
    rows,       \* the knockout pairings, in the order they were created
    out,        \* disqualified teams
    ranking,    \* the final document's ranking
    plan,       \* of every organiser: the step between its reads and its batch
    changes,    \* bound counter
    stale,      \* history: organisers whose plan another batch has overtaken
    overtaken   \* history: the batch of such a plan was run

eventVars == <<phase, docs, sealed, passed, qualified, format, round, unplayed,
               table, interview, rows, out, ranking, plan, changes, stale, overtaken>>

NoPlan == [step |-> "none"]

\* A plan: the document it publishes (or "none") and what its statements write.
Step(name, doc, writes) == [step |-> name, doc |-> doc, writes |-> writes]

----------------------------------------------------------------------------
(* What the steps read.                                                    *)

\* filter: the members of s that are in keep, in their order.
Nth(places, k) ==
    CHOOSE i \in places : Cardinality({j \in places : j <= i}) = k
Filter(s, keep) ==
    LET places == {i \in DOMAIN s : s[i] \in keep}
    IN  [k \in 1 .. Cardinality(places) |-> s[Nth(places, k)]]

Interviewed(results) == {t \in Teams : interview[t] \in results}

\* qualifyingStandings: the live table, without the disqualified.
Standings == Filter(table, qualified \ out)

NotFailed == Filter(Standings, Interviewed({"pass", "pending"}))

AtMost4(s) == SubSeq(s, 1, IF Len(s) < 4 THEN Len(s) ELSE 4)

\* topFourAfterInterviews: the first four who have not failed; ready when
\* none of them is waiting for its interview.
Contenders == AtMost4(NotFailed)
Seeded == Filter(Contenders, Interviewed({"pass"}))
InterviewsReady == Seeded = Contenders

Active == qualified \ out

----------------------------------------------------------------------------
(* Freeze, gate and qualifying.                                            *)

PlanOf(o, step) == plan[o] = NoPlan /\ plan' = [plan EXCEPT ![o] = step]

Unplanned == <<phase, docs, sealed, passed, qualified, format, round, unplayed,
               table, interview, rows, out, ranking, overtaken>>

\* planFreeze: seal each active team's ready submission.
PlanFreeze(o) ==
    /\ phase = "registration"
    /\ \E ready \in SUBSET (Teams \ out) :
        /\ Cardinality(ready) >= MinSealed
        /\ PlanOf(o, Step("freeze", "sealed", [phase |-> "frozen", sealed |-> ready]))

PlanGateStart(o) ==
    /\ phase = "frozen"
    /\ PlanOf(o, Step("gate-start", "none",
                      [phase |-> "gate", games |-> IF sealed = {} THEN {} ELSE {"gate"}]))

\* planGateClose: the games decide who is qualified.
PlanGateClose(o) ==
    /\ phase = "gate"
    /\ "gate" \notin unplayed
    /\ PlanOf(o, Step("gate-close", "gate",
                      [phase |-> "qualifying", qualified |-> sealed \cap passed]))

ChooseFormat(teams) == IF Cardinality(teams) <= RoundRobinMax THEN "round_robin" ELSE "swiss"

CanStartQualifying ==
    phase = "qualifying" /\ format = "none" /\ Cardinality(Active) >= 2

PlanQualifyingStart(o) ==
    /\ CanStartQualifying
    /\ PlanOf(o, Step("qualifying-start", "none",
                      [format |-> ChooseFormat(Active), round |-> 1, games |-> {"qualifying"}]))

\* planSwissNextRound: the pairing itself refuses fewer than two teams.
CanPairNextRound ==
    /\ phase = "qualifying" /\ format = "swiss"
    /\ "qualifying" \notin unplayed
    /\ round < SwissRounds
    /\ Cardinality(Active) >= 2

PlanSwissNextRound(o) ==
    /\ CanPairNextRound
    /\ PlanOf(o, Step("swiss-next", "none", [round |-> round + 1, games |-> {"qualifying"}]))

CanCloseQualifying ==
    /\ phase = "qualifying" /\ format # "none"
    /\ "qualifying" \notin unplayed
    /\ format = "swiss" => round >= SwissRounds

PlanQualifyingClose(o) ==
    /\ CanCloseQualifying
    /\ PlanOf(o, Step("qualifying-close", "qualifying", [phase |-> "verification"]))

PlanInterview(o, t, result) ==
    /\ phase = "verification"
    /\ t \in qualified
    /\ interview[t] # result
    /\ PlanOf(o, Step("interview", "none",
                      [interview |-> [x \in {t} |-> result]]))

----------------------------------------------------------------------------
(* Knockout.                                                               *)

Pairing(n, slot, x, y) ==
    LET high == IF x.seed <= y.seed THEN x ELSE y
        low == IF x.seed <= y.seed THEN y ELSE x
    IN  [round |-> n, slot |-> slot, high |-> high, low |-> low, ties |-> 0,
         winner |-> NoTeam, open |-> TRUE, score |-> "level"]

Entry(seeds, n) == [team |-> seeds[n], seed |-> n]

\* knockoutFirstRound for four teams: 1 v 4 and 2 v 3.
FirstRound(seeds) == <<Pairing(1, "SF1", Entry(seeds, 1), Entry(seeds, 4)),
                       Pairing(1, "SF2", Entry(seeds, 2), Entry(seeds, 3))>>

CanStartKnockout ==
    phase = "verification" /\ InterviewsReady /\ Len(Seeded) >= 4

PlanKnockoutStart(o) ==
    /\ CanStartKnockout
    /\ PlanOf(o, Step("knockout-start", "none",
                      [phase |-> "knockout", pairings |-> FirstRound(Seeded)]))

\* knockoutDecision, and the winner a pairing already has.
Decide(row) ==
    IF row.winner # NoTeam THEN row.winner
    ELSE IF row.score = "level" /\ row.ties < KnockoutMaxTiebreaks THEN NoTeam
    ELSE IF row.score = "low" THEN row.low.team
    ELSE row.high.team

WinnerEntry(row) == IF Decide(row) = row.high.team THEN row.high ELSE row.low
LoserEntry(row) == IF Decide(row) = row.high.team THEN row.low ELSE row.high

LastRound == CHOOSE n \in {rows[i].round : i \in DOMAIN rows} :
                \A i \in DOMAIN rows : rows[i].round <= n
Current == {i \in DOMAIN rows : rows[i].round = LastRound}
InSlot(s) == rows[CHOOSE i \in Current : rows[i].slot = s
                    /\ \A j \in Current : rows[j].slot = s => j <= i]

\* A plausible slip: the third place match takes the winners as well.
NextRoundOfWinners ==
    LET a == InSlot("SF1")  b == InSlot("SF2")
    IN  <<Pairing(2, "F", WinnerEntry(a), WinnerEntry(b)),
          Pairing(2, "3RD", LoserEntry(a), WinnerEntry(b))>>

\* nextKnockoutPairings after the semi-finals: the better seed is Red.
NextRound ==
    LET a == InSlot("SF1")  b == InSlot("SF2")
    IN  <<Pairing(2, "F", WinnerEntry(a), WinnerEntry(b)),
          Pairing(2, "3RD", LoserEntry(a), LoserEntry(b))>>

\* finalDocument: the placed teams, then the table with the failed teams last.
RankedOver(placed, others) ==
    placed \o Filter(others, Interviewed({"pass", "pending"}))
           \o Filter(others, Interviewed({"fail"}))

\* A plausible slip: the table's teams are not compared with the placed ones.
RankWholeTable(placed) == RankedOver(placed, Standings)

FinalRanking(placed) ==
    RankedOver(placed, Filter(Standings, Teams \ Range(placed)))

Placed ==
    LET f == InSlot("F")  third == InSlot("3RD")
    IN  <<WinnerEntry(f).team, LoserEntry(f).team,
          WinnerEntry(third).team, LoserEntry(third).team>>

KnockoutPending == \E i \in DOMAIN rows : rows[i].open

\* planKnockoutAdvance: decided pairings get their winner; level ones get two
\* more games; once all are decided, the next round or the final document.
PlanKnockoutAdvance(o) ==
    /\ phase = "knockout"
    /\ ~KnockoutPending
    /\ LET level == {i \in Current : Decide(rows[i]) = NoTeam}
           winner == [i \in Current \ level |-> Decide(rows[i])]
       IN  PlanOf(o,
            IF level # {}
            THEN Step("knockout-advance", "none", [winner |-> winner, tiebreak |-> level])
            ELSE IF \E i \in Current : rows[i].slot = "SF1"
            THEN Step("knockout-advance", "none", [winner |-> winner, pairings |-> NextRound])
            ELSE Step("knockout-advance", "final",
                      [winner |-> winner, phase |-> "finished", ranking |-> FinalRanking(Placed)]))

\* A plausible slip: four teams in the table always owe a knockout.
FinishShortTable == phase = "verification" /\ Len(Standings) < 4

\* planFinishWithoutKnockout: too few teams, in the table or after interviews.
CanFinish ==
    /\ phase = "verification"
    /\ Len(Standings) >= 4 => InterviewsReady /\ Len(Seeded) < 4

PlanFinish(o) ==
    /\ CanFinish
    /\ PlanOf(o, Step("finish", "final",
                      [phase |-> "finished", ranking |-> FinalRanking(<<>>)]))

----------------------------------------------------------------------------
(* The batch of a step.                                                    *)

Written(o, column, old) ==
    IF column \in DOMAIN plan[o].writes THEN plan[o].writes[column] ELSE old

\* Of a round that is over only the winners are read: the rest is forgotten.
WrittenRows(o) ==
    LET winner == Written(o, "winner", << >>)
        tiebreak == Written(o, "tiebreak", {})
        pairings == Written(o, "pairings", << >>)
    IN  [i \in DOMAIN rows |->
            LET won == IF i \in DOMAIN winner
                       THEN [rows[i] EXCEPT !.winner = winner[i]] ELSE rows[i]
            IN  IF pairings # << >> \/ plan[o].doc = "final"
                THEN [won EXCEPT !.ties = 0, !.score = "level"]
                ELSE IF i \in tiebreak
                THEN [won EXCEPT !.ties = @ + 1, !.open = TRUE, !.score = "level"]
                ELSE won]
        \o pairings

\* The statement of an interview is about one team.
Interviews(o) ==
    LET w == Written(o, "interview", << >>)
    IN  [t \in Teams |-> IF t \in DOMAIN w THEN w[t] ELSE interview[t]]

\* A plausible slip: a stage's document replaces the one there is.
RefusedNever(o) == FALSE

\* stage_results has one row per stage: a second document fails the batch.
Refused(o) == plan[o].doc \in docs

\* The batch moves the phase or the bracket under q's plan, or records an
\* interview that q, not itself recording one, may have read.
Overtakes(o, q) ==
    /\ q # o /\ plan[q] # NoPlan
    /\ \/ phase' # phase \/ rows' # rows
       \/ interview' # interview /\ plan[q].step # "interview"

Commit(o) ==
    /\ plan[o] # NoPlan
    /\ ~Refused(o)
    /\ plan' = [plan EXCEPT ![o] = NoPlan]
    /\ docs' = docs \cup ({plan[o].doc} \ {"none"})
    /\ phase' = Written(o, "phase", phase)
    /\ sealed' = Written(o, "sealed", sealed)
    /\ qualified' = Written(o, "qualified", qualified)
    /\ format' = Written(o, "format", format)
    /\ round' = Written(o, "round", round)
    /\ unplayed' = unplayed \cup Written(o, "games", {})
    /\ interview' = Interviews(o)
    /\ rows' = WrittenRows(o) /\ Len(rows') <= MaxPairings
    /\ ranking' = Written(o, "ranking", ranking)
    /\ passed' = IF phase' = "gate" THEN passed ELSE {}   \* not read again
    /\ stale' = (stale \ {o}) \cup {q \in Organisers : Overtakes(o, q)}
    /\ overtaken' = (overtaken \/ o \in stale)
    /\ UNCHANGED <<table, out, changes>>

\* The batch fails, here or on its way: nothing is written.
Abort(o) ==
    /\ plan[o] # NoPlan
    /\ plan' = [plan EXCEPT ![o] = NoPlan]
    /\ stale' = stale \ {o}
    /\ UNCHANGED <<Unplanned, changes>>

----------------------------------------------------------------------------
(* Games and decisions about them.                                         *)

GateEnds ==
    /\ "gate" \in unplayed
    /\ unplayed' = unplayed \ {"gate"}
    /\ passed' \in IF phase = "gate" THEN {sealed \cap s : s \in GateResults} ELSE {{}}
    /\ UNCHANGED <<phase, docs, sealed, qualified, format, round, table,
                   interview, rows, out, ranking, plan, changes, stale, overtaken>>

QualifyingEnds ==
    /\ "qualifying" \in unplayed
    /\ unplayed' = unplayed \ {"qualifying"}
    /\ table' \in Tables
    /\ UNCHANGED <<phase, docs, sealed, passed, qualified, format, round,
                   interview, rows, out, ranking, plan, changes, stale, overtaken>>

Scores(i) == IF i \in Current THEN {"high", "low", "level"} ELSE {"level"}

PairingEnds(i) ==
    /\ rows[i].open
    /\ \E s \in Scores(i) : rows' = [rows EXCEPT ![i].open = FALSE, ![i].score = s]
    /\ UNCHANGED <<phase, docs, sealed, passed, qualified, format, round,
                   unplayed, table, interview, out, ranking, plan, changes, stale, overtaken>>

Change == changes < MaxChanges /\ phase # "finished" /\ changes' = changes + 1

\* rerunMatch: a game of the stage is played again.
RerunStage(stage) ==
    /\ Change
    /\ \/ stage = "gate" /\ phase = "gate" /\ sealed # {}
       \/ stage = "qualifying" /\ format # "none"
    /\ unplayed' = unplayed \cup {stage}
    /\ UNCHANGED <<phase, docs, sealed, passed, qualified, format, round,
                   table, interview, rows, out, ranking, plan, stale, overtaken>>

RerunKnockout(i) ==
    /\ Change
    /\ rows' = [rows EXCEPT ![i].open = TRUE, ![i].score = "level"]
    /\ UNCHANGED <<phase, docs, sealed, passed, qualified, format, round,
                   unplayed, table, interview, out, ranking, plan, stale, overtaken>>

\* match.set_result, approved by a second administrator.
SetKnockoutResult(i) ==
    /\ Change
    /\ ~rows[i].open /\ i \in Current
    /\ \E s \in Scores(i) : rows' = [rows EXCEPT ![i].score = s]
    /\ UNCHANGED <<phase, docs, sealed, passed, qualified, format, round,
                   unplayed, table, interview, out, ranking, plan, stale, overtaken>>

\* team.disqualify, approved by a second administrator.
Disqualify(t) ==
    /\ t \in Suspects \ out
    /\ phase # "finished"
    /\ out' = out \cup {t}
    /\ UNCHANGED <<phase, docs, sealed, passed, qualified, format, round,
                   unplayed, table, interview, rows, ranking, plan, changes, stale, overtaken>>

----------------------------------------------------------------------------

EventInit ==
    /\ phase = "registration" /\ docs = {}
    /\ sealed = {} /\ passed = {} /\ qualified = {}
    /\ format = "none" /\ round = 0 /\ unplayed = {}
    /\ table = CHOOSE t \in Tables : TRUE
    /\ interview = [t \in Teams |-> "pending"]
    /\ rows = << >> /\ out = {} /\ ranking = << >>
    /\ plan = [o \in Organisers |-> NoPlan]
    /\ changes = 0 /\ stale = {} /\ overtaken = FALSE

\* For the bound: the step gives a team another result of its interview.
Reinterview(p) ==
    p.step = "interview" /\ \E t \in DOMAIN p.writes.interview : interview[t] # "pending"

Plan(o) ==
    /\ \/ PlanFreeze(o) \/ PlanGateStart(o) \/ PlanGateClose(o)
       \/ PlanQualifyingStart(o) \/ PlanSwissNextRound(o) \/ PlanQualifyingClose(o)
       \/ \E t \in Teams, r \in {"pass", "fail", "pending"} : PlanInterview(o, t, r)
       \/ PlanKnockoutStart(o) \/ PlanKnockoutAdvance(o) \/ PlanFinish(o)
    /\ IF (\E q \in Organisers : plan[q] # NoPlan) \/ Reinterview(plan'[o])
       THEN changes < MaxChanges /\ changes' = changes + 1
       ELSE UNCHANGED changes
    /\ UNCHANGED <<Unplanned, stale>>

EventNext ==
    \/ \E o \in Organisers : Plan(o) \/ Commit(o) \/ Abort(o)
    \/ GateEnds \/ QualifyingEnds
    \/ \E stage \in {"gate", "qualifying"} : RerunStage(stage)
    \/ \E i \in DOMAIN rows : PairingEnds(i) \/ RerunKnockout(i) \/ SetKnockoutResult(i)
    \/ \E t \in Teams : Disqualify(t)

EventSpec == EventInit /\ [][EventNext]_eventVars

----------------------------------------------------------------------------
(* Properties.                                                             *)

RowsOf(s) == {i \in DOMAIN rows : rows[i].slot = s}
Won(i) == rows[i].winner
Lost(i) == IF Won(i) = rows[i].high.team THEN rows[i].low.team ELSE rows[i].high.team

\* The final is between the winners of the two semi-finals and the third place
\* match between their losers, whatever is decided about their games since and
\* however many organisers press at once, as long as no batch was run whose plan
\* another had overtaken; the better seed is the pairing's first team
\* (planKnockoutAdvance, nextKnockoutPairings).
BracketSound ==
    ~overtaken =>
        /\ \A i \in DOMAIN rows : rows[i].high.seed < rows[i].low.seed
        /\ \A f \in RowsOf("F"), third \in RowsOf("3RD"), a \in RowsOf("SF1"), b \in RowsOf("SF2") :
            /\ {rows[f].high.team, rows[f].low.team} = {Won(a), Won(b)}
            /\ {rows[third].high.team, rows[third].low.team} = {Lost(a), Lost(b)}

\* The published ranking names no team twice and every qualified team that is
\* not disqualified; the finalists and the third place match come first, and
\* among the others nobody who failed the interview is above somebody who did
\* not (finalDocument); again unless an overtaken plan's batch was run.
RankingSound ==
    phase = "finished" /\ ~overtaken =>
        /\ IsInjective(ranking)
        /\ qualified \ out \subseteq Range(ranking) /\ Range(ranking) \subseteq qualified
        /\ \A f \in RowsOf("F"), third \in RowsOf("3RD") :
            SubSeq(ranking, 1, 4) = <<Won(f), Lost(f), Won(third), Lost(third)>>
        /\ \A i, j \in DOMAIN ranking :
            i < j /\ interview[ranking[i]] = "fail" => interview[ranking[j]] = "fail"

\* What a published document of a stage stands on stays as it was published,
\* however many organisers press the same or different steps at once and whether
\* or not their plans were overtaken: the sealed submissions, the teams that
\* passed the gate and the final ranking (the primary key of stage_results and
\* the retries of audited).
PublishedStands ==
    [][/\ docs \subseteq docs'
       /\ "sealed" \in docs => sealed' = sealed
       /\ "gate" \in docs => qualified' = qualified
       /\ "final" \in docs => ranking' = ranking]_eventVars

\* Too few teams are left for a qualifying round: no step leads out of this.
Stranded == phase = "qualifying" /\ Cardinality(Active) < 2 /\ ~CanCloseQualifying

\* Once the qualifying games are played and the interviews held there is a step
\* the organisers can take, whoever is disqualified or fails, unless too few
\* teams are left to pair: the conditions of the next round, the close, the
\* knockout's start and of finishing without it leave no gap.
NotStuck ==
    /\ phase = "qualifying" /\ "qualifying" \notin unplayed /\ ~Stranded
        => CanStartQualifying \/ CanPairNextRound \/ CanCloseQualifying
    /\ phase = "verification" /\ (\A t \in qualified : interview[t] # "pending")
        => CanStartKnockout \/ CanFinish

=============================================================================
