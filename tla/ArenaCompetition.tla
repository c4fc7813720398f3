-------------------------- MODULE ArenaCompetition --------------------------
(***************************************************************************)
(* A running competition (competition-rounds-repository.mjs) on top of the *)
(* jobs of its matches: the administrator launches one round after the     *)
(* other, each of them a tournament, and retries matches that failed.  A   *)
(* request names the phase or the round it was written for.                *)
(*                                                                         *)
(* Abstracted: entries, pairings (RoundOf and Player), byes and standings. *)
(***************************************************************************)
EXTENDS ArenaJobs

CONSTANT RoundCount

ASSUME RoundsAssumption == RoundCount \in Nat \ {0} /\ Rounds = 1 .. RoundCount

VARIABLE competition   \* competitions.phase and current_round

compVars == <<vars, competition>>

CompInit == Init /\ competition = [phase |-> "locked", current |-> 0]

\* Mutant: only the matches that failed are looked at.
RoundOverNoErrors(r) == \A m \in MatchesOf(r) : target[m] # "failed"

RoundOver(r) == MatchesOf(r) # {} /\ \A m \in MatchesOf(r) : target[m] = "done"

\* advanceExtendedPhase("locked").
Launch ==
  /\ competition = [phase |-> "locked", current |-> 0]
  /\ CreateTournament(1)
  /\ competition' = [phase |-> "running", current |-> 1]

\* nextRound(expectedRound).
NextRound(expected) ==
  /\ competition.phase = "running" /\ competition.current = expected
  /\ expected < RoundCount
  /\ RoundOver(expected)
  /\ CreateTournament(expected + 1)
  /\ competition' = [competition EXCEPT !.current = expected + 1]

\* advanceExtendedPhase("running").
Complete ==
  /\ competition.phase = "running" /\ competition.current = RoundCount
  /\ RoundOver(RoundCount)
  /\ competition' = [competition EXCEPT !.phase = "completed"]
  /\ UNCHANGED vars

\* retryCompetitionMatch.
RetryMatch(m) ==
  /\ competition.phase = "running" /\ RoundOf[m] = competition.current
  /\ Retry(m)
  /\ UNCHANGED competition

\* Everything the administrator has no part in.
Work ==
  /\ \/ \E v \in Versions : Upload(v)
     \/ \E m \in Matches : CreateMatch(m) \/ Enqueue(m)
     \/ \E w \in Worker :
          \/ Poll(w) \/ ClaimNothing(w) \/ ClaimExhausted(w) \/ Claim(w)
          \/ Heartbeat(w) \/ Play(w) \/ Settle(w) \/ Built(w) \/ RunEnds(w)
          \/ Stop(w) \/ Crash(w) \/ Start(w)
     \/ Tick
  /\ UNCHANGED competition

CompNext ==
  \/ Launch \/ Complete \/ Work
  \/ \E r \in Rounds : NextRound(r)
  \/ \E m \in Matches : RetryMatch(m)

CompSafe == CompInit /\ [][CompNext]_compVars

CompSpec == CompSafe /\ Fairness

\* A round starts when every match of the rounds before it is settled, and a completed
\* competition has settled them all.
RoundGate ==
  /\ competition.current \in 0 .. RoundCount
  /\ \A r \in Rounds, m \in Matches :
       /\ tournament[r] # "none" /\ RoundOf[m] \in 1 .. r - 1 => target[m] = "done"
       /\ competition.phase = "completed" /\ RoundOf[m] = r => target[m] = "done"
=============================================================================
