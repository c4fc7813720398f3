------------------------------ MODULE MCArena ------------------------------
(* Model-checking ArenaCompetition: two bots, a practice match of one of them  *)
(* with itself and a competition of two rounds, the first of two matches.      *)
EXTENDS ArenaCompetition

CONSTANTS m1, m2, m3, m4, v1, v2

MCRoundOf ==
  [m \in Matches |-> CASE m \in {m1, m4} -> 1 [] m = m2 -> 2 [] m = m3 -> NoRound]
MCPlayer ==
  [m \in Matches |-> CASE m \in {m1, m4} -> [A |-> v1, B |-> v2]
                       [] m = m2 -> [A |-> v2, B |-> v1]
                       [] m = m3 -> [A |-> v1, B |-> v1]]
=============================================================================
