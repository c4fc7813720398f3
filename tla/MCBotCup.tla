------------------------------ MODULE MCBotCup ------------------------------
(* Five teams, named by their usual place, whose games may swap the middle.  *)
(* The gate lets the first ones through, the one that may be disqualified is *)
(* among those the swap moves, and the two organisers may change places.     *)
EXTENDS BotCupEvent

MCTable == <<"t1", "t2", "t3", "t4", "t5">>
MCTeams == Range(MCTable)
MCTables == {MCTable, <<"t1", "t4", "t3", "t2", "t5">>}
MCGateResults == {Range(SubSeq(MCTable, 1, n)) : n \in 0 .. 5}
MCSuspects == {"t2"}
MCSymmetry == Permutations(Organisers)
=============================================================================
