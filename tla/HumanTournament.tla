-------------------------- MODULE HumanTournament --------------------------
(***************************************************************************)
(* A tournament of people, run by the Lobby's TournamentCoordinator over   *)
(* the domain model human-tournament.mjs.  Starting or advancing it        *)
(* changes the tournament in one transaction and then, outside of it,      *)
(* provisions a room for every match of the round, each with a call to a   *)
(* new Game object.  A fence with a lease of thirty seconds keeps a second *)
(* request out; a request that outlives its lease is overtaken.            *)
(* Who is paired with whom is the subject of Pairing.tla: here a match is  *)
(* a table of a round.                                                     *)
(***************************************************************************)
EXTENDS Naturals, FiniteSets

CONSTANTS Requests,     \* start and advance requests in flight at once
          MaxPlayers,   \* bound: how many register
          MaxRounds,    \* bound: the longest tournament
          MaxRooms,     \* bound: rooms ever provisioned
          MaxTrouble,   \* bound: rounds, and failed calls, overtaken requests, restarts
          Results,      \* how a game can end
          Draw,         \* and what it counts as when nobody won
          None

ASSUME TournamentAssumption ==
  /\ MaxPlayers \in Nat /\ MaxRounds \in Nat \ {0} /\ MaxRooms \in Nat /\ MaxTrouble \in Nat
  /\ None \notin Requests \cup 1..MaxRooms /\ None \notin Results
  /\ Draw \in Results
  /\ IsFiniteSet(Requests)

VARIABLES status,       \* the tournament's status
          players,      \* how many have registered
          round,        \* currentRoundNumber
          roundCount,
          matches,      \* [round][table]: its room and its result
          rooms,        \* allocation:<id> and the Game behind it
          fence,        \* provisioning-fence:<id>
          reqs,         \* requests that are provisioning
          trouble       \* faults so far

vars == <<status, players, round, roundCount, matches, rooms, fence, reqs, trouble>>

Rounds == 1..MaxRounds
Tables == 1..(MaxPlayers \div 2)
RoomIds == 1..MaxRooms

Unpaired == [room |-> None, result |-> None]
NoRoom == [state |-> "none", round |-> 0, table |-> 0, game |-> "none", outcome |-> None]
Idle == [phase |-> "idle", round |-> 0, todo |-> {}, room |-> None]
NoFence == [holder |-> None, live |-> FALSE]

\* The Game behind a room: not asked yet (none); open to whoever holds an invite;
\* playing; waiting for a second player with the first one there; empty, without
\* the first one; over and reported; silent when its one report was lost.
GameStates == {"none", "open", "playing", "waiting", "empty", "over", "silent"}

Playing == 1..(players \div 2)        \* tables with two players; an odd player has a bye

\* A longer tournament is explored with fewer faults.
MayFail == trouble + roundCount < MaxTrouble

TypeOK ==
  /\ status \in {"registration", "in_progress", "completed"}
  /\ players \in 0..MaxPlayers /\ round \in 0..MaxRounds /\ roundCount \in 0..MaxRounds
  /\ matches \in [Rounds -> [Tables -> [room : RoomIds \cup {None}, result : Results \cup {None}]]]
  /\ rooms \in [RoomIds -> [state : {"none", "stored", "removed"}, round : 0..MaxRounds,
                            table : {0} \cup Tables, game : GameStates,
                            outcome : Results \cup {None}]]
  /\ fence \in [holder : Requests \cup {None}, live : BOOLEAN]
  /\ reqs \in [Requests -> [phase : {"idle", "next", "call", "ok", "failed", "closing"},
                            round : 0..MaxRounds, todo : SUBSET Tables,
                            room : RoomIds \cup {None}]]
  /\ trouble \in 0..MaxTrouble

Init ==
  /\ status = "registration" /\ players = 0 /\ round = 0 /\ roundCount = 0
  /\ matches = [r \in Rounds |-> [t \in Tables |-> Unpaired]]
  /\ rooms = [a \in RoomIds |-> NoRoom]
  /\ fence = NoFence
  /\ reqs = [p \in Requests |-> Idle]
  /\ trouble = 0

-----------------------------------------------------------------------------
(* The transactions.                                                        *)

Register ==
  /\ status = "registration" /\ players < MaxPlayers
  /\ players' = players + 1
  /\ UNCHANGED <<status, round, roundCount, matches, rooms, fence, reqs, trouble>>

\* Mutant: matches without a room are never looked for again.
UnprovisionedNever(r) == {}

Unprovisioned(r) == {t \in Playing : matches[r][t].room = None}
Fenced == fence.holder # None /\ fence.live

\* The request takes the fence and the work list of what it has just read.
Provision(p, r, todo) ==
  /\ fence' = [holder |-> p, live |-> TRUE]
  /\ reqs' = [reqs EXCEPT ![p] = [Idle EXCEPT !.phase = "next", !.round = r, !.todo = todo]]

StartTournament ==
  /\ status = "registration" /\ players >= 2
  /\ status' = "in_progress" /\ round' = 1
  /\ roundCount' \in Rounds          \* getRoundCount, in Pairing.tla

Start(p) ==
  /\ reqs[p] = Idle /\ ~Fenced
  /\ \/ StartTournament /\ Provision(p, 1, Playing)
     \/ /\ status = "in_progress" /\ Unprovisioned(round) # {}
        /\ Provision(p, round, Unprovisioned(round))
        /\ UNCHANGED <<status, round, roundCount>>
  /\ UNCHANGED <<players, matches, rooms, trouble>>

\* Mutant: the latest report counts.
SyncedAgain(m) == IF m.room # None /\ rooms[m.room].outcome # None
                  THEN [m EXCEPT !.result = rooms[m.room].outcome] ELSE m

\* A match takes over the outcome of its room once; later reports are not read.
Synced(m) == IF m.result = None /\ m.room # None /\ rooms[m.room].outcome # None
             THEN [m EXCEPT !.result = rooms[m.room].outcome] ELSE m
SyncedRound == IF round = 0 THEN matches
               ELSE [matches EXCEPT ![round] = [t \in Tables |-> Synced(matches[round][t])]]

\* tournament-get synchronizes every match of the round, tournament-sync-match one.
Sync(ts) ==
  /\ status = "in_progress"
  /\ matches' = [matches EXCEPT ![round] =
                   [t \in Tables |-> IF t \in ts THEN Synced(matches[round][t])
                                     ELSE matches[round][t]]]
  /\ matches' # matches
  /\ UNCHANGED <<status, players, round, roundCount, rooms, fence, reqs, trouble>>

\* Mutant: the tournament moves on when a match of the round is over.
CanAdvanceAny(ms) == \E t \in Playing : ms[round][t].result # None

CanAdvance(ms) == \A t \in Playing : ms[round][t].result # None

AdvanceRound(p) ==
  /\ CanAdvance(SyncedRound)
  /\ IF round >= roundCount
     THEN status' = "completed" /\ UNCHANGED <<round, fence, reqs>>
     ELSE /\ round' = round + 1
          /\ Provision(p, round + 1, Playing)
          /\ UNCHANGED status

Advance(p) ==
  /\ reqs[p] = Idle /\ ~Fenced
  /\ status = "in_progress"
  /\ matches' = SyncedRound
  /\ \/ /\ Unprovisioned(round) # {}
        /\ Provision(p, round, Unprovisioned(round))
        /\ UNCHANGED <<status, round>>
     \/ Unprovisioned(round) = {} /\ AdvanceRound(p)
  /\ UNCHANGED <<players, roundCount, rooms, trouble>>

-----------------------------------------------------------------------------
(* provisionTournamentRoundMatches, one match after the other.              *)

FirstFree == CHOOSE a \in RoomIds : rooms[a].state = "none" /\ \A b \in RoomIds :
                                      rooms[b].state = "none" => a <= b

\* Alias, invites and allocation are stored before the Game is asked.
StoreRoom(p) ==
  /\ reqs[p].phase = "next" /\ reqs[p].todo # {}
  /\ \E a \in RoomIds : rooms[a].state = "none"
  /\ LET t == CHOOSE x \in reqs[p].todo : \A y \in reqs[p].todo : x <= y
     IN /\ rooms' = [rooms EXCEPT ![FirstFree] =
                       [NoRoom EXCEPT !.state = "stored", !.round = reqs[p].round, !.table = t]]
        /\ reqs' = [reqs EXCEPT ![p].phase = "call", ![p].room = FirstFree]
  /\ UNCHANGED <<status, players, round, roundCount, matches, fence, trouble>>

StartGame(p) ==
  /\ reqs[p].phase = "call"
  /\ \/ /\ rooms' = [rooms EXCEPT ![reqs[p].room].game = "open"]
        /\ reqs' = [reqs EXCEPT ![p].phase = "ok"]
        /\ UNCHANGED trouble
     \/ /\ MayFail /\ trouble' = trouble + 1
        /\ \E arrives \in {"none", "open"} :
             rooms' = [rooms EXCEPT ![reqs[p].room].game = arrives]
        /\ reqs' = [reqs EXCEPT ![p].phase = "failed"]
  /\ UNCHANGED <<status, players, round, roundCount, matches, fence>>

\* What the Game behind a removed room does is not read any more.
Removed(a) == [rooms EXCEPT ![a].state = "removed", ![a].game = "none", ![a].outcome = None]

HoldsFence(p) == fence.holder = p /\ fence.live

AlreadyProvisioned(p) ==
  LET a == reqs[p].room IN matches[rooms[a].round][rooms[a].table].room # None

\* The last transaction for a match: with the fence lost the request gives up,
\* with the match provisioned by somebody else it goes on without its room.
AssignRoom(p) ==
  /\ reqs[p].phase = "ok"
  /\ LET a == reqs[p].room
         t == rooms[a].table
         rest == [reqs[p] EXCEPT !.phase = "next", !.todo = @ \ {t}, !.room = None]
     IN IF ~HoldsFence(p)
        THEN /\ rooms' = Removed(a)
             /\ reqs' = [reqs EXCEPT ![p].phase = "closing"]
             /\ UNCHANGED matches
        ELSE IF AlreadyProvisioned(p)
        THEN /\ rooms' = Removed(a)
             /\ reqs' = [reqs EXCEPT ![p] = rest]
             /\ UNCHANGED matches
        ELSE /\ matches' = [matches EXCEPT ![rooms[a].round][t].room = a]
             /\ reqs' = [reqs EXCEPT ![p] = rest]
             /\ UNCHANGED rooms
  /\ UNCHANGED <<status, players, round, roundCount, fence, trouble>>

RollbackRoom(p) ==
  /\ reqs[p].phase = "failed"
  /\ rooms' = Removed(reqs[p].room)
  /\ reqs' = [reqs EXCEPT ![p].phase = "closing"]
  /\ UNCHANGED <<status, players, round, roundCount, matches, fence, trouble>>

\* finally: the request gives the fence back, unless somebody else has it.
ReleaseFence(p) ==
  /\ \/ reqs[p].phase = "closing"
     \/ reqs[p].phase = "next" /\ reqs[p].todo = {}
  /\ fence' = IF fence.holder = p THEN NoFence ELSE fence
  /\ reqs' = [reqs EXCEPT ![p] = Idle]
  /\ UNCHANGED <<status, players, round, roundCount, matches, rooms, trouble>>

-----------------------------------------------------------------------------
(* The world around it.                                                     *)

Reported(a, o) == rooms' = [rooms EXCEPT ![a].game = "over", ![a].outcome = o]

Ongoing(a) == rooms[a].state = "stored" /\ rooms[a].outcome = None

\* The invites of the two seats are valid for ten minutes and are not issued
\* again: by then both players, the first one or not even the first has come.  The
\* players get them through the match, so nobody comes to a room without one.
InvitesEnd(a) ==
  /\ Ongoing(a) /\ rooms[a].game = "open"
  /\ \E g \in {"playing", "waiting", "empty"} :
       /\ g # "empty" => matches[rooms[a].round][rooms[a].table].room = a
       /\ rooms' = [rooms EXCEPT ![a].game = g]
  /\ UNCHANGED <<status, players, round, roundCount, matches, fence, reqs, trouble>>

\* A game that two play ends, and its report reaches the Lobby.
GameOver(a) ==
  /\ Ongoing(a) /\ rooms[a].game = "playing"
  /\ \E o \in Results : Reported(a, o)
  /\ UNCHANGED <<status, players, round, roundCount, matches, fence, reqs, trouble>>

\* The first player leaves, or loses the connection, before a second one came.
CreatorGoes(a) ==
  /\ Ongoing(a) /\ rooms[a].game = "waiting"
  /\ Reported(a, Draw)
  /\ UNCHANGED <<status, players, round, roundCount, matches, fence, reqs, trouble>>

\* The first player did not attach for an hour: the Game reports that once.  When the report is
\* lost no alarm is left that would send it again.
CreatorDeadline(a) ==
  /\ Ongoing(a) /\ rooms[a].game = "empty"
  /\ \/ Reported(a, Draw) /\ UNCHANGED trouble
     \/ /\ MayFail /\ trouble' = trouble + 1
        /\ rooms' = [rooms EXCEPT ![a].game = "silent"]
  /\ UNCHANGED <<status, players, round, roundCount, matches, fence, reqs>>

\* A report may be sent again after a lost answer; the Lobby keeps the last one
\* of a room it still has.
GameReportsAgain(a) ==
  /\ MayFail /\ trouble' = trouble + 1
  /\ rooms[a].outcome # None
  /\ \E o \in Results : rooms' = [rooms EXCEPT ![a].outcome = o]
  /\ UNCHANGED <<status, players, round, roundCount, matches, fence, reqs>>

\* Thirty seconds pass while the holder is at work, or after it is gone.
LeaseExpires ==
  /\ Fenced
  /\ LET overtaken == reqs[fence.holder] # Idle
     IN /\ overtaken => MayFail
        /\ trouble' = IF overtaken THEN trouble + 1 ELSE trouble
  /\ fence' = [fence EXCEPT !.live = FALSE]
  /\ UNCHANGED <<status, players, round, roundCount, matches, rooms, reqs>>

\* The Lobby object is evicted: its requests are gone, what they stored is not.
Restart ==
  /\ MayFail /\ trouble' = trouble + 1
  /\ \E p \in Requests : reqs[p] # Idle
  /\ reqs' = [p \in Requests |-> Idle]
  /\ UNCHANGED <<status, players, round, roundCount, matches, rooms, fence>>

Work(p) == StoreRoom(p) \/ StartGame(p) \/ AssignRoom(p) \/ RollbackRoom(p) \/ ReleaseFence(p)

Next ==
  \/ Register
  \/ \E p \in Requests : Start(p) \/ Advance(p) \/ Work(p)
  \/ \E t \in Tables : Sync({t})
  \/ Sync(Tables)
  \/ \E a \in RoomIds : \/ InvitesEnd(a) \/ GameOver(a) \/ CreatorGoes(a)
                        \/ CreatorDeadline(a) \/ GameReportsAgain(a)
  \/ LeaseExpires \/ Restart

\* The runtime finishes what it started, leases and invites run out, a game that
\* is played ends (GameEnds of RoomLifecycle) and is reported (Reported of
\* DurableGame), the alarm of an empty game fires, and, an assumption on a
\* person, the organizer presses on.  A player who waits need not go.
Fairness ==
  /\ \A p \in Requests : WF_vars(Work(p))
  /\ \A a \in RoomIds : WF_vars(InvitesEnd(a)) /\ WF_vars(GameOver(a))
                                              /\ WF_vars(CreatorDeadline(a))
  /\ WF_vars(LeaseExpires)
  /\ WF_vars(\E p \in Requests : Advance(p))

Spec == Init /\ [][Next]_vars /\ Fairness

-----------------------------------------------------------------------------
(* Properties.                                                              *)

\* A match that has a room has one that exists and is its own: no overtaken or
\* failed request removes a room that was assigned, or assigns it twice.
RoomsExist ==
  \A r \in Rounds, t \in Tables :
    LET a == matches[r][t].room
    IN a # None => rooms[a].state = "stored" /\ rooms[a].game # "none"
                   /\ rooms[a].round = r /\ rooms[a].table = t

\* Every room that is kept belongs to a match or to a request at work on it,
\* unless the object was restarted in between.
NoOrphans ==
  Cardinality({a \in RoomIds : rooms[a].state = "stored"
                 /\ matches[rooms[a].round][rooms[a].table].room # a
                 /\ \A p \in Requests : reqs[p].room # a}) <= trouble

\* Rounds are played one after the other: before a round began every match of
\* the rounds before it had its result, and so have all when it is completed.
RoundsInOrder ==
  \A r \in Rounds : r < round \/ (r = round /\ status = "completed") =>
    \A t \in Playing : matches[r][t].result # None

TournamentInv == TypeOK /\ RoomsExist /\ NoOrphans /\ RoundsInOrder

\* The room of a match and its result never change once they are there, although
\* the stored outcome of the room may.
MatchesFinal ==
  [][\A r \in Rounds, t \in Tables :
       /\ matches[r][t].room # None => matches'[r][t].room = matches[r][t].room
       /\ matches[r][t].result # None => matches'[r][t].result = matches[r][t].result]_vars

\* A match of the round that nothing but a person may end: its first player waits
\* for a second one whose invite has run out, or its one report was lost.
Forsaken ==
  \E t \in Playing :
    LET m == matches[round][t]
    IN m.result = None /\ m.room # None
       /\ Ongoing(m.room) /\ rooms[m.room].game \in {"waiting", "silent"}

\* A tournament that began is completed, over failed calls, overtaken requests
\* and restarts, as long as the organizer does not give up, unless from some
\* time on a match is forsaken for good.
TournamentEnds ==
  []<>(status # "in_progress" \/ ~Forsaken)
    => (status = "in_progress" ~> status = "completed")
=============================================================================
