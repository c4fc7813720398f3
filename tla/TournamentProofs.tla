------------------------- MODULE TournamentProofs -------------------------
(***************************************************************************)
(* Proofs about tournaments.                                               *)
(*                                                                         *)
(* The tournament of people, for any number of players, rounds, rooms and  *)
(* requests in flight and any budget of faults.  The inductive invariant   *)
(* is TournamentStrong: it adds to what the runs check what a request      *)
(* knows of the room it is working on, that two requests never work on the *)
(* same room, and what the faults so far pay for.  Fairness is not used.   *)
(*                                                                         *)
(* The pairing of rounds, for any set of tournaments.  The inductive       *)
(* invariant is PairingFits: every round seats everybody, there is one     *)
(* game for each of its pairs, and a round-robin follows the circle.       *)
(***************************************************************************)
EXTENDS HumanTournament, Pairing, FiniteSetTheorems, WellFoundedInduction, TLAPS

-----------------------------------------------------------------------------
(* Numbers and finite sets.                                                 *)

(* A nonempty set of natural numbers has a smallest element. *)
LEMMA Smallest ==
  ASSUME NEW S \in SUBSET Nat, S # {}
  PROVE  \E x \in S : \A y \in S : x <= y
<1> DEFINE Less == OpToRel(<, Nat)
<1>1. IsWellFoundedOn(Less, Nat)
  BY NatLessThanWellFounded
<1>2. \A x, y \in Nat : <<y, x>> \in Less <=> y < x
  BY DEF OpToRel
<1> HIDE DEF Less
<1>3. PICK x \in S : \A y \in S : ~ (<<y, x>> \in Less)
  BY <1>1, WFMin
<1>4. ASSUME NEW y \in S  PROVE x <= y
  <2>1. x \in Nat /\ y \in Nat
    OBVIOUS
  <2>2. ~(y < x)
    BY <1>2, <1>3, <2>1
  <2> QED  BY <2>1, <2>2
<1> QED  BY <1>4

LEMMA HalfIsLess ==
  ASSUME NEW m \in Nat, NEW n \in Nat, m <= n
  PROVE  m \div 2 \in Nat /\ m \div 2 <= n \div 2
OBVIOUS

LEMMA PartIsSmaller ==
  ASSUME NEW S, IsFiniteSet(S), NEW T, T \subseteq S
  PROVE  IsFiniteSet(T) /\ Cardinality(T) \in Nat /\ Cardinality(T) <= Cardinality(S)
BY FS_Subset, FS_CardinalityType

LEMMA OneMore ==
  ASSUME NEW S, IsFiniteSet(S), NEW x
  PROVE  /\ IsFiniteSet(S \cup {x}) /\ Cardinality(S \cup {x}) \in Nat
         /\ Cardinality(S \cup {x}) <= Cardinality(S) + 1
<1>1. IsFiniteSet(S \cup {x})
      /\ Cardinality(S \cup {x}) = IF x \in S THEN Cardinality(S) ELSE Cardinality(S) + 1
  BY FS_AddElement
<1>2. Cardinality(S) \in Nat
  BY FS_CardinalityType
<1> QED  BY <1>1, <1>2

-----------------------------------------------------------------------------
(* The inductive invariant.                                                 *)

AtWork == {"call", "ok", "failed"}

(* The match that a room was provisioned for. *)
MatchOf(ms, rs, a) == ms[rs[a].round][rs[a].table]

Orphans == {a \in RoomIds : rooms[a].state = "stored"
              /\ MatchOf(matches, rooms, a).room # a
              /\ \A p \in Requests : reqs[p].room # a}

(* Requests at work without the fence: their lease ran out, or somebody took it. *)
Overtaken == {p \in Requests : reqs[p].phase # "idle" /\ ~HoldsFence(p)}

(* Every orphan, and every request that a restart could make one of in addition to *)
(* the holder's, is paid for by a fault.                                            *)
Charged == Cardinality(Orphans) + Cardinality(Overtaken) <= trouble

(* What a request knows of its work and of its room. *)
RequestSound(ms, rs, q) ==
  /\ q.phase = "idle" => q = Idle
  /\ q.phase # "idle" => q.round \in Rounds
  /\ q.phase = "next" => q.room = None
  /\ q.phase \in AtWork =>
       q.room # None /\ rs[q.room].state = "stored" /\ MatchOf(ms, rs, q.room).room # q.room
  /\ q.phase = "ok" => rs[q.room].game # "none"
  /\ q.phase = "closing" => q.room # None /\ rs[q.room].state = "removed"

RequestsSound == \A p \in Requests : RequestSound(matches, rooms, reqs[p])

RoomsApart ==
  \A p, q \in Requests :
    p # q /\ reqs[p].phase \in AtWork /\ reqs[q].phase \in AtWork => reqs[p].room # reqs[q].room

RoomsPlaced ==
  \A a \in RoomIds : rooms[a].state = "stored" => rooms[a].round \in Rounds /\ rooms[a].table \in Tables

RoundSound ==
  /\ status = "registration" <=> round = 0
  /\ round <= roundCount
  /\ status = "completed" => round = roundCount

TournamentStrong ==
  /\ TypeOK /\ RoomsExist /\ RoundsInOrder
  /\ Charged /\ RequestsSound /\ RoomsApart /\ RoomsPlaced /\ RoundSound

MatchRecs == [room : RoomIds \cup {None}, result : Results \cup {None}]
RoomRecs == [state : {"none", "stored", "removed"}, round : 0..MaxRounds,
             table : {0} \cup Tables, game : GameStates, outcome : Results \cup {None}]
ReqRecs == [phase : {"idle", "next", "call", "ok", "failed", "closing"},
            round : 0..MaxRounds, todo : SUBSET Tables, room : RoomIds \cup {None}]

(* TypeOK with its records named. *)
LEMMA Types ==
  TypeOK <=> /\ status \in {"registration", "in_progress", "completed"}
             /\ players \in 0..MaxPlayers /\ round \in 0..MaxRounds /\ roundCount \in 0..MaxRounds
             /\ matches \in [Rounds -> [Tables -> MatchRecs]]
             /\ rooms \in [RoomIds -> RoomRecs]
             /\ fence \in [holder : Requests \cup {None}, live : BOOLEAN]
             /\ reqs \in [Requests -> ReqRecs]
             /\ trouble \in 0..MaxTrouble
BY DEF TypeOK, MatchRecs, RoomRecs, ReqRecs

LEMMA PlayingAreTables ==
  ASSUME TypeOK
  PROVE  Playing \subseteq Tables
<1>1. players \in Nat /\ MaxPlayers \in Nat /\ players <= MaxPlayers
  BY TournamentAssumption DEF TypeOK
<1>2. players \div 2 \in Nat /\ players \div 2 <= MaxPlayers \div 2
  BY <1>1, HalfIsLess
<1>3. MaxPlayers \div 2 \in Nat
  BY <1>1, HalfIsLess
<1> QED  BY <1>2, <1>3 DEF Playing, Tables

LEMMA Finiteness ==
  /\ IsFiniteSet(Orphans) /\ Cardinality(Orphans) \in Nat
  /\ IsFiniteSet(Overtaken) /\ Cardinality(Overtaken) \in Nat
<1>1. IsFiniteSet(RoomIds)
  BY FS_Interval, TournamentAssumption DEF RoomIds
<1>2. Orphans \subseteq RoomIds /\ Overtaken \subseteq Requests
  BY DEF Orphans, Overtaken
<1> QED  BY <1>1, <1>2, PartIsSmaller, TournamentAssumption

(* A step that makes no orphan and overtakes nobody is free of charge. *)
LEMMA TroubleIs ==
  ASSUME TournamentStrong
  PROVE  trouble \in Nat /\ trouble <= trouble
BY DEF TournamentStrong, TypeOK

LEMMA FreeOfCharge ==
  ASSUME TournamentStrong, Orphans' \subseteq Orphans, Overtaken' \subseteq Overtaken,
         trouble' \in Nat, trouble <= trouble'
  PROVE  Charged'
<1>1. Cardinality(Orphans') \in Nat /\ Cardinality(Orphans') <= Cardinality(Orphans)
  BY Finiteness, PartIsSmaller
<1>2. Cardinality(Overtaken') \in Nat /\ Cardinality(Overtaken') <= Cardinality(Overtaken)
  BY Finiteness, PartIsSmaller
<1>3. trouble \in Nat
  BY DEF TournamentStrong, TypeOK
<1>4. Cardinality(Orphans) \in Nat /\ Cardinality(Overtaken) \in Nat
  BY Finiteness
<1>5. Cardinality(Orphans) + Cardinality(Overtaken) <= trouble
  BY DEF TournamentStrong, Charged
<1>6. Cardinality(Orphans') + Cardinality(Overtaken') <= trouble'
  BY <1>1, <1>2, <1>3, <1>4, <1>5
<1> QED  BY <1>6 DEF Charged

LEMMA InitSound == Init => TournamentStrong
<1> SUFFICES ASSUME Init PROVE TournamentStrong
  OBVIOUS
<1> USE TournamentAssumption
<1>1. TypeOK
  BY DEF Init, TypeOK, GameStates, Unpaired, NoRoom, Idle, NoFence
<1>2. RoomsExist /\ RoundsInOrder
  BY DEF Init, RoomsExist, RoundsInOrder, Unpaired, Rounds
<1>3. Orphans = {} /\ Overtaken = {}
  BY DEF Init, Orphans, Overtaken, NoRoom, Idle
<1>4. Charged
  BY <1>3, FS_EmptySet DEF Charged, Init
<1>5. RequestsSound /\ RoomsApart /\ RoomsPlaced /\ RoundSound
  BY DEF Init, RequestsSound, RequestSound, RoomsApart, RoomsPlaced, RoundSound, Idle, NoRoom, AtWork
<1> QED  BY <1>1, <1>2, <1>4, <1>5 DEF TournamentStrong

-----------------------------------------------------------------------------
(* Registration, start and the rounds.                                      *)

LEMMA RegisterKeeps ==
  ASSUME TournamentStrong, Register
  PROVE  TournamentStrong'
<1> USE TournamentAssumption
<1>1. TypeOK'
  BY DEF TournamentStrong, TypeOK, Register
<1>2. RoomsExist' /\ RequestsSound' /\ RoomsApart' /\ RoomsPlaced' /\ RoundSound'
  BY DEF TournamentStrong, RoomsExist, RequestsSound, RoomsApart, RoomsPlaced, RoundSound,
       Register
<1>3. RoundsInOrder'
  <2>1. round = 0
    BY DEF TournamentStrong, RoundSound, Register
  <2> QED  BY <2>1 DEF RoundsInOrder, Register, Rounds
<1>4. Orphans' = Orphans /\ Overtaken' = Overtaken
  BY DEF Orphans, Overtaken, HoldsFence, Register
<1>5. trouble' \in Nat /\ trouble <= trouble'
  BY DEF TournamentStrong, TypeOK, Register
<1>6. Charged'
  BY <1>4, <1>5, FreeOfCharge
<1> QED  BY <1>1, <1>2, <1>3, <1>6 DEF TournamentStrong

(* What taking the fence with a work list does to the requests: whoever held it before *)
(* no longer does, and the new request has no room yet.                                 *)
LEMMA ProvisionIsSound ==
  ASSUME TournamentStrong, NEW p \in Requests, NEW r \in Rounds, NEW todo \in SUBSET Tables,
         reqs[p] = Idle, ~Fenced, Provision(p, r, todo), rooms' = rooms,
         \A x \in Rounds, t \in Tables : matches'[x][t].room = matches[x][t].room
  PROVE  /\ reqs' \in [Requests -> ReqRecs]
         /\ fence' \in [holder : Requests \cup {None}, live : BOOLEAN]
         /\ RequestsSound' /\ RoomsApart'
         /\ Orphans' \subseteq Orphans /\ Overtaken' \subseteq Overtaken
<1> DEFINE y == [Idle EXCEPT !.phase = "next", !.round = r, !.todo = todo]
<1>0. reqs \in [Requests -> ReqRecs] /\ rooms \in [RoomIds -> RoomRecs]
  BY Types DEF TournamentStrong
<1>1. y \in ReqRecs /\ y.phase = "next" /\ y.round = r /\ y.room = None
  <2>1. Idle \in ReqRecs /\ Idle.room = None
    BY TournamentAssumption DEF ReqRecs, Idle
  <2>2. r \in 0..MaxRounds
    BY TournamentAssumption DEF Rounds
  <2> QED  BY <2>1, <2>2 DEF ReqRecs
<1>2. reqs' = [reqs EXCEPT ![p] = y]
  BY DEF Provision
<1> HIDE DEF y
<1>3. reqs'[p] = y /\ \A q \in Requests : q # p => reqs'[q] = reqs[q]
  BY <1>0, <1>2
<1>4. reqs' \in [Requests -> ReqRecs]
  BY <1>0, <1>1, <1>2
<1>5. \A a \in RoomIds : rooms[a].state = "stored" =>
        MatchOf(matches', rooms, a).room = MatchOf(matches, rooms, a).room
  BY DEF TournamentStrong, RoomsPlaced, MatchOf
<1>6. RequestsSound'
  <2> SUFFICES ASSUME NEW q \in Requests  PROVE RequestSound(matches', rooms, reqs'[q])
    BY DEF RequestsSound
  <2>1. CASE q = p
    BY <1>1, <1>3, <2>1 DEF AtWork, RequestSound
  <2>2. CASE q # p
    <3>1. reqs[q].room \in RoomIds \cup {None}
      BY <1>0 DEF ReqRecs
    <3>2. RequestSound(matches, rooms, reqs[q])
      BY DEF TournamentStrong, RequestsSound
    <3> QED  BY <1>3, <1>5, <2>2, <3>1, <3>2 DEF RequestSound
  <2> QED  BY <2>1, <2>2
<1>7. RoomsApart'
  BY <1>1, <1>3 DEF TournamentStrong, RoomsApart, AtWork
<1>8. Orphans' \subseteq Orphans
  <2> SUFFICES ASSUME NEW a \in Orphans'  PROVE a \in Orphans
    OBVIOUS
  <2>1. a \in RoomIds /\ rooms[a].state = "stored" /\ MatchOf(matches', rooms, a).room # a
    BY DEF Orphans
  <2>2. MatchOf(matches, rooms, a).room # a
    BY <1>5, <2>1
  <2>3. \A q \in Requests : reqs[q].room # a
    <3> SUFFICES ASSUME NEW q \in Requests  PROVE reqs[q].room # a
      OBVIOUS
    <3>1. CASE q = p
      BY <2>1, <3>1, TournamentAssumption DEF Idle, RoomIds
    <3>2. CASE q # p
      BY <1>3, <3>2 DEF Orphans
    <3> QED  BY <3>1, <3>2
  <2> QED  BY <2>1, <2>2, <2>3 DEF Orphans
<1>9. Overtaken' \subseteq Overtaken
  <2>1. fence' = [holder |-> p, live |-> TRUE]
    BY DEF Provision
  <2> SUFFICES ASSUME NEW q \in Overtaken'  PROVE q \in Overtaken
    OBVIOUS
  <2>2. q \in Requests /\ q # p /\ reqs[q].phase # "idle"
    BY <1>3, <2>1 DEF Overtaken, HoldsFence
  <2>3. ~HoldsFence(q)
    BY <2>2, TournamentAssumption DEF HoldsFence, Fenced
  <2> QED  BY <2>2, <2>3 DEF Overtaken
<1> QED  BY <1>4, <1>6, <1>7, <1>8, <1>9 DEF Provision

LEMMA StartKeeps ==
  ASSUME TournamentStrong, NEW p \in Requests, Start(p)
  PROVE  TournamentStrong'
<1> USE TournamentAssumption
<1>1. PICK r \in Rounds, todo \in SUBSET Tables : Provision(p, r, todo)
  <2>1. CASE StartTournament /\ Provision(p, 1, Playing)
    BY <2>1, PlayingAreTables DEF Rounds, TournamentStrong
  <2>2. CASE status = "in_progress" /\ Provision(p, round, Unprovisioned(round))
    <3>1. round \in Rounds
      BY <2>2 DEF TournamentStrong, TypeOK, RoundSound, Rounds
    <3> QED  BY <2>2, <3>1, PlayingAreTables DEF TournamentStrong, Unprovisioned
  <2> QED  BY <2>1, <2>2 DEF Start
<1>2. /\ reqs' \in [Requests -> ReqRecs]
      /\ fence' \in [holder : Requests \cup {None}, live : BOOLEAN]
      /\ RequestsSound' /\ RoomsApart'
      /\ Orphans' \subseteq Orphans /\ Overtaken' \subseteq Overtaken
  BY <1>1, ProvisionIsSound DEF Start
<1>3. /\ status' \in {"registration", "in_progress", "completed"}
      /\ round' \in 0..MaxRounds /\ roundCount' \in 0..MaxRounds /\ RoundSound'
  BY DEF Start, StartTournament, TournamentStrong, TypeOK, RoundSound, Rounds
<1>4. TypeOK'
  BY <1>2, <1>3 DEF TournamentStrong, TypeOK, Start, ReqRecs
<1>5. RoomsExist' /\ RoomsPlaced'
  BY DEF Start, TournamentStrong, RoomsExist, RoomsPlaced
<1>6. RoundsInOrder'
  BY DEF Start, StartTournament, TournamentStrong, RoundsInOrder, Playing, Rounds
<1>7. Charged'
  BY <1>2, FreeOfCharge DEF Start, TournamentStrong, TypeOK
<1> QED  BY <1>2, <1>3, <1>4, <1>5, <1>6, <1>7 DEF TournamentStrong

(* Reading the outcomes of the rooms only adds results. *)
ResultsOnly(ms) ==
  /\ ms \in [Rounds -> [Tables -> MatchRecs]]
  /\ \A r \in Rounds, t \in Tables :
       /\ ms[r][t].room = matches[r][t].room
       /\ matches[r][t].result # None => ms[r][t].result = matches[r][t].result

LEMMA SyncedIsSound ==
  ASSUME TypeOK, NEW m \in MatchRecs
  PROVE  /\ Synced(m) \in MatchRecs
         /\ Synced(m).room = m.room
         /\ m.result # None => Synced(m).result = m.result
<1>1. rooms \in [RoomIds -> RoomRecs]
  BY Types
<1>2. CASE m.result = None /\ m.room # None /\ rooms[m.room].outcome # None
  <2>1. m.room \in RoomIds
    BY <1>2 DEF MatchRecs
  <2>2. rooms[m.room].outcome \in Results
    BY <1>1, <1>2, <2>1 DEF RoomRecs
  <2>3. Synced(m) = [m EXCEPT !.result = rooms[m.room].outcome]
    BY <1>2 DEF Synced
  <2> QED  BY <1>2, <2>2, <2>3 DEF MatchRecs
<1>3. CASE ~(m.result = None /\ m.room # None /\ rooms[m.room].outcome # None)
  BY <1>3 DEF Synced
<1> QED  BY <1>2, <1>3

LEMMA SyncingIsSound ==
  ASSUME TypeOK, NEW r \in Rounds, NEW ts \in SUBSET Tables
  PROVE  ResultsOnly([matches EXCEPT ![r] =
                        [t \in Tables |-> IF t \in ts THEN Synced(matches[r][t]) ELSE matches[r][t]]])
<1> DEFINE f == [t \in Tables |-> IF t \in ts THEN Synced(matches[r][t]) ELSE matches[r][t]]
           ms == [matches EXCEPT ![r] = f]
<1>1. matches \in [Rounds -> [Tables -> MatchRecs]]
  BY Types
<1>2. ASSUME NEW t \in Tables
      PROVE  /\ f[t] \in MatchRecs
             /\ f[t].room = matches[r][t].room
             /\ matches[r][t].result # None => f[t].result = matches[r][t].result
  <2>1. matches[r][t] \in MatchRecs
    BY <1>1
  <2> QED  BY <2>1, SyncedIsSound
<1>3. f \in [Tables -> MatchRecs]
  BY <1>2
<1> HIDE DEF f
<1>4. ms \in [Rounds -> [Tables -> MatchRecs]]
  BY <1>1, <1>3
<1>5. ASSUME NEW x \in Rounds, NEW t \in Tables
      PROVE  /\ ms[x][t].room = matches[x][t].room
             /\ matches[x][t].result # None => ms[x][t].result = matches[x][t].result
  BY <1>1, <1>2, <1>5
<1>6. ResultsOnly(ms)
  BY <1>4, <1>5 DEF ResultsOnly
<1> QED  BY <1>6 DEF f

LEMMA SyncedRoundIsSound ==
  ASSUME TypeOK
  PROVE  ResultsOnly(SyncedRound)
<1>1. CASE round = 0
  BY <1>1, Types DEF SyncedRound, ResultsOnly
<1>2. CASE round # 0
  <2>1. round \in Rounds
    BY <1>2, TournamentAssumption DEF TypeOK, Rounds
  <2>2. ResultsOnly([matches EXCEPT ![round] = [t \in Tables |->
                       IF t \in Tables THEN Synced(matches[round][t]) ELSE matches[round][t]]])
    BY <2>1, SyncingIsSound
  <2>3. [t \in Tables |-> IF t \in Tables THEN Synced(matches[round][t]) ELSE matches[round][t]]
          = [t \in Tables |-> Synced(matches[round][t])]
    OBVIOUS
  <2> QED  BY <1>2, <2>2, <2>3 DEF SyncedRound
<1> QED  BY <1>1, <1>2

(* What such a step keeps of the rooms and of the rounds. *)
LEMMA ResultsOnlyKeeps ==
  ASSUME TournamentStrong, ResultsOnly(matches'), rooms' = rooms, players' = players
  PROVE  /\ RoomsExist' /\ RoomsPlaced'
         /\ \A r \in Rounds : (\A t \in Playing : matches[r][t].result # None) =>
              \A t \in Playing' : matches'[r][t].result # None
<1>1. RoomsExist' /\ RoomsPlaced'
  BY DEF ResultsOnly, TournamentStrong, RoomsExist, RoomsPlaced
<1>2. Playing' = Playing /\ Playing \subseteq Tables
  BY PlayingAreTables DEF Playing, TournamentStrong
<1> QED  BY <1>1, <1>2 DEF ResultsOnly

LEMMA RequestsLeftAlone ==
  ASSUME TournamentStrong, ResultsOnly(matches'), UNCHANGED <<rooms, fence, reqs>>
  PROVE  /\ RequestsSound' /\ RoomsApart'
         /\ Orphans' \subseteq Orphans /\ Overtaken' \subseteq Overtaken
<1>1. \A a \in RoomIds : rooms[a].state = "stored" =>
        MatchOf(matches', rooms, a).room = MatchOf(matches, rooms, a).room
  BY DEF TournamentStrong, RoomsPlaced, MatchOf, ResultsOnly
<1>2. RequestsSound'
  <2> SUFFICES ASSUME NEW q \in Requests  PROVE RequestSound(matches', rooms, reqs[q])
    BY DEF RequestsSound
  <2>1. reqs[q].room \in RoomIds \cup {None}
    BY Types DEF TournamentStrong, ReqRecs
  <2>2. RequestSound(matches, rooms, reqs[q])
    BY DEF TournamentStrong, RequestsSound
  <2> QED  BY <1>1, <2>1, <2>2 DEF RequestSound
<1>3. RoomsApart'
  BY DEF TournamentStrong, RoomsApart
<1>4. Orphans' \subseteq Orphans /\ Overtaken' \subseteq Overtaken
  BY <1>1 DEF Orphans, Overtaken, HoldsFence
<1> QED  BY <1>2, <1>3, <1>4

LEMMA SyncKeeps ==
  ASSUME TournamentStrong, NEW ts \in SUBSET Tables, Sync(ts)
  PROVE  TournamentStrong'
<1>1. ResultsOnly(matches')
  <2>1. round \in Rounds
    BY TournamentAssumption DEF Sync, TournamentStrong, RoundSound, TypeOK, Rounds
  <2> QED  BY <2>1, SyncingIsSound DEF Sync, TournamentStrong
<1>2. /\ RoomsExist' /\ RoomsPlaced'
      /\ \A r \in Rounds : (\A t \in Playing : matches[r][t].result # None) =>
              \A t \in Playing' : matches'[r][t].result # None
  BY <1>1, ResultsOnlyKeeps DEF Sync
<1>3. TypeOK'
  BY <1>1 DEF TournamentStrong, TypeOK, Sync, ResultsOnly, MatchRecs
<1>4. RoundsInOrder' /\ RoundSound'
  BY <1>2 DEF TournamentStrong, RoundsInOrder, RoundSound, Sync
<1>5. /\ RequestsSound' /\ RoomsApart'
      /\ Orphans' \subseteq Orphans /\ Overtaken' \subseteq Overtaken
  BY <1>1, RequestsLeftAlone DEF Sync
<1>6. Charged'
  BY <1>5, FreeOfCharge DEF Sync, TournamentStrong, TypeOK
<1> QED  BY <1>2, <1>3, <1>4, <1>5, <1>6 DEF TournamentStrong

(* A round only begins when every match of the one before it has its result. *)
LEMMA AdvanceKeeps ==
  ASSUME TournamentStrong, NEW p \in Requests, Advance(p)
  PROVE  TournamentStrong'
<1> USE TournamentAssumption
<1>1. ResultsOnly(matches')
  BY SyncedRoundIsSound DEF Advance, TournamentStrong
<1>2. /\ RoomsExist' /\ RoomsPlaced'
      /\ \A r \in Rounds : (\A t \in Playing : matches[r][t].result # None) =>
              \A t \in Playing' : matches'[r][t].result # None
  BY <1>1, ResultsOnlyKeeps DEF Advance
<1>3. round \in Rounds /\ round <= roundCount /\ roundCount \in 0..MaxRounds
  BY DEF Advance, TournamentStrong, RoundSound, TypeOK, Rounds
<1>4. TypeOK' /\ RoundSound' /\ RequestsSound' /\ RoomsApart'
      /\ Orphans' \subseteq Orphans /\ Overtaken' \subseteq Overtaken
  <2>1. ASSUME NEW r \in Rounds, NEW todo \in SUBSET Tables, Provision(p, r, todo),
               status' = status, round' = r, r <= roundCount
        PROVE  TypeOK' /\ RoundSound' /\ RequestsSound' /\ RoomsApart'
               /\ Orphans' \subseteq Orphans /\ Overtaken' \subseteq Overtaken
    <3>1. /\ reqs' \in [Requests -> ReqRecs]
          /\ fence' \in [holder : Requests \cup {None}, live : BOOLEAN]
          /\ RequestsSound' /\ RoomsApart'
          /\ Orphans' \subseteq Orphans /\ Overtaken' \subseteq Overtaken
      BY <1>1, <2>1, ProvisionIsSound DEF Advance, ResultsOnly
    <3>2. TypeOK'
      BY <1>1, <1>3, <2>1, <3>1 DEF TournamentStrong, TypeOK, Advance, ResultsOnly, MatchRecs, ReqRecs, Rounds
    <3>3. RoundSound'
      BY <1>3, <2>1 DEF TournamentStrong, RoundSound, Advance, Rounds
    <3> QED  BY <3>1, <3>2, <3>3
  <2>2. CASE Provision(p, round, Unprovisioned(round)) /\ UNCHANGED <<status, round>>
    <3>1. Unprovisioned(round) \subseteq Tables
      BY PlayingAreTables DEF Unprovisioned, TournamentStrong
    <3> QED  BY <1>3, <2>1, <2>2, <3>1
  <2>3. CASE round < roundCount /\ round' = round + 1 /\ Provision(p, round + 1, Playing)
             /\ UNCHANGED status
    <3>1. round + 1 \in Rounds /\ round + 1 <= roundCount
      BY <1>3, <2>3 DEF Rounds
    <3>2. Playing \subseteq Tables
      BY PlayingAreTables DEF TournamentStrong
    <3> HIDE DEF Provision
    <3> QED  BY <2>1, <2>3, <3>1, <3>2
  <2>4. CASE round >= roundCount /\ status' = "completed" /\ UNCHANGED <<round, fence, reqs>>
    <3>1. /\ RequestsSound' /\ RoomsApart'
          /\ Orphans' \subseteq Orphans /\ Overtaken' \subseteq Overtaken
      BY <1>1, <2>4, RequestsLeftAlone DEF Advance
    <3>2. TypeOK'
      BY <1>1, <2>4 DEF TournamentStrong, TypeOK, Advance, ResultsOnly, MatchRecs
    <3>3. RoundSound'
      BY <1>3, <2>4 DEF TournamentStrong, RoundSound, Advance, Rounds
    <3> QED  BY <3>1, <3>2, <3>3
  <2>5. CASE AdvanceRound(p)
    <3>1. CASE round >= roundCount
      BY <2>4, <2>5, <3>1 DEF AdvanceRound
    <3>2. CASE ~(round >= roundCount)
      <4>1. round < roundCount
        BY <1>3, <3>2 DEF Rounds
      <4> QED  BY <2>3, <2>5, <3>2, <4>1 DEF AdvanceRound
    <3> QED  BY <3>1, <3>2
  <2> QED  BY <2>2, <2>5 DEF Advance
<1>5. RoundsInOrder'
  <2>1. CASE UNCHANGED <<status, round>>
    BY <1>2, <2>1 DEF TournamentStrong, RoundsInOrder
  <2>2. CASE AdvanceRound(p)
    <3>1. \A t \in Playing' : matches'[round][t].result # None
      BY <2>2 DEF AdvanceRound, CanAdvance, Advance, Playing
    <3>2. \A r \in Rounds : r < round => \A t \in Playing' : matches'[r][t].result # None
      BY <1>2 DEF TournamentStrong, RoundsInOrder
    <3>3. \A r \in Rounds : r < round' \/ (r = round' /\ status' = "completed") => r <= round
      BY <1>3, <2>2 DEF AdvanceRound, Advance, Rounds
    <3>4. \A r \in Rounds : r <= round => r = round \/ r < round
      BY <1>3 DEF Rounds
    <3> QED  BY <3>1, <3>2, <3>3, <3>4 DEF RoundsInOrder
  <2> QED  BY <2>1, <2>2 DEF Advance
<1>6. Charged'
  BY <1>4, FreeOfCharge DEF Advance, TournamentStrong, TypeOK
<1> QED  BY <1>2, <1>4, <1>5, <1>6 DEF TournamentStrong

-----------------------------------------------------------------------------
(* Provisioning: the room of a request is its own until it is assigned.     *)

Unassigned(a) == \A r \in Rounds, t \in Tables : matches[r][t].room # a
NotOfOthers(p, a) == \A q \in Requests : q # p => reqs[q].room # a

LEMMA RoomOfRequest ==
  ASSUME TournamentStrong, NEW q \in Requests
  PROVE  /\ reqs[q] \in ReqRecs /\ reqs[q].room \in RoomIds \cup {None}
         /\ RequestSound(matches, rooms, reqs[q])
         /\ reqs[q].room # None => \/ reqs[q].phase \in AtWork
                                   \/ reqs[q].phase = "closing"
<1>1. reqs[q] \in ReqRecs
  BY Types DEF TournamentStrong
<1>2. RequestSound(matches, rooms, reqs[q])
  BY DEF TournamentStrong, RequestsSound
<1>3. reqs[q].phase \in {"idle", "next", "call", "ok", "failed", "closing"}
      /\ reqs[q].room \in RoomIds \cup {None}
  BY <1>1 DEF ReqRecs
<1>4. reqs[q].room # None => reqs[q].phase \in AtWork \/ reqs[q].phase = "closing"
  BY <1>2, <1>3 DEF RequestSound, AtWork, Idle
<1> QED  BY <1>1, <1>2, <1>3, <1>4

LEMMA OwnRoom ==
  ASSUME TournamentStrong, NEW p \in Requests, reqs[p].phase \in AtWork, NEW a, a = reqs[p].room
  PROVE  /\ a \in RoomIds /\ rooms[a] \in RoomRecs /\ rooms[a].state = "stored"
         /\ rooms[a].round \in Rounds /\ rooms[a].table \in Tables
         /\ Unassigned(a) /\ NotOfOthers(p, a)
<1>1. a \in RoomIds /\ rooms[a].state = "stored" /\ MatchOf(matches, rooms, a).room # a
  BY RoomOfRequest DEF RequestSound
<1>2. rooms[a] \in RoomRecs /\ rooms[a].round \in Rounds /\ rooms[a].table \in Tables
  BY <1>1, Types DEF TournamentStrong, RoomsPlaced
<1>3. a # None
  BY <1>1, TournamentAssumption DEF RoomIds
<1>4. Unassigned(a)
  <2>1. ASSUME NEW r \in Rounds, NEW t \in Tables, matches[r][t].room = a  PROVE FALSE
    <3>1. rooms[a].round = r /\ rooms[a].table = t
      BY <1>3, <2>1 DEF TournamentStrong, RoomsExist
    <3> QED  BY <1>1, <2>1, <3>1 DEF MatchOf
  <2> QED  BY <2>1 DEF Unassigned
<1>5. NotOfOthers(p, a)
  <2> SUFFICES ASSUME NEW q \in Requests, q # p, reqs[q].room = a  PROVE FALSE
    BY DEF NotOfOthers
  <2>1. CASE reqs[q].phase \in AtWork
    BY <2>1 DEF TournamentStrong, RoomsApart
  <2>2. CASE reqs[q].phase = "closing"
    BY <1>1, <2>2, RoomOfRequest DEF RequestSound
  <2> QED  BY <1>3, <2>1, <2>2, RoomOfRequest
<1> QED  BY <1>1, <1>2, <1>4, <1>5

LEMMA FreeRoom ==
  ASSUME TournamentStrong, \E a \in RoomIds : rooms[a].state = "none", NEW p \in Requests
  PROVE  /\ FirstFree \in RoomIds /\ rooms[FirstFree].state = "none"
         /\ Unassigned(FirstFree) /\ NotOfOthers(p, FirstFree)
<1> DEFINE Free == {a \in RoomIds : rooms[a].state = "none"}
<1>1. Free \in SUBSET Nat /\ Free # {}
  BY TournamentAssumption DEF RoomIds
<1>2. PICK a \in Free : \A b \in Free : a <= b
  BY <1>1, Smallest
<1>3. a \in RoomIds /\ rooms[a].state = "none" /\ \A b \in RoomIds : rooms[b].state = "none" => a <= b
  BY <1>2
<1>4. FirstFree \in RoomIds /\ rooms[FirstFree].state = "none"
  BY <1>3 DEF FirstFree
<1>5. FirstFree # None
  BY <1>4, TournamentAssumption DEF RoomIds
<1>6. Unassigned(FirstFree)
  BY <1>4, <1>5 DEF Unassigned, TournamentStrong, RoomsExist
<1>7. NotOfOthers(p, FirstFree)
  BY <1>4, <1>5, RoomOfRequest DEF NotOfOthers, RequestSound
<1> QED  BY <1>4, <1>6, <1>7

(* A request at work changes its room, which is in no match and nobody else's. *)
LEMMA RoomStep ==
  ASSUME TournamentStrong, NEW p \in Requests, NEW a \in RoomIds,
         NEW y \in RoomRecs, NEW z \in ReqRecs,
         rooms' = [rooms EXCEPT ![a] = y], reqs' = [reqs EXCEPT ![p] = z],
         UNCHANGED <<status, players, round, roundCount, matches, fence>>,
         trouble' \in 0..MaxTrouble, trouble <= trouble',
         Unassigned(a), NotOfOthers(p, a),
         reqs[p].phase # "idle", z.phase # "idle",
         reqs[p].room \in {None, a}, z.room \in {None, a}, RequestSound(matches, rooms', z),
         y.state = "stored" => /\ y.round \in Rounds /\ y.table \in Tables
                               /\ z.room = a
  PROVE  TournamentStrong'
<1> USE TournamentAssumption
<1>0. reqs \in [Requests -> ReqRecs] /\ rooms \in [RoomIds -> RoomRecs]
  BY Types DEF TournamentStrong
<1>1. /\ reqs' \in [Requests -> ReqRecs] /\ rooms' \in [RoomIds -> RoomRecs]
      /\ rooms'[a] = y /\ \A b \in RoomIds : b # a => rooms'[b] = rooms[b]
      /\ reqs'[p] = z /\ \A q \in Requests : q # p => reqs'[q] = reqs[q]
  BY <1>0
<1>2. TypeOK'
  BY <1>1 DEF TypeOK, TournamentStrong, RoomRecs, ReqRecs
<1>3. a # None
  BY DEF RoomIds
<1>4. RoomsExist'
  <2>1. ASSUME NEW r \in Rounds, NEW t \in Tables
        PROVE  matches[r][t].room \in RoomIds \cup {None} /\ matches[r][t].room # a
    BY Types DEF TournamentStrong, MatchRecs, Unassigned
  <2> QED  BY <1>1, <2>1 DEF TournamentStrong, RoomsExist
<1>5. RoomsPlaced'
  BY <1>1 DEF TournamentStrong, RoomsPlaced
<1>6. RequestsSound'
  <2> SUFFICES ASSUME NEW q \in Requests  PROVE RequestSound(matches, rooms', reqs'[q])
    BY DEF RequestsSound
  <2>1. CASE q = p
    BY <1>1, <2>1
  <2>2. CASE q # p
    <3>1. reqs'[q] = reqs[q] /\ reqs[q].room \in RoomIds \cup {None} /\ reqs[q].room # a
          /\ RequestSound(matches, rooms, reqs[q])
      BY <1>1, <2>2, RoomOfRequest DEF NotOfOthers
    <3>2. reqs[q].room # None => rooms'[reqs[q].room] = rooms[reqs[q].room]
      BY <1>1, <3>1
    <3>3. reqs[q].phase = "ok" => reqs[q].room # None
      BY <3>1 DEF RequestSound, AtWork
    <3> QED  BY <3>1, <3>2, <3>3 DEF RequestSound, MatchOf
  <2> QED  BY <2>1, <2>2
<1>7. RoomsApart'
  <2>1. z.phase \in AtWork => z.room = a
    BY DEF RequestSound
  <2> QED  BY <1>1, <2>1 DEF TournamentStrong, RoomsApart, NotOfOthers
<1>8. RoundsInOrder' /\ RoundSound'
  BY DEF TournamentStrong, RoundsInOrder, RoundSound, Playing
<1>9. Orphans' \subseteq Orphans
  <2> SUFFICES ASSUME NEW b \in Orphans'  PROVE b \in Orphans
    OBVIOUS
  <2>1. b \in RoomIds /\ rooms'[b].state = "stored" /\ MatchOf(matches, rooms', b).room # b
        /\ \A q \in Requests : reqs'[q].room # b
    BY DEF Orphans
  <2>2. b # a
    BY <1>1, <2>1
  <2>3. rooms'[b] = rooms[b] /\ MatchOf(matches, rooms, b).room # b
    BY <1>1, <2>1, <2>2 DEF MatchOf
  <2>4. b # None
    BY <2>1 DEF RoomIds
  <2>5. \A q \in Requests : reqs[q].room # b
    BY <1>1, <2>1, <2>2, <2>4
  <2> QED  BY <2>1, <2>3, <2>5 DEF Orphans
<1>10. Overtaken' \subseteq Overtaken
  BY <1>1 DEF Overtaken, HoldsFence
<1>11. Charged'
  BY <1>9, <1>10, FreeOfCharge
<1> QED  BY <1>2, <1>4, <1>5, <1>6, <1>7, <1>8, <1>11 DEF TournamentStrong

LEMMA StoreRoomKeeps ==
  ASSUME TournamentStrong, NEW p \in Requests, StoreRoom(p)
  PROVE  TournamentStrong'
<1> USE TournamentAssumption
<1> DEFINE t == CHOOSE x \in reqs[p].todo : \A y \in reqs[p].todo : x <= y
           y == [NoRoom EXCEPT !.state = "stored", !.round = reqs[p].round, !.table = t]
           z == [reqs[p] EXCEPT !.phase = "call", !.room = FirstFree]
<1>1. reqs[p] \in ReqRecs /\ reqs[p].phase = "next" /\ reqs[p].room = None /\ reqs[p].round \in Rounds
      /\ reqs[p].todo \in SUBSET Tables
  BY RoomOfRequest DEF StoreRoom, RequestSound, ReqRecs
<1>2. t \in Tables
  <2>1. reqs[p].todo \in SUBSET Nat /\ reqs[p].todo # {}
    BY <1>1 DEF StoreRoom, Tables
  <2>2. \E x \in reqs[p].todo : \A q \in reqs[p].todo : x <= q
    BY <2>1, Smallest
  <2> QED  BY <1>1, <2>2
<1>3. FirstFree \in RoomIds /\ Unassigned(FirstFree) /\ NotOfOthers(p, FirstFree)
  BY FreeRoom DEF StoreRoom
<1>4. rooms' = [rooms EXCEPT ![FirstFree] = y] /\ reqs' = [reqs EXCEPT ![p] = z]
  BY DEF StoreRoom
<1> HIDE DEF t
<1>5. NoRoom \in RoomRecs
  BY DEF NoRoom, RoomRecs, GameStates
<1>6. y \in RoomRecs /\ y.state = "stored" /\ y.round = reqs[p].round /\ y.table = t
  <2>1. reqs[p].round \in 0..MaxRounds /\ t \in {0} \cup Tables
    BY <1>1, <1>2 DEF Rounds
  <2>2. NoRoom.state = "none" /\ NoRoom.game \in GameStates
    BY DEF NoRoom, GameStates
  <2> QED  BY <1>5, <2>1, <2>2 DEF RoomRecs
<1>7. z \in ReqRecs /\ z.phase = "call" /\ z.room = FirstFree /\ z.round = reqs[p].round
  BY <1>1, <1>3 DEF ReqRecs
<1> HIDE DEF y, z
<1>8. rooms'[FirstFree] = y
  BY <1>3, <1>4, Types DEF TournamentStrong
<1>9. RequestSound(matches, rooms', z)
  <2>1. FirstFree # None
    BY <1>3 DEF RoomIds
  <2>2. MatchOf(matches, rooms', FirstFree).room # FirstFree
    BY <1>1, <1>2, <1>3, <1>6, <1>8 DEF MatchOf, Unassigned
  <2> QED  BY <1>1, <1>6, <1>7, <1>8, <2>1, <2>2 DEF RequestSound, AtWork
<1>10. trouble' \in 0..MaxTrouble /\ trouble <= trouble'
  BY DEF StoreRoom, TournamentStrong, TypeOK
<1> QED
  BY <1>1, <1>2, <1>3, <1>4, <1>6, <1>7, <1>9, <1>10, RoomStep DEF StoreRoom

(* The call to the Game arrives or not, and its answer comes back or not. *)
LEMMA StartGameKeeps ==
  ASSUME TournamentStrong, NEW p \in Requests, StartGame(p)
  PROVE  TournamentStrong'
<1> DEFINE a == reqs[p].room
<1>1. reqs[p].phase \in AtWork /\ reqs[p].phase # "idle"
  BY DEF StartGame, AtWork
<1>2. /\ a \in RoomIds /\ rooms[a] \in RoomRecs /\ rooms[a].state = "stored"
      /\ rooms[a].round \in Rounds /\ rooms[a].table \in Tables
      /\ Unassigned(a) /\ NotOfOthers(p, a) /\ reqs[p] \in ReqRecs
      /\ RequestSound(matches, rooms, reqs[p])
  BY <1>1, OwnRoom, RoomOfRequest
<1>3. ASSUME NEW s \in GameStates, NEW f \in {"ok", "failed"}, f = "ok" => s # "none",
             rooms' = [rooms EXCEPT ![a].game = s], reqs' = [reqs EXCEPT ![p].phase = f],
             trouble' \in 0..MaxTrouble, trouble <= trouble'
      PROVE  TournamentStrong'
  <2> DEFINE y == [rooms[a] EXCEPT !.game = s]
             z == [reqs[p] EXCEPT !.phase = f]
  <2>1. y \in RoomRecs /\ y.state = "stored" /\ y.round = rooms[a].round /\ y.table = rooms[a].table
        /\ y.game = s
    BY <1>2 DEF RoomRecs
  <2>2. z \in ReqRecs /\ z.phase = f /\ z.room = a /\ z.round = reqs[p].round
    BY <1>2 DEF ReqRecs
  <2>3. rooms' = [rooms EXCEPT ![a] = y] /\ reqs' = [reqs EXCEPT ![p] = z]
    BY <1>3
  <2> HIDE DEF y, z, a
  <2>4. rooms'[a] = y
    BY <1>2, <2>3, Types DEF TournamentStrong
  <2>5. RequestSound(matches, rooms', z)
    <3>1. a # None /\ MatchOf(matches, rooms', a).room # a
      BY <1>2, <2>1, <2>4, TournamentAssumption DEF MatchOf, Unassigned, RoomIds
    <3>2. reqs[p].round \in Rounds
      BY <1>1, <1>2 DEF RequestSound
    <3> QED  BY <1>3, <2>1, <2>2, <2>4, <3>1, <3>2 DEF RequestSound, AtWork
  <2>6. z.phase # "idle" /\ reqs[p].room \in {None, a}
    BY <1>3, <2>2 DEF a
  <2> QED  BY <1>1, <1>2, <1>3, <2>1, <2>2, <2>3, <2>5, <2>6, RoomStep DEF StartGame
<1> HIDE DEF a
<1>4. CASE rooms' = [rooms EXCEPT ![a].game = "open"] /\ reqs' = [reqs EXCEPT ![p].phase = "ok"]
           /\ UNCHANGED trouble
  <2>1. trouble' \in 0..MaxTrouble /\ trouble <= trouble'
    BY <1>4 DEF TournamentStrong, TypeOK
  <2>2. "open" \in GameStates /\ "open" # "none" /\ "ok" \in {"ok", "failed"}
    BY DEF GameStates
  <2> QED  BY <1>3, <1>4, <2>1, <2>2
<1>5. CASE /\ MayFail /\ trouble' = trouble + 1
           /\ \E s \in {"none", "open"} : rooms' = [rooms EXCEPT ![a].game = s]
           /\ reqs' = [reqs EXCEPT ![p].phase = "failed"]
  <2>1. trouble' \in 0..MaxTrouble /\ trouble <= trouble'
    BY <1>5, TournamentAssumption DEF MayFail, TournamentStrong, TypeOK
  <2>2. {"none", "open"} \subseteq GameStates
    BY DEF GameStates
  <2> QED  BY <1>3, <1>5, <2>1, <2>2
<1> QED  BY <1>4, <1>5 DEF StartGame, a

(* A room that is removed was its request's own. *)
LEMMA RemoveRoomKeeps ==
  ASSUME TournamentStrong, NEW p \in Requests, reqs[p].phase \in AtWork,
         NEW z \in ReqRecs, rooms' = Removed(reqs[p].room), reqs' = [reqs EXCEPT ![p] = z],
         UNCHANGED <<status, players, round, roundCount, matches, fence, trouble>>,
         z.round = reqs[p].round,
         \/ z.phase = "closing" /\ z.room = reqs[p].room
         \/ z.phase = "next" /\ z.room = None
  PROVE  TournamentStrong'
<1> DEFINE a == reqs[p].room
           y == [rooms[a] EXCEPT !.state = "removed", !.game = "none", !.outcome = None]
<1>1. /\ a \in RoomIds /\ rooms[a] \in RoomRecs
      /\ Unassigned(a) /\ NotOfOthers(p, a) /\ reqs[p] \in ReqRecs
      /\ RequestSound(matches, rooms, reqs[p])
  BY OwnRoom, RoomOfRequest
<1>2. y \in RoomRecs /\ y.state = "removed"
  BY <1>1 DEF RoomRecs, GameStates
<1>3. rooms' = [rooms EXCEPT ![a] = y]
  BY DEF Removed
<1> HIDE DEF y, a
<1>4. rooms'[a] = y /\ a # None
  BY <1>1, <1>3, Types, TournamentAssumption DEF TournamentStrong, RoomIds
<1>5. reqs[p].phase # "idle" /\ z.phase # "idle" /\ reqs[p].round \in Rounds
  BY <1>1 DEF RequestSound, AtWork
<1>6. RequestSound(matches, rooms', z)
  BY <1>2, <1>4, <1>5 DEF RequestSound, AtWork, a
<1>7. reqs[p].room \in {None, a} /\ z.room \in {None, a}
  BY DEF a
<1>8. trouble' \in 0..MaxTrouble /\ trouble <= trouble'
  BY DEF TournamentStrong, TypeOK
<1> QED
  BY <1>1, <1>2, <1>3, <1>5, <1>6, <1>7, <1>8, RoomStep

RoomFits(ms, rs, r, t) ==
  ms[r][t].room # None =>
    /\ rs[ms[r][t].room].state = "stored" /\ rs[ms[r][t].room].game # "none"
    /\ rs[ms[r][t].room].round = r /\ rs[ms[r][t].room].table = t

LEMMA RoomsFit ==
  RoomsExist <=> \A r \in Rounds, t \in Tables : RoomFits(matches, rooms, r, t)
BY DEF RoomsExist, RoomFits

LEMMA RoomsFitNext ==
  RoomsExist' <=> \A r \in Rounds, t \in Tables : RoomFits(matches', rooms', r, t)
BY DEF RoomsExist, RoomFits

(* With the fence still its own and the match still without a room, the match gets it. *)
LEMMA AssignTheRoomKeeps ==
  ASSUME TournamentStrong, NEW p \in Requests, reqs[p].phase = "ok", ~AlreadyProvisioned(p),
         NEW a, a = reqs[p].room, NEW z \in ReqRecs,
         matches' = [matches EXCEPT ![rooms[a].round][rooms[a].table].room = a],
         reqs' = [reqs EXCEPT ![p] = z],
         UNCHANGED <<status, players, round, roundCount, rooms, fence, trouble>>,
         z.phase = "next", z.round = reqs[p].round, z.room = None
  PROVE  TournamentStrong'
<1> USE TournamentAssumption
<1> DEFINE x == rooms[a].round
           t == rooms[a].table
           m == [matches[x][t] EXCEPT !.room = a]
<1>0. reqs \in [Requests -> ReqRecs] /\ rooms \in [RoomIds -> RoomRecs]
      /\ matches \in [Rounds -> [Tables -> MatchRecs]]
  BY Types DEF TournamentStrong
<1>1. /\ a \in RoomIds /\ rooms[a].state = "stored" /\ x \in Rounds /\ t \in Tables
      /\ Unassigned(a) /\ NotOfOthers(p, a) /\ a # None
      /\ RequestSound(matches, rooms, reqs[p])
  BY OwnRoom, RoomOfRequest DEF AtWork, RoomIds
<1>2. rooms[a].game # "none" /\ matches[x][t].room = None /\ reqs[p].round \in Rounds
  BY <1>1 DEF RequestSound, AlreadyProvisioned
<1>3. m \in MatchRecs /\ m.room = a /\ m.result = matches[x][t].result
  <2>1. matches[x][t] \in MatchRecs
    BY <1>0, <1>1
  <2> QED  BY <1>1, <2>1 DEF MatchRecs
<1>4. matches' = [matches EXCEPT ![x] = [matches[x] EXCEPT ![t] = m]]
  BY <1>0, <1>1
<1> HIDE DEF m, x, t
<1>5. /\ matches' \in [Rounds -> [Tables -> MatchRecs]]
      /\ matches'[x][t] = m
      /\ \A r \in Rounds, u \in Tables : r # x \/ u # t => matches'[r][u] = matches[r][u]
  <2> DEFINE f == [matches[x] EXCEPT ![t] = m]
  <2>1. matches[x] \in [Tables -> MatchRecs]
    BY <1>0, <1>1
  <2>2. f \in [Tables -> MatchRecs] /\ f[t] = m /\ \A u \in Tables : u # t => f[u] = matches[x][u]
    BY <1>1, <1>3, <2>1
  <2>3. matches' = [matches EXCEPT ![x] = f]
    BY <1>4
  <2> HIDE DEF f
  <2>4. matches' \in [Rounds -> [Tables -> MatchRecs]]
    BY <1>0, <2>2, <2>3
  <2>5. matches'[x] = f /\ \A r \in Rounds : r # x => matches'[r] = matches[r]
    BY <1>0, <1>1, <2>3
  <2> QED  BY <2>2, <2>4, <2>5
<1>6. /\ reqs' \in [Requests -> ReqRecs] /\ reqs'[p] = z
      /\ \A q \in Requests : q # p => reqs'[q] = reqs[q]
  BY <1>0
<1>7. TypeOK'
  BY <1>5, <1>6 DEF TournamentStrong, TypeOK, MatchRecs, ReqRecs
<1>8. \A r \in Rounds, u \in Tables :
        matches'[r][u].room = matches[r][u].room \/ (r = x /\ u = t /\ matches'[r][u].room = a)
  BY <1>3, <1>5
<1>9. RoomsExist'
  <2>1. ASSUME NEW r \in Rounds, NEW u \in Tables
        PROVE  RoomFits(matches', rooms, r, u)
    <3>1. CASE matches'[r][u].room = matches[r][u].room
      <4>1. RoomFits(matches, rooms, r, u)
        BY RoomsFit DEF TournamentStrong
      <4> QED  BY <3>1, <4>1 DEF RoomFits
    <3>2. CASE r = x /\ u = t /\ matches'[r][u].room = a
      BY <1>1, <1>2, <3>2 DEF x, t, RoomFits
    <3> QED  BY <1>8, <3>1, <3>2
  <2> QED  BY <2>1, RoomsFitNext
<1>10. \A r \in Rounds, u \in Tables : matches'[r][u].result = matches[r][u].result
  BY <1>3, <1>5
<1>11. RoundsInOrder' /\ RoundSound' /\ RoomsPlaced'
  <2>1. Playing' = Playing /\ Playing \subseteq Tables
    BY PlayingAreTables DEF Playing, TournamentStrong
  <2>2. RoundsInOrder'
    BY <1>10, <2>1 DEF TournamentStrong, RoundsInOrder
  <2>3. RoundSound' /\ RoomsPlaced'
    BY DEF TournamentStrong, RoundSound, RoomsPlaced
  <2> QED  BY <2>2, <2>3
<1>12. RequestsSound'
  <2> SUFFICES ASSUME NEW q \in Requests  PROVE RequestSound(matches', rooms, reqs'[q])
    BY DEF RequestsSound
  <2>1. CASE q = p
    BY <1>2, <1>6, <2>1 DEF RequestSound, AtWork
  <2>2. CASE q # p
    <3>1. reqs'[q] = reqs[q] /\ RequestSound(matches, rooms, reqs[q])
      BY <1>6, <2>2, RoomOfRequest
    <3>2. ASSUME reqs[q].phase \in AtWork
          PROVE  MatchOf(matches', rooms, reqs[q].room).room # reqs[q].room
      <4> DEFINE b == reqs[q].room
      <4>1. rooms[b].round \in Rounds /\ rooms[b].table \in Tables /\ Unassigned(b)
        BY <3>2, OwnRoom
      <4>2. b # a
        BY <1>1, <2>2 DEF NotOfOthers
      <4> HIDE DEF b
      <4>3. MatchOf(matches', rooms, b).room # b
        BY <1>8, <4>1, <4>2 DEF MatchOf, Unassigned
      <4> QED  BY <4>3 DEF b
    <3> QED  BY <3>1, <3>2 DEF RequestSound
  <2> QED  BY <2>1, <2>2
<1>13. RoomsApart'
  BY <1>6 DEF TournamentStrong, RoomsApart, AtWork
<1>14. Orphans' \subseteq Orphans
  <2> SUFFICES ASSUME NEW b \in Orphans'  PROVE b \in Orphans
    OBVIOUS
  <2>1. b \in RoomIds /\ rooms[b].state = "stored" /\ MatchOf(matches', rooms, b).room # b
        /\ \A q \in Requests : reqs'[q].room # b
    BY DEF Orphans
  <2>2. rooms[b].round \in Rounds /\ rooms[b].table \in Tables
    BY <2>1 DEF TournamentStrong, RoomsPlaced
  <2>3. b # a
    BY <1>3, <1>5, <2>1 DEF MatchOf, x, t
  <2>4. MatchOf(matches, rooms, b).room # b
    <3>1. b # None
      BY <2>1 DEF RoomIds
    <3>2. CASE rooms[b].round = x /\ rooms[b].table = t
      BY <1>2, <3>1, <3>2 DEF MatchOf
    <3>3. CASE ~(rooms[b].round = x /\ rooms[b].table = t)
      BY <1>5, <2>1, <2>2, <3>3 DEF MatchOf
    <3> QED  BY <3>2, <3>3
  <2>5. \A q \in Requests : reqs[q].room # b
    BY <1>6, <2>1, <2>3
  <2> QED  BY <2>1, <2>4, <2>5 DEF Orphans
<1>15. Overtaken' \subseteq Overtaken
  BY <1>6 DEF Overtaken, HoldsFence
<1>16. Charged'
  <2>1. trouble \in Nat /\ trouble <= trouble
    BY TroubleIs
  <2>2. trouble' = trouble
    OBVIOUS
  <2>3. trouble' \in Nat /\ trouble <= trouble'
    BY <2>1, <2>2, Zenon
  <2> QED  BY <1>14, <1>15, <2>3, FreeOfCharge, Zenon
<1> QED  BY <1>7, <1>9, <1>11, <1>12, <1>13, <1>16 DEF TournamentStrong

LEMMA AssignRoomKeeps ==
  ASSUME TournamentStrong, NEW p \in Requests, AssignRoom(p)
  PROVE  TournamentStrong'
<1> DEFINE a == reqs[p].room
           rest == [reqs[p] EXCEPT !.phase = "next", !.todo = @ \ {rooms[a].table}, !.room = None]
           closing == [reqs[p] EXCEPT !.phase = "closing"]
<1>1. reqs[p].phase = "ok" /\ reqs[p].phase \in AtWork /\ reqs[p] \in ReqRecs
  BY RoomOfRequest DEF AssignRoom, AtWork
<1>2. rest \in ReqRecs /\ rest.phase = "next" /\ rest.room = None /\ rest.round = reqs[p].round
  BY <1>1 DEF ReqRecs
<1>3. closing \in ReqRecs /\ closing.phase = "closing" /\ closing.room = a /\ closing.round = reqs[p].round
  BY <1>1 DEF ReqRecs
<1>4. \/ /\ rooms' = Removed(a) /\ reqs' = [reqs EXCEPT ![p] = closing] /\ UNCHANGED matches
      \/ /\ rooms' = Removed(a) /\ reqs' = [reqs EXCEPT ![p] = rest] /\ UNCHANGED matches
      \/ /\ ~AlreadyProvisioned(p)
         /\ matches' = [matches EXCEPT ![rooms[a].round][rooms[a].table].room = a]
         /\ reqs' = [reqs EXCEPT ![p] = rest] /\ UNCHANGED rooms
  BY DEF AssignRoom
<1>5. UNCHANGED <<status, players, round, roundCount, fence, trouble>>
  BY DEF AssignRoom
<1> HIDE DEF rest, closing
<1>6. CASE rooms' = Removed(a) /\ reqs' = [reqs EXCEPT ![p] = closing] /\ UNCHANGED matches
  BY <1>1, <1>3, <1>5, <1>6, RemoveRoomKeeps
<1>7. CASE rooms' = Removed(a) /\ reqs' = [reqs EXCEPT ![p] = rest] /\ UNCHANGED matches
  BY <1>1, <1>2, <1>5, <1>7, RemoveRoomKeeps
<1>8. CASE /\ ~AlreadyProvisioned(p)
           /\ matches' = [matches EXCEPT ![rooms[a].round][rooms[a].table].room = a]
           /\ reqs' = [reqs EXCEPT ![p] = rest] /\ UNCHANGED rooms
  BY <1>1, <1>2, <1>5, <1>8, AssignTheRoomKeeps
<1> QED  BY <1>4, <1>6, <1>7, <1>8

LEMMA RollbackRoomKeeps ==
  ASSUME TournamentStrong, NEW p \in Requests, RollbackRoom(p)
  PROVE  TournamentStrong'
<1> DEFINE closing == [reqs[p] EXCEPT !.phase = "closing"]
<1>1. reqs[p].phase \in AtWork /\ reqs[p] \in ReqRecs
  BY RoomOfRequest DEF RollbackRoom, AtWork
<1>2. closing \in ReqRecs /\ closing.phase = "closing" /\ closing.room = reqs[p].room
      /\ closing.round = reqs[p].round
  BY <1>1 DEF ReqRecs
<1>3. rooms' = Removed(reqs[p].room) /\ reqs' = [reqs EXCEPT ![p] = closing]
      /\ UNCHANGED <<status, players, round, roundCount, matches, fence, trouble>>
  BY DEF RollbackRoom
<1> HIDE DEF closing
<1> QED  BY <1>1, <1>2, <1>3, RemoveRoomKeeps

LEMMA ReleaseFenceKeeps ==
  ASSUME TournamentStrong, NEW p \in Requests, ReleaseFence(p)
  PROVE  TournamentStrong'
<1> USE TournamentAssumption
<1>0. reqs \in [Requests -> ReqRecs] /\ Idle \in ReqRecs
  BY Types DEF TournamentStrong, Idle, ReqRecs
<1>1. /\ reqs' \in [Requests -> ReqRecs] /\ reqs'[p] = Idle
      /\ \A q \in Requests : q # p => reqs'[q] = reqs[q]
  BY <1>0 DEF ReleaseFence
<1>2. TypeOK'
  BY <1>1 DEF TournamentStrong, TypeOK, ReleaseFence, ReqRecs, NoFence
<1>3. RoomsExist' /\ RoundsInOrder' /\ RoomsPlaced' /\ RoundSound'
  BY DEF TournamentStrong, RoomsExist, RoundsInOrder, RoomsPlaced, RoundSound, Playing, ReleaseFence
<1>4. RequestsSound'
  <2> SUFFICES ASSUME NEW q \in Requests  PROVE RequestSound(matches, rooms, reqs'[q])
    BY DEF RequestsSound, ReleaseFence
  <2>1. CASE q = p
    BY <1>1, <2>1 DEF RequestSound, Idle, AtWork
  <2>2. CASE q # p
    BY <1>1, <2>2, RoomOfRequest
  <2> QED  BY <2>1, <2>2
<1>5. RoomsApart'
  BY <1>1 DEF TournamentStrong, RoomsApart, AtWork, Idle
<1>6. Orphans' \subseteq Orphans
  <2> SUFFICES ASSUME NEW b \in Orphans'  PROVE b \in Orphans
    OBVIOUS
  <2>1. b \in RoomIds /\ rooms[b].state = "stored" /\ MatchOf(matches, rooms, b).room # b
        /\ \A q \in Requests : reqs'[q].room # b
    BY DEF Orphans, ReleaseFence
  <2>2. reqs[p].room # b
    BY <2>1, RoomOfRequest DEF RequestSound, ReleaseFence, RoomIds
  <2> QED  BY <1>1, <2>1, <2>2 DEF Orphans
<1>7. Overtaken' \subseteq Overtaken
  BY <1>1 DEF Overtaken, HoldsFence, ReleaseFence, Idle, NoFence
<1>8. Charged'
  BY <1>6, <1>7, FreeOfCharge DEF ReleaseFence, TournamentStrong, TypeOK
<1> QED  BY <1>2, <1>3, <1>4, <1>5, <1>8 DEF TournamentStrong

-----------------------------------------------------------------------------
(* The world around it.                                                     *)

(* What happens in a Game that was asked, or is reported by it, moves no room. *)
LEMMA GameStep ==
  ASSUME TournamentStrong, NEW a \in RoomIds, NEW y \in RoomRecs,
         y.state = rooms[a].state, y.round = rooms[a].round, y.table = rooms[a].table,
         y.game = rooms[a].game \/ y.game # "none",
         rooms' = [rooms EXCEPT ![a] = y],
         UNCHANGED <<status, players, round, roundCount, matches, fence, reqs>>,
         trouble' \in 0..MaxTrouble, trouble <= trouble'
  PROVE  TournamentStrong'
<1>0. rooms \in [RoomIds -> RoomRecs]
  BY Types DEF TournamentStrong
<1>1. /\ rooms' \in [RoomIds -> RoomRecs]
      /\ \A b \in RoomIds : /\ rooms'[b].state = rooms[b].state
                            /\ rooms[b].game # "none" => rooms'[b].game # "none"
                            /\ rooms'[b].round = rooms[b].round /\ rooms'[b].table = rooms[b].table
  BY <1>0
<1>2. TypeOK'
  BY <1>1 DEF TournamentStrong, TypeOK, RoomRecs
<1>3. ASSUME NEW r \in Rounds, NEW t \in Tables
      PROVE  RoomFits(matches', rooms', r, t)
  <2>1. RoomFits(matches, rooms, r, t)
    BY RoomsFit DEF TournamentStrong
  <2>2. matches[r][t].room \in RoomIds \cup {None}
    BY Types DEF TournamentStrong, MatchRecs
  <2> QED  BY <1>1, <2>1, <2>2 DEF RoomFits
<1>4. RoomsExist'
  BY <1>3, RoomsFitNext
<1>5. RoundsInOrder' /\ RoundSound' /\ RoomsApart'
  BY DEF TournamentStrong, RoundsInOrder, RoundSound, RoomsApart, Playing
<1>6. RoomsPlaced'
  BY <1>1 DEF TournamentStrong, RoomsPlaced
<1>7. RequestsSound'
  <2> SUFFICES ASSUME NEW q \in Requests  PROVE RequestSound(matches, rooms', reqs[q])
    BY DEF RequestsSound
  <2>1. RequestSound(matches, rooms, reqs[q]) /\ reqs[q].room \in RoomIds \cup {None}
    BY RoomOfRequest
  <2>2. reqs[q].phase = "ok" => reqs[q].room # None
    BY <2>1 DEF RequestSound, AtWork
  <2> QED  BY <1>1, <2>1, <2>2 DEF RequestSound, MatchOf
<1>8. Orphans' \subseteq Orphans /\ Overtaken' \subseteq Overtaken
  BY <1>1 DEF Orphans, Overtaken, HoldsFence, MatchOf
<1>9. Charged'
  BY <1>8, FreeOfCharge
<1> QED  BY <1>2, <1>4, <1>5, <1>6, <1>7, <1>9 DEF TournamentStrong

(* A report: the game is over, with its outcome. *)
LEMMA ReportStep ==
  ASSUME TournamentStrong, NEW a \in RoomIds, NEW o \in Results, Reported(a, o),
         UNCHANGED <<status, players, round, roundCount, matches, fence, reqs>>,
         trouble' \in 0..MaxTrouble, trouble <= trouble'
  PROVE  TournamentStrong'
<1> DEFINE y == [rooms[a] EXCEPT !.game = "over", !.outcome = o]
<1>1. rooms[a] \in RoomRecs
  BY Types DEF TournamentStrong
<1>2. /\ y \in RoomRecs /\ y.state = rooms[a].state /\ y.game = "over"
      /\ y.round = rooms[a].round /\ y.table = rooms[a].table
  BY <1>1 DEF RoomRecs, GameStates
<1>3. rooms' = [rooms EXCEPT ![a] = y]
  BY DEF Reported
<1> HIDE DEF y
<1> QED  BY <1>2, <1>3, GameStep

(* A Game goes on without a report. *)
LEMMA GameMoves ==
  ASSUME TournamentStrong, NEW a \in RoomIds, NEW g \in GameStates, g # "none",
         rooms' = [rooms EXCEPT ![a].game = g],
         UNCHANGED <<status, players, round, roundCount, matches, fence, reqs>>,
         trouble' \in 0..MaxTrouble, trouble <= trouble'
  PROVE  TournamentStrong'
<1> DEFINE y == [rooms[a] EXCEPT !.game = g]
<1>1. rooms[a] \in RoomRecs
  BY Types DEF TournamentStrong
<1>2. /\ y \in RoomRecs /\ y.state = rooms[a].state /\ y.game # "none"
      /\ y.round = rooms[a].round /\ y.table = rooms[a].table
  BY <1>1 DEF RoomRecs
<1>3. rooms' = [rooms EXCEPT ![a] = y]
  OBVIOUS
<1> HIDE DEF y
<1> QED  BY <1>2, <1>3, GameStep

LEMMA InvitesEndKeeps ==
  ASSUME TournamentStrong, NEW a \in RoomIds, InvitesEnd(a)
  PROVE  TournamentStrong'
<1>1. PICK g \in {"playing", "waiting", "empty"} : rooms' = [rooms EXCEPT ![a].game = g]
  BY DEF InvitesEnd
<1>2. g \in GameStates /\ g # "none"
  BY <1>1 DEF GameStates
<1>3. trouble' \in 0..MaxTrouble /\ trouble <= trouble'
  BY DEF InvitesEnd, TournamentStrong, TypeOK
<1> QED  BY <1>1, <1>2, <1>3, GameMoves DEF InvitesEnd

LEMMA GameOverKeeps ==
  ASSUME TournamentStrong, NEW a \in RoomIds, GameOver(a)
  PROVE  TournamentStrong'
<1>1. trouble' \in 0..MaxTrouble /\ trouble <= trouble'
  BY DEF GameOver, TournamentStrong, TypeOK
<1> QED  BY <1>1, ReportStep DEF GameOver

LEMMA CreatorGoesKeeps ==
  ASSUME TournamentStrong, NEW a \in RoomIds, CreatorGoes(a)
  PROVE  TournamentStrong'
<1>1. trouble' \in 0..MaxTrouble /\ trouble <= trouble'
  BY DEF CreatorGoes, TournamentStrong, TypeOK
<1> QED  BY <1>1, ReportStep, TournamentAssumption DEF CreatorGoes

LEMMA CreatorDeadlineKeeps ==
  ASSUME TournamentStrong, NEW a \in RoomIds, CreatorDeadline(a)
  PROVE  TournamentStrong'
<1>1. trouble' \in 0..MaxTrouble /\ trouble <= trouble'
  BY TournamentAssumption DEF CreatorDeadline, MayFail, TournamentStrong, TypeOK
<1>2. UNCHANGED <<status, players, round, roundCount, matches, fence, reqs>>
  BY DEF CreatorDeadline
<1>3. CASE Reported(a, Draw)
  BY <1>1, <1>2, <1>3, ReportStep, TournamentAssumption
<1>4. CASE rooms' = [rooms EXCEPT ![a].game = "silent"]
  <2>1. "silent" \in GameStates /\ "silent" # "none"
    BY DEF GameStates
  <2> QED  BY <1>1, <1>2, <1>4, <2>1, GameMoves
<1> QED  BY <1>3, <1>4 DEF CreatorDeadline

LEMMA GameReportsAgainKeeps ==
  ASSUME TournamentStrong, NEW a \in RoomIds, GameReportsAgain(a)
  PROVE  TournamentStrong'
<1>1. trouble' \in 0..MaxTrouble /\ trouble <= trouble'
  BY TournamentAssumption DEF GameReportsAgain, MayFail, TournamentStrong, TypeOK
<1>2. PICK o \in Results : rooms' = [rooms EXCEPT ![a].outcome = o]
  BY DEF GameReportsAgain
<1> DEFINE y == [rooms[a] EXCEPT !.outcome = o]
<1>3. rooms[a] \in RoomRecs
  BY Types DEF TournamentStrong
<1>4. /\ y \in RoomRecs /\ y.state = rooms[a].state /\ y.game = rooms[a].game
      /\ y.round = rooms[a].round /\ y.table = rooms[a].table
  BY <1>3 DEF RoomRecs
<1>5. rooms' = [rooms EXCEPT ![a] = y]
  BY <1>2
<1> HIDE DEF y
<1> QED  BY <1>1, <1>4, <1>5, GameStep DEF GameReportsAgain

(* The lease of a request at work makes one more that is overtaken, and costs a fault. *)
LEMMA LeaseExpiresKeeps ==
  ASSUME TournamentStrong, LeaseExpires
  PROVE  TournamentStrong'
<1> USE TournamentAssumption
<1> DEFINE h == fence.holder
<1>1. h \in Requests /\ fence.live /\ h # None
  BY DEF LeaseExpires, Fenced, TournamentStrong, TypeOK
<1>2. fence' = [fence EXCEPT !.live = FALSE]
  BY DEF LeaseExpires
<1>3. \A q \in Requests : ~HoldsFence(q)'
  BY <1>2 DEF HoldsFence, TournamentStrong, TypeOK
<1>4. UNCHANGED <<status, players, round, roundCount, matches, rooms, reqs>>
  BY DEF LeaseExpires
<1>5. Orphans' = Orphans
  BY <1>4 DEF Orphans
<1>6. trouble \in Nat /\ trouble' \in 0..MaxTrouble
  BY DEF LeaseExpires, MayFail, TournamentStrong, TypeOK
<1>7. TypeOK'
  BY <1>2, <1>4, <1>6 DEF TournamentStrong, TypeOK
<1>8. RoomsExist' /\ RoundsInOrder' /\ RequestsSound' /\ RoomsApart' /\ RoomsPlaced' /\ RoundSound'
  BY <1>4 DEF TournamentStrong, RoomsExist, RoundsInOrder, RequestsSound, RoomsApart, RoomsPlaced,
       RoundSound, Playing
<1>9. Charged'
  <2>1. CASE reqs[h] = Idle
    <3>1. Overtaken' \subseteq Overtaken
      BY <1>1, <1>4, <2>1 DEF Overtaken, HoldsFence, Idle
    <3>2. trouble' = trouble
      BY <2>1 DEF LeaseExpires
    <3> QED  BY <1>5, <1>6, <3>1, <3>2, FreeOfCharge
  <2>2. CASE reqs[h] # Idle
    <3>1. trouble' = trouble + 1
      BY <2>2 DEF LeaseExpires
    <3>2. Overtaken' \subseteq Overtaken \cup {h}
      BY <1>4 DEF Overtaken, HoldsFence
    <3>3. IsFiniteSet(Overtaken \cup {h}) /\ Cardinality(Overtaken \cup {h}) \in Nat
          /\ Cardinality(Overtaken \cup {h}) <= Cardinality(Overtaken) + 1
      BY Finiteness, OneMore
    <3>4. Cardinality(Overtaken') \in Nat /\ Cardinality(Overtaken') <= Cardinality(Overtaken \cup {h})
      BY <3>2, <3>3, PartIsSmaller
    <3>5. Cardinality(Orphans) + Cardinality(Overtaken) <= trouble
      BY DEF TournamentStrong, Charged
    <3>6. Cardinality(Orphans) + Cardinality(Overtaken') <= trouble'
      BY <1>6, <3>1, <3>3, <3>4, <3>5, Finiteness
    <3> QED  BY <1>5, <3>6 DEF Charged
  <2> QED  BY <2>1, <2>2
<1> QED  BY <1>7, <1>8, <1>9 DEF TournamentStrong

(* A restart makes an orphan of the room of every request at work: all but one of them *)
(* were overtaken before, and that one is paid for by the restart.                      *)
LEMMA RestartKeeps ==
  ASSUME TournamentStrong, Restart
  PROVE  TournamentStrong'
<1> USE TournamentAssumption
<1> DEFINE Active == {p \in Requests : reqs[p].phase # "idle"}
           f == [p \in Active |-> reqs[p].room]
           T == {f[p] : p \in Active}
<1>0. /\ UNCHANGED <<status, players, round, roundCount, matches, rooms, fence>>
      /\ reqs' = [p \in Requests |-> Idle] /\ trouble' = trouble + 1
  BY DEF Restart
<1>1. trouble \in Nat /\ trouble' \in 0..MaxTrouble
  BY DEF Restart, MayFail, TournamentStrong, TypeOK
<1>2. TypeOK'
  BY <1>0, <1>1 DEF TournamentStrong, TypeOK, Idle
<1>3. RoomsExist' /\ RoundsInOrder' /\ RoomsPlaced' /\ RoundSound'
  BY <1>0 DEF TournamentStrong, RoomsExist, RoundsInOrder, RoomsPlaced, RoundSound, Playing
<1>4. RequestsSound' /\ RoomsApart'
  BY <1>0 DEF RequestsSound, RequestSound, RoomsApart, Idle, AtWork
<1>5. Overtaken' = {}
  BY <1>0 DEF Overtaken, Idle
<1>6. Cardinality(Active) \in Nat /\ IsFiniteSet(Active) /\ Cardinality(Active) <= Cardinality(Overtaken) + 1
  <2>1. Active \subseteq Overtaken \cup {fence.holder}
    BY DEF Overtaken, HoldsFence
  <2>2. IsFiniteSet(Overtaken \cup {fence.holder})
        /\ Cardinality(Overtaken \cup {fence.holder}) \in Nat
        /\ Cardinality(Overtaken \cup {fence.holder}) <= Cardinality(Overtaken) + 1
    BY Finiteness, OneMore
  <2>3. IsFiniteSet(Active) /\ Cardinality(Active) \in Nat
        /\ Cardinality(Active) <= Cardinality(Overtaken \cup {fence.holder})
    BY <2>1, <2>2, PartIsSmaller
  <2> HIDE DEF Active
  <2> QED  BY <2>2, <2>3, Finiteness
<1>7. Orphans' \subseteq Orphans \cup T
  <2> SUFFICES ASSUME NEW b \in Orphans', b \notin Orphans  PROVE b \in T
    OBVIOUS
  <2>1. b \in RoomIds /\ rooms[b].state = "stored" /\ MatchOf(matches, rooms, b).room # b
    BY <1>0 DEF Orphans
  <2>2. PICK q \in Requests : reqs[q].room = b
    BY <2>1 DEF Orphans
  <2>3. q \in Active
    BY <2>1, <2>2, RoomOfRequest DEF RoomIds, AtWork
  <2> QED  BY <2>2, <2>3
<1>8. IsFiniteSet(T) /\ Cardinality(T) \in Nat /\ Cardinality(T) <= Cardinality(Active)
  <2>1. f \in Surjection(Active, T)
    BY DEF Surjection
  <2> HIDE DEF f, T, Active
  <2> QED  BY <1>6, <2>1, FS_Surjection, FS_CardinalityType
<1> HIDE DEF T, Active, f
<1>9. /\ Cardinality(Orphans \cup T) \in Nat /\ IsFiniteSet(Orphans \cup T)
      /\ Cardinality(Orphans \cup T) <= Cardinality(Orphans) + Cardinality(T)
  <2>1. IsFiniteSet(Orphans \cup T)
        /\ Cardinality(Orphans \cup T) = Cardinality(Orphans) + Cardinality(T) - Cardinality(Orphans \cap T)
    BY <1>8, Finiteness, FS_Union
  <2>2. Cardinality(Orphans \cap T) \in Nat /\ Cardinality(Orphans \cup T) \in Nat
    BY <2>1, Finiteness, FS_Intersection, FS_CardinalityType
  <2> QED  BY <1>8, <2>1, <2>2, Finiteness
<1>10. Cardinality(Orphans') \in Nat /\ Cardinality(Orphans') <= Cardinality(Orphans \cup T)
  BY <1>7, <1>9, PartIsSmaller
<1>11. Charged'
  <2>1. Cardinality(Overtaken') = 0
    BY <1>5, FS_EmptySet
  <2>2. Cardinality(Orphans) + Cardinality(Overtaken) <= trouble
    BY DEF TournamentStrong, Charged
  <2>3. Cardinality(Orphans') + Cardinality(Overtaken') <= trouble'
    BY <1>0, <1>1, <1>6, <1>8, <1>9, <1>10, <2>1, <2>2, Finiteness
  <2> QED  BY <2>3 DEF Charged
<1> QED  BY <1>2, <1>3, <1>4, <1>11 DEF TournamentStrong

-----------------------------------------------------------------------------
(* The theorems about the tournament of people.                             *)

LEMMA NextKeepsStrong ==
  ASSUME TournamentStrong, [Next]_vars
  PROVE  TournamentStrong'
<1>1. CASE UNCHANGED vars
  BY <1>1 DEF vars, TournamentStrong, TypeOK, RoomsExist, RoundsInOrder, Charged, Orphans, Overtaken,
       HoldsFence, RequestsSound, RoomsApart, RoomsPlaced, RoundSound, Playing
<1>2. CASE Register
  BY <1>2, RegisterKeeps
<1>3. ASSUME NEW p \in Requests, Start(p) \/ Advance(p)  PROVE TournamentStrong'
  BY <1>3, StartKeeps, AdvanceKeeps
<1>4. ASSUME NEW p \in Requests, Work(p)  PROVE TournamentStrong'
  BY <1>4, StoreRoomKeeps, StartGameKeeps, AssignRoomKeeps, RollbackRoomKeeps, ReleaseFenceKeeps DEF Work
<1>5. CASE (\E t \in Tables : Sync({t})) \/ Sync(Tables)
  <2>1. ASSUME NEW t \in Tables, Sync({t})  PROVE TournamentStrong'
    BY <2>1, SyncKeeps
  <2>2. CASE Sync(Tables)
    BY <2>2, SyncKeeps
  <2> QED  BY <1>5, <2>1, <2>2
<1>6. ASSUME NEW a \in RoomIds,
             \/ InvitesEnd(a) \/ GameOver(a) \/ CreatorGoes(a)
             \/ CreatorDeadline(a) \/ GameReportsAgain(a)
      PROVE  TournamentStrong'
  BY <1>6, InvitesEndKeeps, GameOverKeeps, CreatorGoesKeeps, CreatorDeadlineKeeps, GameReportsAgainKeeps
<1>7. CASE LeaseExpires \/ Restart
  BY <1>7, LeaseExpiresKeeps, RestartKeeps
<1> QED  BY <1>1, <1>2, <1>3, <1>4, <1>5, <1>6, <1>7 DEF Next

LEMMA AlwaysStrong == Spec => []TournamentStrong
<1>1. TournamentStrong /\ [Next]_vars => TournamentStrong'
  BY NextKeepsStrong
<1> QED  BY InitSound, <1>1, PTL DEF Spec

LEMMA StrongIsSound == TournamentStrong => TournamentInv
<1> SUFFICES ASSUME TournamentStrong  PROVE NoOrphans
  BY DEF TournamentStrong, TournamentInv
<1>1. trouble \in Nat
  BY DEF TournamentStrong, TypeOK
<1>2. Cardinality(Orphans) <= trouble
  BY <1>1, Finiteness DEF TournamentStrong, Charged
<1> QED  BY <1>2 DEF NoOrphans, Orphans, MatchOf

(* A match's room exists, was started and is its own; rooms nobody knows are no more than *)
(* the faults so far; and no round begins before the one before it is decided.            *)
(* TournamentCoordinator's start, advance, sync and provisioning under their fence.       *)
THEOREM TournamentAlwaysSound == Spec => []TournamentInv
BY AlwaysStrong, StrongIsSound, PTL

(* The step that MatchesFinal allows. *)
MatchesStay ==
  \A r \in Rounds, t \in Tables :
    /\ matches[r][t].room # None => matches'[r][t].room = matches[r][t].room
    /\ matches[r][t].result # None => matches'[r][t].result = matches[r][t].result

LEMMA StepKeepsMatches ==
  ASSUME TournamentStrong, [Next]_vars
  PROVE  MatchesStay
<1>1. CASE ResultsOnly(matches')
  BY <1>1 DEF ResultsOnly, MatchesStay
<1>2. CASE UNCHANGED matches
  BY <1>2 DEF MatchesStay
<1>3. ASSUME NEW p \in Requests, Advance(p)  PROVE ResultsOnly(matches')
  BY <1>3, SyncedRoundIsSound DEF Advance, TournamentStrong
<1>4. ASSUME NEW ts \in SUBSET Tables, Sync(ts)  PROVE ResultsOnly(matches')
  <2>1. round \in Rounds
    BY <1>4, TournamentAssumption DEF Sync, TournamentStrong, RoundSound, TypeOK, Rounds
  <2> QED  BY <1>4, <2>1, SyncingIsSound DEF Sync, TournamentStrong
<1>5. ASSUME NEW p \in Requests, AssignRoom(p)  PROVE MatchesStay
  <2> DEFINE a == reqs[p].room
  <2>1. CASE UNCHANGED matches
    BY <1>2, <2>1
  <2>2. CASE /\ ~AlreadyProvisioned(p)
             /\ matches' = [matches EXCEPT ![rooms[a].round][rooms[a].table].room = a]
    <3>1. rooms[a].round \in Rounds /\ rooms[a].table \in Tables
      BY <1>5, OwnRoom DEF AssignRoom, AtWork
    <3>2. matches[rooms[a].round][rooms[a].table].room = None
      BY <2>2 DEF AlreadyProvisioned
    <3>3. matches \in [Rounds -> [Tables -> MatchRecs]]
      BY Types DEF TournamentStrong
    <3> HIDE DEF a
    <3> QED  BY <2>2, <3>1, <3>2, <3>3 DEF MatchesStay, MatchRecs
  <2> QED  BY <1>5, <2>1, <2>2 DEF AssignRoom
<1>6. ASSUME NEW t \in Tables, Sync({t})  PROVE MatchesStay
  BY <1>1, <1>4, <1>6
<1>7. CASE Sync(Tables)
  BY <1>1, <1>4, <1>7
<1>8. ASSUME NEW p \in Requests, Work(p) \/ Start(p)  PROVE MatchesStay
  BY <1>2, <1>5, <1>8 DEF Work, Start, StoreRoom, StartGame, RollbackRoom, ReleaseFence
<1>9. CASE UNCHANGED vars \/ Register \/ LeaseExpires \/ Restart
           \/ \E a \in RoomIds : \/ InvitesEnd(a) \/ GameOver(a) \/ CreatorGoes(a)
                                 \/ CreatorDeadline(a) \/ GameReportsAgain(a)
  BY <1>2, <1>9 DEF vars, Register, LeaseExpires, Restart, InvitesEnd, GameOver, CreatorGoes,
       CreatorDeadline, GameReportsAgain
<1> QED  BY <1>1, <1>3, <1>6, <1>7, <1>8, <1>9 DEF Next

(* A match keeps its room and its result, whatever overtaken requests, restarts and       *)
(* repeated reports of its Game do (provisionTournamentRoundMatches).      *)
THEOREM MatchesAreFinal == Spec => MatchesFinal
<1>1. TournamentStrong /\ [Next]_vars => [MatchesStay]_vars
  BY StepKeepsMatches
<1>2. Spec => [][MatchesStay]_vars
  BY <1>1, AlwaysStrong, PTL DEF Spec
<1> QED  BY <1>2 DEF MatchesFinal, MatchesStay

-----------------------------------------------------------------------------
(* The pairing of rounds.  What comes first by a table of keys.              *)

(* Two keys of one length that differ are in order, one way or the other. *)
LEMMA BeforeTotal ==
  ASSUME NEW n \in Nat, NEW s \in [1..n -> Int], NEW t \in [1..n -> Int], s # t
  PROVE  Before(s, t) \/ Before(t, s)
<1> DEFINE Differ == {i \in 1..n : s[i] # t[i]}
<1>1. Differ # {}
  OBVIOUS
<1>2. Differ \in SUBSET Nat
  OBVIOUS
<1>3. PICK i \in Differ : \A j \in Differ : i <= j
  <2> HIDE DEF Differ
  <2> QED  BY <1>1, <1>2, Smallest
<1>4. \A j \in 1..(i - 1) : s[j] = t[j]
  BY <1>3
<1>5. i \in DOMAIN s /\ i \in DOMAIN t
  OBVIOUS
<1>6. s[i] < t[i] \/ t[i] < s[i]
  OBVIOUS
<1> QED  BY <1>4, <1>5, <1>6 DEF Before

LEMMA BeforeTransitive ==
  ASSUME NEW n \in Nat, NEW r \in [1..n -> Int], NEW s \in [1..n -> Int], NEW t \in [1..n -> Int],
         Before(r, s), Before(s, t)
  PROVE  Before(r, t)
<1>1. PICK i \in 1..n : r[i] < s[i] /\ \A j \in 1..(i - 1) : r[j] = s[j]
  BY DEF Before
<1>2. PICK k \in 1..n : s[k] < t[k] /\ \A j \in 1..(k - 1) : s[j] = t[j]
  BY DEF Before
<1>3. CASE i < k
  <2>1. r[i] < t[i]
    BY <1>1, <1>2, <1>3
  <2>2. \A j \in 1..(i - 1) : r[j] = t[j]
    BY <1>1, <1>2, <1>3
  <2> QED  BY <2>1, <2>2 DEF Before
<1>4. CASE i = k
  <2>1. r[i] < t[i]
    BY <1>1, <1>2, <1>4
  <2>2. \A j \in 1..(i - 1) : r[j] = t[j]
    BY <1>1, <1>2, <1>4
  <2> QED  BY <2>1, <2>2 DEF Before
<1>5. CASE k < i
  <2>1. r[k] < t[k]
    BY <1>1, <1>2, <1>5
  <2>2. \A j \in 1..(k - 1) : r[j] = t[j]
    BY <1>1, <1>2, <1>5
  <2> QED  BY <2>1, <2>2 DEF Before
<1> QED  BY <1>3, <1>4, <1>5

LEMMA NotBeforeItself ==
  ASSUME NEW n \in Nat, NEW s \in [1..n -> Int]
  PROVE  ~ Before(s, s)
BY DEF Before

(* Of finitely many, with keys that differ, one comes first. *)
LEMMA FirstIs ==
  ASSUME NEW D, IsFiniteSet(D), D # {}, NEW n \in Nat, NEW key \in [D -> [1..n -> Int]],
         \A p, q \in D : p # q => key[p] # key[q]
  PROVE  First(key) \in D
<1> DEFINE Below(p) == {r \in D : Before(key[r], key[p])}
           Sizes == {Cardinality(Below(p)) : p \in D}
<1>1. \A p \in D : IsFiniteSet(Below(p)) /\ Cardinality(Below(p)) \in Nat
  BY FS_Subset, FS_CardinalityType
<1>2. Sizes \in SUBSET Nat /\ Sizes # {}
  BY <1>1
<1>3. PICK k \in Sizes : \A l \in Sizes : k <= l
  <2> HIDE DEF Sizes
  <2> QED  BY <1>2, Smallest
<1>4. PICK p \in D : k = Cardinality(Below(p))
  OBVIOUS
<1>5. ASSUME NEW q \in D \ {p}  PROVE Before(key[p], key[q])
  <2>1. SUFFICES ASSUME ~ Before(key[p], key[q])  PROVE FALSE
    OBVIOUS
  <2>2. Before(key[q], key[p])
    BY <2>1, BeforeTotal
  <2>3. q \in Below(p)
    BY <2>2
  <2>4. q \notin Below(q)
    BY NotBeforeItself
  <2>5. Below(q) \subseteq Below(p)
    <3>1. ASSUME NEW r \in D, Before(key[r], key[q])  PROVE Before(key[r], key[p])
      BY <2>2, <3>1, BeforeTransitive
    <3> QED  BY <3>1
  <2>6. /\ Cardinality(Below(q)) <= Cardinality(Below(p))
        /\ Cardinality(Below(p)) = Cardinality(Below(q)) => Below(p) = Below(q)
    <3> HIDE DEF Below
    <3> QED  BY <1>1, <2>5, FS_Subset
  <2>7. Cardinality(Below(p)) <= Cardinality(Below(q))
    <3>1. Cardinality(Below(q)) \in Sizes
      OBVIOUS
    <3> HIDE DEF Sizes, Below
    <3> QED  BY <1>3, <1>4, <3>1
  <2>8. Cardinality(Below(p)) \in Nat /\ Cardinality(Below(q)) \in Nat
    BY <1>1
  <2> HIDE DEF Below
  <2> QED  BY <2>3, <2>4, <2>6, <2>7, <2>8
<1>6. DOMAIN key = D
  OBVIOUS
<1>7. \E x \in DOMAIN key : \A q \in DOMAIN key \ {x} : Before(key[x], key[q])
  BY <1>5, <1>6
<1> QED  BY <1>6, <1>7 DEF First

LEMMA FiveIsAKey ==
  ASSUME NEW a \in Int, NEW b \in Int, NEW c \in Int, NEW d \in Int, NEW e \in Int
  PROVE  <<a, b, c, d, e>> \in [1..5 -> Int]
OBVIOUS

LEMMA FourIsAKey ==
  ASSUME NEW a \in Int, NEW b \in Int, NEW c \in Int, NEW d \in Int
  PROVE  <<a, b, c, d>> \in [1..4 -> Int]
OBVIOUS

-----------------------------------------------------------------------------
(* Whom a Swiss round picks.                                                 *)

(* What a round knows of its players are numbers. *)
Known(f) ==
  \A p \in Players :
    /\ f[p].points \in Int /\ f[p].wins \in Int /\ f[p].buchholz \in Int /\ f[p].played \in Int
    /\ f[p].byes \in Nat /\ f[p].balance \in Int
    /\ \A q \in Players : f[p].met[q] \in Int

LEMMA FinitePlayers ==
  ASSUME setup.n \in Nat
  PROVE  /\ IsFiniteSet(Players) /\ Cardinality(Players) = setup.n /\ Players \subseteq Nat
         /\ \A S \in SUBSET Players : IsFiniteSet(S) /\ Cardinality(S) \in Nat
<1>1. IsFiniteSet(Players) /\ Cardinality(Players) = setup.n
  BY FS_Interval DEF Players
<1>2. Players \subseteq Nat
  BY DEF Players
<1>3. \A S \in SUBSET Players : IsFiniteSet(S) /\ Cardinality(S) \in Nat
  BY <1>1, FS_Subset, FS_CardinalityType
<1> QED  BY <1>1, <1>2, <1>3

LEMMA DistanceIsInt ==
  ASSUME NEW x \in Int, NEW y \in Int
  PROVE  Distance(x, y) \in Int
BY DEF Distance

LEMMA PenaltyIsInt ==
  ASSUME NEW x, NEW y
  PROVE  SeatPenalty(x, y) \in Int
BY DEF SeatPenalty

LEMMA StrongestIs ==
  ASSUME setup.n \in Nat, NEW f, Known(f), NEW S \in SUBSET Players, S # {}
  PROVE  Strongest(f, S) \in S
<1> DEFINE key == [p \in S |-> PoolKey(f, p)]
<1>1. \A p \in S : PoolKey(f, p) \in [1..5 -> Int]
  <2>1. ASSUME NEW p \in S  PROVE PoolKey(f, p) \in [1..5 -> Int]
    <3>1. /\ -f[p].points \in Int /\ -f[p].wins \in Int /\ -f[p].buchholz \in Int
          /\ -f[p].played \in Int /\ p \in Int
      BY FinitePlayers DEF Known
    <3> QED  BY <3>1, FiveIsAKey DEF PoolKey
  <2> QED  BY <2>1
<1>2. key \in [S -> [1..5 -> Int]]
  BY <1>1
<1>3. \A p \in S : PoolKey(f, p)[5] = p
  BY DEF PoolKey
<1>4. \A p, q \in S : p # q => key[p] # key[q]
  BY <1>3
<1>5. IsFiniteSet(S)
  BY FinitePlayers
<1> HIDE DEF key
<1>6. First(key) \in S
  BY <1>2, <1>4, <1>5, FirstIs
<1> QED  BY <1>6 DEF Strongest, key

LEMMA ClosestIs ==
  ASSUME setup.n \in Nat, NEW f, Known(f), NEW S \in SUBSET Players, S # {}, NEW u \in Players
  PROVE  First([v \in S |-> ClosenessKey(f, u, v)]) \in S
<1> DEFINE key == [v \in S |-> ClosenessKey(f, u, v)]
<1>1. \A v \in S : ClosenessKey(f, u, v) \in [1..4 -> Int]
  <2>1. ASSUME NEW v \in S  PROVE ClosenessKey(f, u, v) \in [1..4 -> Int]
    <3>1. v \in Int /\ SeatPenalty(f[u], f[v]) \in Int
      BY FinitePlayers, PenaltyIsInt
    <3>2. Distance(f[u].points, f[v].points) \in Int /\ Distance(f[u].wins, f[v].wins) \in Int
      BY DistanceIsInt DEF Known
    <3> QED  BY <3>1, <3>2, FourIsAKey DEF ClosenessKey
  <2> QED  BY <2>1
<1>2. key \in [S -> [1..4 -> Int]]
  BY <1>1
<1>3. \A v \in S : ClosenessKey(f, u, v)[4] = v
  BY DEF ClosenessKey
<1>4. \A p, q \in S : p # q => key[p] # key[q]
  BY <1>3
<1>5. IsFiniteSet(S)
  BY FinitePlayers
<1> HIDE DEF key
<1>6. First(key) \in S
  BY <1>2, <1>4, <1>5, FirstIs
<1> QED  BY <1>6 DEF key

LEMMA GreedyPickIs ==
  ASSUME setup.n \in Nat, NEW f, Known(f), NEW S \in SUBSET Players, S # {}, NEW u \in Players
  PROVE  First([v \in S |-> GreedyKey(f, u, v)]) \in S
<1> DEFINE key == [v \in S |-> GreedyKey(f, u, v)]
<1>1. \A v \in S : GreedyKey(f, u, v) \in [1..5 -> Int]
  <2>1. ASSUME NEW v \in S  PROVE GreedyKey(f, u, v) \in [1..5 -> Int]
    <3>1. v \in Int /\ SeatPenalty(f[u], f[v]) \in Int
      BY FinitePlayers, PenaltyIsInt
    <3>2. Distance(f[u].points, f[v].points) \in Int /\ Distance(f[u].wins, f[v].wins) \in Int
      BY DistanceIsInt DEF Known
    <3>3. f[u].met[v] \in Int
      BY DEF Known
    <3> QED  BY <3>1, <3>2, <3>3, FiveIsAKey DEF GreedyKey
  <2> QED  BY <2>1
<1>2. key \in [S -> [1..5 -> Int]]
  BY <1>1
<1>3. \A v \in S : GreedyKey(f, u, v)[5] = v
  BY DEF GreedyKey
<1>4. \A p, q \in S : p # q => key[p] # key[q]
  BY <1>3
<1>5. IsFiniteSet(S)
  BY FinitePlayers
<1> HIDE DEF key
<1>6. First(key) \in S
  BY <1>2, <1>4, <1>5, FirstIs
<1> QED  BY <1>6 DEF key

(* The bye goes to one of those who had the fewest. *)
LEMMA FairByeIs ==
  ASSUME setup.n \in Nat \ {0}, NEW f, Known(f)
  PROVE  /\ ~Odd => FairBye(f) = {}
         /\ Odd => \E b \in Players : FairBye(f) = {b} /\ \A p \in Players : f[b].byes <= f[p].byes
<1> DEFINE eligible == {q \in Players : \A p \in Players : f[q].byes <= f[p].byes}
           key == [p \in eligible |-> ByeKey(f, p)]
           Counts == {f[p].byes : p \in Players}
<1>1. eligible # {}
  <2>1. Counts \in SUBSET Nat
    BY DEF Known
  <2>2. 1 \in Players
    BY DEF Players
  <2>3. Counts # {}
    BY <2>2
  <2>4. PICK k \in Counts : \A l \in Counts : k <= l
    <3> HIDE DEF Counts
    <3> QED  BY <2>1, <2>3, Smallest
  <2>5. PICK q \in Players : k = f[q].byes
    OBVIOUS
  <2>6. \A p \in Players : f[q].byes <= f[p].byes
    BY <2>4, <2>5
  <2> QED  BY <2>6
<1>2. \A p \in eligible : ByeKey(f, p) \in [1..5 -> Int]
  <2>1. ASSUME NEW p \in eligible  PROVE ByeKey(f, p) \in [1..5 -> Int]
    <3>1. p \in Players
      OBVIOUS
    <3>2. /\ f[p].points \in Int /\ f[p].wins \in Int /\ f[p].buchholz \in Int
          /\ f[p].played \in Int /\ p \in Int
      BY <3>1, FinitePlayers DEF Known
    <3> QED  BY <3>2, FiveIsAKey DEF ByeKey
  <2> QED  BY <2>1
<1>3. \A p \in eligible : ByeKey(f, p)[5] = p
  BY DEF ByeKey
<1>4. eligible \in SUBSET Players
  OBVIOUS
<1>5. First(key) \in eligible
  <2> HIDE DEF eligible
  <2>1. key \in [eligible -> [1..5 -> Int]]
    BY <1>2
  <2>2. \A p, q \in eligible : p # q => key[p] # key[q]
    BY <1>3
  <2>3. IsFiniteSet(eligible)
    BY <1>4, FinitePlayers
  <2> HIDE DEF key
  <2> QED  BY <1>1, <2>1, <2>2, <2>3, FirstIs
<1>6. FairBye(f) = IF Odd THEN {First(key)} ELSE {}
  BY DEF FairBye
<1> HIDE DEF key
<1> QED  BY <1>5, <1>6

-----------------------------------------------------------------------------
(* The search and the fallback are functions over the pools: what they say   *)
(* of a pool depends only on smaller pools, so there are such functions.     *)

LEMMA PartIsLess ==
  ASSUME setup.n \in Nat, NEW S \in SUBSET Players, NEW u \in S, NEW T \in SUBSET (S \ {u})
  PROVE  Cardinality(T) < Cardinality(S)
<1>1. IsFiniteSet(S) /\ IsFiniteSet(T) /\ Cardinality(S) \in Nat /\ Cardinality(T) \in Nat
  BY FinitePlayers
<1>2. Cardinality(T) <= Cardinality(S) /\ (Cardinality(S) = Cardinality(T) => S = T)
  BY <1>1, FS_Subset
<1> QED  BY <1>1, <1>2

LEMMA SearchIsLocal ==
  ASSUME setup.n \in Nat, NEW f, Known(f), NEW g, NEW h, NEW S \in SUBSET Players,
         \A T \in SUBSET Players : Cardinality(T) < Cardinality(S) => g[T] = h[T]
  PROVE  SearchStep(f, g, S) = SearchStep(f, h, S)
<1>1. CASE S = {}
  BY <1>1 DEF SearchStep
<1>2. CASE S # {}
  <2> DEFINE u == Strongest(f, S)
             good(x) == {v \in Unmet(f, u, S) : x[S \ {u, v}] # {}}
             first(x) == First([v \in good(x) |-> ClosenessKey(f, u, v)])
  <2>1. u \in S
    BY <1>2, StrongestIs
  <2>2. \A v : g[S \ {u, v}] = h[S \ {u, v}]
    <3>1. ASSUME NEW v  PROVE g[S \ {u, v}] = h[S \ {u, v}]
      <4>1. Cardinality(S \ {u, v}) < Cardinality(S)
        <5>1. S \ {u, v} \in SUBSET (S \ {u})
          OBVIOUS
        <5> HIDE DEF u
        <5> QED  BY <2>1, <5>1, PartIsLess
      <4> QED  BY <4>1
    <3> QED  BY <3>1
  <2>3. good(g) = good(h)
    BY <2>2
  <2>4. first(g) = first(h)
    BY <2>3
  <2>5. SearchStep(f, g, S) = IF good(g) = {} THEN {} ELSE
          {{<<u, first(g)>>} \union rest : rest \in g[S \ {u, first(g)}]}
    BY <1>2 DEF SearchStep
  <2>6. SearchStep(f, h, S) = IF good(h) = {} THEN {} ELSE
          {{<<u, first(h)>>} \union rest : rest \in h[S \ {u, first(h)}]}
    BY <1>2 DEF SearchStep
  <2>7. g[S \ {u, first(h)}] = h[S \ {u, first(h)}]
    BY <2>2
  <2> HIDE DEF u, good, first
  <2> QED  BY <2>3, <2>4, <2>5, <2>6, <2>7
<1> QED  BY <1>1, <1>2

LEMMA SearchExists ==
  ASSUME setup.n \in Nat, NEW f, Known(f)
  PROVE  \A pool \in SUBSET Players :
            RematchFree(f)[pool] = SearchStep(f, RematchFree(f), pool)
<1> DEFINE Good(k) == \E g : \A S \in SUBSET Players :
                         Cardinality(S) < k => g[S] = SearchStep(f, g, S)
           Bad == {k \in Nat : ~ Good(k)}
<1>1. Bad = {}
  <2>1. SUFFICES ASSUME Bad # {}  PROVE FALSE
    OBVIOUS
  <2>2. PICK k \in Bad : \A l \in Bad : k <= l
    <3>1. Bad \in SUBSET Nat
      OBVIOUS
    <3> HIDE DEF Bad
    <3> QED  BY <2>1, <3>1, Smallest
  <2>3. k # 0
    <3>1. \A S \in SUBSET Players : ~ (Cardinality(S) < 0)
      BY FinitePlayers
    <3>2. Good(0)
      BY <3>1
    <3> QED  BY <3>2
  <2>4. k \in Nat /\ k - 1 \in Nat /\ k - 1 \notin Bad
    BY <2>2, <2>3
  <2>5. PICK g : \A S \in SUBSET Players : Cardinality(S) < k - 1 => g[S] = SearchStep(f, g, S)
    BY <2>4
  <2> DEFINE h == [S \in SUBSET Players |-> SearchStep(f, g, S)]
  <2>6. ASSUME NEW S \in SUBSET Players, Cardinality(S) < k  PROVE h[S] = SearchStep(f, h, S)
    <3>1. Cardinality(S) \in Nat /\ \A T \in SUBSET Players : Cardinality(T) \in Nat
      BY FinitePlayers
    <3>2. \A T \in SUBSET Players : Cardinality(T) < Cardinality(S) => g[T] = h[T]
      BY <2>4, <2>5, <2>6, <3>1
    <3>3. h[S] = SearchStep(f, g, S)
      OBVIOUS
    <3> HIDE DEF h
    <3>4. SearchStep(f, g, S) = SearchStep(f, h, S)
      BY <3>2, SearchIsLocal
    <3> QED  BY <3>3, <3>4
  <2>7. Good(k)
    <3> HIDE DEF h
    <3> QED  BY <2>6
  <2> QED  BY <2>7
<1>2. Good(setup.n + 1)
  <2>1. setup.n + 1 \in Nat
    OBVIOUS
  <2> HIDE DEF Good
  <2> QED  BY <1>1, <2>1
<1>3. PICK g : \A S \in SUBSET Players : Cardinality(S) < setup.n + 1 => g[S] = SearchStep(f, g, S)
  BY <1>2
<1>4. \A S \in SUBSET Players : g[S] = SearchStep(f, g, S)
  <2>1. ASSUME NEW S \in SUBSET Players  PROVE Cardinality(S) < setup.n + 1
    <3>1. Cardinality(S) \in Nat /\ Cardinality(S) <= setup.n
      BY FinitePlayers, FS_Subset
    <3> QED  BY <3>1
  <2> QED  BY <1>3, <2>1
<1> DEFINE h == [S \in SUBSET Players |-> SearchStep(f, g, S)]
<1>5. \A S \in SUBSET Players : SearchStep(f, h, S) = SearchStep(f, g, S)
  <2>1. ASSUME NEW S \in SUBSET Players  PROVE SearchStep(f, g, S) = SearchStep(f, h, S)
    <3>1. \A T \in SUBSET Players : Cardinality(T) < Cardinality(S) => g[T] = h[T]
      BY <1>4
    <3> HIDE DEF h
    <3> QED  BY <3>1, SearchIsLocal
  <2> QED  BY <2>1
<1>6. h = [pool \in SUBSET Players |-> SearchStep(f, h, pool)]
  <2>1. h = [S \in SUBSET Players |-> SearchStep(f, g, S)]
    OBVIOUS
  <2> HIDE DEF h
  <2> QED  BY <1>5, <2>1
<1> HIDE DEF h
<1> DEFINE Fits(x) == x = [pool \in SUBSET Players |-> SearchStep(f, x, pool)]
<1>7. RematchFree(f) = CHOOSE x : Fits(x)
  BY DEF RematchFree
<1>8. Fits(RematchFree(f))
  BY <1>6, <1>7
<1> DEFINE r == RematchFree(f)
<1>9. r = [pool \in SUBSET Players |-> SearchStep(f, r, pool)]
  BY <1>8
<1> HIDE DEF r
<1>10. \A pool \in SUBSET Players : r[pool] = SearchStep(f, r, pool)
  BY <1>9
<1> QED  BY <1>10 DEF r

LEMMA GreedyIsLocal ==
  ASSUME setup.n \in Nat, NEW f, Known(f), NEW g, NEW h, NEW S \in SUBSET Players,
         \A T \in SUBSET Players : Cardinality(T) < Cardinality(S) => g[T] = h[T]
  PROVE  GreedyStep(f, g, S) = GreedyStep(f, h, S)
<1>1. CASE S = {}
  BY <1>1 DEF GreedyStep
<1>2. CASE S # {}
  <2> DEFINE u == Strongest(f, S)
             first == First([v \in S \ {u} |-> GreedyKey(f, u, v)])
  <2>1. u \in S
    BY <1>2, StrongestIs
  <2>2. Cardinality(S \ {u, first}) < Cardinality(S)
    <3>1. S \ {u, first} \in SUBSET (S \ {u})
      OBVIOUS
    <3> HIDE DEF u, first
    <3> QED  BY <2>1, <3>1, PartIsLess
  <2>3. g[S \ {u, first}] = h[S \ {u, first}]
    BY <2>2
  <2>4. GreedyStep(f, g, S) = {<<u, first>>} \union g[S \ {u, first}]
    BY <1>2 DEF GreedyStep
  <2>5. GreedyStep(f, h, S) = {<<u, first>>} \union h[S \ {u, first}]
    BY <1>2 DEF GreedyStep
  <2> QED  BY <2>3, <2>4, <2>5
<1> QED  BY <1>1, <1>2

LEMMA GreedyExists ==
  ASSUME setup.n \in Nat, NEW f, Known(f)
  PROVE  \A pool \in SUBSET Players :
            GreedyFallback(f)[pool] = GreedyStep(f, GreedyFallback(f), pool)
<1> DEFINE Good(k) == \E g : \A S \in SUBSET Players :
                         Cardinality(S) < k => g[S] = GreedyStep(f, g, S)
           Bad == {k \in Nat : ~ Good(k)}
<1>1. Bad = {}
  <2>1. SUFFICES ASSUME Bad # {}  PROVE FALSE
    OBVIOUS
  <2>2. PICK k \in Bad : \A l \in Bad : k <= l
    <3>1. Bad \in SUBSET Nat
      OBVIOUS
    <3> HIDE DEF Bad
    <3> QED  BY <2>1, <3>1, Smallest
  <2>3. k # 0
    <3>1. \A S \in SUBSET Players : ~ (Cardinality(S) < 0)
      BY FinitePlayers
    <3>2. Good(0)
      BY <3>1
    <3> QED  BY <3>2
  <2>4. k \in Nat /\ k - 1 \in Nat /\ k - 1 \notin Bad
    BY <2>2, <2>3
  <2>5. PICK g : \A S \in SUBSET Players : Cardinality(S) < k - 1 => g[S] = GreedyStep(f, g, S)
    BY <2>4
  <2> DEFINE h == [S \in SUBSET Players |-> GreedyStep(f, g, S)]
  <2>6. ASSUME NEW S \in SUBSET Players, Cardinality(S) < k  PROVE h[S] = GreedyStep(f, h, S)
    <3>1. Cardinality(S) \in Nat /\ \A T \in SUBSET Players : Cardinality(T) \in Nat
      BY FinitePlayers
    <3>2. \A T \in SUBSET Players : Cardinality(T) < Cardinality(S) => g[T] = h[T]
      BY <2>4, <2>5, <2>6, <3>1
    <3>3. h[S] = GreedyStep(f, g, S)
      OBVIOUS
    <3> HIDE DEF h
    <3>4. GreedyStep(f, g, S) = GreedyStep(f, h, S)
      BY <3>2, GreedyIsLocal
    <3> QED  BY <3>3, <3>4
  <2>7. Good(k)
    <3> HIDE DEF h
    <3> QED  BY <2>6
  <2> QED  BY <2>7
<1>2. Good(setup.n + 1)
  <2>1. setup.n + 1 \in Nat
    OBVIOUS
  <2> HIDE DEF Good
  <2> QED  BY <1>1, <2>1
<1>3. PICK g : \A S \in SUBSET Players : Cardinality(S) < setup.n + 1 => g[S] = GreedyStep(f, g, S)
  BY <1>2
<1>4. \A S \in SUBSET Players : g[S] = GreedyStep(f, g, S)
  <2>1. ASSUME NEW S \in SUBSET Players  PROVE Cardinality(S) < setup.n + 1
    <3>1. Cardinality(S) \in Nat /\ Cardinality(S) <= setup.n
      BY FinitePlayers, FS_Subset
    <3> QED  BY <3>1
  <2> QED  BY <1>3, <2>1
<1> DEFINE h == [S \in SUBSET Players |-> GreedyStep(f, g, S)]
<1>5. \A S \in SUBSET Players : GreedyStep(f, h, S) = GreedyStep(f, g, S)
  <2>1. ASSUME NEW S \in SUBSET Players  PROVE GreedyStep(f, g, S) = GreedyStep(f, h, S)
    <3>1. \A T \in SUBSET Players : Cardinality(T) < Cardinality(S) => g[T] = h[T]
      BY <1>4
    <3> HIDE DEF h
    <3> QED  BY <3>1, GreedyIsLocal
  <2> QED  BY <2>1
<1>6. h = [pool \in SUBSET Players |-> GreedyStep(f, h, pool)]
  <2>1. h = [S \in SUBSET Players |-> GreedyStep(f, g, S)]
    OBVIOUS
  <2> HIDE DEF h
  <2> QED  BY <1>5, <2>1
<1> HIDE DEF h
<1> DEFINE Fits(x) == x = [pool \in SUBSET Players |-> GreedyStep(f, x, pool)]
<1>7. GreedyFallback(f) = CHOOSE x : Fits(x)
  BY DEF GreedyFallback
<1>8. Fits(GreedyFallback(f))
  BY <1>6, <1>7
<1> DEFINE r == GreedyFallback(f)
<1>9. r = [pool \in SUBSET Players |-> GreedyStep(f, r, pool)]
  BY <1>8
<1> HIDE DEF r
<1>10. \A pool \in SUBSET Players : r[pool] = GreedyStep(f, r, pool)
  BY <1>9
<1> QED  BY <1>10 DEF r

-----------------------------------------------------------------------------
(* What the search and the fallback find.                                    *)

(* M gives everybody of S one opponent. *)
Perfect(M, S) ==
  /\ M \in SUBSET (S \X S)
  /\ \A e \in M : e[1] # e[2]
  /\ \A p \in S : \E e \in M : p \in {e[1], e[2]}
  /\ \A d, e \in M : \A p \in S : p \in {d[1], d[2]} /\ p \in {e[1], e[2]} => d = e

LEMMA PairAdds ==
  ASSUME NEW S, NEW u \in S, NEW v \in S, u # v, NEW M, Perfect(M, S \ {u, v})
  PROVE  Perfect({<<u, v>>} \union M, S)
<1> DEFINE T == S \ {u, v}
           N == {<<u, v>>} \union M
<1>1. N \in SUBSET (S \X S)
  BY DEF Perfect
<1>2. \A e \in N : e[1] # e[2]
  BY DEF Perfect
<1>3. \A p \in S : \E e \in N : p \in {e[1], e[2]}
  <2>1. ASSUME NEW p \in S  PROVE \E e \in N : p \in {e[1], e[2]}
    <3>1. CASE p \in T
      BY <3>1 DEF Perfect
    <3>2. CASE p \notin T
      <4>1. p \in {u, v} /\ <<u, v>> \in N /\ <<u, v>>[1] = u /\ <<u, v>>[2] = v
        BY <3>2
      <4> HIDE DEF N
      <4> QED  BY <4>1
    <3> QED  BY <3>1, <3>2
  <2> QED  BY <2>1
<1>4. \A e \in M : e[1] \in T /\ e[2] \in T
  BY DEF Perfect
<1>5. ASSUME NEW d \in N, NEW e \in N, NEW p \in S, p \in {d[1], d[2]}, p \in {e[1], e[2]}
      PROVE  d = e
  <2>1. CASE d = <<u, v>> /\ e = <<u, v>>
    BY <2>1
  <2>2. CASE d \in M /\ e \in M
    <3>1. p \in T
      BY <1>4, <1>5, <2>2
    <3> QED  BY <1>5, <2>2, <3>1 DEF Perfect
  <2>3. CASE d = <<u, v>> /\ e \in M
    <3>1. p \in T
      BY <1>4, <1>5, <2>3
    <3> QED  BY <1>5, <2>3, <3>1
  <2>4. CASE d \in M /\ e = <<u, v>>
    <3>1. p \in T
      BY <1>4, <1>5, <2>4
    <3> QED  BY <1>5, <2>4, <3>1
  <2> QED  BY <2>1, <2>2, <2>3, <2>4
<1> QED  BY <1>1, <1>2, <1>3, <1>5 DEF Perfect

LEMMA NoOnePaired ==
  Perfect({}, {})
BY DEF Perfect

(* The search's choice for the strongest player of a pool. *)
Chosen(f, search, S, M) ==
  \E u \in S : \E v \in S \ {u} :
    /\ f[u].met[v] = 0
    /\ \E rest \in search[S \ {u, v}] : M = {<<u, v>>} \union rest

LEMMA SearchChoice ==
  ASSUME setup.n \in Nat, NEW f, Known(f), NEW search, NEW S \in SUBSET Players, S # {},
         NEW M \in SearchStep(f, search, S)
  PROVE  Chosen(f, search, S, M)
<1> DEFINE u == Strongest(f, S)
           good == {v \in Unmet(f, u, S) : search[S \ {u, v}] # {}}
           first == First([v \in good |-> ClosenessKey(f, u, v)])
<1>1. u \in S
  BY StrongestIs
<1>2. SearchStep(f, search, S) = IF good = {} THEN {} ELSE
          {{<<u, first>>} \union rest : rest \in search[S \ {u, first}]}
  BY DEF SearchStep
<1>3. good # {}
  BY <1>2
<1>4. first \in good
  <2>1. good \in SUBSET Players
    BY DEF Unmet
  <2>2. u \in Players
    BY <1>1
  <2> HIDE DEF good, u
  <2> QED  BY <1>3, <2>1, <2>2, ClosestIs
<1>5. first \in S \ {u} /\ f[u].met[first] = 0
  <2> HIDE DEF first
  <2> QED  BY <1>4 DEF Unmet
<1>6. PICK rest \in search[S \ {u, first}] : M = {<<u, first>>} \union rest
  <2> HIDE DEF good, u, first
  <2> QED  BY <1>2, <1>3
<1> HIDE DEF good, u, first
<1> QED  BY <1>1, <1>5, <1>6 DEF Chosen

LEMMA SearchFinds ==
  ASSUME setup.n \in Nat, NEW f, Known(f), NEW S \in SUBSET Players, S # {},
         NEW M \in RematchFree(f)[S]
  PROVE  Chosen(f, RematchFree(f), S, M)
<1> DEFINE search == RematchFree(f)
<1>1. M \in SearchStep(f, search, S)
  BY SearchExists
<1> HIDE DEF search
<1>2. Chosen(f, search, S, M)
  BY <1>1, SearchChoice
<1> QED  BY <1>2 DEF search

(* Every pairing the search returns is one without a rematch. *)
LEMMA SearchSound ==
  ASSUME setup.n \in Nat, NEW f, Known(f)
  PROVE  \A S \in SUBSET Players : \A M \in RematchFree(f)[S] :
            Perfect(M, S) /\ \A e \in M : f[e[1]].met[e[2]] = 0
<1> DEFINE search == RematchFree(f)
           Good(S) == \A M \in search[S] : Perfect(M, S) /\ \A e \in M : f[e[1]].met[e[2]] = 0
           Bad == {Cardinality(S) : S \in {T \in SUBSET Players : ~ Good(T)}}
<1>1. Bad = {}
  <2>1. SUFFICES ASSUME Bad # {}  PROVE FALSE
    OBVIOUS
  <2>2. PICK k \in Bad : \A l \in Bad : k <= l
    <3>1. Bad \in SUBSET Nat
      BY FinitePlayers
    <3> HIDE DEF Bad
    <3> QED  BY <2>1, <3>1, Smallest
  <2>3. PICK S \in SUBSET Players : ~ Good(S) /\ k = Cardinality(S)
    BY <2>2
  <2>4. ASSUME NEW T \in SUBSET Players, Cardinality(T) < Cardinality(S)  PROVE Good(T)
    <3>1. Cardinality(T) \in Nat /\ Cardinality(S) \in Nat
      BY FinitePlayers
    <3>2. ~ Good(T) => Cardinality(T) \in Bad
      OBVIOUS
    <3> HIDE DEF Good, Bad
    <3> QED  BY <2>2, <2>3, <2>4, <3>1, <3>2
  <2>5. search[S] = SearchStep(f, search, S)
    BY SearchExists
  <2>6. ASSUME NEW M \in search[S]
        PROVE  Perfect(M, S) /\ \A e \in M : f[e[1]].met[e[2]] = 0
    <3>1. CASE S = {}
      <4>1. M = {}
        BY <2>5, <2>6, <3>1 DEF SearchStep
      <4> QED  BY <3>1, <4>1, NoOnePaired
    <3>2. CASE S # {}
      <4> HIDE DEF search
      <4>8. Chosen(f, search, S, M)
        BY <2>6, <3>2, SearchFinds DEF search
      <4>1. PICK u \in S : \E v \in S \ {u} :
                /\ f[u].met[v] = 0
                /\ \E rest \in search[S \ {u, v}] : M = {<<u, v>>} \union rest
        BY <4>8 DEF Chosen
      <4>7. PICK v \in S \ {u} :
                /\ f[u].met[v] = 0
                /\ \E rest \in search[S \ {u, v}] : M = {<<u, v>>} \union rest
        BY <4>1
      <4>2. PICK rest \in search[S \ {u, v}] : M = {<<u, v>>} \union rest
        BY <4>7
      <4>3. Good(S \ {u, v})
        <5>1. S \ {u, v} \in SUBSET Players /\ S \ {u, v} \in SUBSET (S \ {u})
          OBVIOUS
        <5>2. Cardinality(S \ {u, v}) < Cardinality(S)
          BY <5>1, PartIsLess
        <5> HIDE DEF Good
        <5> QED  BY <2>4, <5>1, <5>2
      <4>4. Perfect(rest, S \ {u, v}) /\ \A e \in rest : f[e[1]].met[e[2]] = 0
        BY <4>2, <4>3
      <4>5. Perfect(M, S)
        BY <4>7, <4>2, <4>4, PairAdds
      <4>6. \A e \in M : f[e[1]].met[e[2]] = 0
        BY <4>7, <4>2, <4>4
      <4> QED  BY <4>5, <4>6
    <3> QED  BY <3>1, <3>2
  <2> QED  BY <2>3, <2>6
<1>2. \A S \in SUBSET Players : Good(S)
  <2> HIDE DEF Good
  <2> QED  BY <1>1
<1> QED  BY <1>2

(* partner is a way to give everybody of S an opponent whom they have not met. *)
Partners(f, S, partner) ==
  /\ partner \in [S -> S]
  /\ \A p \in S : partner[p] # p /\ partner[partner[p]] = p /\ f[p].met[partner[p]] = 0

LEMMA PartnersOfTheRest ==
  ASSUME NEW f, NEW S, NEW partner, Partners(f, S, partner), NEW u \in S
  PROVE  Partners(f, S \ {u, partner[u]}, [p \in S \ {u, partner[u]} |-> partner[p]])
<1> DEFINE T == S \ {u, partner[u]}
           other == [p \in T |-> partner[p]]
<1>1. ASSUME NEW p \in T  PROVE partner[p] \in T
  <2>1. p \in S /\ partner[p] \in S /\ partner[u] \in S
    BY DEF Partners
  <2>2. partner[p] # u
    BY <2>1 DEF Partners
  <2>3. partner[p] # partner[u]
    BY <2>1 DEF Partners
  <2> QED  BY <2>1, <2>2, <2>3
<1>2. other \in [T -> T]
  BY <1>1
<1>3. ASSUME NEW p \in T
      PROVE  other[p] # p /\ other[other[p]] = p /\ f[p].met[other[p]] = 0
  <2>1. other[p] = partner[p] /\ other[partner[p]] = partner[partner[p]]
    BY <1>1
  <2> HIDE DEF other
  <2> QED  BY <2>1 DEF Partners
<1> HIDE DEF other
<1>4. Partners(f, T, other)
  <2> HIDE DEF T
  <2> QED  BY <1>2, <1>3 DEF Partners
<1> QED  BY <1>4 DEF other

(* If there is a pairing without a rematch, the search finds one. *)
LEMMA SearchComplete ==
  ASSUME setup.n \in Nat, NEW f, Known(f)
  PROVE  \A S \in SUBSET Players : (\E partner : Partners(f, S, partner)) => RematchFree(f)[S] # {}
<1> DEFINE search == RematchFree(f)
           Good(S) == (\E partner : Partners(f, S, partner)) => search[S] # {}
           Bad == {Cardinality(S) : S \in {T \in SUBSET Players : ~ Good(T)}}
<1>1. Bad = {}
  <2>1. SUFFICES ASSUME Bad # {}  PROVE FALSE
    OBVIOUS
  <2>2. PICK k \in Bad : \A l \in Bad : k <= l
    <3>1. Bad \in SUBSET Nat
      BY FinitePlayers
    <3> HIDE DEF Bad
    <3> QED  BY <2>1, <3>1, Smallest
  <2>3. PICK S \in SUBSET Players : ~ Good(S) /\ k = Cardinality(S)
    BY <2>2
  <2>4. ASSUME NEW T \in SUBSET Players, Cardinality(T) < Cardinality(S)  PROVE Good(T)
    <3>1. Cardinality(T) \in Nat /\ Cardinality(S) \in Nat
      BY FinitePlayers
    <3>2. ~ Good(T) => Cardinality(T) \in Bad
      OBVIOUS
    <3> HIDE DEF Good, Bad
    <3> QED  BY <2>2, <2>3, <2>4, <3>1, <3>2
  <2>5. search[S] = SearchStep(f, search, S)
    BY SearchExists
  <2>6. search[S] = {}
    BY <2>3
  <2>7. PICK partner : Partners(f, S, partner)
    BY <2>3
  <2> HIDE DEF search
  <2>8. S # {}
    BY <2>5, <2>6 DEF SearchStep
  <2> DEFINE u == Strongest(f, S)
             good == {v \in Unmet(f, u, S) : search[S \ {u, v}] # {}}
             first == First([v \in good |-> ClosenessKey(f, u, v)])
  <2>9. u \in S
    BY <2>8, StrongestIs
  <2>10. partner[u] \in good
    <3> HIDE DEF u
    <3>1. S \ {u, partner[u]} \in SUBSET Players /\ S \ {u, partner[u]} \in SUBSET (S \ {u})
      OBVIOUS
    <3>2. Cardinality(S \ {u, partner[u]}) < Cardinality(S)
      BY <2>9, <3>1, PartIsLess
    <3>3. \E other : Partners(f, S \ {u, partner[u]}, other)
      BY <2>7, <2>9, PartnersOfTheRest
    <3>4. Good(S \ {u, partner[u]})
      <4> HIDE DEF Good
      <4> QED  BY <2>4, <3>1, <3>2
    <3>5. search[S \ {u, partner[u]}] # {}
      BY <3>3, <3>4
    <3>6. partner[u] \in Unmet(f, u, S)
      BY <2>7, <2>9 DEF Partners, Unmet
    <3> QED  BY <3>5, <3>6
  <2>11. first \in good
    <3>1. good \in SUBSET Players
      BY DEF Unmet
    <3>2. u \in Players
      BY <2>9
    <3>3. good # {}
      BY <2>10
    <3> HIDE DEF good, u
    <3> QED  BY <3>1, <3>2, <3>3, ClosestIs
  <2>12. search[S \ {u, first}] # {}
    <3> HIDE DEF first
    <3> QED  BY <2>11
  <2>13. SearchStep(f, search, S) = IF good = {} THEN {} ELSE
          {{<<u, first>>} \union rest : rest \in search[S \ {u, first}]}
    BY <2>8 DEF SearchStep
  <2> HIDE DEF good, u, first
  <2>14. good # {}
    BY <2>10
  <2>15. PICK rest : rest \in search[S \ {u, first}]
    BY <2>12
  <2>16. {<<u, first>>} \union rest \in SearchStep(f, search, S)
    BY <2>13, <2>14, <2>15
  <2> QED  BY <2>5, <2>6, <2>16
<1>2. \A S \in SUBSET Players : Good(S)
  <2> HIDE DEF Good
  <2> QED  BY <1>1
<1> QED  BY <1>2

Even(k) == \E h \in Nat : k = h + h

(* The fallback pairs any even pool. *)
LEMMA GreedySound ==
  ASSUME setup.n \in Nat, NEW f, Known(f)
  PROVE  \A S \in SUBSET Players : Even(Cardinality(S)) => Perfect(GreedyFallback(f)[S], S)
<1> DEFINE greedy == GreedyFallback(f)
           Good(S) == Even(Cardinality(S)) => Perfect(greedy[S], S)
           Bad == {Cardinality(S) : S \in {T \in SUBSET Players : ~ Good(T)}}
<1>1. Bad = {}
  <2>1. SUFFICES ASSUME Bad # {}  PROVE FALSE
    OBVIOUS
  <2>2. PICK k \in Bad : \A l \in Bad : k <= l
    <3>1. Bad \in SUBSET Nat
      BY FinitePlayers
    <3> HIDE DEF Bad
    <3> QED  BY <2>1, <3>1, Smallest
  <2>3. PICK S \in SUBSET Players : ~ Good(S) /\ k = Cardinality(S)
    BY <2>2
  <2>4. ASSUME NEW T \in SUBSET Players, Cardinality(T) < Cardinality(S)  PROVE Good(T)
    <3>1. Cardinality(T) \in Nat /\ Cardinality(S) \in Nat
      BY FinitePlayers
    <3>2. ~ Good(T) => Cardinality(T) \in Bad
      OBVIOUS
    <3> HIDE DEF Good, Bad
    <3> QED  BY <2>2, <2>3, <2>4, <3>1, <3>2
  <2>5. greedy[S] = GreedyStep(f, greedy, S)
    BY GreedyExists
  <2>6. Even(Cardinality(S)) /\ ~ Perfect(greedy[S], S)
    BY <2>3
  <2> HIDE DEF greedy
  <2>7. S # {}
    <3>1. S = {} => greedy[S] = {}
      BY <2>5 DEF GreedyStep
    <3> QED  BY <2>6, <3>1, NoOnePaired
  <2> DEFINE u == Strongest(f, S)
             first == First([v \in S \ {u} |-> GreedyKey(f, u, v)])
  <2>8. u \in S
    BY <2>7, StrongestIs
  <2>9. /\ Cardinality(S) \in Nat /\ IsFiniteSet(S \ {u}) /\ Cardinality(S \ {u}) = Cardinality(S) - 1
    <3>1. IsFiniteSet(S) /\ Cardinality(S) \in Nat
      BY FinitePlayers
    <3> HIDE DEF u
    <3> QED  BY <2>8, <3>1, FS_RemoveElement
  <2>10. S \ {u} # {}
    <3>1. Cardinality(S) # 1
      BY <2>6 DEF Even
    <3>2. Cardinality(S \ {u}) # 0
      BY <2>9, <3>1
    <3> HIDE DEF u
    <3> QED  BY <3>2, FS_EmptySet
  <2>11. first \in S \ {u}
    <3>1. u \in Players /\ S \ {u} \in SUBSET Players
      BY <2>8
    <3> HIDE DEF u
    <3> QED  BY <2>10, <3>1, GreedyPickIs
  <2> DEFINE T == S \ {u, first}
  <2>12. greedy[S] = {<<u, first>>} \union greedy[T]
    BY <2>5, <2>7 DEF GreedyStep
  <2> HIDE DEF u, first
  <2>13. Cardinality(T) = Cardinality(S) - 2
    <3>1. T = (S \ {u}) \ {first}
      OBVIOUS
    <3>2. Cardinality((S \ {u}) \ {first}) = Cardinality(S \ {u}) - 1
      BY <2>9, <2>11, FS_RemoveElement
    <3> QED  BY <2>9, <3>1, <3>2
  <2>14. Even(Cardinality(T))
    <3>1. PICK h \in Nat : Cardinality(S) = h + h
      BY <2>6 DEF Even
    <3>2. h # 0
      <4>1. Cardinality(S) # 0
        BY <2>7, FinitePlayers, FS_EmptySet
      <4> QED  BY <3>1, <4>1
    <3>3. h - 1 \in Nat /\ Cardinality(T) = (h - 1) + (h - 1)
      BY <2>13, <3>1, <3>2
    <3> QED  BY <3>3 DEF Even
  <2>15. Perfect(greedy[T], T)
    <3>1. T \in SUBSET Players
      OBVIOUS
    <3>2. Cardinality(T) < Cardinality(S)
      BY <2>9, <2>13
    <3>3. Good(T)
      <4> HIDE DEF Good, T
      <4> QED  BY <2>4, <3>1, <3>2
    <3> HIDE DEF T
    <3> QED  BY <2>14, <3>3
  <2>16. Perfect({<<u, first>>} \union greedy[T], S)
    BY <2>8, <2>11, <2>15, PairAdds
  <2> QED  BY <2>6, <2>12, <2>16
<1>2. \A S \in SUBSET Players : Good(S)
  <2> HIDE DEF Good
  <2> QED  BY <1>1
<1> QED  BY <1>2

-----------------------------------------------------------------------------
(* A round of the Swiss format.                                              *)

LEMMA Parity ==
  ASSUME NEW n \in Nat \ {0}
  PROVE  /\ n % 2 = 1 => Even(n - 1) /\ Even(n + 1)
         /\ n % 2 # 1 => Even(n)
<1>1. n \div 2 \in Nat /\ n % 2 \in 0..1 /\ n = 2 * (n \div 2) + (n % 2)
  OBVIOUS
<1> DEFINE h == n \div 2
<1>2. n % 2 = 1 => n - 1 = h + h /\ n + 1 = (h + 1) + (h + 1) /\ h + 1 \in Nat
  BY <1>1
<1>3. n % 2 # 1 => n = h + h
  BY <1>1
<1>4. h \in Nat
  BY <1>1
<1> HIDE DEF h
<1> QED  BY <1>2, <1>3, <1>4 DEF Even

(* Everybody sits at one board or is free, and the number of the free is 1 or 0. *)
Seats(pairs, free) ==
  /\ IsFiniteSet(pairs) /\ free \in SUBSET Players
  /\ Perfect(pairs, Players \ free)
  /\ IF Odd THEN \E b : free = {b} ELSE free = {}

LEMMA ReSeated ==
  ASSUME NEW S, NEW M, Perfect(M, S), NEW seat,
         \A e \in M : seat[e] = e \/ seat[e] = <<e[2], e[1]>>
  PROVE  Perfect({seat[e] : e \in M}, S)
<1> DEFINE N == {seat[e] : e \in M}
<1>1. \A e \in M : e \in S \X S /\ e[1] \in S /\ e[2] \in S /\ e[1] # e[2]
  BY DEF Perfect
<1>2. \A e \in M : /\ seat[e] \in S \X S /\ seat[e][1] # seat[e][2]
                   /\ {seat[e][1], seat[e][2]} = {e[1], e[2]}
  <2>1. ASSUME NEW e \in M
        PROVE  /\ seat[e] \in S \X S /\ seat[e][1] # seat[e][2]
               /\ {seat[e][1], seat[e][2]} = {e[1], e[2]}
    <3>1. CASE seat[e] = e
      BY <1>1, <3>1
    <3>2. CASE seat[e] = <<e[2], e[1]>>
      BY <1>1, <3>2
    <3> QED  BY <3>1, <3>2
  <2> QED  BY <2>1
<1>3. N \in SUBSET (S \X S) /\ \A x \in N : x[1] # x[2]
  BY <1>2
<1>4. ASSUME NEW p \in S  PROVE \E x \in N : p \in {x[1], x[2]}
  <2>1. PICK e \in M : p \in {e[1], e[2]}
    BY DEF Perfect
  <2>2. seat[e] \in N /\ p \in {seat[e][1], seat[e][2]}
    BY <1>2, <2>1
  <2> HIDE DEF N
  <2> QED  BY <2>2
<1>5. ASSUME NEW x \in N, NEW y \in N, NEW p \in S, p \in {x[1], x[2]}, p \in {y[1], y[2]}
      PROVE  x = y
  <2>1. PICK d \in M : x = seat[d]
    OBVIOUS
  <2>2. PICK e \in M : y = seat[e]
    OBVIOUS
  <2>3. p \in {d[1], d[2]} /\ p \in {e[1], e[2]}
    BY <1>2, <1>5, <2>1, <2>2
  <2>4. d = e
    BY <2>3 DEF Perfect
  <2> QED  BY <2>1, <2>2, <2>4
<1> HIDE DEF N
<1>6. Perfect(N, S)
  BY <1>3, <1>4, <1>5 DEF Perfect
<1> QED  BY <1>6 DEF N

LEMMA FinitePairs ==
  ASSUME setup.n \in Nat, NEW S \in SUBSET Players, NEW M, Perfect(M, S)
  PROVE  IsFiniteSet(M)
<1>1. IsFiniteSet(S \X S)
  BY FinitePlayers, FS_Product
<1>2. M \in SUBSET (S \X S)
  BY DEF Perfect
<1> QED  BY <1>1, <1>2, FS_Subset

LEMMA MatchingIs ==
  ASSUME setup.n \in Nat, NEW f, Known(f), NEW S \in SUBSET Players, Even(Cardinality(S)),
         NEW givesUp \in BOOLEAN
  PROVE  /\ Perfect(Matching(f, S, givesUp), S)
         /\ \/ \A e \in Matching(f, S, givesUp) : f[e[1]].met[e[2]] = 0
            \/ givesUp
            \/ ~ \E partner : Partners(f, S, partner)
<1> DEFINE found == IF givesUp THEN {} ELSE RematchFree(f)[S]
           M == Matching(f, S, givesUp)
<1>1. M = IF found # {} THEN CHOOSE m \in found : TRUE ELSE GreedyFallback(f)[S]
  BY DEF Matching
<1>2. CASE found # {}
  <2>1. M \in RematchFree(f)[S]
    BY <1>1, <1>2
  <2> HIDE DEF M
  <2>2. Perfect(M, S) /\ \A e \in M : f[e[1]].met[e[2]] = 0
    BY <2>1, SearchSound
  <2> QED  BY <2>2 DEF M
<1>3. CASE found = {}
  <2>1. Perfect(M, S)
    BY <1>1, <1>3, GreedySound
  <2>2. givesUp \/ RematchFree(f)[S] = {}
    BY <1>3
  <2>3. givesUp \/ ~ \E partner : Partners(f, S, partner)
    BY <2>2, SearchComplete
  <2> QED  BY <2>1, <2>3
<1> QED  BY <1>2, <1>3

(* The games of a Swiss round: who meets, who is free, who has which seat. *)
LEMMA SwissRoundIs ==
  ASSUME setup.n \in Nat \ {0}, NEW f, Known(f), NEW givesUp \in BOOLEAN
  PROVE  LET next == SwissRound(f, givesUp)
         IN  /\ next.byes = FairBye(f)
             /\ Seats(next.pairs, next.byes)
             /\ \A e \in next.pairs : f[e[1]].balance <= f[e[2]].balance
             /\ \/ \A e \in next.pairs : f[e[1]].met[e[2]] = 0 \/ f[e[2]].met[e[1]] = 0
                \/ givesUp
                \/ ~ \E partner : Partners(f, Players \ next.byes, partner)
<1> DEFINE bye == FairBye(f)
           pool == Players \ bye
           matched == Matching(f, pool, givesUp)
           Seated(e) == IF TakesA(f[e[1]], f[e[2]], ScheduleIndex(f, matched, e))
                        THEN e ELSE <<e[2], e[1]>>
           seat == [e \in matched |-> Seated(e)]
           pairs == {seat[e] : e \in matched}
<1>1. /\ bye \in SUBSET Players
      /\ IF Odd THEN \E b \in Players : bye = {b} ELSE bye = {}
  BY FairByeIs
<1>2. Even(Cardinality(pool))
  <2>1. CASE Odd
    <3>1. PICK b \in Players : bye = {b}
      BY <1>1, <2>1
    <3>2. Cardinality(Players \ {b}) = setup.n - 1
      BY FinitePlayers, FS_RemoveElement
    <3> HIDE DEF bye
    <3> QED  BY <2>1, <3>1, <3>2, Parity DEF Odd
  <2>2. CASE ~ Odd
    <3>1. pool = Players
      BY <1>1, <2>2
    <3> HIDE DEF pool
    <3> QED  BY <2>2, <3>1, FinitePlayers, Parity DEF Odd
  <2> QED  BY <2>1, <2>2
<1>3. pool \in SUBSET Players
  OBVIOUS
<1> HIDE DEF bye, pool
<1>4. /\ Perfect(matched, pool)
      /\ \/ \A e \in matched : f[e[1]].met[e[2]] = 0
         \/ givesUp
         \/ ~ \E partner : Partners(f, pool, partner)
  BY <1>2, <1>3, MatchingIs
<1> HIDE DEF matched
<1>5. \A e \in matched : seat[e] = Seated(e)
  OBVIOUS
<1>6. \A e \in matched : seat[e] = e \/ seat[e] = <<e[2], e[1]>>
  BY <1>5
<1>7. {Seated(e) : e \in matched} = pairs
  BY <1>5
<1> HIDE DEF seat
<1>8. Perfect(pairs, pool)
  BY <1>4, <1>6, ReSeated
<1>9. Seats(pairs, bye)
  <2> HIDE DEF pairs
  <2>1. IsFiniteSet(pairs)
    BY <1>3, <1>8, FinitePairs
  <2> QED  BY <1>1, <1>8, <2>1 DEF Seats, pool
<1>10. ASSUME NEW e \in matched  PROVE f[seat[e][1]].balance <= f[seat[e][2]].balance
  <2>1. e[1] \in Players /\ e[2] \in Players /\ e = <<e[1], e[2]>>
    BY <1>3, <1>4 DEF Perfect
  <2>2. f[e[1]].balance \in Int /\ f[e[2]].balance \in Int
    BY <2>1 DEF Known
  <2> DEFINE i == ScheduleIndex(f, matched, e)
  <2>3. CASE TakesA(f[e[1]], f[e[2]], i)
    <3>1. seat[e] = e
      BY <1>5, <2>3
    <3>2. f[e[1]].balance <= f[e[2]].balance
      <4> HIDE DEF i
      <4> QED  BY <2>2, <2>3 DEF TakesA
    <3> QED  BY <3>1, <3>2
  <2>4. CASE ~ TakesA(f[e[1]], f[e[2]], i)
    <3>1. seat[e] = <<e[2], e[1]>>
      BY <1>5, <2>4
    <3>2. f[e[2]].balance <= f[e[1]].balance
      <4> HIDE DEF i
      <4> QED  BY <2>2, <2>4 DEF TakesA
    <3> QED  BY <3>1, <3>2
  <2> QED  BY <2>3, <2>4
<1>11. \A x \in pairs : f[x[1]].balance <= f[x[2]].balance
  BY <1>10
<1>12. \/ \A x \in pairs : f[x[1]].met[x[2]] = 0 \/ f[x[2]].met[x[1]] = 0
       \/ givesUp
       \/ ~ \E partner : Partners(f, pool, partner)
  <2>1. CASE \A e \in matched : f[e[1]].met[e[2]] = 0
    <3>1. ASSUME NEW x \in pairs  PROVE f[x[1]].met[x[2]] = 0 \/ f[x[2]].met[x[1]] = 0
      <4>1. PICK e \in matched : x = seat[e]
        OBVIOUS
      <4>2. f[e[1]].met[e[2]] = 0
        BY <2>1
      <4>3. x = e \/ x = <<e[2], e[1]>>
        BY <1>6, <4>1
      <4> QED  BY <4>2, <4>3
    <3> QED  BY <3>1
  <2> HIDE DEF pairs
  <2> QED  BY <1>4, <2>1
<1>13. SwissRound(f, givesUp) = [pairs |-> {Seated(e) : e \in matched}, byes |-> bye]
  BY DEF SwissRound, bye, matched, pool
<1>14. SwissRound(f, givesUp) = [pairs |-> pairs, byes |-> bye]
  BY <1>7, <1>13
<1> HIDE DEF pairs
<1>15. SwissRound(f, givesUp).pairs = pairs /\ SwissRound(f, givesUp).byes = bye
  BY <1>14
<1> QED  BY <1>9, <1>11, <1>12, <1>15 DEF bye, pool

-----------------------------------------------------------------------------
(* Berger's circle after r turns: who sits where, and who meets whom.        *)

LEMMA CircleSizeIs ==
  ASSUME setup.n \in Nat \ {0, 1}
  PROVE  /\ CircleSize \in Nat /\ CircleSize >= 2 /\ Even(CircleSize)
         /\ Odd => CircleSize = setup.n + 1
         /\ ~Odd => CircleSize = setup.n
<1>1. setup.n \in Nat \ {0}
  OBVIOUS
<1>2. /\ Odd => Even(setup.n + 1)
      /\ ~Odd => Even(setup.n)
  BY <1>1, Parity DEF Odd
<1> QED  BY <1>2 DEF CircleSize

(* The number at place j, the name that goes with it, and the place of a number. *)
Sits(r, j) == IF j = 1 THEN 1 ELSE IF j - r >= 2 THEN j - r ELSE j - r + (CircleSize - 1)
Named(s) == IF s > setup.n THEN Nobody ELSE s
Place(r, p) == IF p = 1 THEN 1 ELSE IF p + r <= CircleSize THEN p + r ELSE p + r - (CircleSize - 1)
Turned(r) == [j \in 1..CircleSize |-> Named(Sits(r, j))]

LEMMA TurnedOnce ==
  ASSUME setup.n \in Nat \ {0, 1}, NEW r \in 1..(CircleSize - 2)
  PROVE  Rotate(Turned(r - 1)) = Turned(r)
<1> DEFINE m == CircleSize
           c == Turned(r - 1)
<1>1. m \in Nat /\ m >= 2
  BY CircleSizeIs
<1>2. \A j \in 1..m : c[j] = Named(Sits(r - 1, j))
  BY DEF Turned
<1>3. c[1] = Named(Sits(r, 1))
  BY <1>1, <1>2 DEF Sits
<1>4. c[m] = Named(Sits(r, 2))
  <2>1. Sits(r - 1, m) = Sits(r, 2)
    BY <1>1 DEF Sits
  <2> QED  BY <1>1, <1>2, <2>1
<1>5. ASSUME NEW j \in 1..m, j # 1, j # 2  PROVE c[j - 1] = Named(Sits(r, j))
  <2>1. Sits(r - 1, j - 1) = Sits(r, j)
    BY <1>1, <1>5 DEF Sits
  <2>2. j - 1 \in 1..m
    BY <1>1, <1>5
  <2> QED  BY <1>2, <2>1, <2>2
<1> HIDE DEF c
<1>6. Rotate(c) = [j \in 1..m |-> Named(Sits(r, j))]
  BY <1>3, <1>4, <1>5 DEF Rotate
<1> QED  BY <1>6 DEF Turned, c

LEMMA CircleIs ==
  ASSUME setup.n \in Nat \ {0, 1}, NEW steps \in 0..(CircleSize - 2)
  PROVE  Circle(steps) = Turned(steps)
<1> DEFINE Fits(x) == x = [r \in 0..steps |-> IF r = 0 THEN Seating ELSE Rotate(x[r - 1])]
           g == [r \in 0..steps |-> Turned(r)]
           at == CHOOSE x : Fits(x)
<1>1. CircleSize \in Nat /\ CircleSize >= 2
  BY CircleSizeIs
<1>2. Seating = Turned(0)
  <2>1. \A j \in 1..CircleSize : Sits(0, j) = j
    BY <1>1 DEF Sits
  <2> QED  BY <2>1 DEF Seating, Turned, Named
<1>3. ASSUME NEW r \in 0..steps, r # 0  PROVE r - 1 \in 0..steps /\ r \in 1..(CircleSize - 2)
  BY <1>1, <1>3
<1>4. Fits(g)
  <2>1. \A r \in 0..steps : Turned(r) = IF r = 0 THEN Seating ELSE Rotate(g[r - 1])
    <3>1. ASSUME NEW r \in 0..steps, r # 0  PROVE Turned(r) = Rotate(g[r - 1])
      <4>1. g[r - 1] = Turned(r - 1)
        BY <1>3, <3>1
      <4> HIDE DEF g
      <4> QED  BY <1>3, <3>1, <4>1, TurnedOnce
    <3> QED  BY <1>2, <3>1
  <2> QED  BY <2>1
<1>5. Fits(at)
  BY <1>4
<1>6. Circle(steps) = at[steps]
  BY DEF Circle
<1> HIDE DEF at
<1> DEFINE Bad == {r \in 0..steps : at[r] # Turned(r)}
<1>7. Bad = {}
  <2>1. SUFFICES ASSUME Bad # {}  PROVE FALSE
    OBVIOUS
  <2>2. PICK r \in Bad : \A s \in Bad : r <= s
    <3>1. Bad \in SUBSET Nat
      OBVIOUS
    <3> HIDE DEF Bad
    <3> QED  BY <2>1, <3>1, Smallest
  <2>3. at[r] = IF r = 0 THEN Seating ELSE Rotate(at[r - 1])
    BY <1>5, <2>2
  <2>4. r # 0
    BY <1>2, <2>2, <2>3
  <2>5. r - 1 \in 0..steps /\ r \in 1..(CircleSize - 2)
    BY <1>3, <2>2, <2>4
  <2>6. at[r - 1] = Turned(r - 1)
    BY <2>2, <2>5
  <2>7. at[r] = Turned(r)
    BY <2>3, <2>4, <2>5, <2>6, TurnedOnce
  <2> QED  BY <2>2, <2>7
<1>8. steps \in 0..steps
  BY <1>1
<1> QED  BY <1>6, <1>7, <1>8

(* The pairs of the circle, by number. *)
Boards == {k \in 0..(CircleSize - 1) : 2 * k < CircleSize}
Met(r, i) == IF (i + r) % 2 = 0 THEN <<Sits(r, i + 1), Sits(r, CircleSize - i)>>
                                ELSE <<Sits(r, CircleSize - i), Sits(r, i + 1)>>
Numbers(r) == {Met(r, i) : i \in Boards}
ByName(M) == {<<Named(e[1]), Named(e[2])>> : e \in M}

LEMMA CirclePairsAre ==
  ASSUME setup.n \in Nat \ {0, 1}, NEW r \in 0..(CircleSize - 2)
  PROVE  CirclePairs(r) = ByName(Numbers(r))
<1> DEFINE c == Circle(r)
           Meet(p, q, i) == IF (i + r) % 2 = 0 THEN <<p, q>> ELSE <<q, p>>
<1>1. CircleSize \in Nat /\ CircleSize >= 2
  BY CircleSizeIs
<1>2. c = Turned(r)
  BY CircleIs
<1> HIDE DEF c
<1>3. CirclePairs(r) = {Meet(c[i + 1], c[CircleSize - i], i) : i \in Boards}
  BY DEF CirclePairs, c, Boards
<1>4. ASSUME NEW i \in Boards
      PROVE  Meet(c[i + 1], c[CircleSize - i], i) = <<Named(Met(r, i)[1]), Named(Met(r, i)[2])>>
  <2>1. i + 1 \in 1..CircleSize /\ CircleSize - i \in 1..CircleSize
    BY <1>1 DEF Boards
  <2>2. /\ c[i + 1] = Named(Sits(r, i + 1))
        /\ c[CircleSize - i] = Named(Sits(r, CircleSize - i))
    BY <1>2, <2>1 DEF Turned
  <2>3. CASE (i + r) % 2 = 0
    BY <2>2, <2>3 DEF Met
  <2>4. CASE (i + r) % 2 # 0
    BY <2>2, <2>4 DEF Met
  <2> QED  BY <2>3, <2>4
<1> HIDE DEF Meet
<1>5. CirclePairs(r) = {<<Named(Met(r, i)[1]), Named(Met(r, i)[2])>> : i \in Boards}
  BY <1>3, <1>4
<1> QED  BY <1>5 DEF ByName, Numbers

LEMMA PlacesAre ==
  ASSUME setup.n \in Nat \ {0, 1}, NEW r \in 0..(CircleSize - 2), NEW p \in 1..CircleSize
  PROVE  /\ Place(r, p) \in 1..CircleSize /\ Sits(r, Place(r, p)) = p
         /\ Sits(r, p) \in 1..CircleSize /\ Place(r, Sits(r, p)) = p
<1>1. CircleSize \in Nat /\ CircleSize >= 2
  BY CircleSizeIs
<1> QED  BY <1>1 DEF Place, Sits

(* Who meets in a turn are those whose places add up to the size and one. *)
LEMMA MetIs ==
  ASSUME setup.n \in Nat \ {0, 1}, NEW r \in 0..(CircleSize - 2), NEW i \in Boards,
         NEW p \in 1..CircleSize
  PROVE  p \in {Met(r, i)[1], Met(r, i)[2]} <=> Place(r, p) \in {i + 1, CircleSize - i}
<1>1. CircleSize \in Nat /\ CircleSize >= 2
  BY CircleSizeIs
<1>2. i + 1 \in 1..CircleSize /\ CircleSize - i \in 1..CircleSize
  BY <1>1 DEF Boards
<1>3. {Met(r, i)[1], Met(r, i)[2]} = {Sits(r, i + 1), Sits(r, CircleSize - i)}
  BY DEF Met
<1>4. /\ Place(r, Sits(r, i + 1)) = i + 1
      /\ Place(r, Sits(r, CircleSize - i)) = CircleSize - i
      /\ Sits(r, Place(r, p)) = p
  BY <1>2, PlacesAre
<1> QED  BY <1>3, <1>4

LEMMA NumbersPerfect ==
  ASSUME setup.n \in Nat \ {0, 1}, NEW r \in 0..(CircleSize - 2)
  PROVE  Perfect(Numbers(r), 1..CircleSize)
<1> DEFINE m == CircleSize
<1>1. m \in Nat /\ m >= 2 /\ Even(m)
  BY CircleSizeIs
<1>2. PICK h \in Nat : m = h + h
  BY <1>1 DEF Even
<1>3. ASSUME NEW i \in Boards
      PROVE  /\ i \in Nat /\ i < h /\ i + 1 \in 1..m /\ m - i \in 1..m /\ i + 1 # m - i
  BY <1>1, <1>2 DEF Boards
<1>4. ASSUME NEW i \in Boards
      PROVE  Met(r, i) \in (1..m) \X (1..m) /\ Met(r, i)[1] # Met(r, i)[2]
  <2>1. /\ Sits(r, i + 1) \in 1..m /\ Place(r, Sits(r, i + 1)) = i + 1
        /\ Sits(r, m - i) \in 1..m /\ Place(r, Sits(r, m - i)) = m - i
    BY <1>3, PlacesAre
  <2>2. Sits(r, i + 1) # Sits(r, m - i)
    BY <1>3, <2>1
  <2> QED  BY <2>1, <2>2 DEF Met
<1>5. ASSUME NEW p \in 1..m  PROVE \E e \in Numbers(r) : p \in {e[1], e[2]}
  <2> DEFINE j == Place(r, p)
             i == IF 2 * (j - 1) < m THEN j - 1 ELSE m - j
  <2>1. j \in 1..m
    BY PlacesAre
  <2>2. i \in Boards /\ j \in {i + 1, m - i}
    <3> HIDE DEF j
    <3> QED  BY <1>1, <1>2, <2>1 DEF Boards
  <2>3. p \in {Met(r, i)[1], Met(r, i)[2]}
    <3> HIDE DEF i
    <3> QED  BY <2>2, MetIs
  <2> HIDE DEF i
  <2> QED  BY <2>2, <2>3 DEF Numbers
<1>6. ASSUME NEW i \in Boards, NEW k \in Boards, NEW p \in 1..m,
             p \in {Met(r, i)[1], Met(r, i)[2]}, p \in {Met(r, k)[1], Met(r, k)[2]}
      PROVE  i = k
  <2>1. Place(r, p) \in {i + 1, m - i} /\ Place(r, p) \in {k + 1, m - k}
    BY <1>6, MetIs
  <2>2. i \in Nat /\ k \in Nat /\ i < h /\ k < h
    BY <1>3
  <2> QED  BY <1>2, <2>1, <2>2
<1>7. \A d, e \in Numbers(r) : \A p \in 1..m : p \in {d[1], d[2]} /\ p \in {e[1], e[2]} => d = e
  <2>1. ASSUME NEW d \in Numbers(r), NEW e \in Numbers(r), NEW p \in 1..m,
               p \in {d[1], d[2]}, p \in {e[1], e[2]}
        PROVE  d = e
    <3>1. PICK i \in Boards : d = Met(r, i)
      BY DEF Numbers
    <3>2. PICK k \in Boards : e = Met(r, k)
      BY DEF Numbers
    <3>3. i = k
      BY <1>6, <2>1, <3>1, <3>2
    <3> QED  BY <3>1, <3>2, <3>3
  <2> QED  BY <2>1
<1>8. Numbers(r) \in SUBSET ((1..m) \X (1..m)) /\ \A e \in Numbers(r) : e[1] # e[2]
  BY <1>4 DEF Numbers
<1> QED  BY <1>5, <1>7, <1>8 DEF Perfect

LEMMA MeetIs ==
  ASSUME setup.n \in Nat \ {0, 1}, NEW r \in 0..(CircleSize - 2),
         NEW p \in 1..CircleSize, NEW q \in 1..CircleSize, p # q
  PROVE  (<<p, q>> \in Numbers(r) \/ <<q, p>> \in Numbers(r))
            <=> Place(r, p) + Place(r, q) = CircleSize + 1
<1> DEFINE m == CircleSize
<1>1. m \in Nat /\ m >= 2 /\ Even(m)
  BY CircleSizeIs
<1>2. PICK h \in Nat : m = h + h
  BY <1>1 DEF Even
<1>3. Place(r, p) \in 1..m /\ Place(r, q) \in 1..m /\ Place(r, p) # Place(r, q)
  <2>1. /\ Place(r, p) \in 1..m /\ Place(r, q) \in 1..m
        /\ Sits(r, Place(r, p)) = p /\ Sits(r, Place(r, q)) = q
    BY PlacesAre
  <2> QED  BY <2>1
<1>4. ASSUME <<p, q>> \in Numbers(r) \/ <<q, p>> \in Numbers(r)
      PROVE  Place(r, p) + Place(r, q) = m + 1
  <2>1. PICK i \in Boards : Met(r, i) = <<p, q>> \/ Met(r, i) = <<q, p>>
    BY <1>4 DEF Numbers
  <2>2. Place(r, p) \in {i + 1, m - i} /\ Place(r, q) \in {i + 1, m - i}
    BY <2>1, MetIs
  <2>3. i \in Int
    BY DEF Boards
  <2> QED  BY <1>1, <1>3, <2>2, <2>3
<1>5. ASSUME Place(r, p) + Place(r, q) = m + 1
      PROVE  <<p, q>> \in Numbers(r) \/ <<q, p>> \in Numbers(r)
  <2> DEFINE j == Place(r, p)
             k == Place(r, q)
             i == IF j < k THEN j - 1 ELSE k - 1
  <2>1. i \in Boards /\ {j, k} = {i + 1, m - i}
    <3> HIDE DEF j, k
    <3> QED  BY <1>1, <1>3, <1>5 DEF Boards, j, k
  <2> HIDE DEF i
  <2>2. p \in {Met(r, i)[1], Met(r, i)[2]} /\ q \in {Met(r, i)[1], Met(r, i)[2]}
    BY <2>1, MetIs
  <2>3. Met(r, i) = <<Met(r, i)[1], Met(r, i)[2]>>
    BY DEF Met
  <2>4. Met(r, i) = <<p, q>> \/ Met(r, i) = <<q, p>>
    <3>1. \/ Met(r, i)[1] = p /\ Met(r, i)[2] = q
          \/ Met(r, i)[1] = q /\ Met(r, i)[2] = p
      BY <2>2
    <3> QED  BY <2>3, <3>1
  <2> QED  BY <2>1, <2>4 DEF Numbers
<1> QED  BY <1>4, <1>5

(* Two numbers meet in one turn of the circle and in no other. *)
LEMMA MeetOnce ==
  ASSUME setup.n \in Nat \ {0, 1}, NEW p \in 1..CircleSize, NEW q \in 1..CircleSize, p # q
  PROVE  \E r \in 0..(CircleSize - 2) :
            /\ Place(r, p) + Place(r, q) = CircleSize + 1
            /\ \A s \in 0..(CircleSize - 2) : Place(s, p) + Place(s, q) = CircleSize + 1 => s = r
<1> DEFINE m == CircleSize
<1>1. m \in Nat /\ m >= 2 /\ Even(m)
  BY CircleSizeIs
<1>2. PICK h \in Nat : m = h + h
  BY <1>1 DEF Even
<1>3. ASSUME NEW r \in 0..(m - 2), NEW s \in 0..(m - 2),
             Place(r, p) + Place(r, q) = m + 1, Place(s, p) + Place(s, q) = m + 1
      PROVE  r = s
  BY <1>1, <1>2, <1>3 DEF Place
<1>4. \E r \in 0..(m - 2) : Place(r, p) + Place(r, q) = m + 1
  <2>1. CASE p = 1
    <3>1. m - q \in 0..(m - 2) /\ Place(m - q, p) + Place(m - q, q) = m + 1
      BY <1>1, <2>1 DEF Place
    <3> QED  BY <3>1
  <2>2. CASE q = 1
    <3>1. m - p \in 0..(m - 2) /\ Place(m - p, p) + Place(m - p, q) = m + 1
      BY <1>1, <2>2 DEF Place
    <3> QED  BY <3>1
  <2>3. CASE p # 1 /\ q # 1
    <3>1. PICK k \in Nat : p + q = k + k \/ p + q = k + k + 1
      <4>1. p + q \in Nat \ {0}
        BY <1>1
      <4>2. Even(p + q) \/ Even(p + q - 1)
        BY <4>1, Parity
      <4> QED  BY <4>1, <4>2 DEF Even
    <3>2. CASE p + q = k + k
      <4>1. m - k \in 0..(m - 2) /\ Place(m - k, p) + Place(m - k, q) = m + 1
        BY <1>1, <1>2, <2>3, <3>2 DEF Place
      <4> QED  BY <4>1
    <3>3. CASE p + q = k + k + 1 /\ k <= h
      <4>1. h - k \in 0..(m - 2) /\ Place(h - k, p) + Place(h - k, q) = m + 1
        BY <1>1, <1>2, <2>3, <3>3 DEF Place
      <4> QED  BY <4>1
    <3>4. CASE p + q = k + k + 1 /\ k > h
      <4>1. (m + h) - (k + 1) \in 0..(m - 2)
        BY <1>1, <1>2, <2>3, <3>4
      <4>2. Place((m + h) - (k + 1), p) + Place((m + h) - (k + 1), q) = m + 1
        BY <1>1, <1>2, <2>3, <3>4 DEF Place
      <4> QED  BY <4>1, <4>2
    <3> QED  BY <3>1, <3>2, <3>3, <3>4
  <2> QED  BY <2>1, <2>2, <2>3
<1> QED  BY <1>3, <1>4

-----------------------------------------------------------------------------
(* A round of the round-robin formats.                                       *)

Swapped(M) == {<<e[2], e[1]>> : e \in M}
Kept(A) == {p \in A : Nobody \notin {p[1], p[2]}}

LEMMA SwappedPerfect ==
  ASSUME NEW S, NEW M, Perfect(M, S)
  PROVE  Perfect(Swapped(M), S)
<1> DEFINE seat == [e \in M |-> <<e[2], e[1]>>]
<1>1. \A e \in M : seat[e] = <<e[2], e[1]>>
  OBVIOUS
<1> HIDE DEF seat
<1>2. Perfect({seat[e] : e \in M}, S)
  BY <1>1, ReSeated
<1>3. {seat[e] : e \in M} = Swapped(M)
  BY <1>1 DEF Swapped
<1> QED  BY <1>2, <1>3

LEMMA SwapByName ==
  ASSUME NEW M
  PROVE  SwapLegs(ByName(M)) = ByName(Swapped(M))
<1> DEFINE R == {<<Named(e[2]), Named(e[1])>> : e \in M}
<1>1. SwapLegs(ByName(M)) = R
  <2>1. ASSUME NEW x \in SwapLegs(ByName(M))  PROVE x \in R
    <3>1. PICK y \in ByName(M) : x = <<y[2], y[1]>>
      BY <2>1 DEF SwapLegs
    <3>2. PICK e \in M : y = <<Named(e[1]), Named(e[2])>>
      BY <3>1 DEF ByName
    <3> QED  BY <3>1, <3>2
  <2>2. ASSUME NEW e \in M  PROVE <<Named(e[2]), Named(e[1])>> \in SwapLegs(ByName(M))
    <3> DEFINE y == <<Named(e[1]), Named(e[2])>>
    <3>1. y \in ByName(M) /\ <<y[2], y[1]>> = <<Named(e[2]), Named(e[1])>>
      BY DEF ByName
    <3> HIDE DEF y
    <3> QED  BY <3>1 DEF SwapLegs
  <2> QED  BY <2>1, <2>2
<1>2. ByName(Swapped(M)) = R
  <2>1. ASSUME NEW x \in ByName(Swapped(M))  PROVE x \in R
    <3>1. PICK y \in Swapped(M) : x = <<Named(y[1]), Named(y[2])>>
      BY <2>1 DEF ByName
    <3>2. PICK e \in M : y = <<e[2], e[1]>>
      BY <3>1 DEF Swapped
    <3> QED  BY <3>1, <3>2
  <2>2. ASSUME NEW e \in M  PROVE <<Named(e[2]), Named(e[1])>> \in ByName(Swapped(M))
    <3> DEFINE y == <<e[2], e[1]>>
    <3>1. y \in Swapped(M) /\ <<Named(y[1]), Named(y[2])>> = <<Named(e[2]), Named(e[1])>>
      BY DEF Swapped
    <3> HIDE DEF y
    <3> QED  BY <3>1 DEF ByName
  <2> QED  BY <2>1, <2>2
<1> QED  BY <1>1, <1>2

(* Without the empty place a perfect round of the circle is one of the players. *)
LEMMA KeptIs ==
  ASSUME setup.n \in Nat \ {0, 1}, NEW M, Perfect(M, 1..CircleSize)
  PROVE  Kept(ByName(M)) = {e \in M : e[1] \in Players /\ e[2] \in Players}
<1>1. /\ CircleSize \in Nat /\ setup.n \in Nat /\ setup.n >= 1
      /\ M \in SUBSET ((1..CircleSize) \X (1..CircleSize))
  BY CircleSizeIs DEF Perfect
<1>2. \A s \in 1..CircleSize : /\ s \in Players => Named(s) = s /\ s # Nobody
                               /\ s \notin Players => Named(s) = Nobody
  BY <1>1 DEF Players, Named, Nobody
<1>3. ASSUME NEW x \in Kept(ByName(M))  PROVE x \in M /\ x[1] \in Players /\ x[2] \in Players
  <2>1. PICK e \in M : x = <<Named(e[1]), Named(e[2])>>
    BY <1>3 DEF Kept, ByName
  <2>2. Named(e[1]) # Nobody /\ Named(e[2]) # Nobody
    BY <1>3, <2>1 DEF Kept
  <2>3. e[1] \in 1..CircleSize /\ e[2] \in 1..CircleSize /\ e = <<e[1], e[2]>>
    BY <1>1
  <2>4. e[1] \in Players /\ e[2] \in Players
    BY <1>2, <2>2, <2>3
  <2>5. x = e
    BY <1>2, <2>1, <2>3, <2>4
  <2> QED  BY <2>4, <2>5
<1>4. ASSUME NEW e \in M, e[1] \in Players, e[2] \in Players  PROVE e \in Kept(ByName(M))
  <2>1. e[1] \in 1..CircleSize /\ e[2] \in 1..CircleSize /\ e = <<e[1], e[2]>>
    BY <1>1
  <2>2. e = <<Named(e[1]), Named(e[2])>> /\ e[1] # Nobody /\ e[2] # Nobody
    BY <1>2, <1>4, <2>1
  <2>3. e \in ByName(M)
    BY <2>2 DEF ByName
  <2> QED  BY <2>2, <2>3 DEF Kept
<1> QED  BY <1>3, <1>4

LEMMA KeptSeats ==
  ASSUME setup.n \in Nat \ {0, 1}, NEW M, Perfect(M, 1..CircleSize)
  PROVE  Seats(Kept(ByName(M)),
               {p \in Players : <<p, Nobody>> \in ByName(M) \/ <<Nobody, p>> \in ByName(M)})
<1> DEFINE free == {p \in Players : <<p, Nobody>> \in ByName(M) \/ <<Nobody, p>> \in ByName(M)}
           pairs == {e \in M : e[1] \in Players /\ e[2] \in Players}
           m == CircleSize
<1>1. /\ m \in Nat /\ setup.n \in Nat /\ setup.n >= 1
      /\ M \in SUBSET ((1..m) \X (1..m)) /\ \A e \in M : e[1] # e[2]
      /\ Odd => m = setup.n + 1
      /\ ~Odd => m = setup.n
  BY CircleSizeIs DEF Perfect
<1>2. \A s \in 1..m : /\ s \in Players => Named(s) = s /\ s # Nobody
                      /\ s \notin Players => Named(s) = Nobody /\ s = m /\ Odd
  BY <1>1 DEF Players, Named, Nobody
<1>3. Players \subseteq 1..m
  BY <1>1 DEF Players
<1>4. \A p \in Players : p \in free <=> (<<p, m>> \in M \/ <<m, p>> \in M) /\ Odd
  <2>1. ASSUME NEW p \in free  PROVE (<<p, m>> \in M \/ <<m, p>> \in M) /\ Odd
    <3>1. PICK e \in M : \/ <<p, Nobody>> = <<Named(e[1]), Named(e[2])>>
                         \/ <<Nobody, p>> = <<Named(e[1]), Named(e[2])>>
      BY <2>1 DEF ByName
    <3>2. e[1] \in 1..m /\ e[2] \in 1..m /\ e = <<e[1], e[2]>> /\ p \in Players /\ p # Nobody
      BY <1>1, <1>2, <1>3
    <3>3. \/ e[1] = p /\ e[2] = m /\ Odd
          \/ e[2] = p /\ e[1] = m /\ Odd
      BY <1>2, <3>1, <3>2
    <3> QED  BY <3>2, <3>3
  <2>2. ASSUME NEW p \in Players, Odd, <<p, m>> \in M \/ <<m, p>> \in M  PROVE p \in free
    <3>1. m \notin Players /\ m \in 1..m /\ p \in 1..m
      BY <1>1, <1>3, <2>2 DEF Players
    <3>2. Named(p) = p /\ Named(m) = Nobody
      BY <1>2, <3>1
    <3>3. CASE <<p, m>> \in M
      <4>1. <<Named(p), Named(m)>> \in ByName(M)
        BY <3>3 DEF ByName
      <4> QED  BY <3>2, <4>1
    <3>4. CASE <<m, p>> \in M
      <4>1. <<Named(m), Named(p)>> \in ByName(M)
        BY <3>4 DEF ByName
      <4> QED  BY <3>2, <4>1
    <3> QED  BY <2>2, <3>3, <3>4
  <2> QED  BY <2>1, <2>2
<1> HIDE DEF free
<1>5. free \in SUBSET Players
  BY DEF free
<1>6. IF Odd THEN \E b : free = {b} ELSE free = {}
  <2>1. CASE Odd
    <3>1. m \in 1..m /\ m \notin Players
      BY <1>1, <2>1 DEF Players
    <3>2. PICK e \in M : m \in {e[1], e[2]}
      BY <3>1 DEF Perfect
    <3> DEFINE b == IF e[1] = m THEN e[2] ELSE e[1]
    <3>3. e[1] \in 1..m /\ e[2] \in 1..m /\ e = <<e[1], e[2]>> /\ e[1] # e[2]
      BY <1>1
    <3>4. b \in 1..m /\ b # m /\ (e = <<b, m>> \/ e = <<m, b>>)
      BY <3>2, <3>3
    <3>5. b \in Players
      BY <1>2, <3>4
    <3> HIDE DEF b
    <3>6. b \in free
      BY <1>4, <2>1, <3>4, <3>5
    <3>7. ASSUME NEW p \in free  PROVE p = b
      <4>1. p \in Players /\ (<<p, m>> \in M \/ <<m, p>> \in M)
        BY <1>4, <1>5
      <4>2. PICK d \in M : d = <<p, m>> \/ d = <<m, p>>
        BY <4>1
      <4>3. d = e
        BY <3>1, <3>2, <4>2 DEF Perfect
      <4>4. p # m
        BY <3>1, <4>1
      <4> QED  BY <3>4, <4>2, <4>3, <4>4
    <3>8. free = {b}
      BY <3>6, <3>7
    <3> QED  BY <2>1, <3>8
  <2>2. CASE ~ Odd
    BY <1>4, <1>5, <2>2
  <2> QED  BY <2>1, <2>2
<1>7. Perfect(pairs, Players \ free)
  <2>1. ASSUME NEW e \in pairs  PROVE e \in (Players \ free) \X (Players \ free) /\ e[1] # e[2]
    <3>1. e \in M /\ e[1] \in Players /\ e[2] \in Players /\ e = <<e[1], e[2]>> /\ e[1] # e[2]
      BY <1>1
    <3>2. ASSUME NEW p \in {e[1], e[2]}, p \in free  PROVE FALSE
      <4>1. p \in Players /\ Odd /\ (<<p, m>> \in M \/ <<m, p>> \in M)
        BY <1>4, <1>5, <3>2
      <4>2. PICK d \in M : d = <<p, m>> \/ d = <<m, p>>
        BY <4>1
      <4>3. p \in 1..m /\ p \in {d[1], d[2]}
        BY <1>3, <4>1, <4>2
      <4>4. d = e
        BY <3>1, <3>2, <4>3 DEF Perfect
      <4>5. m \in Players
        BY <3>1, <4>2, <4>4
      <4> QED  BY <1>1, <4>1, <4>5 DEF Players
    <3> QED  BY <3>1, <3>2
  <2>2. ASSUME NEW p \in Players \ free  PROVE \E e \in pairs : p \in {e[1], e[2]}
    <3>1. PICK e \in M : p \in {e[1], e[2]}
      BY <1>3 DEF Perfect
    <3>2. e[1] \in 1..m /\ e[2] \in 1..m /\ e = <<e[1], e[2]>>
      BY <1>1
    <3>3. e[1] \in Players /\ e[2] \in Players
      <4>1. CASE e[1] \notin Players
        <5>1. e[1] = m /\ Odd /\ e[2] = p
          BY <1>2, <2>2, <3>1, <3>2, <4>1
        <5>2. <<m, p>> \in M
          BY <3>2, <5>1
        <5> QED  BY <1>4, <2>2, <5>1, <5>2
      <4>2. CASE e[2] \notin Players
        <5>1. e[2] = m /\ Odd /\ e[1] = p
          BY <1>2, <2>2, <3>1, <3>2, <4>2
        <5>2. <<p, m>> \in M
          BY <3>2, <5>1
        <5> QED  BY <1>4, <2>2, <5>1, <5>2
      <4> QED  BY <4>1, <4>2
    <3> QED  BY <3>1, <3>3
  <2>3. ASSUME NEW d \in pairs, NEW e \in pairs, NEW p \in Players \ free,
               p \in {d[1], d[2]}, p \in {e[1], e[2]}
        PROVE  d = e
    <3>1. p \in 1..m /\ d \in M /\ e \in M
      BY <1>3
    <3> HIDE DEF pairs
    <3> QED  BY <2>3, <3>1 DEF Perfect
  <2> HIDE DEF pairs
  <2> QED  BY <2>1, <2>2, <2>3 DEF Perfect
<1>8. IsFiniteSet(pairs)
  <2> HIDE DEF pairs
  <2> QED  BY <1>5, <1>7, FinitePairs
<1>9. Kept(ByName(M)) = pairs
  BY KeptIs
<1> HIDE DEF pairs
<1>10. Seats(Kept(ByName(M)), free)
  BY <1>5, <1>6, <1>7, <1>8, <1>9 DEF Seats
<1> QED  BY <1>10 DEF free

(* The turn of the circle a round is taken from. *)
Turn(k) == IF setup.format = "double" /\ k > CircleSize - 1 THEN k - CircleSize ELSE k - 1
RoundsOf == RoundCount(setup.format, setup.n, setup.rounds)

LEMMA RoundsAre ==
  ASSUME setup.n \in Nat \ {0, 1}, setup.rounds \in Nat
  PROVE  /\ setup.format = "single" => RoundsOf = CircleSize - 1
         /\ setup.format = "double" => RoundsOf = 2 * (CircleSize - 1)
         /\ setup.format \in {"single", "double", "swiss"} => RoundsOf \in Nat
<1>1. (IF setup.n % 2 = 1 THEN setup.n ELSE setup.n - 1) = CircleSize - 1
  BY DEF CircleSize, Odd
<1>2. CircleSize \in Nat /\ CircleSize >= 2
  BY CircleSizeIs
<1> QED  BY <1>1, <1>2 DEF RoundsOf, RoundCount

LEMMA TurnIs ==
  ASSUME setup.n \in Nat \ {0, 1}, setup.rounds \in Nat, setup.format \in {"single", "double"},
         NEW k \in 1..RoundsOf
  PROVE  Turn(k) \in 0..(CircleSize - 2)
<1>1. CircleSize \in Nat /\ CircleSize >= 2
  BY CircleSizeIs
<1>2. RoundsOf = CircleSize - 1 \/ (setup.format = "double" /\ RoundsOf = 2 * (CircleSize - 1))
  BY RoundsAre
<1> QED  BY <1>1, <1>2 DEF Turn

RoundNumbers(k) == IF setup.format = "double" /\ k > CircleSize - 1
                   THEN Swapped(Numbers(Turn(k))) ELSE Numbers(Turn(k))

LEMMA RoundRobinRoundIs ==
  ASSUME setup.n \in Nat \ {0, 1}, setup.rounds \in Nat, setup.format \in {"single", "double"},
         NEW k \in 1..RoundsOf
  PROVE  LET next == RoundRobinRound(k)
         IN  /\ next.pairs = Kept(ByName(RoundNumbers(k)))
             /\ next.pairs = {e \in RoundNumbers(k) : e[1] \in Players /\ e[2] \in Players}
             /\ Seats(next.pairs, next.byes)
<1> DEFINE leg2 == setup.format = "double" /\ k > CircleSize - 1
           all == IF leg2 THEN SwapLegs(CirclePairs(k - CircleSize)) ELSE CirclePairs(k - 1)
           M == RoundNumbers(k)
<1>1. Turn(k) \in 0..(CircleSize - 2)
  BY TurnIs
<1>2. Perfect(M, 1..CircleSize)
  <2>1. Perfect(Numbers(Turn(k)), 1..CircleSize)
    BY <1>1, NumbersPerfect
  <2>2. Perfect(Swapped(Numbers(Turn(k))), 1..CircleSize)
    BY <2>1, SwappedPerfect
  <2> QED  BY <2>1, <2>2 DEF RoundNumbers
<1>3. all = ByName(M)
  <2>1. CirclePairs(Turn(k)) = ByName(Numbers(Turn(k)))
    BY <1>1, CirclePairsAre
  <2>2. CASE leg2
    <3>1. all = SwapLegs(CirclePairs(Turn(k))) /\ M = Swapped(Numbers(Turn(k)))
      BY <2>2 DEF Turn, RoundNumbers
    <3> QED  BY <2>1, <3>1, SwapByName
  <2>3. CASE ~ leg2
    <3>1. all = CirclePairs(Turn(k)) /\ M = Numbers(Turn(k))
      BY <2>3 DEF Turn, RoundNumbers
    <3> QED  BY <2>1, <3>1
  <2> QED  BY <2>2, <2>3
<1>4. RoundRobinRound(k) =
        [pairs |-> {p \in all : Nobody \notin {p[1], p[2]}},
         byes  |-> {p \in Players : <<p, Nobody>> \in all \/ <<Nobody, p>> \in all}]
  BY DEF RoundRobinRound
<1> HIDE DEF all, M
<1>5. /\ RoundRobinRound(k).pairs = Kept(ByName(M))
      /\ RoundRobinRound(k).byes
            = {p \in Players : <<p, Nobody>> \in ByName(M) \/ <<Nobody, p>> \in ByName(M)}
  BY <1>3, <1>4 DEF Kept
<1>6. /\ Kept(ByName(M)) = {e \in M : e[1] \in Players /\ e[2] \in Players}
      /\ Seats(Kept(ByName(M)),
               {p \in Players : <<p, Nobody>> \in ByName(M) \/ <<Nobody, p>> \in ByName(M)})
  BY <1>2, KeptIs, KeptSeats
<1> QED  BY <1>5, <1>6 DEF M

-----------------------------------------------------------------------------
(* The tournament.                                                           *)

PairsIn(G, r) == {<<g.a, g.b>> : g \in {h \in G : h.round = r}}
FreeIn(B, r) == {b[2] : b \in {c \in B : c[1] = r}}

PairingTyped ==
  /\ setup \in Setups
  /\ roundsPlayed \in 0..RoundsOf
  /\ IsFiniteSet(games)
  /\ games \in SUBSET [round : 1..roundsPlayed, a : Players, b : Players, result : {"A", "B", "draw"}]
  /\ IsFiniteSet(byes)
  /\ byes \in SUBSET ((1..roundsPlayed) \X Players)

(* Every round seats everybody, one game is recorded for each of its pairs, and a            *)
(* round-robin follows the circle.                                                           *)
RoundsSeated == \A r \in 1..roundsPlayed : Seats(PairsIn(games, r), FreeIn(byes, r))
OneGamePerPair == \A g, h \in games : g.round = h.round /\ g.a = h.a /\ g.b = h.b => g = h
RoundRobinFollowed ==
  setup.format # "swiss" => \A r \in 1..roundsPlayed : PairsIn(games, r) = RoundRobinRound(r).pairs

PairingFits ==
  /\ PairingTyped
  /\ RoundsSeated
  /\ OneGamePerPair
  /\ RoundRobinFollowed

LEMMA SetupIs ==
  ASSUME PairingTyped
  PROVE  /\ setup.n \in Nat \ {0, 1} /\ setup.n \in Nat \ {0} /\ setup.n \in Nat
         /\ setup.rounds \in Nat
         /\ setup.format \in {"single", "double", "swiss"}
         /\ setup.results \subseteq {"A", "B", "draw"}
BY SetupsAssumption DEF PairingTyped

LEMMA GamesAre ==
  ASSUME PairingTyped
  PROVE  /\ \A G \in SUBSET games : IsFiniteSet(G) /\ Cardinality(G) \in Nat
         /\ \A B \in SUBSET byes : IsFiniteSet(B) /\ Cardinality(B) \in Nat
         /\ \A g \in games : /\ g.round \in 1..roundsPlayed /\ g.a \in Players /\ g.b \in Players
                             /\ g = [round |-> g.round, a |-> g.a, b |-> g.b, result |-> g.result]
         /\ roundsPlayed \in Nat
<1>1. \A G \in SUBSET games : IsFiniteSet(G) /\ Cardinality(G) \in Nat
  BY FS_Subset, FS_CardinalityType DEF PairingTyped
<1>2. \A B \in SUBSET byes : IsFiniteSet(B) /\ Cardinality(B) \in Nat
  BY FS_Subset, FS_CardinalityType DEF PairingTyped
<1>3. \A g \in games : /\ g.round \in 1..roundsPlayed /\ g.a \in Players /\ g.b \in Players
                       /\ g = [round |-> g.round, a |-> g.a, b |-> g.b, result |-> g.result]
  BY DEF PairingTyped
<1>4. roundsPlayed \in Nat
  BY SetupIs, RoundsAre DEF PairingTyped
<1> QED  BY <1>1, <1>2, <1>3, <1>4

(* The figures a Swiss round works with are numbers. *)
LEMMA ParticipantsKnown ==
  ASSUME PairingTyped
  PROVE  /\ Known(Participants)
         /\ \A p, q \in Players : Participants[p].met[q] = TimesPlayed(p, q)
         /\ \A p \in Players : /\ Participants[p].balance = SeatBalance(p)
                               /\ Participants[p].byes = ByeCount(p)
<1>1. \A p : /\ Cardinality({b \in byes : b[2] = p}) \in Nat
             /\ Cardinality({g \in GamesOf(p) : Won(p, g)}) \in Nat
             /\ Cardinality(GamesOf(p)) \in Nat /\ IsFiniteSet(GamesOf(p))
             /\ Cardinality({g \in GamesOf(p) : g.result = "draw"}) \in Nat
             /\ Cardinality({g \in games : g.a = p}) \in Nat
             /\ Cardinality({g \in games : g.b = p}) \in Nat
  <2>1. \A p : GamesOf(p) \in SUBSET games
    BY DEF GamesOf
  <2> QED  BY <2>1, GamesAre
<1>2. \A p : ByeCount(p) \in Nat /\ Wins(p) \in Nat /\ Played(p) \in Nat /\ SeatBalance(p) \in Int
  <2>1. \A p : ByeCount(p) \in Nat
    BY <1>1 DEF ByeCount, ByesHad, Ranked
  <2>2. \A p : Wins(p) \in Nat
    BY <1>1 DEF Wins, Ranked
  <2>3. \A p : Played(p) \in Nat
    BY <1>1 DEF Played, Ranked
  <2>4. \A p : SeatBalance(p) \in Int
    <3>1. ASSUME NEW p  PROVE SeatBalance(p) \in Int
      <4> DEFINE x == Cardinality({g \in games : g.a = p})
                 y == Cardinality({g \in games : g.b = p})
      <4>1. x \in Nat /\ y \in Nat /\ SeatBalance(p) = x - y
        BY <1>1 DEF SeatBalance
      <4> HIDE DEF x, y
      <4> QED  BY <4>1
    <3> QED  BY <3>1
  <2> QED  BY <2>1, <2>2, <2>3, <2>4
<1>3. \A p : Points(p) \in Nat
  <2>1. ASSUME NEW p  PROVE Points(p) \in Nat
    <3> DEFINE x == Cardinality({g \in GamesOf(p) : g.result = "draw"})
    <3>1. x \in Nat /\ Wins(p) \in Nat /\ ByeCount(p) \in Nat
      BY <1>1, <1>2
    <3>2. Points(p) = Ranked(3 * Wins(p) + x + IF setup.format = "swiss" THEN 3 * ByeCount(p) ELSE 0)
      BY DEF Points
    <3> HIDE DEF x
    <3> QED  BY <3>1, <3>2 DEF Ranked
  <2> QED  BY <2>1
<1>4. \A p : Buchholz(p) \in Nat
  <2>1. ASSUME NEW p  PROVE Buchholz(p) \in Nat
    <3> DEFINE Part(g) == {g} \X (1..Points(OpponentsIn(p, g)))
               Parts == {Part(g) : g \in GamesOf(p)}
    <3>1. \A g : IsFiniteSet(Part(g))
      <4>1. ASSUME NEW g  PROVE IsFiniteSet(Part(g))
        <5>1. IsFiniteSet({g})
          BY FS_Singleton
        <5>2. Points(OpponentsIn(p, g)) \in Int
          BY <1>3
        <5>3. IsFiniteSet(1..Points(OpponentsIn(p, g)))
          BY <5>2, FS_Interval
        <5> QED  BY <5>1, <5>3, FS_Product
      <4> QED  BY <4>1
    <3>2. IsFiniteSet(Parts)
      <4> HIDE DEF Part
      <4> DEFINE f == [g \in GamesOf(p) |-> Part(g)]
      <4>1. f \in Surjection(GamesOf(p), Parts)
        BY DEF Surjection
      <4> HIDE DEF f, Parts
      <4> QED  BY <1>1, <4>1, FS_Surjection
    <3>3. \A T \in Parts : IsFiniteSet(T)
      <4> HIDE DEF Part
      <4> QED  BY <3>1
    <3>4. IsFiniteSet(UNION Parts)
      <4> HIDE DEF Parts
      <4> QED  BY <3>2, <3>3, FS_UNION
    <3>5. Cardinality(UNION Parts) \in Nat
      <4> HIDE DEF Parts
      <4> QED  BY <3>4, FS_CardinalityType
    <3> QED  BY <3>5 DEF Buchholz
  <2> QED  BY <2>1
<1>5. \A p, q : TimesPlayed(p, q) \in Nat
  BY GamesAre DEF TimesPlayed
<1>6. \A p \in Players :
        /\ Participants[p].points = Points(p) /\ Participants[p].wins = Wins(p)
        /\ Participants[p].buchholz = Buchholz(p) /\ Participants[p].played = Played(p)
        /\ Participants[p].byes = ByeCount(p) /\ Participants[p].balance = SeatBalance(p)
        /\ \A q \in Players : Participants[p].met[q] = TimesPlayed(p, q)
  BY DEF Participants
<1> QED  BY <1>2, <1>3, <1>4, <1>5, <1>6 DEF Known

LEMMA MetBefore ==
  ASSUME PairingTyped, NEW p, NEW q
  PROVE  TimesPlayed(p, q) = 0 <=> {p, q} \notin {{g.a, g.b} : g \in games}
<1> DEFINE G == {g \in games : {g.a, g.b} = {p, q}}
<1>1. IsFiniteSet(G)
  BY GamesAre
<1>2. Cardinality(G) = 0 <=> G = {}
  <2> HIDE DEF G
  <2> QED  BY <1>1, FS_EmptySet
<1> QED  BY <1>2 DEF TimesPlayed

(* What a round to be played is like. *)
LEMMA NextRoundIs ==
  ASSUME PairingTyped, roundsPlayed < RoundsOf, NEW next \in NextRounds
  PROVE  /\ Seats(next.pairs, next.byes)
         /\ setup.format # "swiss" => next = RoundRobinRound(roundsPlayed + 1)
         /\ setup.format = "swiss" =>
              /\ next.byes = FairBye(Participants)
              /\ \A e \in next.pairs : SeatBalance(e[1]) <= SeatBalance(e[2])
              /\ \/ \A e \in next.pairs : {e[1], e[2]} \notin {{g.a, g.b} : g \in games}
                 \/ Cardinality(Players \ next.byes) > PoolSearchedThrough
                 \/ ~ \E partner : Partners(Participants, Players \ next.byes, partner)
<1>1. CASE setup.format # "swiss"
  <2>1. next = RoundRobinRound(roundsPlayed + 1)
    BY <1>1 DEF NextRounds
  <2>2. roundsPlayed + 1 \in 1..RoundsOf
    BY SetupIs, RoundsAre DEF PairingTyped
  <2>3. Seats(next.pairs, next.byes)
    BY <1>1, <2>1, <2>2, SetupIs, RoundRobinRoundIs
  <2> QED  BY <1>1, <2>1, <2>3
<1>2. CASE setup.format = "swiss"
  <2> DEFINE f == Participants
             pool == Players \ FairBye(f)
  <2>1. PICK givesUp \in GivingUp(pool) : next = SwissRound(f, givesUp)
    BY <1>2 DEF NextRounds
  <2>2. givesUp \in BOOLEAN /\ (givesUp => ~ (Cardinality(pool) <= PoolSearchedThrough))
    BY <2>1 DEF GivingUp
  <2>3. Known(f)
    BY ParticipantsKnown
  <2> HIDE DEF f, pool
  <2>4. /\ next.byes = FairBye(f)
        /\ Seats(next.pairs, next.byes)
        /\ \A e \in next.pairs : f[e[1]].balance <= f[e[2]].balance
        /\ \/ \A e \in next.pairs : f[e[1]].met[e[2]] = 0 \/ f[e[2]].met[e[1]] = 0
           \/ givesUp
           \/ ~ \E partner : Partners(f, Players \ next.byes, partner)
    BY <2>1, <2>2, <2>3, SetupIs, SwissRoundIs
  <2>5. \A e \in next.pairs : e[1] \in Players /\ e[2] \in Players
    BY <2>4 DEF Seats, Perfect
  <2>6. \A e \in next.pairs : SeatBalance(e[1]) <= SeatBalance(e[2])
    BY <2>4, <2>5, ParticipantsKnown DEF f
  <2>7. ASSUME NEW e \in next.pairs, f[e[1]].met[e[2]] = 0 \/ f[e[2]].met[e[1]] = 0
        PROVE  {e[1], e[2]} \notin {{g.a, g.b} : g \in games}
    <3>1. TimesPlayed(e[1], e[2]) = 0 \/ TimesPlayed(e[2], e[1]) = 0
      BY <2>5, <2>7, ParticipantsKnown DEF f
    <3>2. {e[2], e[1]} = {e[1], e[2]}
      OBVIOUS
    <3> QED  BY <3>1, <3>2, MetBefore
  <2>8. Cardinality(pool) \in Nat /\ PoolSearchedThrough \in Nat
    <3>1. pool \in SUBSET Players
      BY DEF pool
    <3> QED  BY <3>1, SetupIs, FinitePlayers DEF PoolSearchedThrough
  <2>9. givesUp => Cardinality(Players \ next.byes) > PoolSearchedThrough
    BY <2>2, <2>4, <2>8 DEF pool
  <2> QED  BY <1>2, <2>4, <2>6, <2>7, <2>9 DEF f
<1> QED  BY <1>1, <1>2

-----------------------------------------------------------------------------
(* A step of the tournament.                                                 *)

(* The games of a round: one for each pair of next, with a result. *)
Recorded(r, pairs, result) ==
  {[round |-> r, a |-> p[1], b |-> p[2], result |-> result[p]] : p \in pairs}

(* A round was played: next was paired, with these results. *)
Played1(next, result) ==
  /\ roundsPlayed < RoundsOf
  /\ next \in NextRounds
  /\ byes' = byes \union {<<roundsPlayed + 1, p>> : p \in next.byes}
  /\ result \in [next.pairs -> setup.results]
  /\ games' = games \union Recorded(roundsPlayed + 1, next.pairs, result)
  /\ roundsPlayed' = roundsPlayed + 1
  /\ setup' = setup

LEMMA PlayRoundIs ==
  ASSUME PlayRound
  PROVE  \E next, result : Played1(next, result)
<1>1. /\ roundsPlayed < RoundsOf /\ roundsPlayed' = roundsPlayed + 1 /\ setup' = setup
  BY DEF PlayRound, RoundsOf
<1>2. PICK next \in NextRounds :
        /\ byes' = byes \union {<<roundsPlayed + 1, p>> : p \in next.byes}
        /\ \E result \in [next.pairs -> setup.results] :
             games' = games \union {[round |-> roundsPlayed + 1, a |-> p[1], b |-> p[2],
                                     result |-> result[p]] : p \in next.pairs}
  BY DEF PlayRound
<1>3. PICK result \in [next.pairs -> setup.results] :
             games' = games \union {[round |-> roundsPlayed + 1, a |-> p[1], b |-> p[2],
                                     result |-> result[p]] : p \in next.pairs}
  BY <1>2
<1>4. Played1(next, result)
  BY <1>1, <1>2, <1>3 DEF Played1, Recorded
<1> QED  BY <1>4

LEMMA FieldStays ==
  ASSUME setup' = setup
  PROVE  /\ Players' = Players /\ Odd' = Odd /\ CircleSize' = CircleSize /\ RoundsOf' = RoundsOf
         /\ \A k : RoundRobinRound(k)' = RoundRobinRound(k)
<1>1. Players' = Players /\ Odd' = Odd /\ RoundsOf' = RoundsOf
  BY DEF Players, Odd, RoundsOf
<1>2. CircleSize' = CircleSize
  BY <1>1 DEF CircleSize, Odd
<1>3. \A k : RoundRobinRound(k)' = RoundRobinRound(k)
  BY <1>1, <1>2 DEF RoundRobinRound, CirclePairs, Circle, Rotate, Seating, Nobody, SwapLegs
<1> QED  BY <1>1, <1>2, <1>3

(* What the round that was played adds. *)
LEMMA RecordedIs ==
  ASSUME PairingTyped, NEW next, NEW result, Played1(next, result)
  PROVE  LET r == roundsPlayed + 1
             new == Recorded(r, next.pairs, result)
         IN  /\ r \in Nat /\ \A g \in games : g.round \in Nat /\ g.round < r
             /\ \A g \in new : /\ g.round = r /\ <<g.a, g.b>> \in next.pairs
                               /\ g \in [round : {r}, a : Players, b : Players, result : {"A", "B", "draw"}]
             /\ \A g, h \in new : g.a = h.a /\ g.b = h.b => g = h
             /\ \A e \in next.pairs : /\ e = <<e[1], e[2]>>
                                      /\ \E g \in new : g.a = e[1] /\ g.b = e[2]
             /\ IsFiniteSet(new)
             /\ next.byes \in SUBSET Players
             /\ Seats(next.pairs, next.byes)
<1> DEFINE r == roundsPlayed + 1
           one(p) == [round |-> r, a |-> p[1], b |-> p[2], result |-> result[p]]
           new == Recorded(r, next.pairs, result)
<1>1. r \in Nat /\ \A g \in games : g.round \in Nat /\ g.round < r
  BY GamesAre
<1>2. Seats(next.pairs, next.byes)
  BY NextRoundIs DEF Played1
<1>3. \A e \in next.pairs : e = <<e[1], e[2]>> /\ e[1] \in Players /\ e[2] \in Players
  BY <1>2 DEF Seats, Perfect
<1>4. \A e \in next.pairs : result[e] \in {"A", "B", "draw"}
  BY SetupIs DEF Played1
<1>5. new = {one(p) : p \in next.pairs}
  BY DEF Recorded
<1>6. ASSUME NEW g \in new
      PROVE  /\ g.round = r /\ <<g.a, g.b>> \in next.pairs
             /\ g \in [round : {r}, a : Players, b : Players, result : {"A", "B", "draw"}]
             /\ g = one(<<g.a, g.b>>)
  <2>1. PICK p \in next.pairs : g = one(p)
    BY <1>5
  <2>2. p = <<p[1], p[2]>> /\ p[1] \in Players /\ p[2] \in Players
    BY <1>3
  <2>3. g.a = p[1] /\ g.b = p[2] /\ g.round = r
    BY <2>1
  <2>4. <<g.a, g.b>> = p
    BY <2>2, <2>3
  <2>5. g \in [round : {r}, a : Players, b : Players, result : {"A", "B", "draw"}]
    BY <1>4, <2>1, <2>2
  <2> HIDE DEF one
  <2> QED  BY <2>1, <2>3, <2>4, <2>5
<1>7. \A g, h \in new : g.a = h.a /\ g.b = h.b => g = h
  <2> HIDE DEF one, new
  <2> QED  BY <1>6
<1>8. ASSUME NEW e \in next.pairs  PROVE \E g \in new : g.a = e[1] /\ g.b = e[2]
  <2>1. one(e) \in new
    BY <1>5
  <2>2. one(e).a = e[1] /\ one(e).b = e[2]
    OBVIOUS
  <2> HIDE DEF one, new
  <2> QED  BY <2>1, <2>2
<1>9. IsFiniteSet(new)
  <2> DEFINE f == [p \in next.pairs |-> one(p)]
  <2>1. f \in Surjection(next.pairs, new)
    <3> HIDE DEF one
    <3> QED  BY <1>5 DEF Surjection
  <2>2. IsFiniteSet(next.pairs)
    BY <1>2 DEF Seats
  <2> HIDE DEF f, new
  <2> QED  BY <2>1, <2>2, FS_Surjection
<1>10. next.byes \in SUBSET Players
  BY <1>2 DEF Seats
<1> HIDE DEF one, new
<1> QED  BY <1>1, <1>2, <1>3, <1>6, <1>7, <1>8, <1>9, <1>10 DEF new

LEMMA FreeFinite ==
  ASSUME NEW pairs, NEW free, Seats(pairs, free)
  PROVE  IsFiniteSet(free)
BY FS_Singleton, FS_EmptySet DEF Seats

LEMMA TypedStays ==
  ASSUME PairingTyped, NEW next, NEW result, Played1(next, result)
  PROVE  PairingTyped'
<1> DEFINE r == roundsPlayed + 1
           new == Recorded(r, next.pairs, result)
           off == {<<r, p>> : p \in next.byes}
<1>1. /\ r \in Nat /\ IsFiniteSet(new) /\ next.byes \in SUBSET Players
      /\ \A g \in new : g \in [round : {r}, a : Players, b : Players, result : {"A", "B", "draw"}]
      /\ Seats(next.pairs, next.byes)
  BY RecordedIs
<1>2. IsFiniteSet(off)
  <2> DEFINE f == [p \in next.byes |-> <<r, p>>]
  <2>1. f \in Surjection(next.byes, off)
    BY DEF Surjection
  <2>2. IsFiniteSet(next.byes)
    BY <1>1, FreeFinite
  <2> HIDE DEF f, off
  <2> QED  BY <2>1, <2>2, FS_Surjection
<1>3. /\ setup' = setup /\ roundsPlayed' = r /\ games' = games \union new /\ byes' = byes \union off
      /\ roundsPlayed < RoundsOf
  BY DEF Played1
<1>4. setup' \in Setups /\ roundsPlayed' \in 0..RoundsOf
  BY <1>1, <1>3, SetupIs, RoundsAre DEF PairingTyped
<1>5. roundsPlayed \in Nat
  BY GamesAre
<1> HIDE DEF new, off
<1>6. IsFiniteSet(games') /\ IsFiniteSet(byes')
  BY <1>1, <1>2, <1>3, FS_Union DEF PairingTyped
<1>7. games' \in SUBSET [round : 1..r, a : Players, b : Players, result : {"A", "B", "draw"}]
  <2>1. \A g \in games : g \in [round : 1..r, a : Players, b : Players, result : {"A", "B", "draw"}]
    BY <1>5 DEF PairingTyped
  <2>2. \A g \in new : g \in [round : 1..r, a : Players, b : Players, result : {"A", "B", "draw"}]
    BY <1>1, <1>5
  <2> QED  BY <1>3, <2>1, <2>2
<1>8. byes' \in SUBSET ((1..r) \X Players)
  <2>1. \A b \in byes : b \in (1..r) \X Players
    BY <1>5 DEF PairingTyped
  <2>2. \A b \in off : b \in (1..r) \X Players
    BY <1>1, <1>5 DEF off
  <2> QED  BY <1>3, <2>1, <2>2
<1>9. Players' = Players /\ RoundsOf' = RoundsOf
  BY <1>3, FieldStays
<1> HIDE DEF r
<1> QED  BY <1>3, <1>4, <1>6, <1>7, <1>8, <1>9 DEF PairingTyped

LEMMA PairsOfRounds ==
  ASSUME PairingTyped, NEW next, NEW result, Played1(next, result)
  PROVE  /\ \A r \in 1..roundsPlayed : /\ PairsIn(games', r) = PairsIn(games, r)
                                       /\ FreeIn(byes', r) = FreeIn(byes, r)
         /\ PairsIn(games', roundsPlayed + 1) = next.pairs
         /\ FreeIn(byes', roundsPlayed + 1) = next.byes
<1> DEFINE r0 == roundsPlayed + 1
           new == Recorded(r0, next.pairs, result)
           off == {<<r0, p>> : p \in next.byes}
<1>1. /\ r0 \in Nat /\ next.byes \in SUBSET Players
      /\ \A g \in games : g.round \in Nat /\ g.round < r0
      /\ \A g \in new : g.round = r0 /\ <<g.a, g.b>> \in next.pairs
      /\ \A e \in next.pairs : /\ e = <<e[1], e[2]>>
                               /\ \E g \in new : g.a = e[1] /\ g.b = e[2]
  BY RecordedIs
<1>2. games' = games \union new /\ byes' = byes \union off
  BY DEF Played1
<1>3. \A b \in byes : b[1] \in 1..roundsPlayed
  BY DEF PairingTyped
<1>4. roundsPlayed \in Nat
  BY GamesAre
<1>5. \A b \in off : b[1] = r0 /\ b[2] \in next.byes
  OBVIOUS
<1>6. \A p \in next.byes : <<r0, p>> \in off /\ <<r0, p>>[1] = r0 /\ <<r0, p>>[2] = p
  OBVIOUS
<1>7. r0 \notin 1..roundsPlayed /\ ~ (r0 < r0)
  BY <1>4
<1> HIDE DEF new, off, r0
<1>8. ASSUME NEW r \in 1..roundsPlayed
      PROVE  PairsIn(games', r) = PairsIn(games, r) /\ FreeIn(byes', r) = FreeIn(byes, r)
  <2>1. r # r0
    BY <1>7
  <2>2. {h \in games' : h.round = r} = {h \in games : h.round = r}
    BY <1>1, <1>2, <2>1
  <2>3. {c \in byes' : c[1] = r} = {c \in byes : c[1] = r}
    BY <1>2, <1>5, <2>1
  <2> QED  BY <2>2, <2>3 DEF PairsIn, FreeIn
<1>9. PairsIn(games', r0) = next.pairs
  <2>1. {h \in games' : h.round = r0} = new
    BY <1>1, <1>2, <1>7
  <2>2. PairsIn(games', r0) = {<<g.a, g.b>> : g \in new}
    BY <2>1 DEF PairsIn
  <2>3. {<<g.a, g.b>> : g \in new} = next.pairs
    <3>1. ASSUME NEW e \in next.pairs  PROVE e \in {<<g.a, g.b>> : g \in new}
      BY <1>1
    <3> QED  BY <1>1, <3>1
  <2> QED  BY <2>2, <2>3
<1>10. FreeIn(byes', r0) = next.byes
  <2>1. {c \in byes' : c[1] = r0} = off
    BY <1>2, <1>3, <1>5, <1>7
  <2>2. {b[2] : b \in off} = next.byes
    <3>1. ASSUME NEW p \in next.byes  PROVE p \in {b[2] : b \in off}
      <4>1. <<r0, p>> \in off /\ <<r0, p>>[2] = p
        BY <1>6
      <4>2. \E b \in off : b[2] = p
        BY <4>1
      <4> QED  BY <4>2
    <3> QED  BY <1>5, <3>1
  <2> QED  BY <2>1, <2>2 DEF FreeIn
<1> QED  BY <1>8, <1>9, <1>10 DEF r0

LEMMA FitsStays ==
  ASSUME PairingFits, NEW next, NEW result, Played1(next, result)
  PROVE  PairingFits'
<1> DEFINE r0 == roundsPlayed + 1
           new == Recorded(r0, next.pairs, result)
<1>0. PairingTyped /\ RoundsSeated /\ OneGamePerPair /\ RoundRobinFollowed
  BY DEF PairingFits
<1>1. PairingTyped'
  BY <1>0, TypedStays
<1>2. /\ r0 \in Nat /\ \A g \in games : g.round \in Nat /\ g.round < r0
      /\ \A g \in new : g.round = r0
      /\ \A g, h \in new : g.a = h.a /\ g.b = h.b => g = h
      /\ Seats(next.pairs, next.byes)
  BY <1>0, RecordedIs
<1>3. /\ setup' = setup /\ roundsPlayed' = r0 /\ games' = games \union new
      /\ roundsPlayed < RoundsOf /\ next \in NextRounds
  BY DEF Played1
<1>4. /\ Players' = Players /\ (Odd' <=> Odd) /\ \A k : RoundRobinRound(k)' = RoundRobinRound(k)
  BY <1>3, FieldStays
<1>5. /\ \A r \in 1..roundsPlayed : /\ PairsIn(games', r) = PairsIn(games, r)
                                    /\ FreeIn(byes', r) = FreeIn(byes, r)
      /\ PairsIn(games', r0) = next.pairs
      /\ FreeIn(byes', r0) = next.byes
  BY <1>0, PairsOfRounds
<1>6. roundsPlayed \in Nat /\ \A r \in 1..r0 : r \in 1..roundsPlayed \/ r = r0
  BY <1>0, GamesAre
<1>7. RoundsSeated'
  <2>1. ASSUME NEW r \in 1..r0  PROVE Seats(PairsIn(games', r), FreeIn(byes', r))
    BY <1>0, <1>2, <1>5, <1>6 DEF RoundsSeated
  <2>2. ASSUME NEW r \in 1..r0
        PROVE  /\ IsFiniteSet(PairsIn(games', r)) /\ FreeIn(byes', r) \in SUBSET Players'
               /\ Perfect(PairsIn(games', r), Players' \ FreeIn(byes', r))
               /\ IF Odd' THEN \E b : FreeIn(byes', r) = {b} ELSE FreeIn(byes', r) = {}
    <3>1. Seats(PairsIn(games', r), FreeIn(byes', r))
      BY <2>1
    <3> QED  BY <1>4, <3>1 DEF Seats
  <2> QED  BY <1>3, <2>2 DEF RoundsSeated, Seats
<1>8. OneGamePerPair'
  <2>1. ASSUME NEW g \in games', NEW h \in games', g.round = h.round, g.a = h.a, g.b = h.b
        PROVE  g = h
    <3>1. CASE g \in games /\ h \in games
      BY <1>0, <2>1, <3>1 DEF OneGamePerPair
    <3>2. CASE g \in new /\ h \in new
      <4> HIDE DEF new
      <4> QED  BY <1>2, <2>1, <3>2
    <3>3. CASE (g \in games /\ h \in new) \/ (g \in new /\ h \in games)
      <4>1. g.round # h.round
        <5> HIDE DEF new
        <5> QED  BY <1>2, <3>3
      <4> QED  BY <2>1, <4>1
    <3> HIDE DEF new
    <3> QED  BY <1>3, <2>1, <3>1, <3>2, <3>3
  <2> QED  BY <2>1 DEF OneGamePerPair
<1>9. RoundRobinFollowed'
  <2>1. ASSUME setup.format # "swiss", NEW r \in 1..r0
        PROVE  PairsIn(games', r) = RoundRobinRound(r).pairs
    <3>1. CASE r \in 1..roundsPlayed
      BY <1>0, <1>5, <2>1, <3>1 DEF RoundRobinFollowed
    <3>2. CASE r = r0
      <4>1. next = RoundRobinRound(r0)
        BY <1>0, <1>3, <2>1, NextRoundIs
      <4> QED  BY <1>5, <3>2, <4>1
    <3> QED  BY <1>6, <3>1, <3>2
  <2> QED  BY <1>3, <1>4, <2>1 DEF RoundRobinFollowed
<1> QED  BY <1>1, <1>7, <1>8, <1>9 DEF PairingFits

LEMMA FitsAlways ==
  PairingSpec => []PairingFits
<1>1. PairingInit => PairingFits
  <2>1. SUFFICES ASSUME PairingInit  PROVE PairingFits
    OBVIOUS
  <2>2. /\ setup \in Setups /\ roundsPlayed = 0 /\ games = {} /\ byes = {}
    BY <2>1 DEF PairingInit
  <2>3. RoundsOf \in Nat
    BY <2>2, SetupsAssumption, RoundsAre
  <2>4. IsFiniteSet({})
    BY FS_EmptySet
  <2>5. PairingTyped
    BY <2>2, <2>3, <2>4 DEF PairingTyped
  <2> QED  BY <2>2, <2>5 DEF PairingFits, RoundsSeated, OneGamePerPair, RoundRobinFollowed
<1>2. PairingFits /\ [PlayRound]_pairingVars => PairingFits'
  <2>1. SUFFICES ASSUME PairingFits, [PlayRound]_pairingVars  PROVE PairingFits'
    OBVIOUS
  <2>2. CASE PlayRound
    <3>1. PICK next, result : Played1(next, result)
      BY <2>2, PlayRoundIs
    <3> QED  BY <2>1, <3>1, FitsStays
  <2>3. CASE UNCHANGED pairingVars
    <3>1. setup' = setup /\ roundsPlayed' = roundsPlayed /\ games' = games /\ byes' = byes
      BY <2>3 DEF pairingVars
    <3>2. /\ Players' = Players /\ (Odd' <=> Odd) /\ RoundsOf' = RoundsOf
          /\ \A k : RoundRobinRound(k)' = RoundRobinRound(k)
      BY <3>1, FieldStays
    <3>3. PairingTyped'
      BY <2>1, <3>1, <3>2 DEF PairingFits, PairingTyped
    <3>4. RoundsSeated'
      BY <2>1, <3>1, <3>2 DEF PairingFits, RoundsSeated, Seats
    <3>5. OneGamePerPair'
      BY <2>1, <3>1 DEF PairingFits, OneGamePerPair
    <3>6. RoundRobinFollowed'
      BY <2>1, <3>1, <3>2 DEF PairingFits, RoundRobinFollowed
    <3> QED  BY <3>3, <3>4, <3>5, <3>6 DEF PairingFits
  <2> QED  BY <2>1, <2>2, <2>3
<1> QED  BY <1>1, <1>2, PTL DEF PairingSpec

-----------------------------------------------------------------------------
(* What every schedule owes its players.                                     *)

LEMMA OncePerRound ==
  ASSUME PairingFits
  PROVE  EveryoneOncePerRound
<1>1. ASSUME NEW r \in 1..roundsPlayed
      PROVE  /\ \A p \in Players :
                  Cardinality({g \in GamesOf(p) : g.round = r}) + Cardinality({b \in byes : b = <<r, p>>}) = 1
             /\ Cardinality({b \in byes : b[1] = r}) = IF Odd THEN 1 ELSE 0
  <2> DEFINE pairs == PairsIn(games, r)
             free == FreeIn(byes, r)
  <2>1. Seats(pairs, free)
    BY <1>1 DEF PairingFits, RoundsSeated
  <2>2. /\ byes \in SUBSET ((1..roundsPlayed) \X Players)
        /\ \A b \in byes : b = <<b[1], b[2]>>
    BY DEF PairingFits, PairingTyped
  <2>3. \A p : p \in free <=> <<r, p>> \in byes
    <3>1. ASSUME NEW p \in free  PROVE <<r, p>> \in byes
      <4>1. PICK b \in byes : b[1] = r /\ b[2] = p
        BY <3>1 DEF FreeIn
      <4> QED  BY <2>2, <4>1
    <3>2. ASSUME NEW p, <<r, p>> \in byes  PROVE p \in free
      <4>1. <<r, p>>[1] = r /\ <<r, p>>[2] = p
        OBVIOUS
      <4>2. \E b \in {c \in byes : c[1] = r} : b[2] = p
        BY <3>2, <4>1
      <4> QED  BY <4>2 DEF FreeIn
    <3> QED  BY <3>1, <3>2
  <2> HIDE DEF pairs, free
  <2>4. \A g \in games : g.round = r => <<g.a, g.b>> \in pairs
    BY DEF pairs, PairsIn
  <2>5. \A e \in pairs : \E g \in games : g.round = r /\ e = <<g.a, g.b>>
    BY DEF pairs, PairsIn
  <2>6. /\ Cardinality({}) = 0 /\ \A x : Cardinality({x}) = 1
    BY FS_EmptySet, FS_Singleton
  <2>7. ASSUME NEW p \in Players
        PROVE  Cardinality({g \in GamesOf(p) : g.round = r}) + Cardinality({b \in byes : b = <<r, p>>}) = 1
    <3> DEFINE G == {g \in GamesOf(p) : g.round = r}
               B == {b \in byes : b = <<r, p>>}
    <3>1. CASE p \in free
      <4>1. B = {<<r, p>>}
        BY <2>3, <3>1
      <4>2. G = {}
        <5>1. ASSUME NEW g \in games, g.round = r, p \in {g.a, g.b}  PROVE FALSE
          <6>1. <<g.a, g.b>> \in pairs
            BY <2>4, <5>1
          <6>2. g.a \in Players \ free /\ g.b \in Players \ free
            BY <2>1, <6>1 DEF Seats, Perfect
          <6> QED  BY <3>1, <5>1, <6>2
        <5> QED  BY <5>1 DEF GamesOf
      <4>3. Cardinality(G) = 0 /\ Cardinality(B) = 1
        <5> HIDE DEF G, B
        <5> QED  BY <2>6, <4>1, <4>2
      <4> QED  BY <4>3
    <3>2. CASE p \notin free
      <4>1. B = {}
        BY <2>3, <3>2
      <4>2. PICK e \in pairs : p \in {e[1], e[2]}
        BY <2>1, <3>2 DEF Seats, Perfect
      <4>3. PICK g \in games : g.round = r /\ e = <<g.a, g.b>>
        BY <2>5
      <4>4. g \in G
        BY <4>2, <4>3 DEF GamesOf
      <4>5. ASSUME NEW h \in G  PROVE h = g
        <5>1. h \in games /\ h.round = r /\ p \in {h.a, h.b}
          BY DEF GamesOf
        <5>2. <<h.a, h.b>> \in pairs /\ p \in {<<h.a, h.b>>[1], <<h.a, h.b>>[2]}
          BY <2>4, <5>1
        <5>3. <<h.a, h.b>> = e
          BY <2>1, <3>2, <4>2, <5>2 DEF Seats, Perfect
        <5>4. h.a = g.a /\ h.b = g.b
          BY <4>3, <5>3
        <5> QED  BY <4>3, <5>1, <5>4 DEF PairingFits, OneGamePerPair
      <4>6. G = {g}
        <5> HIDE DEF G
        <5> QED  BY <4>4, <4>5
      <4>7. Cardinality(G) = 1 /\ Cardinality(B) = 0
        <5> HIDE DEF G, B
        <5> QED  BY <2>6, <4>1, <4>6
      <4> QED  BY <4>7
    <3> QED  BY <3>1, <3>2
  <2>8. Cardinality({b \in byes : b[1] = r}) = IF Odd THEN 1 ELSE 0
    <3> DEFINE C == {b \in byes : b[1] = r}
    <3>1. \A b \in C : b[2] \in free /\ b = <<r, b[2]>>
      BY <2>2 DEF free, FreeIn
    <3>2. CASE Odd
      <4>1. PICK x : free = {x}
        BY <2>1, <3>2 DEF Seats
      <4>2. <<r, x>> \in byes /\ <<r, x>>[1] = r
        BY <2>3, <4>1
      <4>3. <<r, x>> \in C /\ \A b \in C : b = <<r, x>>
        BY <3>1, <4>1, <4>2
      <4>4. C = {<<r, x>>}
        <5> HIDE DEF C
        <5> QED  BY <4>3
      <4>5. Cardinality(C) = 1
        <5> HIDE DEF C
        <5> QED  BY <2>6, <4>4
      <4> QED  BY <3>2, <4>5
    <3>3. CASE ~ Odd
      <4>1. free = {}
        BY <2>1, <3>3 DEF Seats
      <4>2. C = {}
        <5> HIDE DEF C
        <5> QED  BY <3>1, <4>1
      <4>3. Cardinality(C) = 0
        <5> HIDE DEF C
        <5> QED  BY <2>6, <4>2
      <4> QED  BY <3>3, <4>3
    <3> QED  BY <3>2, <3>3
  <2> QED  BY <2>7, <2>8
<1> QED  BY <1>1 DEF EveryoneOncePerRound

(* The rounds of a round-robin in which two players meet. *)
MeetIn(p, q, r) == \E g \in games : g.round = r /\ {g.a, g.b} = {p, q}

LEMMA PairMeetsIn ==
  ASSUME PairingFits, setup.format # "swiss", NEW p \in Players, NEW q \in Players, p # q,
         NEW r \in 1..roundsPlayed
  PROVE  MeetIn(p, q, r) <=> Place(Turn(r), p) + Place(Turn(r), q) = CircleSize + 1
<1>1. /\ setup.n \in Nat \ {0, 1} /\ setup.rounds \in Nat /\ setup.format \in {"single", "double"}
      /\ r \in 1..RoundsOf
  <2>1. PairingTyped
    BY DEF PairingFits
  <2>2. setup.n \in Nat \ {0, 1} /\ setup.rounds \in Nat /\ setup.format \in {"single", "double"}
    BY <2>1, SetupIs
  <2>3. RoundsOf \in Nat /\ roundsPlayed \in 0..RoundsOf
    BY <2>1, <2>2, RoundsAre DEF PairingTyped
  <2> QED  BY <2>2, <2>3
<1>2. Turn(r) \in 0..(CircleSize - 2)
  BY <1>1, TurnIs
<1>3. p \in 1..CircleSize /\ q \in 1..CircleSize
  BY <1>1, CircleSizeIs DEF Players
<1> DEFINE N == Numbers(Turn(r))
<1>4. (<<p, q>> \in N \/ <<q, p>> \in N) <=> Place(Turn(r), p) + Place(Turn(r), q) = CircleSize + 1
  BY <1>1, <1>2, <1>3, MeetIs
<1>5. PairsIn(games, r) = {e \in RoundNumbers(r) : e[1] \in Players /\ e[2] \in Players}
  <2>1. PairsIn(games, r) = RoundRobinRound(r).pairs
    BY DEF PairingFits, RoundRobinFollowed
  <2> QED  BY <1>1, <2>1, RoundRobinRoundIs
<1> HIDE DEF N
<1>6. RoundNumbers(r) = N \/ RoundNumbers(r) = Swapped(N)
  BY DEF RoundNumbers, N
<1>7. /\ N \in SUBSET ((1..CircleSize) \X (1..CircleSize))
  BY <1>1, <1>2, NumbersPerfect DEF Perfect, N
<1>8. (<<p, q>> \in RoundNumbers(r) \/ <<q, p>> \in RoundNumbers(r))
        <=> (<<p, q>> \in N \/ <<q, p>> \in N)
  <2>1. \A x, y : <<x, y>> \in Swapped(N) <=> <<y, x>> \in N
    <3>1. ASSUME NEW x, NEW y, <<x, y>> \in Swapped(N)  PROVE <<y, x>> \in N
      <4>1. PICK e \in N : <<x, y>> = <<e[2], e[1]>>
        BY <3>1 DEF Swapped
      <4>2. e = <<e[1], e[2]>>
        BY <1>7
      <4> QED  BY <4>1, <4>2
    <3>2. ASSUME NEW x, NEW y, <<y, x>> \in N  PROVE <<x, y>> \in Swapped(N)
      <4>1. <<y, x>>[2] = x /\ <<y, x>>[1] = y
        OBVIOUS
      <4>2. \E e \in N : <<x, y>> = <<e[2], e[1]>>
        BY <3>2, <4>1
      <4> QED  BY <4>2 DEF Swapped
    <3> QED  BY <3>1, <3>2
  <2> QED  BY <1>6, <2>1
<1>9. MeetIn(p, q, r)
        <=> (<<p, q>> \in PairsIn(games, r) \/ <<q, p>> \in PairsIn(games, r))
  <2>1. ASSUME NEW g \in games, g.round = r, {g.a, g.b} = {p, q}
        PROVE  <<p, q>> \in PairsIn(games, r) \/ <<q, p>> \in PairsIn(games, r)
    <3>1. <<g.a, g.b>> \in PairsIn(games, r)
      BY <2>1 DEF PairsIn
    <3>2. <<g.a, g.b>> = <<p, q>> \/ <<g.a, g.b>> = <<q, p>>
      BY <2>1
    <3> QED  BY <3>1, <3>2
  <2>2. ASSUME <<p, q>> \in PairsIn(games, r) \/ <<q, p>> \in PairsIn(games, r)
        PROVE  \E g \in games : g.round = r /\ {g.a, g.b} = {p, q}
    <3>1. PICK g \in games : g.round = r /\ (<<g.a, g.b>> = <<p, q>> \/ <<g.a, g.b>> = <<q, p>>)
      BY <2>2 DEF PairsIn
    <3>2. {g.a, g.b} = {p, q}
      BY <3>1
    <3> QED  BY <3>1, <3>2
  <2> QED  BY <2>1, <2>2 DEF MeetIn
<1>10. (<<p, q>> \in PairsIn(games, r) \/ <<q, p>> \in PairsIn(games, r))
        <=> (<<p, q>> \in RoundNumbers(r) \/ <<q, p>> \in RoundNumbers(r))
  BY <1>5
<1> QED  BY <1>4, <1>8, <1>9, <1>10

LEMMA OneGameInRound ==
  ASSUME PairingFits, NEW g \in games, NEW h \in games, g.round = h.round, {g.a, g.b} = {h.a, h.b}
  PROVE  g = h
<1> DEFINE r == g.round
<1>1. r \in 1..roundsPlayed /\ g.a \in Players
  BY GamesAre DEF PairingFits
<1>2. Seats(PairsIn(games, r), FreeIn(byes, r))
  BY <1>1 DEF PairingFits, RoundsSeated
<1>3. <<g.a, g.b>> \in PairsIn(games, r) /\ <<h.a, h.b>> \in PairsIn(games, r)
  BY DEF PairsIn
<1>4. g.a \in Players \ FreeIn(byes, r)
  BY <1>2, <1>3 DEF Seats, Perfect
<1>5. g.a \in {<<g.a, g.b>>[1], <<g.a, g.b>>[2]} /\ g.a \in {<<h.a, h.b>>[1], <<h.a, h.b>>[2]}
  OBVIOUS
<1>6. <<g.a, g.b>> = <<h.a, h.b>>
  <2>1. Perfect(PairsIn(games, r), Players \ FreeIn(byes, r))
    BY <1>2 DEF Seats
  <2>2. \A d, e \in PairsIn(games, r) : g.a \in {d[1], d[2]} /\ g.a \in {e[1], e[2]} => d = e
    BY <1>4, <2>1 DEF Perfect
  <2> QED  BY <1>3, <1>5, <2>2
<1>7. g.a = h.a /\ g.b = h.b
  BY <1>6
<1> QED  BY <1>7 DEF PairingFits, OneGamePerPair

(* Every pair of a round-robin played to its end met as often as its format says. *)
LEMMA EveryPairMet ==
  ASSUME PairingFits, setup.format # "swiss", roundsPlayed = RoundsOf,
         NEW p \in Players, NEW q \in Players, p # q
  PROVE  TimesPlayed(p, q) = IF setup.format = "double" THEN 2 ELSE 1
<1> DEFINE G == {g \in games : {g.a, g.b} = {p, q}}
           m == CircleSize
<1>1. /\ setup.n \in Nat \ {0, 1} /\ setup.rounds \in Nat /\ setup.format \in {"single", "double"}
  BY SetupIs DEF PairingFits
<1>2. m \in Nat /\ m >= 2 /\ p \in 1..m /\ q \in 1..m
  BY <1>1, CircleSizeIs DEF Players
<1>3. PICK t \in 0..(m - 2) :
        /\ Place(t, p) + Place(t, q) = m + 1
        /\ \A s \in 0..(m - 2) : Place(s, p) + Place(s, q) = m + 1 => s = t
  BY <1>1, <1>2, MeetOnce
<1>4. \A r \in 1..roundsPlayed : Turn(r) \in 0..(m - 2)
  BY <1>1, TurnIs
<1>5. \A r \in 1..roundsPlayed : (\E g \in G : g.round = r) <=> Turn(r) = t
  <2>1. ASSUME NEW r \in 1..roundsPlayed  PROVE (\E g \in G : g.round = r) <=> Turn(r) = t
    <3>1. MeetIn(p, q, r) <=> Place(Turn(r), p) + Place(Turn(r), q) = m + 1
      BY PairMeetsIn
    <3>2. Place(Turn(r), p) + Place(Turn(r), q) = m + 1 <=> Turn(r) = t
      BY <1>3, <1>4
    <3>3. MeetIn(p, q, r) <=> \E g \in G : g.round = r
      BY DEF MeetIn
    <3> QED  BY <3>1, <3>2, <3>3
  <2> QED  BY <2>1
<1>6. \A g \in G : g.round \in 1..roundsPlayed /\ g \in games
  BY GamesAre DEF PairingFits
<1>7. \A g, h \in G : g.round = h.round => g = h
  BY OneGameInRound
<1> HIDE DEF G, m
<1>8. CASE setup.format = "single"
  <2>1. roundsPlayed = m - 1
    BY <1>1, <1>8, RoundsAre DEF m
  <2>2. t + 1 \in 1..roundsPlayed /\ Turn(t + 1) = t
    BY <1>2, <1>3, <1>8, <2>1 DEF Turn
  <2>3. PICK g \in G : g.round = t + 1
    BY <1>5, <2>2
  <2>4. \A h \in G : h.round = t + 1
    <3>1. ASSUME NEW h \in G  PROVE h.round = t + 1
      <4>1. h.round \in 1..roundsPlayed /\ Turn(h.round) = t
        BY <1>5, <1>6
      <4> QED  BY <1>8, <4>1 DEF Turn
    <3> QED  BY <3>1
  <2>5. G = {g}
    BY <1>7, <2>3, <2>4
  <2>6. Cardinality(G) = 1
    BY <2>5, FS_Singleton
  <2> QED  BY <1>8, <2>6 DEF TimesPlayed, G
<1>9. CASE setup.format = "double"
  <2>1. roundsPlayed = 2 * (m - 1)
    BY <1>1, <1>9, RoundsAre DEF m
  <2>2. t + 1 \in 1..roundsPlayed /\ Turn(t + 1) = t
    BY <1>2, <1>3, <1>9, <2>1 DEF Turn, m
  <2>3. t + m \in 1..roundsPlayed /\ Turn(t + m) = t /\ t + m # t + 1
    BY <1>2, <1>3, <1>9, <2>1 DEF Turn, m
  <2>4. PICK g \in G : g.round = t + 1
    BY <1>5, <2>2
  <2>5. PICK h \in G : h.round = t + m
    BY <1>5, <2>3
  <2>6. \A x \in G : x.round = t + 1 \/ x.round = t + m
    <3>1. ASSUME NEW x \in G  PROVE x.round = t + 1 \/ x.round = t + m
      <4>1. x.round \in 1..roundsPlayed /\ Turn(x.round) = t
        BY <1>5, <1>6
      <4>2. Turn(x.round) = x.round - m \/ Turn(x.round) = x.round - 1
        BY DEF Turn, m
      <4> QED  BY <1>2, <1>3, <4>1, <4>2
    <3> QED  BY <3>1
  <2>7. G = {g} \union {h} /\ g # h
    BY <1>7, <2>3, <2>4, <2>5, <2>6
  <2>8. IsFiniteSet({g}) /\ Cardinality({g}) = 1
    BY FS_Singleton
  <2>9. Cardinality({g} \union {h}) = 2
    BY <2>7, <2>8, FS_AddElement
  <2> QED  BY <1>9, <2>7, <2>9 DEF TimesPlayed, G
<1> QED  BY <1>1, <1>8, <1>9

(* A schedule drawn up at once is the one the rounds follow. *)
LEMMA FirstLeg ==
  ASSUME setup.n \in Nat \ {0, 1}, setup.rounds \in Nat, setup.format = "double",
         NEW r \in 0..(CircleSize - 2)
  PROVE  /\ r + 1 \in 1..RoundsOf /\ r + CircleSize \in 1..RoundsOf
         /\ RoundRobinRound(r + 1).pairs = Kept(CirclePairs(r))
         /\ RoundRobinRound(r + CircleSize).pairs = Swapped(Kept(CirclePairs(r)))
<1>1. CircleSize \in Nat /\ CircleSize >= 2 /\ RoundsOf = 2 * (CircleSize - 1)
  BY CircleSizeIs, RoundsAre
<1>2. r + 1 \in 1..RoundsOf /\ r + CircleSize \in 1..RoundsOf
  BY <1>1
<1>3. /\ ~ (r + 1 > CircleSize - 1) /\ r + CircleSize > CircleSize - 1
      /\ (r + 1) - 1 = r /\ (r + CircleSize) - CircleSize = r
  BY <1>1
<1>4. RoundRobinRound(r + 1).pairs = Kept(CirclePairs(r))
  BY <1>3 DEF RoundRobinRound, Kept
<1>5. RoundRobinRound(r + CircleSize).pairs = Kept(SwapLegs(CirclePairs(r)))
  BY <1>3 DEF RoundRobinRound, Kept
<1>6. ASSUME NEW M  PROVE Kept(SwapLegs(M)) = Swapped(Kept(M))
  <2>1. ASSUME NEW x \in Kept(SwapLegs(M))  PROVE x \in Swapped(Kept(M))
    <3>1. Nobody \notin {x[1], x[2]}
      BY <2>1 DEF Kept
    <3>2. PICK e \in M : x = <<e[2], e[1]>>
      BY <2>1 DEF Kept, SwapLegs
    <3>3. e \in Kept(M)
      BY <3>1, <3>2 DEF Kept
    <3> QED  BY <3>2, <3>3 DEF Swapped
  <2>2. ASSUME NEW x \in Swapped(Kept(M))  PROVE x \in Kept(SwapLegs(M))
    <3>1. PICK e \in Kept(M) : x = <<e[2], e[1]>>
      BY <2>2 DEF Swapped
    <3>2. e \in M /\ Nobody \notin {e[1], e[2]}
      BY DEF Kept
    <3>3. x \in SwapLegs(M)
      BY <3>1, <3>2 DEF SwapLegs
    <3>4. Nobody \notin {x[1], x[2]}
      BY <3>1, <3>2
    <3> QED  BY <3>3, <3>4 DEF Kept
  <2> QED  BY <2>1, <2>2
<1> QED  BY <1>2, <1>4, <1>5, <1>6

LEMMA DoubleIs ==
  ASSUME PairingFits, setup.format = "double", roundsPlayed = RoundsOf
  PROVE  {<<g.round, <<g.a, g.b>>>> : g \in games} = DoubleRoundRobinSchedule
<1> DEFINE m == CircleSize
           Leg(r) == {<<r + 1, p>> : p \in {q \in CirclePairs(r) : Nobody \notin {q[1], q[2]}}}
           leg1 == UNION {Leg(r) : r \in 0..(m - 2)}
           D == DoubleRoundRobinSchedule
           T == {<<g.round, <<g.a, g.b>>>> : g \in games}
<1>1. /\ setup.n \in Nat \ {0, 1} /\ setup.rounds \in Nat /\ setup.format # "swiss"
  BY SetupIs DEF PairingFits
<1>2. m \in Nat /\ m >= 2 /\ RoundsOf = 2 * (m - 1)
  BY <1>1, CircleSizeIs, RoundsAre
<1>3. \A r \in 1..roundsPlayed : PairsIn(games, r) = RoundRobinRound(r).pairs
  BY <1>1 DEF PairingFits, RoundRobinFollowed
<1>4. \A g \in games : g.round \in 1..roundsPlayed
  BY GamesAre DEF PairingFits
<1>5. \A x : x \in T <=> \E r \in 1..roundsPlayed : \E e \in PairsIn(games, r) : x = <<r, e>>
  <2>1. ASSUME NEW g \in games
        PROVE  \E r \in 1..roundsPlayed : \E e \in PairsIn(games, r) : <<g.round, <<g.a, g.b>>>> = <<r, e>>
    <3>1. <<g.a, g.b>> \in PairsIn(games, g.round)
      BY DEF PairsIn
    <3> QED  BY <1>4, <3>1
  <2>2. ASSUME NEW r \in 1..roundsPlayed, NEW e \in PairsIn(games, r)  PROVE <<r, e>> \in T
    <3>1. PICK g \in games : g.round = r /\ e = <<g.a, g.b>>
      BY DEF PairsIn
    <3> QED  BY <3>1
  <2> QED  BY <2>1, <2>2
<1>6. \A r \in 0..(m - 2) :
        /\ r + 1 \in 1..roundsPlayed /\ r + m \in 1..roundsPlayed
        /\ PairsIn(games, r + 1) = Kept(CirclePairs(r))
        /\ PairsIn(games, r + m) = Swapped(Kept(CirclePairs(r)))
  BY <1>1, <1>3, FirstLeg
<1>7. \A r : \A x : x \in Leg(r) <=> \E e \in Kept(CirclePairs(r)) : x = <<r + 1, e>>
  BY DEF Kept
<1>8. D = leg1 \union {<<x[1] + m - 1, <<x[2][2], x[2][1]>>>> : x \in leg1}
  BY DEF DoubleRoundRobinSchedule
<1> HIDE DEF Leg, T, D
<1>9. \A x : x \in leg1 <=> \E r \in 0..(m - 2) : \E e \in Kept(CirclePairs(r)) : x = <<r + 1, e>>
  BY <1>7
<1> HIDE DEF leg1, m
<1>10. ASSUME NEW x \in T  PROVE x \in D
  <2>1. PICK k \in 1..roundsPlayed : \E e \in PairsIn(games, k) : x = <<k, e>>
    BY <1>5
  <2>2. PICK e \in PairsIn(games, k) : x = <<k, e>>
    BY <2>1
  <2>3. CASE k <= m - 1
    <3>1. k - 1 \in 0..(m - 2) /\ (k - 1) + 1 = k
      BY <1>2, <2>3
    <3>2. e \in Kept(CirclePairs(k - 1))
      BY <1>6, <2>2, <3>1
    <3>3. x \in leg1
      BY <1>9, <2>2, <3>1, <3>2
    <3> QED  BY <1>8, <3>3
  <2>4. CASE k > m - 1
    <3>1. k - m \in 0..(m - 2) /\ (k - m) + m = k /\ ((k - m) + 1) + m - 1 = k
      BY <1>2, <2>4
    <3>2. e \in Swapped(Kept(CirclePairs(k - m)))
      BY <1>6, <2>2, <3>1
    <3>3. PICK d \in Kept(CirclePairs(k - m)) : e = <<d[2], d[1]>>
      BY <3>2 DEF Swapped
    <3> DEFINE y == <<(k - m) + 1, d>>
    <3>4. y \in leg1
      BY <1>9, <3>1, <3>3
    <3>5. y[1] + m - 1 = k /\ y[2] = d
      BY <3>1
    <3> HIDE DEF y
    <3>6. x = <<y[1] + m - 1, <<y[2][2], y[2][1]>>>>
      BY <2>2, <3>3, <3>5
    <3> QED  BY <1>8, <3>4, <3>6
  <2> QED  BY <1>2, <2>3, <2>4
<1>11. ASSUME NEW y \in leg1
       PROVE  y \in T /\ <<y[1] + m - 1, <<y[2][2], y[2][1]>>>> \in T
  <2>1. PICK r \in 0..(m - 2) : \E e \in Kept(CirclePairs(r)) : y = <<r + 1, e>>
    BY <1>9
  <2>2. PICK e \in Kept(CirclePairs(r)) : y = <<r + 1, e>>
    BY <2>1
  <2>3. y \in T
    BY <1>5, <1>6, <2>2
  <2>4. <<e[2], e[1]>> \in PairsIn(games, r + m) /\ r + m \in 1..roundsPlayed
    BY <1>6 DEF Swapped
  <2>5. <<r + m, <<e[2], e[1]>>>> \in T
    BY <1>5, <2>4
  <2>6. y[1] = r + 1 /\ y[2] = e /\ (r + 1) + m - 1 = r + m
    BY <1>2, <2>2
  <2> QED  BY <2>3, <2>5, <2>6
<1>12. \A x : x \in D => x \in T
  BY <1>8, <1>11
<1>13. T = D
  BY <1>10, <1>12
<1> QED  BY <1>13 DEF T, D

(* Every schedule keeps what it owes its players: everybody is seated once in every round,   *)
(* and a round-robin played to its end has every pair met as often as the format says.       *)
THEOREM SchedulesSound ==
  PairingSpec => []ScheduleSound
<1>1. ASSUME PairingFits  PROVE ScheduleSound
  <2>1. EveryoneOncePerRound
    BY <1>1, OncePerRound
  <2>2. ASSUME setup.format # "swiss",
               roundsPlayed = RoundCount(setup.format, setup.n, setup.rounds)
        PROVE  /\ \A p, q \in Players :
                    p # q => TimesPlayed(p, q) = IF setup.format = "double" THEN 2 ELSE 1
               /\ setup.format = "double" =>
                    {<<g.round, <<g.a, g.b>>>> : g \in games} = DoubleRoundRobinSchedule
    <3>1. roundsPlayed = RoundsOf
      BY <2>2 DEF RoundsOf
    <3>2. ASSUME NEW p \in Players, NEW q \in Players, p # q
          PROVE  TimesPlayed(p, q) = IF setup.format = "double" THEN 2 ELSE 1
      BY <1>1, <2>2, <3>1, <3>2, EveryPairMet
    <3>3. setup.format = "double" =>
            {<<g.round, <<g.a, g.b>>>> : g \in games} = DoubleRoundRobinSchedule
      BY <1>1, <3>1, DoubleIs
    <3> QED  BY <3>2, <3>3
  <2>3. RoundRobinComplete
    BY <2>2 DEF RoundRobinComplete
  <2> QED  BY <2>1, <2>3 DEF ScheduleSound
<1>2. PairingFits => ScheduleSound
  BY <1>1
<1> QED  BY <1>2, FitsAlways, PTL

-----------------------------------------------------------------------------
(* Byes and seats: a step keeps both fair.                                   *)

ByesIn(B, p) == Cardinality({b \in B : b[2] = p})
BalanceIn(G, p, r) ==
  Cardinality({g \in G : g.a = p /\ g.round < r}) - Cardinality({g \in G : g.b = p /\ g.round < r})

(* A round's bye adds to the byes of the player who has it and to nobody else's. *)
LEMMA ByesGrow ==
  ASSUME PairingTyped, NEW next, NEW result, Played1(next, result), NEW p \in Players
  PROVE  /\ ByesIn(byes, p) \in Nat
         /\ p \in next.byes => ByesIn(byes', p) = ByesIn(byes, p) + 1
         /\ p \notin next.byes => ByesIn(byes', p) = ByesIn(byes, p)
<1> DEFINE r == roundsPlayed + 1
           off == {<<r, q>> : q \in next.byes}
           B == {b \in byes : b[2] = p}
           C == {b \in byes' : b[2] = p}
<1>1. byes' = byes \union off
  BY DEF Played1
<1>2. roundsPlayed \in Nat /\ IsFiniteSet(B) /\ Cardinality(B) \in Nat
  BY GamesAre
<1>3. <<r, p>> \notin byes
  BY <1>2 DEF PairingTyped
<1>4. \A b \in off : b[2] = p => b = <<r, p>> /\ p \in next.byes
  OBVIOUS
<1>5. ByesIn(byes, p) = Cardinality(B) /\ ByesIn(byes', p) = Cardinality(C)
  BY DEF ByesIn
<1>6. CASE p \in next.byes
  <2>1. <<r, p>> \in off /\ <<r, p>>[2] = p
    BY <1>6
  <2>2. C = B \union {<<r, p>>}
    <3> HIDE DEF off
    <3> QED  BY <1>1, <1>4, <2>1
  <2>3. <<r, p>> \notin B
    BY <1>3
  <2> HIDE DEF B, C
  <2>4. Cardinality(C) = Cardinality(B) + 1
    BY <1>2, <2>2, <2>3, FS_AddElement
  <2> QED  BY <1>2, <1>5, <1>6, <2>4
<1>7. CASE p \notin next.byes
  <2>1. C = B
    <3> HIDE DEF off
    <3> QED  BY <1>1, <1>4, <1>7
  <2> HIDE DEF B, C
  <2> QED  BY <1>2, <1>5, <1>7, <2>1
<1> QED  BY <1>6, <1>7

(* The past of a round stays what it was; the past of the new one is all there was. *)
LEMMA PastStays ==
  ASSUME PairingTyped, NEW next, NEW result, Played1(next, result), NEW p
  PROVE  /\ \A r \in 1..roundsPlayed : BalanceIn(games', p, r) = BalanceIn(games, p, r)
         /\ BalanceIn(games', p, roundsPlayed + 1) = SeatBalance(p)
<1> DEFINE r0 == roundsPlayed + 1
           new == Recorded(r0, next.pairs, result)
<1>1. /\ r0 \in Nat /\ \A g \in games : g.round \in Nat /\ g.round < r0
      /\ \A g \in new : g.round = r0
  BY RecordedIs
<1>2. games' = games \union new
  BY DEF Played1
<1>3. roundsPlayed \in Nat
  BY GamesAre
<1> HIDE DEF new
<1>4. ASSUME NEW r \in 1..roundsPlayed  PROVE BalanceIn(games', p, r) = BalanceIn(games, p, r)
  <2>1. \A g \in new : ~ (g.round < r)
    BY <1>1, <1>3
  <2>2. {g \in games' : g.a = p /\ g.round < r} = {g \in games : g.a = p /\ g.round < r}
    BY <1>2, <2>1
  <2>3. {g \in games' : g.b = p /\ g.round < r} = {g \in games : g.b = p /\ g.round < r}
    BY <1>2, <2>1
  <2> QED  BY <2>2, <2>3 DEF BalanceIn
<1>5. BalanceIn(games', p, r0) = SeatBalance(p)
  <2>1. \A g \in new : ~ (g.round < r0)
    BY <1>1, <1>3
  <2>2. {g \in games' : g.a = p /\ g.round < r0} = {g \in games : g.a = p}
    BY <1>1, <1>2, <2>1
  <2>3. {g \in games' : g.b = p /\ g.round < r0} = {g \in games : g.b = p}
    BY <1>1, <1>2, <2>1
  <2> HIDE DEF r0
  <2> QED  BY <2>2, <2>3 DEF BalanceIn, SeatBalance
<1> QED  BY <1>4, <1>5

FairByes == \A p, q \in Players : ByesIn(byes, p) <= ByesIn(byes, q) + 1
FairSeats == \A g \in games : BalanceIn(games, g.a, g.round) <= BalanceIn(games, g.b, g.round)

LEMMA SwissFairIs ==
  SwissFair <=> (setup.format = "swiss" => /\ setup.caller = "arena" => FairByes
                                           /\ FairSeats)
BY DEF SwissFair, FairByes, FairSeats, ByesHad, ByesIn, BalanceBefore, BalanceIn

LEMMA ByesStayFair ==
  ASSUME PairingTyped, NEW next, NEW result, Played1(next, result),
         setup.format = "swiss", setup.caller = "arena", FairByes
  PROVE  FairByes'
<1>1. \A p \in Players : /\ ByesIn(byes, p) \in Nat
                         /\ p \in next.byes => ByesIn(byes', p) = ByesIn(byes, p) + 1
                         /\ p \notin next.byes => ByesIn(byes', p) = ByesIn(byes, p)
  BY ByesGrow
<1>2. next.byes = FairBye(Participants)
  BY NextRoundIs DEF Played1
<1>3. \A b \in next.byes : \A p \in Players : ByesIn(byes, b) <= ByesIn(byes, p) /\ b \in Players
  <2>1. Known(Participants) /\ setup.n \in Nat \ {0}
    BY ParticipantsKnown, SetupIs
  <2>2. \A p \in Players : Participants[p].byes = ByesIn(byes, p)
    BY ParticipantsKnown DEF ByeCount, Ranked, ByesHad, ByesIn
  <2>3. \A b \in next.byes : b \in Players /\ \A p \in Players : Participants[b].byes <= Participants[p].byes
    BY <1>2, <2>1, FairByeIs
  <2> QED  BY <2>2, <2>3
<1>4. \A b, c \in next.byes : b = c
  <2>1. Seats(next.pairs, next.byes)
    BY NextRoundIs DEF Played1
  <2> QED  BY <2>1 DEF Seats
<1>5. Players' = Players
  BY FieldStays DEF Played1
<1>6. ASSUME NEW p \in Players, NEW q \in Players
      PROVE  ByesIn(byes', p) <= ByesIn(byes', q) + 1
  <2>1. ByesIn(byes, p) <= ByesIn(byes, q) + 1
    BY DEF FairByes
  <2>2. CASE p \in next.byes
    <3>1. ByesIn(byes, p) <= ByesIn(byes, q)
      BY <1>3, <2>2
    <3> QED  BY <1>1, <2>2, <3>1
  <2>3. CASE p \notin next.byes
    BY <1>1, <2>1, <2>3
  <2> QED  BY <2>2, <2>3
<1> QED  BY <1>5, <1>6 DEF FairByes

LEMMA SeatsStayFair ==
  ASSUME PairingTyped, NEW next, NEW result, Played1(next, result),
         setup.format = "swiss", FairSeats
  PROVE  FairSeats'
<1> DEFINE r0 == roundsPlayed + 1
           new == Recorded(r0, next.pairs, result)
<1>1. \A g \in new : g.round = r0 /\ <<g.a, g.b>> \in next.pairs
  BY RecordedIs
<1>2. games' = games \union new
  BY DEF Played1
<1>3. \A g \in games : g.round \in 1..roundsPlayed
  BY GamesAre
<1>4. \A p : /\ \A r \in 1..roundsPlayed : BalanceIn(games', p, r) = BalanceIn(games, p, r)
             /\ BalanceIn(games', p, r0) = SeatBalance(p)
  BY PastStays
<1>5. \A e \in next.pairs : SeatBalance(e[1]) <= SeatBalance(e[2])
  BY NextRoundIs DEF Played1
<1> HIDE DEF new, r0
<1>6. ASSUME NEW g \in games'
      PROVE  BalanceIn(games', g.a, g.round) <= BalanceIn(games', g.b, g.round)
  <2>1. CASE g \in games
    <3>1. BalanceIn(games, g.a, g.round) <= BalanceIn(games, g.b, g.round)
      BY <2>1 DEF FairSeats
    <3>2. g.round \in 1..roundsPlayed
      BY <1>3, <2>1
    <3>3. /\ BalanceIn(games', g.a, g.round) = BalanceIn(games, g.a, g.round)
          /\ BalanceIn(games', g.b, g.round) = BalanceIn(games, g.b, g.round)
      BY <1>4, <3>2
    <3> QED  BY <3>1, <3>3
  <2>2. CASE g \in new
    <3>1. g.round = r0 /\ <<g.a, g.b>> \in next.pairs
      BY <1>1, <2>2
    <3>2. <<g.a, g.b>>[1] = g.a /\ <<g.a, g.b>>[2] = g.b
      OBVIOUS
    <3>3. SeatBalance(g.a) <= SeatBalance(g.b)
      BY <1>5, <3>1, <3>2
    <3> QED  BY <1>4, <3>1, <3>3
  <2> QED  BY <1>2, <2>1, <2>2
<1> QED  BY <1>6 DEF FairSeats

(* A Swiss tournament treats its players alike, whatever its size and results: the byes of a *)
(* competition go round, and seat A goes to the one of the two who had it less.              *)
THEOREM SwissStaysFair ==
  PairingSpec => []SwissFair
<1>1. PairingInit => SwissFair
  <2>1. SUFFICES ASSUME PairingInit  PROVE SwissFair
    OBVIOUS
  <2>2. byes = {} /\ games = {}
    BY <2>1 DEF PairingInit
  <2>3. \A p : ByesIn(byes, p) = 0
    BY <2>2, FS_EmptySet DEF ByesIn
  <2>4. FairByes /\ FairSeats
    BY <2>2, <2>3 DEF FairByes, FairSeats
  <2> QED  BY <2>4, SwissFairIs
<1>2. PairingFits /\ SwissFair /\ [PlayRound]_pairingVars => SwissFair'
  <2>1. SUFFICES ASSUME PairingFits, SwissFair, [PlayRound]_pairingVars  PROVE SwissFair'
    OBVIOUS
  <2>2. CASE PlayRound
    <3>1. PICK next, result : Played1(next, result)
      BY <2>2, PlayRoundIs
    <3>2. PairingTyped /\ setup' = setup
      BY <2>1, <3>1 DEF PairingFits, Played1
    <3>3. setup.format = "swiss" /\ setup.caller = "arena" => FairByes'
      BY <2>1, <3>1, <3>2, ByesStayFair, SwissFairIs
    <3>4. setup.format = "swiss" => FairSeats'
      BY <2>1, <3>1, <3>2, SeatsStayFair, SwissFairIs
    <3>5. (setup.format = "swiss" => /\ setup.caller = "arena" => FairByes
                                     /\ FairSeats)'
      BY <3>2, <3>3, <3>4
    <3> QED  BY <3>5 DEF SwissFair, FairByes, FairSeats, ByesHad, ByesIn, BalanceBefore, BalanceIn
  <2>3. CASE UNCHANGED pairingVars
    BY <2>1, <2>3 DEF pairingVars, SwissFair, ByesHad, BalanceBefore, Players
  <2> QED  BY <2>1, <2>2, <2>3
<1> QED  BY <1>1, <1>2, FitsAlways, PTL DEF PairingSpec

-----------------------------------------------------------------------------
(* Rematches: a step repeats a pairing only if every way to pair its pool does. *)

EarlierPairs(G, r) == {{g.a, g.b} : g \in {h \in G : h.round < r}}
PoolOf(B, r) == {p \in Players : <<r, p>> \notin B}
Rematch(G, r) == \E g \in G : g.round = r /\ {g.a, g.b} \in EarlierPairs(G, r)
NewPartners(S, E, partner) ==
  /\ partner \in [S -> S]
  /\ \A p \in S : partner[p] # p /\ partner[partner[p]] = p /\ {p, partner[p]} \notin E

Forced(s, pool, G, r) ==
  /\ s.format = "swiss" /\ Cardinality(pool) <= PoolSearchedThrough /\ Rematch(G, r)
  => ~ \E partner : NewPartners(pool, EarlierPairs(G, r), partner)

LEMMA ForcedIs ==
  RematchOnlyIfForced <=> Forced(setup, PoolOf(byes, roundsPlayed), games, roundsPlayed)
BY DEF RematchOnlyIfForced, Forced, Rematch, EarlierPairs, PoolOf, NewPartners

LEMMA PoolIs ==
  ASSUME PairingTyped, NEW next, NEW result, Played1(next, result)
  PROVE  PoolOf(byes', roundsPlayed + 1) = Players \ next.byes
<1> DEFINE r == roundsPlayed + 1
           off == {<<r, p>> : p \in next.byes}
<1>1. byes' = byes \union off
  BY DEF Played1
<1>2. roundsPlayed \in Nat
  BY GamesAre
<1>3. \A p : <<r, p>> \notin byes
  BY <1>2 DEF PairingTyped
<1>4. \A p : <<r, p>> \in off <=> p \in next.byes
  <2>1. ASSUME NEW p, <<r, p>> \in off  PROVE p \in next.byes
    <3>1. PICK q \in next.byes : <<r, p>> = <<r, q>>
      BY <2>1
    <3> QED  BY <3>1
  <2> QED  BY <2>1
<1> HIDE DEF off, r
<1>5. PoolOf(byes', r) = Players \ next.byes
  BY <1>1, <1>3, <1>4 DEF PoolOf
<1> QED  BY <1>5 DEF r

LEMMA EarlierIs ==
  ASSUME PairingTyped, NEW next, NEW result, Played1(next, result)
  PROVE  /\ EarlierPairs(games', roundsPlayed + 1) = {{g.a, g.b} : g \in games}
         /\ Rematch(games', roundsPlayed + 1) =>
              \E e \in next.pairs : {e[1], e[2]} \in {{g.a, g.b} : g \in games}
<1> DEFINE r0 == roundsPlayed + 1
           new == Recorded(r0, next.pairs, result)
<1>1. /\ r0 \in Nat /\ \A g \in games : g.round \in Nat /\ g.round < r0
      /\ \A g \in new : g.round = r0 /\ <<g.a, g.b>> \in next.pairs
  BY RecordedIs
<1>2. games' = games \union new
  BY DEF Played1
<1>3. ~ (r0 < r0)
  BY <1>1
<1> HIDE DEF new, r0
<1>4. {h \in games' : h.round < r0} = games
  BY <1>1, <1>2, <1>3
<1>5. EarlierPairs(games', r0) = {{g.a, g.b} : g \in games}
  BY <1>4 DEF EarlierPairs
<1>6. ASSUME Rematch(games', r0)
      PROVE  \E e \in next.pairs : {e[1], e[2]} \in {{g.a, g.b} : g \in games}
  <2>1. PICK g \in games' : g.round = r0 /\ {g.a, g.b} \in {{h.a, h.b} : h \in games}
    BY <1>5, <1>6 DEF Rematch
  <2>2. g \in new
    BY <1>1, <1>2, <1>3, <2>1
  <2>3. <<g.a, g.b>> \in next.pairs /\ <<g.a, g.b>>[1] = g.a /\ <<g.a, g.b>>[2] = g.b
    BY <1>1, <2>2
  <2> QED  BY <2>1, <2>3
<1> QED  BY <1>5, <1>6 DEF r0

(* A Swiss round repeats a pairing only when no way to give everybody of its pool a partner  *)
(* avoids it, for every pool the search is certain to look through.                          *)
THEOREM RematchesForced ==
  PairingSpec => []RematchOnlyIfForced
<1>1. PairingInit => RematchOnlyIfForced
  <2>1. SUFFICES ASSUME PairingInit  PROVE RematchOnlyIfForced
    OBVIOUS
  <2>2. games = {}
    BY <2>1 DEF PairingInit
  <2>3. ~ Rematch(games, roundsPlayed)
    BY <2>2 DEF Rematch
  <2> QED  BY <2>3, ForcedIs DEF Forced
<1>2. PairingFits /\ RematchOnlyIfForced /\ [PlayRound]_pairingVars => RematchOnlyIfForced'
  <2>1. SUFFICES ASSUME PairingFits, RematchOnlyIfForced, [PlayRound]_pairingVars
                 PROVE  RematchOnlyIfForced'
    OBVIOUS
  <2>2. Forced(setup', PoolOf(byes, roundsPlayed)', games', roundsPlayed') => RematchOnlyIfForced'
    BY DEF RematchOnlyIfForced, Forced, Rematch, EarlierPairs, PoolOf, NewPartners
  <2>3. CASE PlayRound
    <3>1. PICK next, result : Played1(next, result)
      BY <2>3, PlayRoundIs
    <3>2. PairingTyped
      BY <2>1 DEF PairingFits
    <3>3. setup' = setup /\ roundsPlayed' = roundsPlayed + 1 /\ Players' = Players
      BY <3>1, FieldStays DEF Played1
    <3> DEFINE r0 == roundsPlayed + 1
               E == {{g.a, g.b} : g \in games}
               pool == Players \ next.byes
    <3>4. /\ PoolOf(byes', r0) = pool
          /\ EarlierPairs(games', r0) = E
      BY <3>1, <3>2, PoolIs, EarlierIs
    <3>5. ASSUME setup.format = "swiss", Cardinality(pool) <= PoolSearchedThrough,
                 Rematch(games', r0), NEW partner, NewPartners(pool, E, partner)
          PROVE  FALSE
      <4>1. \E e \in next.pairs : {e[1], e[2]} \in E
        BY <3>1, <3>2, <3>5, EarlierIs
      <4>2. Cardinality(pool) \in Nat /\ PoolSearchedThrough \in Nat
        <5>1. pool \in SUBSET Players /\ setup.n \in Nat
          BY <3>2, SetupIs
        <5> HIDE DEF pool
        <5> QED  BY <5>1, FinitePlayers DEF PoolSearchedThrough
      <4>3. ~ (Cardinality(pool) > PoolSearchedThrough)
        <5> HIDE DEF pool
        <5> QED  BY <3>5, <4>2
      <4>4. ~ \E other : Partners(Participants, pool, other)
        BY <3>1, <3>2, <3>5, <4>1, <4>3, NextRoundIs DEF Played1
      <4>5. Partners(Participants, pool, partner)
        <5>1. ASSUME NEW p \in pool  PROVE Participants[p].met[partner[p]] = 0
          <6>1. p \in Players /\ partner[p] \in Players /\ {p, partner[p]} \notin E
            BY <3>5 DEF NewPartners
          <6>2. TimesPlayed(p, partner[p]) = 0
            BY <3>2, <6>1, MetBefore
          <6> QED  BY <3>2, <6>1, <6>2, ParticipantsKnown
        <5> HIDE DEF pool
        <5> QED  BY <3>5, <5>1 DEF NewPartners, Partners
      <4> QED  BY <4>4, <4>5
    <3> HIDE DEF pool, E
    <3>6. ( /\ setup.format = "swiss" /\ Cardinality(PoolOf(byes', r0)) <= PoolSearchedThrough
            /\ Rematch(games', r0)
            => ~ \E partner : NewPartners(PoolOf(byes', r0), EarlierPairs(games', r0), partner) )
      BY <3>4, <3>5
    <3>7. Forced(setup', PoolOf(byes', r0), games', r0)
      BY <3>3, <3>6 DEF Forced
    <3>8. PoolOf(byes', r0) = PoolOf(byes, roundsPlayed)'
      BY <3>3 DEF PoolOf
    <3> QED  BY <3>3, <3>7, <3>8, <2>2
  <2>4. CASE UNCHANGED pairingVars
    <3>1. setup' = setup /\ roundsPlayed' = roundsPlayed /\ games' = games /\ byes' = byes
      BY <2>4 DEF pairingVars
    <3>2. PoolOf(byes, roundsPlayed)' = PoolOf(byes, roundsPlayed)
      BY <3>1 DEF PoolOf, Players
    <3>3. Forced(setup, PoolOf(byes, roundsPlayed), games, roundsPlayed)
      BY <2>1, ForcedIs
    <3>4. Forced(setup', PoolOf(byes, roundsPlayed)', games', roundsPlayed')
      BY <3>1, <3>2, <3>3
    <3> QED  BY <2>2, <3>4
  <2> QED  BY <2>1, <2>3, <2>4
<1> QED  BY <1>1, <1>2, FitsAlways, PTL DEF PairingSpec
=============================================================================
