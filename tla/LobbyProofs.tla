---------------------------- MODULE LobbyProofs ----------------------------
(***************************************************************************)
(* Proofs about one room of the Lobby, for any guests, invites and number  *)
(* of requests in flight.  LobbyInv is inductive: one lemma per operation  *)
(* shows that it keeps every part of it.  The parts an operation does not  *)
(* disturb come in one step; where the code branches, the proof does.      *)
(* Fairness is not used.                                                   *)
(***************************************************************************)
EXTENDS Lobby, TLAPS

-----------------------------------------------------------------------------
(* create: the room does not exist, or is not published, until the last step. *)

LEMMA CreateKeeps ==
  ASSUME LobbyInv, Create
  PROVE  LobbyInv'
<1>1. TypeOK'
  BY DEF LobbyInv, TypeOK, Records, Requests, Invitations, Create
<1>2. ListExact' /\ NoStrandedSeat' /\ TerminalClean' /\ RequestsSound' /\ Unpublished' /\
     SeatFree' /\ JoinsSound' /\ ReservationSound' /\ Seated'
  BY DEF LobbyInv, ListExact, NoStrandedSeat, TerminalClean, RequestsSound, Unpublished,
       SeatFree, JoinsSound, ReservationSound, Seated, Create
<1> QED  BY <1>1, <1>2 DEF LobbyInv

LEMMA InitializeGameKeeps ==
  ASSUME LobbyInv, InitializeGame
  PROVE  LobbyInv'
<1>1. TypeOK'
  BY DEF LobbyInv, TypeOK, Records, Requests, Invitations, InitializeGame
<1>2. ListExact' /\ NoStrandedSeat' /\ TerminalClean' /\ RequestsSound' /\ Unpublished' /\
     SeatFree' /\ JoinsSound' /\ ReservationSound' /\ Seated'
  BY DEF LobbyInv, ListExact, NoStrandedSeat, TerminalClean, RequestsSound, Unpublished,
       SeatFree, JoinsSound, ReservationSound, Seated, InitializeGame
<1> QED  BY <1>1, <1>2 DEF LobbyInv

LEMMA PublishRoomKeeps ==
  ASSUME LobbyInv, PublishRoom
  PROVE  LobbyInv'
<1>1. TypeOK'
  <2>1. room' \in Records
    BY DEF LobbyInv, TypeOK, Records, Invitations, Requests, PublishRoom, Idle, Seats
  <2>2. listed' \in BOOLEAN
    BY DEF LobbyInv, TypeOK, Records, Invitations, Requests, PublishRoom, Idle, Seats
  <2> QED  BY <2>1, <2>2 DEF LobbyInv, TypeOK, PublishRoom
<1>2. ListExact'
  BY DEF LobbyInv, ListExact, TypeOK, Records, PublishRoom
<1>3. NoStrandedSeat'
  BY DEF LobbyInv, NoStrandedSeat, TypeOK, Unpublished, PublishRoom
<1>4. TerminalClean'
  BY DEF LobbyInv, TerminalClean, TypeOK, Records, PublishRoom
<1>5. RequestsSound'
  BY DEF LobbyInv, RequestsSound, PublishRoom
<1>6. Unpublished'
  BY DEF LobbyInv, Unpublished, TypeOK, Records, PublishRoom
<1>7. SeatFree'
  BY DEF LobbyInv, SeatFree, TypeOK, Records, PublishRoom
<1>8. JoinsSound'
  BY DEF LobbyInv, JoinsSound, TypeOK, Unpublished, Records, PublishRoom, Idle
<1>9. ReservationSound'
  BY DEF LobbyInv, ReservationSound, TypeOK, Unpublished, PublishRoom, Idle
<1>10. Seated'
  BY DEF LobbyInv, Seated, TypeOK, Records, PublishRoom
<1> QED  BY <1>1, <1>2, <1>3, <1>4, <1>5, <1>6, <1>7, <1>8, <1>9, <1>10 DEF LobbyInv

LEMMA RollbackCreateKeeps ==
  ASSUME LobbyInv, RollbackCreate
  PROVE  LobbyInv'
<1>1. TypeOK'
  BY DEF LobbyInv, TypeOK, Records, Requests, Invitations, RollbackCreate
<1>2. ListExact' /\ NoStrandedSeat' /\ TerminalClean' /\ RequestsSound' /\ Unpublished' /\
     SeatFree' /\ JoinsSound' /\ ReservationSound' /\ Seated'
  BY DEF LobbyInv, ListExact, NoStrandedSeat, TerminalClean, RequestsSound, Unpublished,
       SeatFree, JoinsSound, ReservationSound, Seated, RollbackCreate
<1> QED  BY <1>1, <1>2 DEF LobbyInv

-----------------------------------------------------------------------------
(* join: nobody else holds or awaits the seat when it is reserved.            *)

LEMMA ReserveJoinKeeps ==
  ASSUME NEW q \in Slots, NEW g \in Guests, LobbyInv, ReserveJoin(q, g)
  PROVE  LobbyInv'
<1>1. TypeOK'
  <2>1. room' \in Records
    BY DEF LobbyInv, TypeOK, Records, ReserveJoin
  <2>2. cred' \in [Seats -> Guests \cup {Owner, Nobody, Lost}]
    BY DEF LobbyInv, TypeOK, Seats, ReserveJoin
  <2>3. [Idle EXCEPT !.op = "join", !.by = g, !.phase = "call"] \in Requests
    BY DEF Idle, Requests
  <2>4. reqs' \in [Slots -> Requests]
    BY <2>3 DEF LobbyInv, TypeOK, ReserveJoin
  <2> QED  BY <2>1, <2>2, <2>4 DEF LobbyInv, TypeOK, ReserveJoin
<1>2. ListExact' /\ NoStrandedSeat' /\ TerminalClean' /\ RequestsSound' /\ Unpublished' /\
     SeatFree' /\ Seated'
  BY DEF LobbyInv, ListExact, NoStrandedSeat, TerminalClean, RequestsSound, Unpublished,
       SeatFree, Seated, ReserveJoin
<1>3. JoinsSound'
  BY DEF LobbyInv, JoinsSound, TypeOK, ReserveJoin
<1>4. ReservationSound'
  <2>1. room'.status = "joining" /\ cred'["B"] = g
    BY DEF LobbyInv, TypeOK, Records, Seats, ReserveJoin
  <2>2. ~raced => \A i \in Invites : invites[i].state # "pending"
    BY DistinctConstants DEF LobbyInv, ReservationSound, Invites, ReserveJoin
  <2>3. ~raced => \A p \in Slots : reqs[p].op # "claim"
    BY DistinctConstants DEF LobbyInv, ReservationSound, RequestsSound, Invites, ReserveJoin
  <2>4. \A p \in Slots : reqs[p].op # "join"
    BY DEF LobbyInv, JoinsSound, ReserveJoin
  <2>5. \A p \in Slots : reqs'[p] = IF p = q THEN [Idle EXCEPT !.op = "join", !.by = g, !.phase = "call"] ELSE reqs[p]
    BY DEF LobbyInv, TypeOK, ReserveJoin
  <2> QED  BY <2>1, <2>2, <2>3, <2>4, <2>5 DEF ReservationSound, ReserveJoin, Idle
<1> QED  BY <1>1, <1>2, <1>3, <1>4 DEF LobbyInv

\* The join may find its reservation as it left it, or the room taken over.
LEMMA FinalizeJoinKeeps ==
  ASSUME NEW q \in Slots, LobbyInv, FinalizeJoin(q)
  PROVE  LobbyInv'
<1> DEFINE Given == /\ reqs[q].phase = "ok" /\ room.status = "joining"
                    /\ room' = [room EXCEPT !.status = "playing", !.seats = 2,
                                            !.nameB = reqs[q].by]
                    /\ told' = told \cup {reqs[q].by}
                    /\ UNCHANGED <<listed, cred>>
           TurnedAway == /\ room.status = "joining"
                         /\ room' = [room EXCEPT !.status = "waiting"]
                         /\ listed' = TRUE
                         /\ cred' = [cred EXCEPT !["B"] = Nobody]
                         /\ told' = told
           Overtaken == room.status # "joining" /\ UNCHANGED <<room, listed, cred, told>>
<1>a. Given \/ TurnedAway \/ Overtaken
  BY DEF FinalizeJoin, RollbackJoin, LobbyInv, SeatFree
<1>b. /\ reqs[q].op = "join" /\ reqs' = [reqs EXCEPT ![q] = Idle]
      /\ UNCHANGED <<alias, invites, game, creating, minting, raced, restarted>>
  BY DEF FinalizeJoin
<1>c. reqs[q].by \in Guests
  BY <1>b DEF LobbyInv, RequestsSound
<1>1. TypeOK'
  <2>1. room' \in Records
    <3>1. room \in Records
      BY DEF LobbyInv, TypeOK
    <3>2. CASE Given
      BY <3>1, <3>2, <1>c DEF Records
    <3>3. CASE TurnedAway
      BY <3>1, <3>3 DEF Records
    <3>4. CASE Overtaken
      BY <3>1, <3>4
    <3> QED  BY <3>2, <3>3, <3>4, <1>a
  <2>2. cred' \in [Seats -> Guests \cup {Owner, Nobody, Lost}]
    BY <1>a DEF LobbyInv, TypeOK, Seats
  <2>3. listed' \in BOOLEAN
    BY <1>a DEF LobbyInv, TypeOK
  <2>4. told' \in SUBSET Guests
    BY <1>a, <1>c DEF LobbyInv, TypeOK
  <2>5. reqs' \in [Slots -> Requests]
    BY <1>b DEF LobbyInv, TypeOK, Idle, Requests
  <2> QED  BY <1>b, <2>1, <2>2, <2>3, <2>4, <2>5 DEF LobbyInv, TypeOK
<1>2. ListExact'
  <2>1. CASE Given
    BY <2>1, <1>b DEF LobbyInv, ListExact, TypeOK, Records
  <2>2. CASE TurnedAway
    BY <2>2, <1>b DEF LobbyInv, ListExact, TypeOK, Records
  <2>3. CASE Overtaken
    BY <2>3, <1>b DEF LobbyInv, ListExact, TypeOK, Records
  <2> QED  BY <2>1, <2>2, <2>3, <1>a
<1>3. NoStrandedSeat'
  BY DistinctConstants DEF LobbyInv, NoStrandedSeat, TypeOK, Records, Requests,
       Invitations, FinalizeJoin, RollbackJoin, Idle, Seats, Invites
<1>4. TerminalClean'
  BY <1>a, <1>b, DistinctConstants DEF LobbyInv, TerminalClean, TypeOK, Records, Idle, Seats
<1>5. RequestsSound'
  BY DEF LobbyInv, RequestsSound, FinalizeJoin, RollbackJoin, Idle
<1>6. Unpublished'
  BY <1>a, <1>b, DistinctConstants DEF LobbyInv, Unpublished, TypeOK, Records, Idle, Seats
<1>7. SeatFree'
  BY <1>a, <1>b, DistinctConstants DEF LobbyInv, SeatFree, TypeOK, Records, Idle, Seats
<1>8. JoinsSound'
  <2>1. CASE Given
    BY <2>1, <1>b, <1>c DEF LobbyInv, JoinsSound, TypeOK, Records, Requests, Idle
  <2>2. CASE TurnedAway
    BY <2>2, <1>b, <1>c DEF LobbyInv, JoinsSound, TypeOK, Records, Requests, Idle
  <2>3. CASE Overtaken
    BY <2>3, <1>b, <1>c DEF LobbyInv, JoinsSound, TypeOK, Records, Requests, Idle
  <2> QED  BY <2>1, <2>2, <2>3, <1>a
<1>9. ReservationSound'
  BY DEF LobbyInv, ReservationSound, TypeOK, Records, FinalizeJoin, RollbackJoin, Idle
<1>10. Seated'
  <2>1. CASE Given
    BY <2>1, <1>b, <1>c, DistinctConstants DEF LobbyInv, Seated, RequestsSound, SeatFree, ReservationSound, TypeOK, Records
  <2>2. CASE TurnedAway
    BY <2>2, <1>b, <1>c, DistinctConstants DEF LobbyInv, Seated, RequestsSound, SeatFree, ReservationSound, TypeOK, Records
  <2>3. CASE Overtaken
    BY <2>3, <1>b, <1>c, DistinctConstants DEF LobbyInv, Seated, RequestsSound, SeatFree, ReservationSound, TypeOK, Records
  <2> QED  BY <2>1, <2>2, <2>3, <1>a
<1> QED  BY <1>1, <1>2, <1>3, <1>4, <1>5, <1>6, <1>7, <1>8, <1>9, <1>10 DEF LobbyInv

-----------------------------------------------------------------------------
(* The Game records one name for good: an answer "ok" names the recorded one. *)

LEMMA SeatUpdateKeeps ==
  ASSUME NEW q \in Slots, LobbyInv, SeatUpdate(q)
  PROVE  LobbyInv'
<1>a. /\ reqs[q].by \in Guests /\ reqs[q].op # "idle" /\ reqs[q].phase = "call"
      /\ game.nameB \in {Nobody, reqs[q].by} \/ game'.nameB = game.nameB
      /\ game'.nameB \in {game.nameB, reqs[q].by}
  BY DEF LobbyInv, TypeOK, RequestsSound, Idle, SeatUpdate
<1>b. \/ reqs' = [reqs EXCEPT ![q].phase = "ok"] /\ game'.nameB = reqs[q].by
      \/ reqs' = [reqs EXCEPT ![q].phase = "refused"]
      \/ reqs' = [reqs EXCEPT ![q].attempt = 1]
  BY DEF LobbyInv, TypeOK, SeatUpdate
<1>c. /\ reqs' \in [Slots -> Requests]
      /\ \A p \in Slots : /\ reqs'[p].op = reqs[p].op /\ reqs'[p].by = reqs[p].by
                          /\ reqs'[p].invite = reqs[p].invite
                          /\ p # q => reqs'[p] = reqs[p]
                          /\ reqs'[p].phase \in {reqs[p].phase, "ok", "refused"}
  BY <1>b DEF LobbyInv, TypeOK, Requests
<1>d. reqs'[q].phase = "ok" => game'.nameB = reqs[q].by
  BY <1>a, <1>b DEF LobbyInv, TypeOK, Requests
<1>1. TypeOK'
  <2>1. game' \in [init : BOOLEAN, over : BOOLEAN, nameB : Guests \cup {Nobody}]
    BY <1>a DEF LobbyInv, TypeOK, SeatUpdate
  <2> QED  BY <2>1, <1>c DEF LobbyInv, TypeOK, SeatUpdate
<1>2. ListExact' /\ NoStrandedSeat' /\ TerminalClean' /\ SeatFree'
  BY DEF LobbyInv, ListExact, NoStrandedSeat, TerminalClean, SeatFree, SeatUpdate
<1>3. RequestsSound'
  <2> SUFFICES ASSUME NEW p \in Slots
               PROVE  /\ reqs'[p].op = "idle" => reqs'[p] = Idle
                      /\ reqs'[p].op # "idle" => reqs'[p].by \in Guests /\ reqs'[p].phase # "none"
                      /\ reqs'[p].op = "claim" => reqs'[p].invite \in Invites
                      /\ reqs'[p].phase = "ok" => reqs'[p].by = game'.nameB
    BY DEF RequestsSound
  <2>1. CASE p = q
    BY <2>1, <1>a, <1>c, <1>d DEF LobbyInv, RequestsSound
  <2>2. CASE p # q
    <3>1. reqs'[p] = reqs[p]
      BY <2>2, <1>c
    <3>2. reqs[p].phase = "ok" => game'.nameB = game.nameB
      BY <1>a, DistinctConstants DEF LobbyInv, RequestsSound, Idle
    <3> QED  BY <3>1, <3>2 DEF LobbyInv, RequestsSound
  <2> QED  BY <2>1, <2>2
<1>4. Unpublished'
  BY DEF LobbyInv, Unpublished, SeatUpdate, Idle
<1>5. JoinsSound'
  BY <1>c DEF LobbyInv, JoinsSound, SeatUpdate
<1>6. ReservationSound'
  BY <1>c DEF LobbyInv, ReservationSound, SeatUpdate
<1>7. Seated'
  BY DistinctConstants DEF LobbyInv, Seated, TypeOK, SeatUpdate
<1> QED  BY <1>1, <1>2, <1>3, <1>4, <1>5, <1>6, <1>7 DEF LobbyInv

-----------------------------------------------------------------------------
(* Invites.                                                                   *)

LEMMA CheckInviteKeeps ==
  ASSUME LobbyInv, CheckInvite
  PROVE  LobbyInv'
<1>1. TypeOK'
  BY DEF LobbyInv, TypeOK, Records, Requests, Invitations, CheckInvite
<1>2. ListExact' /\ NoStrandedSeat' /\ TerminalClean' /\ RequestsSound' /\ Unpublished' /\
     SeatFree' /\ JoinsSound' /\ ReservationSound' /\ Seated'
  BY DEF LobbyInv, ListExact, NoStrandedSeat, TerminalClean, RequestsSound, Unpublished,
       SeatFree, JoinsSound, ReservationSound, Seated, CheckInvite
<1> QED  BY <1>1, <1>2 DEF LobbyInv

LEMMA StoreInviteKeeps ==
  ASSUME NEW i \in Invites, LobbyInv, StoreInvite(i)
  PROVE  LobbyInv'
<1>1. TypeOK'
  <2>1. invites' \in [Invites -> Invitations]
    BY DEF LobbyInv, TypeOK, Records, Invitations, Requests, StoreInvite, Idle, Seats
  <2> QED  BY <2>1 DEF LobbyInv, TypeOK, StoreInvite
<1>2. ListExact' /\ NoStrandedSeat' /\ TerminalClean' /\ RequestsSound' /\ Unpublished' /\
     SeatFree' /\ JoinsSound' /\ ReservationSound' /\ Seated'
  BY DEF LobbyInv, ListExact, NoStrandedSeat, TerminalClean, RequestsSound, Unpublished,
       SeatFree, JoinsSound, ReservationSound, Seated, StoreInvite
<1> QED  BY <1>1, <1>2 DEF LobbyInv

\* Claims in flight beside one another are for the same invite, by the same guest.
LEMMA ReserveClaimKeeps ==
  ASSUME NEW q \in Slots, NEW g \in Guests, NEW i \in Invites, NEW proof \in {g, Nobody}, LobbyInv, ReserveClaim(q, g, i, proof)
  PROVE  LobbyInv'
<1> DEFINE New == /\ invites[i].state = "unclaimed" /\ cred["B"] = Nobody
                  /\ invites' = [invites EXCEPT ![i].state = "pending", ![i].proof = proof]
                  /\ cred' = [cred EXCEPT !["B"] = g]
           Again == /\ invites[i].state = "pending" /\ invites[i].proof = g
                    /\ UNCHANGED <<invites, cred>>
<1>a. New \/ Again
  BY DEF ReserveClaim, MayClaim
<1>b. room.status = "waiting"
  BY DistinctConstants DEF LobbyInv, JoinsSound, Invites, ReserveClaim
<1>c. room'.status = "waiting" /\ room'.pending = i /\ i # NoInvite
  BY <1>b, DistinctConstants DEF LobbyInv, TypeOK, Records, Invites, ReserveClaim
<1>d. /\ invites'[i].state = "pending"
      /\ invites'[i].proof \in {Nobody, g}
      /\ \A j \in Invites \ {i} : invites'[j] = invites[j]
  BY <1>a DEF LobbyInv, TypeOK, Invitations
<1>e. \A p \in Slots : reqs'[p] = IF p = q THEN [Idle EXCEPT !.op = "claim", !.by = g, !.invite = i,
                                                              !.phase = "call"] ELSE reqs[p]
  BY DEF LobbyInv, TypeOK, ReserveClaim
<1>f. g # Nobody /\ room.pending \in {NoInvite, i}
  BY <1>b, DistinctConstants DEF ReserveClaim
<1>h. ~raced => \A j \in Invites : invites[j].state = "pending" =>
                   room.pending = j /\ invites[j].proof \in {Nobody, cred["B"]}
  BY <1>b DEF LobbyInv, ReservationSound
<1>1. TypeOK'
  <2>1. room' \in Records
    BY DEF LobbyInv, TypeOK, Records, ReserveClaim
  <2>2. cred' \in [Seats -> Guests \cup {Owner, Nobody, Lost}] /\ invites' \in [Invites -> Invitations]
    BY DEF LobbyInv, TypeOK, Invitations, Seats, ReserveClaim
  <2>3. [Idle EXCEPT !.op = "claim", !.by = g, !.invite = i, !.phase = "call"] \in Requests
    BY DEF Idle, Requests
  <2>4. reqs' \in [Slots -> Requests]
    BY <2>3 DEF LobbyInv, TypeOK, ReserveClaim
  <2> QED  BY <2>1, <2>2, <2>4 DEF LobbyInv, TypeOK, ReserveClaim
<1>2. ListExact'
  BY DEF LobbyInv, ListExact, ReserveClaim, MayClaim
<1>3. NoStrandedSeat'
  BY <1>c, <1>d DEF NoStrandedSeat
<1>4. TerminalClean'
  BY DEF LobbyInv, TerminalClean, ReserveClaim, MayClaim
<1>5. RequestsSound'
  BY DEF LobbyInv, RequestsSound, ReserveClaim, MayClaim
<1>6. Unpublished'
  BY DEF LobbyInv, Unpublished, ReserveClaim, MayClaim
<1>7. SeatFree'
  BY DEF LobbyInv, SeatFree, ReserveClaim, MayClaim
<1>8. JoinsSound'
  BY <1>b, <1>c, <1>e DEF LobbyInv, JoinsSound, Idle
<1>9. ReservationSound'
  <2> SUFFICES ASSUME ~raced
               PROVE  /\ \A p \in Slots : reqs'[p].op = "claim" =>
                           /\ invites'[reqs'[p].invite].state = "pending"
                           /\ cred'["B"] = reqs'[p].by
                      /\ \A j \in Invites : invites'[j].state = "pending" =>
                           i = j /\ invites'[j].proof \in {Nobody, cred'["B"]}
    BY <1>c DEF ReservationSound, ReserveClaim
  <2>1. CASE New
    <3>1. cred'["B"] = g
      BY <2>1 DEF LobbyInv, TypeOK, Seats
    <3>2. \A p \in Slots : reqs[p].op # "claim"
      BY <1>b, <2>1, DistinctConstants DEF LobbyInv, ReservationSound, RequestsSound
    <3>3. \A j \in Invites \ {i} : invites'[j].state # "pending"
      BY <1>d, <1>f, <1>h, DistinctConstants DEF Invites, ReserveClaim
    <3> QED  BY <1>d, <1>e, <3>1, <3>2, <3>3 DEF Idle
  <2>2. CASE Again
    <3>1. cred["B"] = g
      BY <1>f, <1>h, <2>2
    <3>2. \A p \in Slots : reqs[p].op = "claim" =>
              invites[reqs[p].invite].state = "pending" /\ cred["B"] = reqs[p].by
      BY <1>b DEF LobbyInv, ReservationSound
    <3> QED  BY <1>d, <1>e, <1>f, <1>h, <2>2, <3>1, <3>2 DEF Idle
  <2> QED  BY <1>a, <2>1, <2>2
<1>10. Seated'
  BY DEF LobbyInv, Seated, ReserveClaim, MayClaim
<1> QED  BY <1>1, <1>2, <1>3, <1>4, <1>5, <1>6, <1>7, <1>8, <1>9, <1>10 DEF LobbyInv

\* A claim the Game accepted seats its guest, who may be seated already.
LEMMA FinalizeClaimKeeps ==
  ASSUME NEW q \in Slots, LobbyInv, FinalizeClaim(q)
  PROVE  LobbyInv'
<1> DEFINE Kept == UNCHANGED <<invites, told, room, listed>>
           Given == /\ reqs[q].phase = "ok" /\ room.status # "deleted"
                    /\ told' = told \cup {reqs[q].by}
                    /\ invites' = ConfirmInvite(reqs[q].invite)
                    /\ room' = [room EXCEPT
                          !.nameB = reqs[q].by, !.seats = 2, !.pending = NoInvite,
                          !.status = IF @ \in {"waiting", "joining"} THEN "playing" ELSE @]
                    /\ listed' = FALSE
           TooLate == /\ reqs[q].phase = "ok" /\ room.status = "deleted"
                      /\ told' = told \cup {reqs[q].by}
                      /\ invites' = ConfirmInvite(reqs[q].invite)
                      /\ UNCHANGED <<room, listed>>
<1>a. Kept \/ Given \/ TooLate
  BY DEF FinalizeClaim
<1>b. /\ reqs[q].op = "claim" /\ reqs' = [reqs EXCEPT ![q] = Idle]
      /\ UNCHANGED <<alias, cred, game, creating, minting, raced, restarted>>
  BY DEF FinalizeClaim
<1>c. /\ reqs[q].by \in Guests /\ reqs[q].invite \in Invites
      /\ reqs[q].phase = "ok" => game.nameB = reqs[q].by
  BY <1>b DEF LobbyInv, RequestsSound
<1>d. room.status \notin {"none", "initializing"}
  BY <1>b DEF LobbyInv, Unpublished, Idle
<1>1. TypeOK'
  <2>1. room' \in Records
    <3>1. room \in Records
      BY DEF LobbyInv, TypeOK
    <3>2. CASE Given
      BY <3>1, <3>2, <1>c DEF Records
    <3>3. CASE Kept \/ TooLate
      BY <3>1, <3>3
    <3> QED  BY <3>2, <3>3, <1>a
  <2>2. invites' \in [Invites -> Invitations]
    <3>1. ConfirmInvite(reqs[q].invite) \in [Invites -> Invitations]
      BY <1>c DEF LobbyInv, TypeOK, Invitations, ConfirmInvite
    <3> QED  BY <3>1, <1>a DEF LobbyInv, TypeOK
  <2>3. listed' \in BOOLEAN
    BY <1>a DEF LobbyInv, TypeOK
  <2>4. told' \in SUBSET Guests
    BY <1>a, <1>c DEF LobbyInv, TypeOK
  <2>5. reqs' \in [Slots -> Requests]
    BY <1>b DEF LobbyInv, TypeOK, Idle, Requests
  <2> QED  BY <1>b, <2>1, <2>2, <2>3, <2>4, <2>5 DEF LobbyInv, TypeOK
<1>2. ListExact'
  <2>1. CASE Kept
    BY <2>1, <1>b, <1>c, <1>d, DistinctConstants DEF LobbyInv, ListExact, TypeOK, Records
  <2>2. CASE Given
    BY <2>2, <1>b, <1>c, <1>d, DistinctConstants DEF LobbyInv, ListExact, TypeOK, Records
  <2>3. CASE TooLate
    BY <2>3, <1>b, <1>c, <1>d, DistinctConstants DEF LobbyInv, ListExact, TypeOK, Records
  <2> QED  BY <2>1, <2>2, <2>3, <1>a
<1>3. NoStrandedSeat'
  BY DEF LobbyInv, NoStrandedSeat, TypeOK, Records, FinalizeClaim, ConfirmInvite
<1>4. TerminalClean'
  BY DEF LobbyInv, TerminalClean, TypeOK, Records, FinalizeClaim, ConfirmInvite
<1>5. RequestsSound'
  BY DEF LobbyInv, RequestsSound, FinalizeClaim, ConfirmInvite, Idle
<1>6. Unpublished'
  BY <1>a, <1>b, <1>d DEF LobbyInv, TypeOK, Records, Unpublished
<1>7. SeatFree'
  BY <1>a, <1>b, <1>d DEF LobbyInv, TypeOK, Records, SeatFree, TypeOK, Records
<1>8. JoinsSound'
  <2>1. CASE Kept
    BY <2>1, <1>b, <1>c, <1>d, DistinctConstants DEF LobbyInv, JoinsSound, TypeOK, Records, Requests, Idle
  <2>2. CASE Given
    BY <2>2, <1>b, <1>c, <1>d, DistinctConstants DEF LobbyInv, JoinsSound, TypeOK, Records, Requests, Idle
  <2>3. CASE TooLate
    BY <2>3, <1>b, <1>c, <1>d, DistinctConstants DEF LobbyInv, JoinsSound, TypeOK, Records, Requests, Idle
  <2> QED  BY <2>1, <2>2, <2>3, <1>a
<1>9. ReservationSound'
  <2>1. CASE Kept
    <3>1. \A p \in Slots : reqs'[p].op # "idle" => reqs'[p] = reqs[p]
      BY <1>b DEF LobbyInv, TypeOK, Idle
    <3> QED  BY <2>1, <3>1, <1>b DEF LobbyInv, ReservationSound
  <2>2. CASE Given
    BY <2>2, <1>b, <1>c, <1>d, DistinctConstants DEF LobbyInv, ReservationSound, TypeOK, Records, Requests, Idle
  <2>3. CASE TooLate
    BY <2>3, <1>b, <1>c, <1>d, DistinctConstants DEF LobbyInv, ReservationSound, TypeOK, Records, Requests, Idle
  <2> QED  BY <2>1, <2>2, <2>3, <1>a
<1>10. Seated'
  <2>1. CASE Kept
    BY <2>1, <1>b, <1>c, <1>d, DistinctConstants DEF LobbyInv, Seated, SeatFree, ReservationSound, TypeOK, Records
  <2>2. CASE Given
    BY <2>2, <1>b, <1>c, <1>d, DistinctConstants DEF LobbyInv, Seated, SeatFree, ReservationSound, TypeOK, Records
  <2>3. CASE TooLate
    BY <2>3, <1>b, <1>c, <1>d, DistinctConstants DEF LobbyInv, Seated, SeatFree, ReservationSound, TypeOK, Records
  <2> QED  BY <2>1, <2>2, <2>3, <1>a
<1> QED  BY <1>1, <1>2, <1>3, <1>4, <1>5, <1>6, <1>7, <1>8, <1>9, <1>10 DEF LobbyInv

LEMMA InviteAgesKeeps ==
  ASSUME NEW i \in Invites, LobbyInv, InviteAges(i)
  PROVE  LobbyInv'
<1>1. TypeOK'
  BY DEF LobbyInv, TypeOK, Records, Requests, Invitations, InviteAges
<1>2. ListExact' /\ NoStrandedSeat' /\ TerminalClean' /\ RequestsSound' /\ Unpublished' /\
     SeatFree' /\ JoinsSound' /\ ReservationSound' /\ Seated'
  BY DEF LobbyInv, ListExact, NoStrandedSeat, TerminalClean, RequestsSound, Unpublished,
       SeatFree, JoinsSound, ReservationSound, Seated, InviteAges
<1> QED  BY <1>1, <1>2 DEF LobbyInv

\* What the alarm releases was not in use, unless a claim was still in flight.
LEMMA AlarmKeeps ==
  ASSUME LobbyInv, Alarm
  PROVE  LobbyInv'
<1>1. TypeOK'
  <2>1. room' \in Records
    BY DEF LobbyInv, TypeOK, Records, Invitations, Requests, Alarm, Abandoned, Dropped, Gone, Idle, Seats
  <2>2. invites' \in [Invites -> Invitations]
    BY DEF LobbyInv, TypeOK, Records, Invitations, Requests, Alarm, Abandoned, Dropped, Gone, Idle, Seats
  <2>3. cred' \in [Seats -> Guests \cup {Owner, Nobody, Lost}]
    BY DEF LobbyInv, TypeOK, Records, Invitations, Requests, Alarm, Abandoned, Dropped, Gone, Idle, Seats
  <2>4. listed' \in BOOLEAN /\ raced' \in BOOLEAN
    BY DEF LobbyInv, TypeOK, Records, Invitations, Requests, Alarm, Abandoned, Dropped, Gone, Idle, Seats
  <2> QED  BY <2>1, <2>2, <2>3, <2>4 DEF LobbyInv, TypeOK, Alarm, Abandoned, Dropped, Gone
<1>2. ListExact'
  BY DEF LobbyInv, ListExact, Alarm, Abandoned, Dropped, Gone
<1>3. NoStrandedSeat'
  <2> SUFFICES ASSUME room'.status = "waiting", cred'["B"] # Nobody
               PROVE  room'.pending # NoInvite /\ invites'[room'.pending].state = "pending"
    BY DEF NoStrandedSeat
  <2>1. room.status = "waiting" /\ room.seats = 1
    BY DEF LobbyInv, TypeOK, Records, SeatFree, Alarm
  <2>2. Abandoned = {} /\ UNCHANGED <<room, cred>>
    BY <2>1 DEF LobbyInv, TypeOK, Seats, Alarm
  <2>3. room.pending \in Invites /\ invites[room.pending].state = "pending"
    BY <2>1, <2>2 DEF LobbyInv, TypeOK, Records, NoStrandedSeat
  <2>4. ~Dropped(room.pending)
    BY <2>1, <2>2, <2>3 DEF Abandoned
  <2> QED  BY <2>2, <2>3, <2>4, DistinctConstants DEF Alarm, Invites
<1>4. TerminalClean'
  BY DEF LobbyInv, TerminalClean, Alarm, Abandoned, Dropped, Gone
<1>5. RequestsSound'
  BY DEF LobbyInv, RequestsSound, Alarm, Abandoned, Dropped, Gone
<1>6. Unpublished'
  BY DEF LobbyInv, Unpublished, Alarm, Abandoned, Dropped, Gone
<1>7. SeatFree'
  BY DEF LobbyInv, SeatFree, Alarm, Abandoned, Dropped, Gone
<1>8. JoinsSound'
  BY DEF LobbyInv, JoinsSound, Alarm, Abandoned, Dropped, Gone
<1>9. ReservationSound'
  <2> SUFFICES ASSUME ~raced'
               PROVE  ReservationSound'
    BY DEF ReservationSound
  <2>1. /\ ~raced
        /\ \A q \in Slots : reqs[q].op = "claim" => reqs[q].invite \notin Abandoned
    BY DEF Alarm
  <2>2. \A i \in Invites : invites'[i].state = "pending" =>
            ~Dropped(i) /\ invites'[i] = invites[i]
    BY DEF Alarm, Gone
  <2>3. \A i \in Invites : ~Dropped(i) => invites'[i] = invites[i]
    BY DEF Alarm
  <2>4. room'.status = room.status
    BY DEF LobbyInv, TypeOK, Records, Alarm
  <2>5. CASE room.status = "waiting"
    <3>1. \A i \in Invites : invites[i].state = "pending" => room.pending = i
      BY <2>1, <2>5 DEF LobbyInv, ReservationSound
    <3>2. \A q \in Slots : reqs[q].op = "claim" =>
              /\ reqs[q].invite \in Invites /\ ~Dropped(reqs[q].invite)
              /\ room.pending = reqs[q].invite
      BY <2>1, <2>5, <3>1 DEF LobbyInv, ReservationSound, RequestsSound, Abandoned
    <3>3. CASE Abandoned = {}
      <4>1. UNCHANGED <<room, cred, reqs>>
        BY <3>3 DEF Alarm
      <4> QED  BY <2>1, <2>2, <2>3, <2>5, <3>2, <4>1 DEF LobbyInv, ReservationSound
    <3>4. CASE Abandoned # {}
      <4>1. PICK i \in Abandoned : TRUE
        BY <3>4
      <4>2. \A q \in Slots : reqs[q].op # "claim"
        BY <2>1, <3>2, <4>1 DEF Abandoned
      <4>3. \A j \in Invites : invites'[j].state # "pending"
        BY <2>2, <3>1, <4>1 DEF Abandoned
      <4> QED  BY <2>4, <2>5, <4>2, <4>3 DEF ReservationSound, Alarm
    <3> QED  BY <3>3, <3>4
  <2>6. CASE room.status = "joining"
    BY <2>1, <2>2, <2>4, <2>6 DEF LobbyInv, ReservationSound, Alarm
  <2> QED  BY <2>4, <2>5, <2>6 DEF ReservationSound
<1>10. Seated'
  BY DEF LobbyInv, Seated, TypeOK, Alarm, Abandoned, Dropped, Gone
<1> QED  BY <1>1, <1>2, <1>3, <1>4, <1>5, <1>6, <1>7, <1>8, <1>9, <1>10 DEF LobbyInv

-----------------------------------------------------------------------------
(* Resume, the end of the game, restart.                                      *)

LEMMA ResumeKeeps ==
  ASSUME NEW s \in Seats, NEW h \in Guests \cup {Owner}, LobbyInv, Resume(s, h)
  PROVE  LobbyInv'
<1>1. TypeOK'
  BY DEF LobbyInv, TypeOK, Records, Requests, Invitations, Resume
<1>2. ListExact' /\ TerminalClean' /\ RequestsSound' /\ Unpublished' /\ SeatFree' /\
     JoinsSound' /\ Seated'
  BY DEF LobbyInv, ListExact, TerminalClean, RequestsSound, Unpublished, SeatFree,
       JoinsSound, Seated, Resume
<1>3. NoStrandedSeat'
  <2>1. room.status = "waiting" => cred'["B"] = cred["B"] \/ cred["B"] # Nobody
    BY DistinctConstants DEF LobbyInv, TypeOK, Seats, Resume
  <2> QED  BY <2>1 DEF LobbyInv, NoStrandedSeat, Resume
<1>4. ReservationSound'
  BY DistinctConstants DEF LobbyInv, ReservationSound, TypeOK, SeatFree, RequestsSound,
       Records, Requests, Invitations, Resume, Idle, Seats, Invites
<1> QED  BY <1>1, <1>2, <1>3, <1>4 DEF LobbyInv

LEMMA GameEndsKeeps ==
  ASSUME LobbyInv, GameEnds
  PROVE  LobbyInv'
<1>1. TypeOK'
  <2>1. game' \in [init : BOOLEAN, over : BOOLEAN, nameB : Guests \cup {Nobody}]
    BY DEF LobbyInv, TypeOK, GameEnds
  <2> QED  BY <2>1 DEF LobbyInv, TypeOK, GameEnds
<1>2. ListExact' /\ NoStrandedSeat' /\ TerminalClean' /\ RequestsSound' /\ Unpublished' /\
     SeatFree' /\ JoinsSound' /\ ReservationSound' /\ Seated'
  BY DEF LobbyInv, ListExact, NoStrandedSeat, TerminalClean, RequestsSound, Unpublished,
       SeatFree, JoinsSound, ReservationSound, Seated, GameEnds
<1> QED  BY <1>1, <1>2 DEF LobbyInv

LEMMA TerminalizeKeeps ==
  ASSUME LobbyInv, Terminalize
  PROVE  LobbyInv'
<1>1. TypeOK'
  BY DEF LobbyInv, TypeOK, Records, Requests, Invitations, Terminalize, Gone
<1>2. ListExact'
  BY DEF LobbyInv, ListExact, Terminalize, Gone
<1>3. NoStrandedSeat'
  BY DEF LobbyInv, NoStrandedSeat, Terminalize, Gone
<1>4. TerminalClean'
  BY DEF LobbyInv, TerminalClean, Terminalize, Gone
<1>5. RequestsSound'
  BY DEF LobbyInv, RequestsSound, Terminalize, Gone
<1>6. Unpublished'
  BY DEF LobbyInv, Unpublished, Terminalize, Gone
<1>7. SeatFree'
  BY DEF LobbyInv, SeatFree, Terminalize, Gone
<1>8. JoinsSound'
  BY DEF LobbyInv, JoinsSound, Terminalize, Gone
<1>9. ReservationSound'
  BY DEF LobbyInv, ReservationSound, Terminalize, Gone
<1>10. Seated'
  BY DEF LobbyInv, Seated, Terminalize, Gone
<1> QED  BY <1>1, <1>2, <1>3, <1>4, <1>5, <1>6, <1>7, <1>8, <1>9, <1>10 DEF LobbyInv

LEMMA CollectTerminalKeeps ==
  ASSUME LobbyInv, CollectTerminal
  PROVE  LobbyInv'
<1>1. TypeOK'
  BY DEF LobbyInv, TypeOK, Records, Requests, Invitations, CollectTerminal
<1>2. ListExact' /\ NoStrandedSeat' /\ TerminalClean' /\ RequestsSound' /\ Unpublished' /\
     SeatFree' /\ JoinsSound' /\ ReservationSound' /\ Seated'
  BY DEF LobbyInv, ListExact, NoStrandedSeat, TerminalClean, RequestsSound, Unpublished,
       SeatFree, JoinsSound, ReservationSound, Seated, CollectTerminal
<1> QED  BY <1>1, <1>2 DEF LobbyInv

LEMMA RestartKeeps ==
  ASSUME LobbyInv, Restart
  PROVE  LobbyInv'
<1>1. TypeOK'
  <2>1. reqs' \in [Slots -> Requests]
    BY DEF LobbyInv, TypeOK, Records, Invitations, Requests, Restart, Idle, Seats
  <2>2. creating' \in {"idle", "done"}
    BY DEF LobbyInv, TypeOK, Records, Invitations, Requests, Restart, Idle, Seats
  <2> QED  BY <2>1, <2>2 DEF LobbyInv, TypeOK, Restart
<1>2. ListExact' /\ NoStrandedSeat' /\ TerminalClean' /\ Unpublished' /\ SeatFree' /\
     Seated'
  BY DEF LobbyInv, ListExact, NoStrandedSeat, TerminalClean, Unpublished, SeatFree, Seated,
       Restart
<1>3. RequestsSound'
  BY DEF LobbyInv, RequestsSound, Restart, Idle
<1>4. JoinsSound'
  BY DEF LobbyInv, JoinsSound, Restart, Idle
<1>5. ReservationSound'
  BY DEF LobbyInv, ReservationSound, Restart, Idle
<1> QED  BY <1>1, <1>2, <1>3, <1>4, <1>5 DEF LobbyInv

-----------------------------------------------------------------------------

LEMMA InitSound ==
  ASSUME Init
  PROVE  LobbyInv
<1>1. TypeOK
  BY DEF Init, TypeOK, Records, Invitations, Requests, Idle, Seats
<1>2. ListExact /\ NoStrandedSeat /\ TerminalClean
  BY DEF Init, ListExact, NoStrandedSeat, TerminalClean, Seats
<1>3. RequestsSound /\ Unpublished /\ SeatFree
  BY DEF Init, RequestsSound, Unpublished, SeatFree, Idle, Seats
<1>4. JoinsSound /\ ReservationSound /\ Seated
  BY DEF Init, JoinsSound, ReservationSound, Seated
<1> QED  BY <1>1, <1>2, <1>3, <1>4 DEF LobbyInv

LEMMA StutterKeeps ==
  ASSUME LobbyInv, UNCHANGED vars
  PROVE  LobbyInv'
<1>1. TypeOK' /\ ListExact' /\ NoStrandedSeat' /\ TerminalClean'
  BY DEF LobbyInv, vars, TypeOK, ListExact, NoStrandedSeat, TerminalClean
<1>2. RequestsSound' /\ Unpublished' /\ SeatFree' /\ JoinsSound'
  BY DEF LobbyInv, vars, RequestsSound, Unpublished, SeatFree, JoinsSound, Invites
<1>3. ReservationSound' /\ Seated'
  BY DEF LobbyInv, vars, ReservationSound, Seated
<1> QED  BY <1>1, <1>2, <1>3 DEF LobbyInv

LEMMA StepKeeps ==
  ASSUME LobbyInv, [Next]_vars
  PROVE  LobbyInv'
<1>1. CASE Create
  BY <1>1, CreateKeeps
<1>2. CASE InitializeGame
  BY <1>2, InitializeGameKeeps
<1>3. CASE PublishRoom
  BY <1>3, PublishRoomKeeps
<1>4. CASE RollbackCreate
  BY <1>4, RollbackCreateKeeps
<1>5. CASE \E q \in Slots : SeatUpdate(q) \/ FinalizeJoin(q) \/ FinalizeClaim(q)
  BY <1>5, SeatUpdateKeeps, FinalizeJoinKeeps, FinalizeClaimKeeps
<1>6. CASE \E q \in Slots, g \in Guests : ReserveJoin(q, g)
  BY <1>6, ReserveJoinKeeps
<1>7. CASE \E q \in Slots, g \in Guests, i \in Invites, proof \in Guests \cup {Nobody} :
             proof \in {g, Nobody} /\ ReserveClaim(q, g, i, proof)
  BY <1>7, ReserveClaimKeeps
<1>8. CASE CheckInvite
  BY <1>8, CheckInviteKeeps
<1>9. CASE \E i \in Invites : StoreInvite(i) \/ InviteAges(i)
  BY <1>9, StoreInviteKeeps, InviteAgesKeeps
<1>10. CASE Alarm
  BY <1>10, AlarmKeeps
<1>11. CASE \E s \in Seats, h \in Guests \cup {Owner} : Resume(s, h)
  BY <1>11, ResumeKeeps
<1>12. CASE GameEnds \/ Terminalize \/ CollectTerminal \/ Restart
  BY <1>12, GameEndsKeeps, TerminalizeKeeps, CollectTerminalKeeps, RestartKeeps
<1>13. CASE UNCHANGED vars
  BY <1>13, StutterKeeps
<1> QED
  BY <1>1, <1>2, <1>3, <1>4, <1>5, <1>6, <1>7, <1>8, <1>9, <1>10, <1>11, <1>12, <1>13 DEF Next

\* The books of one room agree with one another whatever its requests, its
\* alarm and its Game do in between (LobbyInv): it is listed exactly while it
\* waits, a reserved seat is somebody's, and nothing opens a closed room.
THEOREM LobbyAlwaysSound == Spec => []LobbyInv
<1>1. Init => LobbyInv
  BY InitSound
<1>2. LobbyInv /\ [Next]_vars => LobbyInv'
  BY StepKeeps
<1> QED  BY <1>1, <1>2, PTL DEF Spec

LEMMA SeatFollows ==
  ASSUME LobbyInv
  PROVE  SeatIsTheGuests
<1>1. OneGuestSeated
  BY DEF LobbyInv, Seated, OneGuestSeated
<1>2. GuestCanResume
  <2> SUFFICES ASSUME room.status = "playing", ~raced
               PROVE  \E g \in Guests : told = {g} /\ cred["B"] \in {g, Lost}
    BY DEF GuestCanResume
  <2>1. told = {room.nameB} /\ cred["B"] \in {room.nameB, Lost}
    BY DEF LobbyInv, Seated
  <2>2. room.nameB \in Guests
    BY <2>1 DEF LobbyInv, TypeOK
  <2> QED  BY <2>1, <2>2
<1> QED  BY <1>1, <1>2 DEF SeatIsTheGuests

\* At most one guest is ever told that seat B is theirs, Lobby and Game agree on
\* who, and that guest's credential is the stored one (SeatIsTheGuests).
THEOREM SeatAlwaysTheGuests == Spec => []SeatIsTheGuests
  BY LobbyAlwaysSound, SeatFollows, PTL

-----------------------------------------------------------------------------
(* The Lobby implements RoomDirectory.                                       *)

LEMMA DirectoryStarts ==
  ASSUME Init
  PROVE  Directory!DirectoryInit
BY DEF Init, Phase, Guest, Directory!DirectoryInit

\* The directory rests while the room keeps its phase and its guest.
LEMMA DirectoryRests ==
  ASSUME Phase' = Phase, room'.nameB = room.nameB
  PROVE  UNCHANGED Directory!directoryVars
BY DEF Guest, Directory!directoryVars

LEMMA DirectoryCloses ==
  ASSUME Phase' = "closed"
  PROVE  [Directory!DirectoryNext]_(Directory!directoryVars)
<1>1. CASE Phase = "closed"
  BY <1>1 DEF Guest, Directory!directoryVars
<1>2. CASE Phase # "closed"
  BY <1>2 DEF Guest, Directory!DirectoryNext, Directory!Close
<1> QED  BY <1>1, <1>2

LEMMA DirectorySeats ==
  ASSUME NEW g \in Guests, Phase = "open", Phase' = "full", room'.nameB = g
  PROVE  [Directory!DirectoryNext]_(Directory!directoryVars)
<1>1. Directory!Seat(g)
  BY DEF Guest, Directory!Seat
<1> QED  BY <1>1 DEF Directory!DirectoryNext

LEMMA DirectoryStep ==
  ASSUME LobbyInv, [Next]_vars
  PROVE  [Directory!DirectoryNext]_(Directory!directoryVars)
<1> DEFINE Step == [Directory!DirectoryNext]_(Directory!directoryVars)
<1>0. room \in Records
  BY DEF LobbyInv, TypeOK
<1>1. ASSUME UNCHANGED room PROVE Step
  BY <1>1, DirectoryRests DEF Phase
<1>2. CASE Create
  BY <1>0, <1>2, DirectoryRests DEF Create, Phase, Records
<1>3. CASE PublishRoom
  <2>1. CASE room.status = "initializing"
    <3>1. Phase = "absent" /\ Phase' = "open" /\ UNCHANGED Guest
      BY <1>0, <1>3, <2>1 DEF PublishRoom, Phase, Guest, Records
    <3> QED  BY <3>1 DEF Directory!DirectoryNext, Directory!Publish
  <2>2. CASE room.status # "initializing"
    BY <1>1, <1>3, <2>2 DEF PublishRoom
  <2> QED  BY <2>1, <2>2
<1>4. CASE RollbackCreate
  BY <1>0, <1>4, DirectoryCloses DEF RollbackCreate, Phase, Records
<1>5. ASSUME NEW q \in Slots, FinalizeJoin(q) PROVE Step
  <2>1. reqs[q].by \in Guests
    BY <1>5 DEF LobbyInv, RequestsSound, FinalizeJoin
  <2>2. CASE reqs[q].phase = "ok" /\ room.status = "joining" /\ room.seats = 1
    <3>1. Phase = "open" /\ Phase' = "full" /\ room'.nameB = reqs[q].by
      BY <1>0, <1>5, <2>2 DEF FinalizeJoin, Phase, Records
    <3> QED  BY <2>1, <3>1, DirectorySeats
  <2>3. CASE ~(reqs[q].phase = "ok" /\ room.status = "joining" /\ room.seats = 1)
    <3>1. Phase' = Phase /\ room'.nameB = room.nameB
      BY <1>0, <1>5, <2>3 DEF FinalizeJoin, RollbackJoin, Phase, Records
    <3> QED  BY <3>1, DirectoryRests
  <2> QED  BY <2>2, <2>3
<1>6. ASSUME NEW q \in Slots, FinalizeClaim(q) PROVE Step
  <2>1. /\ reqs[q].by \in Guests
        /\ reqs[q].phase = "ok" => reqs[q].by = game.nameB
        /\ room.status \notin {"none", "initializing"}
    BY <1>6 DEF LobbyInv, RequestsSound, Unpublished, Idle, FinalizeClaim
  <2>2. CASE UNCHANGED room
    BY <1>1, <2>2
  <2>3. CASE reqs[q].phase = "ok" /\ room.status \in {"waiting", "joining"}
    <3>1. Phase = "open" /\ Phase' = "full" /\ room'.nameB = reqs[q].by
      BY <1>0, <1>6, <2>3 DEF FinalizeClaim, Phase, Records
    <3> QED  BY <2>1, <3>1, DirectorySeats
  <2>4. CASE reqs[q].phase = "ok" /\ room.status = "playing"
    <3>1. Phase' = Phase /\ room'.nameB = reqs[q].by
      BY <1>0, <1>6, <2>4 DEF FinalizeClaim, Phase, Records
    <3>2. room.nameB = game.nameB
      BY <2>4 DEF LobbyInv, Seated
    <3> QED  BY <2>1, <2>4, <3>1, <3>2, DirectoryRests
  <2>5. CASE reqs[q].phase = "ok" /\ room.status = "terminal"
    <3>1. Phase' = "closed"
      BY <1>0, <1>6, <2>5 DEF FinalizeClaim, Phase, Records
    <3> QED  BY <3>1, DirectoryCloses
  <2> QED  BY <1>0, <1>6, <2>1, <2>2, <2>3, <2>4, <2>5 DEF FinalizeClaim, Records
<1>7. ASSUME NEW q \in Slots, NEW g \in Guests, ReserveJoin(q, g) PROVE Step
  BY <1>0, <1>7, DirectoryRests DEF ReserveJoin, Phase, Records
<1>8. ASSUME NEW q \in Slots, NEW g \in Guests, NEW i \in Invites,
             NEW proof \in Guests \cup {Nobody}, ReserveClaim(q, g, i, proof)
      PROVE  Step
  BY <1>0, <1>8, DirectoryRests DEF ReserveClaim, Phase, Records
<1>9. CASE Alarm
  BY <1>0, <1>9, DirectoryRests DEF Alarm, Phase, Records
<1>10. CASE Terminalize \/ CollectTerminal
  BY <1>0, <1>10, DirectoryCloses DEF Terminalize, CollectTerminal, Phase, Records
<1>11. ASSUME \/ InitializeGame \/ CheckInvite \/ GameEnds \/ Restart \/ UNCHANGED vars
              \/ \E q \in Slots : SeatUpdate(q)
              \/ \E i \in Invites : StoreInvite(i) \/ InviteAges(i)
              \/ \E s \in Seats, h \in Guests \cup {Owner} : Resume(s, h)
       PROVE  Step
  <2>1. UNCHANGED room
    BY <1>11 DEF InitializeGame, CheckInvite, GameEnds, Restart, vars, SeatUpdate, StoreInvite,
                 InviteAges, Resume
  <2> QED  BY <1>1, <2>1
<1> QED
  BY <1>2, <1>3, <1>4, <1>5, <1>6, <1>7, <1>8, <1>9, <1>10, <1>11 DEF Next

\* Every behaviour of the Lobby is one of RoomDirectory: whatever reservations,
\* lost answers, rollbacks and restarts do, the room is published once, its guest
\* never changes, and it is closed for good.
THEOREM LobbyImplementsDirectory == Spec => ImplementsDirectory
<1>1. Init => Directory!DirectoryInit
  BY DirectoryStarts
<1>2. LobbyInv /\ [Next]_vars => [Directory!DirectoryNext]_(Directory!directoryVars)
  BY DirectoryStep
<1> QED
  BY <1>1, <1>2, LobbyAlwaysSound, PTL DEF Spec, ImplementsDirectory, Directory!DirectorySpec
=============================================================================
