------------------------------- MODULE Lobby -------------------------------
(***************************************************************************)
(* One room of the Lobby Durable Object (ott-lobby-server.ts) with the     *)
(* owner credentials and seat invites of internal-auth.ts: created by its  *)
(* owner, joined from the public list or through an invite, ended by the   *)
(* Game.  A request awaits the Game between two storage transactions, and  *)
(* every other request, and the alarm, can run in that gap.  The Game's    *)
(* seat receipt is first-write-wins; its answer can be lost.               *)
(***************************************************************************)
EXTENDS Naturals

CONSTANTS Guests,      \* people who try to take seat B, each with a name of its own
          MaxInvites,  \* how many invite tokens can be minted
          Slots,       \* requests of guests in flight at once
          Owner,       \* the creator, who holds seat A
          Nobody,      \* no credential, no name, no proof
          Lost,        \* a credential whose only copy was in a lost answer
          NoInvite

ASSUME DistinctConstants ==
  /\ Owner # Nobody /\ Owner # Lost /\ Lost # Nobody
  /\ {Owner, Nobody, Lost} \cap Guests = {}
  /\ MaxInvites \in Nat /\ NoInvite \notin 1..MaxInvites

VARIABLES room,        \* the allocation record
          listed,      \* the key waiting:<id>, what "list" shows
          alias,       \* the alias record points to the room
          cred,        \* owner-credential:<id>:<seat>, by the one who knows it
          invites,     \* seat-invite:<token>
          game,        \* what the Game object recorded
          creating,    \* the owner's create request
          minting,     \* a create-invite request that has passed its checks
          reqs,        \* join and claim-invite requests awaiting the Game
          told,        \* guests who were answered with seat B
          raced,       \* history: the alarm released a claim still in flight
          restarted    \* history: the object restarted with requests in flight

vars == <<room, listed, alias, cred, invites, game, creating, minting, reqs,
          told, raced, restarted>>

Seats == {"A", "B"}
Invites == 1..MaxInvites        \* tokens, in the order they are minted
Idle == [op |-> "idle", by |-> Nobody, invite |-> NoInvite, phase |-> "none", attempt |-> 0]

\* Slots are interchangeable: a new request takes the first idle one.
FreeSlot == IF \E q \in Slots : reqs[q] = Idle THEN CHOOSE q \in Slots : reqs[q] = Idle
            ELSE Idle
Gone == [state |-> "deleted", age |-> "fresh", proof |-> Nobody]

Records ==
  [status : {"none", "initializing", "waiting", "joining", "playing", "terminal", "deleted"},
   seats : {1, 2}, nameB : Guests \cup {Nobody}, pending : Invites \cup {NoInvite}]
Invitations == [state : {"none", "unclaimed", "pending", "confirmed", "deleted"},
                age : {"fresh", "old", "expired"}, proof : Guests \cup {Nobody}]
Requests == [op : {"idle", "join", "claim"}, by : Guests \cup {Nobody},
             invite : Invites \cup {NoInvite},
             phase : {"none", "call", "ok", "refused"}, attempt : {0, 1}]

TypeOK ==
  /\ room \in Records
  /\ listed \in BOOLEAN /\ alias \in BOOLEAN
  /\ cred \in [Seats -> Guests \cup {Owner, Nobody, Lost}]
  /\ invites \in [Invites -> Invitations]
  /\ game \in [init : BOOLEAN, over : BOOLEAN, nameB : Guests \cup {Nobody}]
  /\ creating \in {"idle", "call0", "call1", "ok", "refused", "done"}
  /\ minting \in BOOLEAN
  /\ reqs \in [Slots -> Requests]
  /\ told \in SUBSET Guests
  /\ raced \in BOOLEAN /\ restarted \in BOOLEAN

Init ==
  /\ room = [status |-> "none", seats |-> 1, nameB |-> Nobody, pending |-> NoInvite]
  /\ listed = FALSE /\ alias = FALSE
  /\ cred = [s \in Seats |-> Nobody]
  /\ invites = [i \in Invites |-> [state |-> "none", age |-> "fresh", proof |-> Nobody]]
  /\ game = [init |-> FALSE, over |-> FALSE, nameB |-> Nobody]
  /\ creating = "idle" /\ minting = FALSE
  /\ reqs = [q \in Slots |-> Idle]
  /\ told = {}
  /\ raced = FALSE /\ restarted = FALSE

-----------------------------------------------------------------------------
(* create: allocate, initialize the Game, publish or roll everything back.  *)

Create ==
  /\ creating = "idle" /\ room.status = "none"
  /\ room' = [room EXCEPT !.status = "initializing"]
  /\ alias' = TRUE
  /\ cred' = [cred EXCEPT !["A"] = Owner]
  /\ creating' = "call0"
  /\ UNCHANGED <<listed, invites, game, minting, reqs, told, raced, restarted>>

\* Retried once when it failed or its answer was lost: the receipt makes the
\* second call a "retry" that answers like the first.
InitializeGame ==
  /\ creating \in {"call0", "call1"}
  /\ \E arrives \in BOOLEAN, answered \in BOOLEAN :
       /\ game' = [game EXCEPT !.init = @ \/ arrives]
       /\ creating' = IF arrives /\ answered THEN "ok"
                      ELSE IF creating = "call0" THEN "call1" ELSE "refused"
  /\ UNCHANGED <<room, listed, alias, cred, invites, minting, reqs, told, raced, restarted>>

\* Mutant: the room is published whatever became of it while the Game answered.
PublishRoomUnchecked ==
  /\ creating = "ok"
  /\ creating' = "done"
  /\ room' = [room EXCEPT !.status = "waiting"] /\ listed' = TRUE
  /\ UNCHANGED <<alias, cred, invites, game, minting, reqs, told, raced, restarted>>

PublishRoom ==
  /\ creating = "ok"
  /\ creating' = "done"
  /\ IF room.status = "initializing"
     THEN room' = [room EXCEPT !.status = "waiting"] /\ listed' = TRUE
     ELSE UNCHANGED <<room, listed>>
  /\ UNCHANGED <<alias, cred, invites, game, minting, reqs, told, raced, restarted>>

RollbackCreate ==
  /\ creating = "refused"
  /\ creating' = "done"
  /\ room' = [room EXCEPT !.status = "deleted"]
  /\ listed' = FALSE /\ alias' = FALSE
  /\ cred' = [s \in Seats |-> Nobody]
  /\ UNCHANGED <<invites, game, minting, reqs, told, raced, restarted>>

-----------------------------------------------------------------------------
(* join from the list: reserve, tell the Game, finalize or roll back.       *)

\* Mutant: a join overrides the reservation of an invite.
ReserveJoinOverPending(q, g) ==
  /\ q = FreeSlot /\ g \notin told
  /\ room.status = "waiting" /\ room.seats = 1
  /\ room' = [room EXCEPT !.status = "joining"]
  /\ listed' = FALSE
  /\ cred' = [cred EXCEPT !["B"] = g]
  /\ reqs' = [reqs EXCEPT ![q] = [Idle EXCEPT !.op = "join", !.by = g, !.phase = "call"]]
  /\ UNCHANGED <<alias, invites, game, creating, minting, told, raced, restarted>>

ReserveJoin(q, g) ==
  /\ q = FreeSlot /\ g \notin told
  /\ room.status = "waiting" /\ room.seats = 1 /\ room.pending = NoInvite
  /\ cred["B"] = Nobody
  /\ room' = [room EXCEPT !.status = "joining"]
  /\ listed' = FALSE
  /\ cred' = [cred EXCEPT !["B"] = g]
  /\ reqs' = [reqs EXCEPT ![q] = [Idle EXCEPT !.op = "join", !.by = g, !.phase = "call"]]
  /\ UNCHANGED <<alias, invites, game, creating, minting, told, raced, restarted>>

\* Mutant: the credential of the guest who was turned away stays.
RollbackJoinCredentialKept ==
  IF room.status = "joining" /\ room.seats = 1
  THEN /\ room' = [room EXCEPT !.status = "waiting"]
       /\ listed' = TRUE
       /\ UNCHANGED cred
  ELSE UNCHANGED <<room, listed, cred>>

RollbackJoin ==
  IF room.status = "joining" /\ room.seats = 1
  THEN /\ room' = [room EXCEPT !.status = "waiting"]
       /\ listed' = TRUE
       /\ cred' = [cred EXCEPT !["B"] = Nobody]
  ELSE UNCHANGED <<room, listed, cred>>

FinalizeJoin(q) ==
  /\ reqs[q].op = "join" /\ reqs[q].phase \in {"ok", "refused"}
  /\ IF reqs[q].phase = "ok" /\ room.status = "joining" /\ room.seats = 1
     THEN /\ room' = [room EXCEPT !.status = "playing", !.seats = 2, !.nameB = reqs[q].by]
          /\ told' = told \cup {reqs[q].by}
          /\ UNCHANGED <<listed, cred>>
     ELSE RollbackJoin /\ UNCHANGED told
  /\ reqs' = [reqs EXCEPT ![q] = Idle]
  /\ UNCHANGED <<alias, invites, game, creating, minting, raced, restarted>>

-----------------------------------------------------------------------------
(* The seat-update call, common to join (one retry) and claim-invite (none). *)

\* Mutant: the Game takes the last name it is given.
SeatUpdateOverwrites(q) ==
  /\ reqs[q].phase = "call"
  /\ \/ /\ game' = [game EXCEPT !.nameB = reqs[q].by]
        /\ reqs' = [reqs EXCEPT ![q].phase = "ok"]
     \/ /\ reqs' = [reqs EXCEPT ![q].phase = "refused"]
        /\ UNCHANGED game
  /\ UNCHANGED <<room, listed, alias, cred, invites, creating, minting, told, raced, restarted>>

SeatUpdate(q) ==
  /\ reqs[q].phase = "call"
  /\ LET conflict == ~game.init \/ game.nameB \notin {Nobody, reqs[q].by}
         again == reqs[q].op = "join" /\ reqs[q].attempt = 0
     IN \/ /\ game' = IF conflict THEN game ELSE [game EXCEPT !.nameB = reqs[q].by]
           /\ reqs' = [reqs EXCEPT ![q].phase = IF conflict THEN "refused" ELSE "ok"]
        \/ /\ \E arrives \in BOOLEAN :
                game' = IF arrives /\ ~conflict THEN [game EXCEPT !.nameB = reqs[q].by] ELSE game
           /\ reqs' = IF again THEN [reqs EXCEPT ![q].attempt = 1]
                      ELSE [reqs EXCEPT ![q].phase = "refused"]
  /\ UNCHANGED <<room, listed, alias, cred, invites, creating, minting, told, raced, restarted>>

-----------------------------------------------------------------------------
(* Invites.  create-invite is not a transaction: the verification of the    *)
(* owner's credential is awaited between its checks and its only write.     *)

CheckInvite ==
  /\ ~minting
  /\ room.status = "waiting" /\ cred["A"] = Owner
  /\ room.seats = 1 /\ room.nameB = Nobody /\ room.pending = NoInvite
  /\ minting' = TRUE
  /\ UNCHANGED <<room, listed, alias, cred, invites, game, creating, reqs, told, raced, restarted>>

StoreInvite(i) ==
  /\ minting /\ invites[i].state = "none"
  /\ \A j \in Invites : j < i => invites[j].state # "none"
  /\ minting' = FALSE
  /\ invites' = [invites EXCEPT ![i].state = "unclaimed"]
  /\ UNCHANGED <<room, listed, alias, cred, game, creating, reqs, told, raced, restarted>>

\* claimSeatInvite: the first claim makes a credential and keeps the proof of
\* the claimant, if it sent one; only that proof can repeat a pending claim.
MayClaim(i, g) ==
  \/ invites[i].state = "unclaimed" /\ cred["B"] = Nobody
  \/ invites[i].state = "pending" /\ invites[i].proof = g

ReserveClaim(q, g, i, proof) ==
  /\ q = FreeSlot /\ g \notin told
  /\ invites[i].age # "expired"
  /\ room.status \in {"waiting", "joining"} /\ room.seats = 1 /\ room.nameB = Nobody
  /\ IF room.status = "joining"
     THEN invites[i].state = "pending" /\ room.pending = i
     ELSE room.pending \in {NoInvite, i}
  /\ MayClaim(i, g)
  /\ IF invites[i].state = "unclaimed"
     THEN /\ invites' = [invites EXCEPT ![i].state = "pending", ![i].proof = proof]
          /\ cred' = [cred EXCEPT !["B"] = g]
     ELSE UNCHANGED <<invites, cred>>
  /\ room' = [room EXCEPT !.pending = i]
  /\ reqs' = [reqs EXCEPT ![q] = [Idle EXCEPT !.op = "claim", !.by = g, !.invite = i,
                                              !.phase = "call"]]
  /\ UNCHANGED <<listed, alias, game, creating, minting, told, raced, restarted>>

ConfirmInvite(i) ==
  IF invites[i].state \in {"none", "deleted"} THEN invites
  ELSE [invites EXCEPT ![i].state = "confirmed"]

\* A claim the Game refused, or whose answer was lost, keeps its reservation.
FinalizeClaim(q) ==
  /\ reqs[q].op = "claim" /\ reqs[q].phase \in {"ok", "refused"}
  /\ IF reqs[q].phase = "ok"
     THEN /\ invites' = ConfirmInvite(reqs[q].invite)
          /\ told' = told \cup {reqs[q].by}
          /\ IF room.status = "deleted" THEN UNCHANGED <<room, listed>>
             ELSE /\ room' = [room EXCEPT
                        !.nameB = reqs[q].by, !.seats = 2, !.pending = NoInvite,
                        !.status = IF @ \in {"waiting", "joining"} THEN "playing" ELSE @]
                  /\ listed' = FALSE
     ELSE UNCHANGED <<invites, told, room, listed>>
  /\ reqs' = [reqs EXCEPT ![q] = Idle]
  /\ UNCHANGED <<alias, cred, game, creating, minting, raced, restarted>>

\* Sixty seconds after it was minted an invite is old; after ten minutes expired.
InviteAges(i) ==
  /\ invites[i].state \notin {"none", "deleted"} /\ invites[i].age # "expired"
  /\ invites' = [invites EXCEPT ![i].age = IF @ = "fresh" THEN "old" ELSE "expired"]
  /\ UNCHANGED <<room, listed, alias, cred, game, creating, minting, reqs, told, raced, restarted>>

Dropped(i) ==
  /\ invites[i].state \notin {"none", "deleted"}
  /\ \/ invites[i].age = "expired"
     \/ invites[i].age = "old" /\ invites[i].state \in {"pending", "confirmed"}

\* Mutant: a dropped invite keeps its reservation.
AbandonedNone == {}

\* The alarm drops expired invites and claims of old ones, with the
\* reservation of a claim that is still pending.
Abandoned == {i \in Invites : Dropped(i) /\ invites[i].state = "pending" /\ room.pending = i
                              /\ room.status # "deleted"}

Alarm ==
  /\ \E i \in Invites : Dropped(i)
  /\ invites' = [i \in Invites |-> IF Dropped(i) THEN Gone ELSE invites[i]]
  /\ room' = IF Abandoned = {} THEN room ELSE [room EXCEPT !.pending = NoInvite]
  /\ IF Abandoned # {} /\ room.status = "waiting" /\ room.seats = 1
     THEN cred' = [cred EXCEPT !["B"] = Nobody] /\ listed' = TRUE
     ELSE UNCHANGED <<cred, listed>>
  /\ raced' = (raced \/ \E q \in Slots : reqs[q].op = "claim" /\ reqs[q].invite \in Abandoned)
  /\ UNCHANGED <<alias, game, creating, minting, reqs, told, restarted>>

-----------------------------------------------------------------------------
(* resume rotates the credential of the seat it matches; the new one exists *)
(* only in the answer.                                                      *)

Resume(s, h) ==
  /\ room.status \in {"waiting", "playing"}
  /\ cred[s] = h /\ ((h = Owner /\ creating = "done") \/ h \in told)
  /\ cred' = [cred EXCEPT ![s] = Lost]        \* answered in time, it stays h: a stutter
  /\ UNCHANGED <<room, listed, alias, invites, game, creating, minting, reqs, told, raced,
                 restarted>>

-----------------------------------------------------------------------------
(* The end: the Game reports it until the Lobby has taken it; a day later   *)
(* the record is collected.                                                 *)

GameEnds ==
  /\ game.init /\ ~game.over
  /\ game' = [game EXCEPT !.over = TRUE]
  /\ UNCHANGED <<room, listed, alias, cred, invites, creating, minting, reqs, told, raced,
                 restarted>>

Terminalize ==
  /\ game.over /\ room.status \notin {"none", "deleted", "terminal"}
  /\ room' = [room EXCEPT !.status = "terminal"]
  /\ listed' = FALSE /\ alias' = FALSE
  /\ cred' = [s \in Seats |-> Nobody]
  /\ invites' = [i \in Invites |-> IF invites[i].state = "none" THEN invites[i] ELSE Gone]
  /\ UNCHANGED <<game, creating, minting, reqs, told, raced, restarted>>

CollectTerminal ==
  /\ room.status = "terminal"
  /\ creating = "done" /\ ~minting /\ \A q \in Slots : reqs[q] = Idle   \* none takes a day
  /\ room' = [room EXCEPT !.status = "deleted"]
  /\ UNCHANGED <<listed, alias, cred, invites, game, creating, minting, reqs, told, raced,
                 restarted>>

\* The object is evicted: what its requests were waiting for is never used.
Restart ==
  /\ \/ creating \in {"call0", "call1", "ok", "refused"} \/ minting
     \/ \E q \in Slots : reqs[q] # Idle
  /\ creating' = IF creating = "idle" THEN "idle" ELSE "done"
  /\ minting' = FALSE
  /\ reqs' = [q \in Slots |-> Idle]
  /\ restarted' = TRUE
  /\ UNCHANGED <<room, listed, alias, cred, invites, game, told, raced>>

Next ==
  \/ Create \/ InitializeGame \/ PublishRoom \/ RollbackCreate
  \/ \E q \in Slots : SeatUpdate(q) \/ FinalizeJoin(q) \/ FinalizeClaim(q)
  \/ \E q \in Slots, g \in Guests : ReserveJoin(q, g)
  \/ \E q \in Slots, g \in Guests, i \in Invites, proof \in Guests \cup {Nobody} :
       proof \in {g, Nobody} /\ ReserveClaim(q, g, i, proof)
  \/ CheckInvite \/ (\E i \in Invites : StoreInvite(i) \/ InviteAges(i))
  \/ Alarm
  \/ \E s \in Seats, h \in Guests \cup {Owner} : Resume(s, h)
  \/ GameEnds \/ Terminalize \/ CollectTerminal \/ Restart

\* Time passes, a due alarm is delivered, and an awaited call returns or throws.
Fairness ==
  /\ WF_vars(Alarm)
  /\ \A i \in Invites : WF_vars(InviteAges(i))
  /\ \A q \in Slots : WF_vars(SeatUpdate(q)) /\ WF_vars(FinalizeJoin(q)) /\ WF_vars(FinalizeClaim(q))

Spec == Init /\ [][Next]_vars /\ Fairness

-----------------------------------------------------------------------------
(* Properties.                                                             *)

\* The public list shows the room exactly while it is waiting.
ListExact == listed <=> room.status = "waiting"

\* A credential of seat B in a room that is still waiting is the reservation of
\* an invite that can be retried, or released by the alarm: no seat is held for nobody.
NoStrandedSeat ==
  room.status = "waiting" /\ cred["B"] # Nobody =>
    room.pending # NoInvite /\ invites[room.pending].state = "pending"

\* Nothing that opens a door outlives the room (an invite already being minted can).
TerminalClean ==
  room.status \in {"terminal", "deleted"} =>
    ~listed /\ ~alias /\ \A s \in Seats : cred[s] = Nobody

\* However joins, claims, retries and rollbacks interleave and whatever answers
\* are lost, at most one guest is told that seat B is theirs, and the Lobby and
\* the Game agree on who it is.
OneGuestSeated ==
  /\ \A g \in told : game.nameB = g
  /\ room.nameB # Nobody => room.nameB = game.nameB

\* The guest who was told seat B is theirs can resume it while the game is
\* played: the stored credential is the one they were given.  Two exceptions,
\* both kept as history: a lost answer to a resume, and an alarm that released
\* a claim whose call to the Game was still in flight.
GuestCanResume ==
  room.status = "playing" /\ ~raced =>
    \E g \in Guests : told = {g} /\ cred["B"] \in {g, Lost}

\* Seat B belongs to one guest, from the answer that gives it to the end of the game.
SeatIsTheGuests == OneGuestSeated /\ GuestCanResume

-----------------------------------------------------------------------------
(* The inductive invariant behind them.                                     *)

RequestsSound ==
  \A q \in Slots :
    /\ reqs[q].op = "idle" => reqs[q] = Idle
    /\ reqs[q].op # "idle" => reqs[q].by \in Guests /\ reqs[q].phase # "none"
    /\ reqs[q].op = "claim" => reqs[q].invite \in Invites
    /\ reqs[q].phase = "ok" => reqs[q].by = game.nameB

\* Nobody comes before the room is published ...
Unpublished ==
  room.status \in {"none", "initializing"} =>
    /\ room.pending = NoInvite /\ ~minting /\ cred["B"] = Nobody
    /\ \A i \in Invites : invites[i].state = "none"
    /\ \A q \in Slots : reqs[q] = Idle

\* ... and nobody is seated before it is full.
SeatFree ==
  room.status \in {"none", "initializing", "waiting", "joining"} =>
    room.seats = 1 /\ room.nameB = Nobody /\ told = {}

\* A joining room is owned by one join, which will finalize it or roll it back;
\* a restart is the only way to leave it joining for good.
JoinsSound ==
  /\ room.status = "waiting" => \A q \in Slots : reqs[q].op # "join"
  /\ room.status = "joining" =>
       /\ room.pending = NoInvite
       /\ \A p, q \in Slots : reqs[p].op = "join" /\ reqs[q].op = "join" => p = q
       /\ ~restarted => \E q \in Slots : reqs[q].op = "join"

\* Who holds the reservation holds the credential, unless the alarm released it.
ReservationSound ==
  ~raced =>
    /\ room.status = "waiting" =>
         /\ \A q \in Slots : reqs[q].op = "claim" =>
              invites[reqs[q].invite].state = "pending" /\ cred["B"] = reqs[q].by
         /\ \A i \in Invites : invites[i].state = "pending" =>
              room.pending = i /\ invites[i].proof \in {Nobody, cred["B"]}
    /\ room.status = "joining" =>
         /\ \A q \in Slots : reqs[q].op # "claim"
         /\ \A q \in Slots : reqs[q].op = "join" => cred["B"] = reqs[q].by
         /\ \A i \in Invites : invites[i].state # "pending"

Seated ==
  /\ \A g \in told : game.nameB = g
  /\ room.nameB # Nobody => room.nameB = game.nameB
  /\ room.status = "playing" => room.nameB # Nobody
  /\ room.status = "playing" /\ ~raced =>
       told = {room.nameB} /\ cred["B"] \in {room.nameB, Lost}

LobbyInv ==
  /\ TypeOK /\ ListExact /\ NoStrandedSeat /\ TerminalClean
  /\ RequestsSound /\ Unpublished /\ SeatFree /\ JoinsSound /\ ReservationSound /\ Seated

-----------------------------------------------------------------------------

\* A reservation by an invite is confirmed or given back, even when the object
\* restarts in the middle: the room cannot stay listed and refuse everyone.
ReservationEnds ==
  (room.status = "waiting" /\ room.pending # NoInvite) ~>
    (room.status # "waiting" \/ room.pending = NoInvite)

Phase == CASE room.status \in {"none", "initializing"} -> "absent"
           [] room.status \in {"waiting", "joining"} -> "open"
           [] room.status = "playing" -> "full"
           [] OTHER -> "closed"

Guest == IF Phase = "full" THEN room.nameB ELSE Nobody

Directory == INSTANCE RoomDirectory WITH
  Names <- Guests, NoName <- Nobody, phase <- Phase, guest <- Guest

\* The Lobby implements RoomDirectory: published once, one guest who never
\* changes, closed for good.
ImplementsDirectory == Directory!DirectorySpec
=============================================================================
