--------------------------- MODULE RoomLifecycle ---------------------------
(***************************************************************************)
(* One game, from the creator's arrival to its outcome: the Room class     *)
(* driven as the worker drives it, without faults.  A host operation runs  *)
(* one Room method and then payload(), as DurableRoomAdapter.mutate does;  *)
(* operations are serial (OttGameServer.enqueueRoomOperation).  The alarm  *)
(* is armed for the earliest deadline but may be handled late, or early    *)
(* for the sake of an expiring nonce.                                      *)
(***************************************************************************)
EXTENDS GameRoom

CONSTANTS
  MaxTime,      \* bound: the clock stops ticking here
  MaxRevision   \* bound: clients and early alarms stop at this revision

ASSUME BoundAssumption == MaxTime \in Nat /\ MaxRevision \in Nat

VARIABLES
  room,
  now,
  published,  \* history: <<revision, ply>> of every state that was broadcast
  thinking,   \* history: time each seat spent on turn and connected
  lostAt      \* history: when each seat last lost its connection

vars == <<room, now, published, thinking, lostAt>>

TypeOK ==
  /\ room \in RoomType
  /\ now \in Nat
  /\ published \subseteq Nat \X Nat
  /\ thinking \in [Seats -> Nat]
  /\ lostAt \in [Seats -> Nat]

Init ==
  /\ now = 0
  /\ room = NewRoom(0)
  /\ published = {}
  /\ thinking = [s \in Seats |-> 0]
  /\ lostAt = [s \in Seats |-> 0]

-----------------------------------------------------------------------------

\* mutate(): the method's effect, settled by payload(), then broadcast.
Mutate(after) ==
  /\ room' = Payload(after, now)
  /\ published' = published \cup {<<room'.revision, room'.ply>>}
  /\ lostAt' = [s \in Seats |->
                  IF room.connected[s] /\ ~room'.connected[s] THEN now ELSE lostAt[s]]
  /\ UNCHANGED <<now, thinking>>

Unseated(c) == \A s \in Seats : ~HoldsSeat(room, s, c)
Bounded == room.revision < MaxRevision

Join(c) == Bounded /\ Unseated(c) /\ CanAdd(room) /\ Mutate(AddPlayer(room, c, now))

Move(c) ==
  /\ Bounded
  /\ \E s \in Seats, m \in Moves, verdict \in Verdicts,
        e \in {p[1] : p \in published} \cup {NoRevision} :
       /\ HoldsSeat(room, s, c)
       /\ Mutate(HandleMove(room, s, m, e, verdict, now))

Leave(c) ==
  /\ Bounded
  /\ \E s \in Seats : HoldsSeat(room, s, c) /\ Mutate(LeavePlayer(room, s, now))

Disconnect(c) ==
  /\ Bounded
  /\ \E s \in Seats : HoldsSeat(room, s, c) /\ Mutate(DisconnectPlayer(room, s, now))

Resume(c) ==
  /\ Bounded
  /\ Unseated(c)
  /\ \E s \in Seats : CanResume(room, s, now) /\ Mutate(ResumePlayer(room, c, s, now))

\* The deadlines of DurableRoomAdapter.scheduleAlarm.
Deadlines(r) ==
  (IF ClockRuns(r) THEN {r.anchor + r.remaining[r.running]} ELSE {})
    \cup {r.deadline[s] : s \in {x \in Seats : r.deadline[x] # NoTime}}

OnAlarm(r, t) ==
  ExpireReconnect(ExpireWaitingCreator(SettleClock(r, t, TRUE), t), t)

AlarmDue == \E d \in Deadlines(room) : d <= now

Alarm ==
  /\ room.status # "done"
  /\ AlarmDue \/ Bounded
  /\ Mutate(OnAlarm(room, now))

Tick ==
  /\ now < MaxTime
  /\ now' = now + 1
  /\ thinking' = [s \in Seats |->
        IF room.status = "playing" /\ room.turn = s /\ room.connected[s]
        THEN thinking[s] + 1 ELSE thinking[s]]
  /\ UNCHANGED <<room, published, lostAt>>

Next ==
  \/ \E c \in Conn : Join(c) \/ Move(c) \/ Leave(c) \/ Disconnect(c) \/ Resume(c)
  \/ Alarm
  \/ Tick

Safe == Init /\ [][Next]_vars

\* Time passes and the runtime runs an alarm that is due; players owe nothing.
Fairness == WF_vars(Tick) /\ WF_vars(AlarmDue /\ Alarm)

Spec == Safe /\ Fairness

-----------------------------------------------------------------------------
(* Properties.                                                             *)

\* room-storage.js validateState, on the fields the model keeps: an outcome has
\* a reason and a stopped clock, a game without outcome has neither, and only a
\* room whose creator was alone ends without a winner.
Loadable(r) ==
  /\ r.structural <= r.revision
  /\ r.status = "done" => r.reason # NoSeat /\ r.running = NoSeat
  /\ r.status = "done" /\ r.winner = NoSeat
       => /\ r.reason \in {"disconnect_timeout", "leave"}
          /\ r.seated["A"] /\ ~r.seated["B"]
  /\ r.status # "done" => r.winner = NoSeat /\ r.reason = NoSeat

\* Every reachable room can be persisted (serializeRoom validates it and throws
\* otherwise, which makes the game unavailable) and loaded again.
Hydratable == Loadable(room)

TimeLeft(s) ==
  LET left == IF ClockRuns(room) /\ room.running = s
              THEN room.remaining[s] - (now - room.anchor) ELSE room.remaining[s]
  IN  IF left > 0 THEN left ELSE 0

\* Rule.md 14.1 and 14.2: a seat is charged exactly the time during which it
\* is on turn and connected, however the clock was settled, stopped by a lost
\* connection and restarted.
ChargedExactly ==
  room.status # "waiting" =>
    \A s \in Seats :
      TimeLeft(s) = IF thinking[s] < InitialClock THEN InitialClock - thinking[s] ELSE 0

\* Once the game has an outcome no late move, leave, disconnection, alarm or
\* resume changes it.
OutcomeFinal ==
  [][room.status = "done" => /\ room'.status = "done"
                             /\ room'.winner = room.winner
                             /\ room'.reason = room.reason]_vars

\* A move is applied only while its player still has time on the clock, even
\* if the alarm that should have ended the game has not been handled yet.
NoMoveAfterFlag ==
  [][room'.ply > room.ply => thinking[room.turn] < InitialClock]_vars

\* The stale-revision guard of handleMove: a move sent for revision e is
\* applied only to the position that was broadcast as revision e.
FreshMoves ==
  [][LET e == room'.lastMove.expected IN
       room'.ply > room.ply /\ e # NoRevision =>
         \A p \in published : p[1] = e => p[2] = room.ply]_vars

Loser(r) == IF r.winner = NoSeat THEN "A" ELSE Other(r.winner)

\* A seat is lost to a lost connection only after it was away, without
\* interruption, for the whole grace period.
SeatHeldForGrace ==
  [][room.status # "done" /\ room'.reason = "disconnect_timeout" =>
       /\ ~room.connected[Loser(room')]
       /\ now - lostAt[Loser(room')] >= ReconnectGrace]_vars

\* What can pass before a game ends: both clocks, and a grace period for each
\* disconnection the bound on revisions leaves room for.
Horizon == 2 * InitialClock + MaxRevision * ReconnectGrace

\* A game that started ends, whatever the players stop doing: a clock runs or
\* a grace period does.  Stated of the games for which the bound on time leaves
\* the time they may take.
GameEnds == (room.status = "playing" /\ now + Horizon <= MaxTime) ~> room.status = "done"

-----------------------------------------------------------------------------
(* The inductive invariant behind them.                                    *)

SeatsSound(r) ==
  /\ r.seated["B"] => r.seated["A"]
  /\ r.status = "waiting" => ~r.seated["B"]
  /\ r.status = "playing" => r.seated["A"] /\ r.seated["B"]
  /\ r.status = "done" /\ r.winner = NoSeat => ~r.connected["A"]

\* The clock that runs is the one of the seat on turn, if it is connected.
ClockSound(r) ==
  r.status = "playing" => r.running = IF r.connected[r.turn] THEN r.turn ELSE NoSeat

Pending(r, t, s) == IF r.running = s THEN t - r.anchor ELSE 0

\* The clocks account for the time th each seat spent on turn and connected.
Charged(r, t, th) ==
  /\ r.anchor <= t
  /\ r.status = "waiting" => \A s \in Seats : r.remaining[s] = InitialClock /\ th[s] = 0
  /\ r.status = "playing" =>
       \A s \in Seats : /\ r.remaining[s] > 0
                        /\ r.remaining[s] - Pending(r, t, s) = InitialClock - th[s]
  /\ r.status = "done" =>
       \A s \in Seats :
         r.remaining[s] = IF th[s] < InitialClock THEN InitialClock - th[s] ELSE 0

GraceSound(r, t, lost) ==
  r.status # "done" =>
    \A s \in Seats : r.seated[s] /\ ~r.connected[s]
      => r.deadline[s] = lost[s] + ReconnectGrace /\ lost[s] <= t

\* Every broadcast revision since the last structural one shows this position.
Broadcast(r, pub) ==
  \A p \in pub : p[1] <= r.revision /\ (p[1] >= r.structural => p[2] = r.ply)

\* The seats, the running clock, the time charged, the grace periods and the
\* broadcast revisions agree with one another (room.js, all methods): what the
\* proofs of RoomProofs carry through every step.
RoomInv ==
  /\ TypeOK
  /\ Loadable(room)
  /\ SeatsSound(room)
  /\ ClockSound(room)
  /\ Charged(room, now, thinking)
  /\ GraceSound(room, now, lostAt)
  /\ Broadcast(room, published)
=============================================================================
