------------------------------ MODULE GameRoom ------------------------------
(***************************************************************************)
(* The Room class of packages/game-core/src/room.js, as operators: each    *)
(* takes a room record and returns the room after the call.  The module    *)
(* has no variables; RoomLifecycle and DurableGame drive it.               *)
(*                                                                         *)
(* Abstracted: names, tokens (a resume token is the seat it belongs to),   *)
(* event payloads, and the board, which is the number of moves applied     *)
(* (`ply') plus a nondeterministic verdict of rules.applyMove.  The timers *)
(* of the class are not modelled: the worker injects `schedule: () =>      *)
(* undefined' (apps/worker/src/persistence/room-storage.ts, 464-472).      *)
(***************************************************************************)
EXTENDS Integers

CONSTANTS
  Conn,            \* live sockets
  NoConn,          \* "connection: null"
  Moves,           \* the distinct <<from, to>> pairs a client sends
  NoMove,          \* "lastMove: null"
  InitialClock,    \* initialClockMs
  ReconnectGrace   \* reconnectGraceMs

ASSUME SentinelAssumption == NoConn \notin Conn /\ NoMove \notin Moves
ASSUME ClockAssumption == InitialClock \in Nat \ {0} /\ ReconnectGrace \in Nat

Seats == {"A", "B"}
NoSeat == "none"
NoTime == -1       \* a null reconnectDeadlineMs
NoRevision == -1   \* an undefined expectedRevision

Other(s) == IF s = "A" THEN "B" ELSE "A"

BoardWins == {"goal", "elimination", "no_moves"}
Reasons == BoardWins \cup {"timeout", "leave", "disconnect_timeout"}

(***************************************************************************)
(* The verdicts of rules.applyMove for the seat on turn; a winner is       *)
(* always the seat that moved.                                             *)
(***************************************************************************)
Verdicts == BoardWins \cup {"illegal", "moved"}

LastMoveType ==
  [seat : Seats \cup {NoSeat}, move : Moves \cup {NoMove}, before : Nat,
   structuralBefore : Nat, expected : Nat \cup {NoRevision}]

RoomType ==
  [status : {"waiting", "playing", "done"},
   seated : [Seats -> BOOLEAN],
   connected : [Seats -> BOOLEAN],
   conn : [Seats -> Conn \cup {NoConn}],
   deadline : [Seats -> Nat \cup {NoTime}],
   turn : Seats,
   winner : Seats \cup {NoSeat},
   reason : Reasons \cup {NoSeat},
   ply : Nat,
   remaining : [Seats -> 0 .. InitialClock],
   running : Seats \cup {NoSeat},
   anchor : Nat,
   revision : Nat,
   structural : Nat,
   lastMove : LastMoveType]

NoLastMove ==
  [seat |-> NoSeat, move |-> NoMove, before |-> 0, structuralBefore |-> 0,
   expected |-> NoRevision]

NewRoom(now) ==
  [status |-> "waiting",
   seated |-> [s \in Seats |-> FALSE],
   connected |-> [s \in Seats |-> FALSE],
   conn |-> [s \in Seats |-> NoConn],
   deadline |-> [s \in Seats |-> NoTime],
   turn |-> "A", winner |-> NoSeat, reason |-> NoSeat, ply |-> 0,
   remaining |-> [s \in Seats |-> InitialClock],
   running |-> "A", anchor |-> now,
   revision |-> 0, structural |-> 0, lastMove |-> NoLastMove]

-----------------------------------------------------------------------------
(* Commits and the clock.                                                  *)

\* A structural commit marks the revision at which the position changed.
Commit(r, isStructural) ==
  [r EXCEPT !.revision = @ + 1,
            !.structural = IF isStructural THEN r.revision + 1 ELSE @]

FinishTerminal(r) == [r EXCEPT !.running = NoSeat, !.status = "done"]

\* rules.elapseClock on a running clock: a clock at zero loses the game.
ElapseClock(r, elapsed) ==
  LET seat == r.running
      left == IF r.remaining[seat] > elapsed THEN r.remaining[seat] - elapsed ELSE 0
      charged == [r EXCEPT !.remaining[seat] = left]
  IN  IF left > 0
      THEN charged
      ELSE [charged EXCEPT !.winner = Other(seat), !.reason = "timeout",
                           !.running = NoSeat]

ClockRuns(r) == r.status = "playing" /\ r.running # NoSeat

\* Without `commit' the caller commits the settled clock with its own change.
SettleClock(r, now, commit) ==
  IF ~ClockRuns(r) THEN [r EXCEPT !.anchor = now]
  ELSE IF now <= r.anchor THEN r
  ELSE LET e == [ElapseClock(r, now - r.anchor) EXCEPT !.anchor = now]
           won == e.winner # NoSeat
           f == IF won THEN FinishTerminal(e) ELSE e
       IN  IF commit THEN Commit(f, won) ELSE f

\* payload() is a stateful read: a snapshot settles the clock.
Payload(r, now) == SettleClock(r, now, TRUE)

-----------------------------------------------------------------------------
(* Seats and moves.                                                        *)

HoldsSeat(r, s, c) == r.seated[s] /\ r.connected[s] /\ r.conn[s] = c

CanAdd(r) == r.status # "done" /\ \E s \in Seats : ~r.seated[s]
FreeSeat(r) == IF ~r.seated["A"] THEN "A" ELSE "B"

\* Mutant: the game starts the clock of a creator who is away.
AddPlayerStartsClock(r, c, now) ==
  LET s == FreeSeat(r)
      sat == Commit([r EXCEPT !.seated[s] = TRUE, !.connected[s] = TRUE,
                              !.conn[s] = c, !.deadline[s] = NoTime], TRUE)
  IN  IF sat.seated[Other(s)]
      THEN [sat EXCEPT !.status = "playing", !.turn = "A", !.ply = 0,
                       !.remaining = [x \in Seats |-> InitialClock],
                       !.anchor = now, !.running = "A"]
      ELSE sat

AddPlayer(r, c, now) ==
  LET s == FreeSeat(r)
      sat == Commit([r EXCEPT !.seated[s] = TRUE, !.connected[s] = TRUE,
                              !.conn[s] = c, !.deadline[s] = NoTime], TRUE)
  IN  IF sat.seated[Other(s)]
      THEN [sat EXCEPT !.status = "playing",
                       !.turn = "A", !.ply = 0,
                       !.remaining = [x \in Seats |-> InitialClock],
                       !.anchor = now,
                       !.running = IF sat.connected["A"] THEN "A" ELSE NoSeat]
      ELSE sat

\* The move is the one applied last, sent again under a revision it was valid for.
IsDuplicate(r, s, m, e) ==
  /\ r.lastMove.seat = s
  /\ r.lastMove.move = m
  /\ \/ e \in {NoRevision, r.lastMove.before, r.lastMove.expected}
     \/ e \in r.lastMove.structuralBefore .. r.lastMove.before

\* Mutant: any revision up to the current one is accepted.
IsStaleAboveOnly(r, e) == e # NoRevision /\ e > r.revision

\* Only clock ticks may separate the revision the client saw from the current one.
IsStale(r, e) == e # NoRevision /\ e \notin r.structural .. r.revision

ApplyMove(r, s, verdict, now) ==
  IF verdict \in BoardWins
  THEN FinishTerminal([r EXCEPT !.ply = @ + 1, !.winner = s, !.reason = verdict,
                                !.anchor = now])
  ELSE [r EXCEPT !.ply = @ + 1, !.turn = Other(s), !.anchor = now,
                 !.running = IF r.connected[Other(s)] THEN Other(s) ELSE NoSeat]

\* Mutant: a move is applied without charging the time that passed.
HandleMoveUnsettled(r, s, m, e, verdict, now) ==
  LET moved == Commit(ApplyMove(r, s, verdict, now), TRUE)
  IN  IF \/ IsDuplicate(r, s, m, e) \/ r.status # "playing" \/ IsStale(r, e)
         \/ r.turn # s \/ verdict = "illegal"
      THEN r
      ELSE [moved EXCEPT !.lastMove =
              [seat |-> s, move |-> m, before |-> r.revision,
               structuralBefore |-> r.structural, expected |-> e]]

HandleMove(r, s, m, e, verdict, now) ==
  LET settled == SettleClock(r, now, FALSE)
      moved == Commit(ApplyMove(settled, s, verdict, now), TRUE)
  IN  IF IsDuplicate(r, s, m, e) \/ r.status # "playing" \/ IsStale(r, e) THEN r
      ELSE IF settled.winner # NoSeat THEN Commit(settled, TRUE)
      ELSE IF settled.turn # s \/ verdict = "illegal" THEN settled
      ELSE [moved EXCEPT !.lastMove =
              [seat |-> s, move |-> m, before |-> settled.revision,
               structuralBefore |-> settled.structural, expected |-> e]]

-----------------------------------------------------------------------------
(* Leaving, losing the connection, coming back.                            *)

DisconnectPlayer(r, s, now) ==
  LET settled == SettleClock(r, now, TRUE)
      gone == [settled EXCEPT !.connected[s] = FALSE]
  IN  IF r.status = "done" THEN Commit([r EXCEPT !.connected[s] = FALSE], TRUE)
      ELSE IF settled.winner # NoSeat THEN Commit(gone, TRUE)
      ELSE Commit([gone EXCEPT
                     !.deadline[s] = now + ReconnectGrace,
                     !.anchor = IF settled.running = s THEN now ELSE @,
                     !.running = IF @ = s THEN NoSeat ELSE @], TRUE)

\* Mutant: leaving a game that already has a winner gives it to the other seat.
LeavePlayerAfterOutcome(r, s, now) ==
  LET settled == SettleClock(r, now, TRUE)
      gone == [settled EXCEPT !.connected[s] = FALSE, !.deadline[s] = NoTime,
                              !.reason = "leave"]
  IN  IF settled.status = "waiting" THEN FinishTerminal(Commit(gone, TRUE))
      ELSE FinishTerminal(Commit([gone EXCEPT !.winner = Other(s)], TRUE))

\* An empty room closes without a winner; a game in progress goes to the other seat.
LeavePlayer(r, s, now) ==
  LET settled == SettleClock(r, now, TRUE)
      gone == [settled EXCEPT !.connected[s] = FALSE, !.deadline[s] = NoTime,
                              !.reason = "leave"]
  IN  IF settled.winner # NoSeat THEN settled
      ELSE IF settled.status = "waiting" THEN FinishTerminal(Commit(gone, TRUE))
      ELSE FinishTerminal(Commit([gone EXCEPT !.winner = Other(s)], TRUE))

\* deadline >= now is false for a null deadline: null compares as zero.
CanResume(r, s, now) ==
  /\ r.status # "done"
  /\ r.seated[s] /\ ~r.connected[s]
  /\ r.deadline[s] >= now

\* Mutant: coming back does not start the clock of the seat on turn.
ResumePlayerClockStopped(r, c, s, now) ==
  LET settled == SettleClock(r, now, TRUE)
  IN  Commit([settled EXCEPT !.conn[s] = c, !.connected[s] = TRUE,
                             !.deadline[s] = NoTime], TRUE)

ResumePlayer(r, c, s, now) ==
  LET settled == SettleClock(r, now, TRUE)
      back == [settled EXCEPT !.conn[s] = c, !.connected[s] = TRUE,
                              !.deadline[s] = NoTime]
  IN  IF settled.winner # NoSeat THEN Commit(back, TRUE)
      ELSE Commit([back EXCEPT
                     !.running = IF back.connected[back.turn] THEN back.turn
                                 ELSE NoSeat,
                     !.anchor = now], TRUE)

-----------------------------------------------------------------------------
(* What the alarm does when grace periods end.                             *)

ExpireWaitingCreator(r, now) ==
  IF /\ r.status = "waiting"
     /\ r.seated["A"] /\ ~r.seated["B"]
     /\ ~r.connected["A"]
     /\ r.deadline["A"] # NoTime /\ r.deadline["A"] <= now
  THEN Commit([r EXCEPT !.status = "done", !.reason = "disconnect_timeout",
                        !.running = NoSeat], TRUE)
  ELSE r

\* Mutant: the grace period ends one tick early.
GraceOverEarly(r, s, now) ==
  r.seated[s] /\ ~r.connected[s] /\ r.deadline[s] # NoTime /\ r.deadline[s] <= now + 1

GraceOver(r, s, now) ==
  r.seated[s] /\ ~r.connected[s] /\ r.deadline[s] # NoTime /\ r.deadline[s] <= now

TieBreakGraceLoser(r) ==
  IF r.remaining["A"] < r.remaining["B"] THEN "A"
  ELSE IF r.remaining["B"] < r.remaining["A"] THEN "B"
  ELSE r.turn

\* expired[0]: the first of A, B whose grace is over, unless both end together.
GraceLoser(r, now) ==
  IF /\ \A s \in Seats : GraceOver(r, s, now)
     /\ r.deadline["A"] = r.deadline["B"]
  THEN TieBreakGraceLoser(r)
  ELSE IF GraceOver(r, "A", now) THEN "A" ELSE "B"

ExpireReconnect(r, now) ==
  LET settled == SettleClock(r, now, TRUE)
      lost == [settled EXCEPT !.winner = Other(GraceLoser(settled, now)),
                              !.reason = "disconnect_timeout"]
  IN  IF r.status # "playing" \/ ~\E s \in Seats : GraceOver(r, s, now) THEN r
      ELSE IF settled.winner # NoSeat THEN settled
      ELSE FinishTerminal(Commit(lost, TRUE))

\* After a restart: the seats whose sockets are gone get a fresh grace period.
ReconcileHydration(r, now, preserved) ==
  LET lost == {s \in Seats : r.seated[s] /\ r.connected[s] /\ s \notin preserved}
      gone == [r EXCEPT
                 !.connected = [s \in Seats |-> s \notin lost /\ @[s]],
                 !.deadline = [s \in Seats |->
                                 IF s \in lost THEN now + ReconnectGrace ELSE @[s]]]
  IN  IF r.status = "done" \/ lost = {} THEN r
      ELSE Commit(IF ClockRuns(r) THEN [gone EXCEPT !.running = NoSeat, !.anchor = now]
                  ELSE gone, TRUE)
=============================================================================
