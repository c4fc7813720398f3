----------------------------- MODULE RoomProofs -----------------------------
(***************************************************************************)
(* What TLAPS proves of RoomLifecycle for every number of sockets, every   *)
(* set of moves and every clock, grace period and bound.                   *)
(***************************************************************************)
EXTENDS RoomLifecycle, TLAPS

-----------------------------------------------------------------------------
(* Each method of Room maps rooms to rooms.                                *)

LEMMA OtherSeat == \A s \in Seats : Other(s) \in Seats /\ Other(s) # s
BY DEF Seats, Other

LEMMA NewRoomType == \A t \in Nat : NewRoom(t) \in RoomType
BY ClockAssumption DEF NewRoom, RoomType, NoLastMove, LastMoveType, Seats, NoSeat, NoTime, NoRevision

LEMMA CommitType ==
  ASSUME NEW r \in RoomType, NEW b \in BOOLEAN
  PROVE  Commit(r, b) \in RoomType
<1>1. r.revision + 1 \in Nat /\ (IF b THEN r.revision + 1 ELSE r.structural) \in Nat
  BY DEF RoomType
<1> DEFINE x == r.revision + 1
           y == IF b THEN r.revision + 1 ELSE r.structural
<1>2. x \in Nat /\ y \in Nat BY <1>1
<1> HIDE DEF x, y
<1>3. [r EXCEPT !.revision = x, !.structural = y] \in RoomType
  BY <1>2 DEF RoomType
<1> QED BY <1>3 DEF Commit, x, y

LEMMA FinishTerminalType == \A r \in RoomType : FinishTerminal(r) \in RoomType
BY DEF FinishTerminal, RoomType

LEMMA ElapseClockType ==
  ASSUME NEW r \in RoomType, ClockRuns(r), NEW n \in Nat
  PROVE  ElapseClock(r, n) \in RoomType
<1> DEFINE seat == r.running
           left == IF r.remaining[seat] > n THEN r.remaining[seat] - n ELSE 0
           rem == [r.remaining EXCEPT ![seat] = left]
           charged == [r EXCEPT !.remaining[seat] = left]
<1>1. seat \in Seats
  BY DEF ClockRuns, RoomType
<1>2. left \in 0 .. InitialClock
  BY <1>1, ClockAssumption DEF RoomType
<1> HIDE DEF left, seat
<1>3. charged \in RoomType
  BY <1>1, <1>2 DEF RoomType
<1>4. Other(seat) \in Seats
  BY <1>1, OtherSeat
<1>5. "timeout" \in Reasons
  BY DEF Reasons
<1> HIDE DEF charged
<1>6. [charged EXCEPT !.winner = Other(seat), !.reason = "timeout", !.running = NoSeat]
        \in RoomType
  BY <1>3, <1>4, <1>5 DEF RoomType
<1> QED
  BY <1>3, <1>6 DEF ElapseClock, charged, left, seat

LEMMA SettleClockType ==
  ASSUME NEW r \in RoomType, NEW t \in Nat, NEW b \in BOOLEAN
  PROVE  SettleClock(r, t, b) \in RoomType
<1>1. CASE ~ClockRuns(r)
  <2>1. [r EXCEPT !.anchor = t] \in RoomType
    BY DEF RoomType
  <2> QED BY <1>1, <2>1 DEF SettleClock
<1>2. CASE ClockRuns(r) /\ t <= r.anchor
  BY <1>2 DEF SettleClock
<1>3. CASE ClockRuns(r) /\ ~(t <= r.anchor)
  <2> DEFINE x == ElapseClock(r, t - r.anchor)
             e == [x EXCEPT !.anchor = t]
             f == IF e.winner # NoSeat THEN FinishTerminal(e) ELSE e
  <2>1. t - r.anchor \in Nat
    BY <1>3 DEF RoomType
  <2>2. x \in RoomType
    BY <1>3, <2>1, ElapseClockType
  <2> HIDE DEF x
  <2>3. e \in RoomType
    BY <2>2 DEF RoomType
  <2> HIDE DEF e
  <2>4. f \in RoomType
    BY <2>3, FinishTerminalType
  <2> HIDE DEF f
  <2>5. Commit(f, e.winner # NoSeat) \in RoomType
    BY <2>4, CommitType
  <2> QED
    BY <1>3, <2>4, <2>5 DEF SettleClock, x, e, f
<1> QED BY <1>1, <1>2, <1>3

LEMMA PayloadType ==
  ASSUME NEW r \in RoomType, NEW t \in Nat
  PROVE  Payload(r, t) \in RoomType
BY SettleClockType DEF Payload

LEMMA AddPlayerType ==
  ASSUME NEW r \in RoomType, NEW c \in Conn, NEW t \in Nat
  PROVE  AddPlayer(r, c, t) \in RoomType
<1> DEFINE s == FreeSeat(r)
           seat == [r EXCEPT !.seated[s] = TRUE, !.connected[s] = TRUE,
                             !.conn[s] = c, !.deadline[s] = NoTime]
           sat == Commit(seat, TRUE)
           clock == IF sat.connected["A"] THEN "A" ELSE NoSeat
           full == [x \in Seats |-> InitialClock]
<1>1. s \in Seats
  BY DEF FreeSeat, Seats
<1> HIDE DEF s
<1>2. seat \in RoomType
  BY <1>1 DEF RoomType
<1> HIDE DEF seat
<1>3. sat \in RoomType
  BY <1>2, CommitType
<1> HIDE DEF sat
<1>4. clock \in Seats \cup {NoSeat} /\ full \in [Seats -> 0 .. InitialClock]
  BY ClockAssumption DEF Seats
<1> HIDE DEF clock, full
<1>5. [sat EXCEPT !.status = "playing", !.turn = "A", !.ply = 0, !.remaining = full,
                  !.anchor = t, !.running = clock] \in RoomType
  BY <1>3, <1>4 DEF RoomType, Seats
<1> QED
  BY <1>3, <1>5 DEF AddPlayer, s, seat, sat, clock, full

LEMMA ApplyMoveType ==
  ASSUME NEW r \in RoomType, NEW s \in Seats, NEW v \in Verdicts, NEW t \in Nat
  PROVE  ApplyMove(r, s, v, t) \in RoomType
<1>1. CASE v \in BoardWins
  <2> DEFINE n == r.ply + 1
             won == [r EXCEPT !.ply = n, !.winner = s, !.reason = v, !.anchor = t]
  <2>1. n \in Nat /\ v \in Reasons
    BY <1>1 DEF RoomType, Reasons
  <2> HIDE DEF n
  <2>2. won \in RoomType
    BY <2>1 DEF RoomType
  <2> QED
    BY <1>1, <2>2, FinishTerminalType DEF ApplyMove, n
<1>2. CASE v \notin BoardWins
  <2> DEFINE n == r.ply + 1
             o == Other(s)
             clock == IF r.connected[o] THEN o ELSE NoSeat
  <2>1. n \in Nat /\ o \in Seats
    BY OtherSeat DEF RoomType
  <2> HIDE DEF n, o
  <2>2. clock \in Seats \cup {NoSeat}
    BY <2>1
  <2> HIDE DEF clock
  <2>3. [r EXCEPT !.ply = n, !.turn = o, !.anchor = t, !.running = clock] \in RoomType
    BY <2>1, <2>2 DEF RoomType
  <2> QED
    BY <1>2, <2>3 DEF ApplyMove, n, o, clock
<1> QED BY <1>1, <1>2

LEMMA HandleMoveType ==
  ASSUME NEW r \in RoomType, NEW s \in Seats, NEW m \in Moves,
         NEW e \in Nat \cup {NoRevision}, NEW v \in Verdicts, NEW t \in Nat
  PROVE  HandleMove(r, s, m, e, v, t) \in RoomType
<1> DEFINE settled == SettleClock(r, t, FALSE)
           moved == Commit(ApplyMove(settled, s, v, t), TRUE)
           last == [seat |-> s, move |-> m, before |-> settled.revision,
                    structuralBefore |-> settled.structural, expected |-> e]
<1>1. settled \in RoomType
  BY SettleClockType
<1> HIDE DEF settled
<1>2. moved \in RoomType /\ Commit(settled, TRUE) \in RoomType
  BY <1>1, ApplyMoveType, CommitType
<1> HIDE DEF moved
<1>3. last \in LastMoveType
  BY <1>1 DEF LastMoveType, RoomType
<1> HIDE DEF last
<1>4. [moved EXCEPT !.lastMove = last] \in RoomType
  BY <1>2, <1>3 DEF RoomType
<1> QED
  BY <1>1, <1>2, <1>4 DEF HandleMove, settled, moved, last

LEMMA DisconnectPlayerType ==
  ASSUME NEW r \in RoomType, NEW s \in Seats, NEW t \in Nat
  PROVE  DisconnectPlayer(r, s, t) \in RoomType
<1> DEFINE settled == SettleClock(r, t, TRUE)
           gone == [settled EXCEPT !.connected[s] = FALSE]
           d == t + ReconnectGrace
           a == IF settled.running = s THEN t ELSE settled.anchor
           n == IF settled.running = s THEN NoSeat ELSE settled.running
           held == [gone EXCEPT !.deadline[s] = d, !.anchor = a, !.running = n]
<1>1. [r EXCEPT !.connected[s] = FALSE] \in RoomType
  BY DEF RoomType
<1>2. settled \in RoomType
  BY SettleClockType
<1> HIDE DEF settled
<1>3. d \in Nat /\ a \in Nat /\ n \in Seats \cup {NoSeat}
  <2>1. settled.anchor \in Nat /\ settled.running \in Seats \cup {NoSeat}
    BY <1>2 DEF RoomType
  <2> QED BY <2>1, ClockAssumption
<1> HIDE DEF d, a, n
<1>4. gone \in RoomType
  BY <1>2 DEF RoomType
<1>5. gone.anchor = settled.anchor /\ gone.running = settled.running
  BY <1>2 DEF RoomType
<1> HIDE DEF gone
<1>6. held \in RoomType
  BY <1>3, <1>4 DEF RoomType
<1>7. held = [gone EXCEPT !.deadline[s] = d,
                          !.anchor = IF settled.running = s THEN t ELSE @,
                          !.running = IF @ = s THEN NoSeat ELSE @]
  BY <1>4, <1>5 DEF a, n, RoomType
<1> HIDE DEF held
<1> QED
  BY <1>1, <1>4, <1>6, <1>7, CommitType DEF DisconnectPlayer, settled, gone, d

LEMMA LeavePlayerType ==
  ASSUME NEW r \in RoomType, NEW s \in Seats, NEW t \in Nat
  PROVE  LeavePlayer(r, s, t) \in RoomType
<1> DEFINE settled == SettleClock(r, t, TRUE)
           gone == [settled EXCEPT !.connected[s] = FALSE, !.deadline[s] = NoTime,
                                   !.reason = "leave"]
           lost == [gone EXCEPT !.winner = Other(s)]
<1>1. settled \in RoomType
  BY SettleClockType
<1> HIDE DEF settled
<1>2. gone \in RoomType
  BY <1>1 DEF RoomType, Reasons
<1> HIDE DEF gone
<1>3. lost \in RoomType
  BY <1>2, OtherSeat DEF RoomType
<1> HIDE DEF lost
<1>4. /\ FinishTerminal(Commit(gone, TRUE)) \in RoomType
      /\ FinishTerminal(Commit(lost, TRUE)) \in RoomType
  BY <1>2, <1>3, CommitType, FinishTerminalType
<1> QED
  BY <1>1, <1>4 DEF LeavePlayer, settled, gone, lost

LEMMA ResumePlayerType ==
  ASSUME NEW r \in RoomType, NEW c \in Conn, NEW s \in Seats, NEW t \in Nat
  PROVE  ResumePlayer(r, c, s, t) \in RoomType
<1> DEFINE settled == SettleClock(r, t, TRUE)
           back == [settled EXCEPT !.conn[s] = c, !.connected[s] = TRUE,
                                   !.deadline[s] = NoTime]
           n == IF back.connected[back.turn] THEN back.turn ELSE NoSeat
<1>1. settled \in RoomType
  BY SettleClockType
<1> HIDE DEF settled
<1>2. back \in RoomType
  BY <1>1 DEF RoomType
<1> HIDE DEF back
<1>3. n \in Seats \cup {NoSeat}
  BY <1>2 DEF RoomType
<1> HIDE DEF n
<1>4. [back EXCEPT !.running = n, !.anchor = t] \in RoomType
  BY <1>2, <1>3 DEF RoomType
<1> QED
  BY <1>2, <1>4, CommitType DEF ResumePlayer, settled, back, n

LEMMA ExpireWaitingCreatorType ==
  ASSUME NEW r \in RoomType, NEW t \in Nat
  PROVE  ExpireWaitingCreator(r, t) \in RoomType
<1>1. [r EXCEPT !.status = "done", !.reason = "disconnect_timeout", !.running = NoSeat]
        \in RoomType
  BY DEF RoomType, Reasons
<1> QED
  BY <1>1, CommitType DEF ExpireWaitingCreator

LEMMA GraceLoserSeat ==
  ASSUME NEW r \in RoomType, NEW t \in Nat
  PROVE  GraceLoser(r, t) \in Seats
BY DEF GraceLoser, TieBreakGraceLoser, RoomType, Seats

LEMMA ExpireReconnectType ==
  ASSUME NEW r \in RoomType, NEW t \in Nat
  PROVE  ExpireReconnect(r, t) \in RoomType
<1> DEFINE settled == SettleClock(r, t, TRUE)
           w == Other(GraceLoser(settled, t))
           lost == [settled EXCEPT !.winner = w, !.reason = "disconnect_timeout"]
<1>1. settled \in RoomType
  BY SettleClockType
<1> HIDE DEF settled
<1>2. w \in Seats
  BY <1>1, GraceLoserSeat, OtherSeat
<1> HIDE DEF w
<1>3. lost \in RoomType
  BY <1>1, <1>2 DEF RoomType, Reasons
<1> HIDE DEF lost
<1>4. FinishTerminal(Commit(lost, TRUE)) \in RoomType
  BY <1>3, CommitType, FinishTerminalType
<1> QED
  BY <1>1, <1>4 DEF ExpireReconnect, settled, w, lost

-----------------------------------------------------------------------------
(* What the methods preserve.  A sound room agrees with itself and with the *)
(* history: t is the time, th what each seat thought, lost when it was lost. *)

Sound(r, t, th, lost) ==
  /\ r \in RoomType
  /\ Loadable(r)
  /\ SeatsSound(r)
  /\ ClockSound(r)
  /\ Charged(r, t, th)
  /\ GraceSound(r, t, lost)

\* A later revision of the room: the same position, or a structural one.
Advances(r, x) ==
  \/ x.structural = r.structural /\ x.revision >= r.revision /\ x.ply = r.ply
  \/ x.structural > r.revision

\* The history of losses after the room went from r to x at time t.
Losses(r, x, t, lost) ==
  [s \in Seats |-> IF r.connected[s] /\ ~x.connected[s] THEN t ELSE lost[s]]

\* A method that finds a clock running settles it: nothing is left pending, and
\* either the game goes on with its clocks charged or the clock was at zero.
LEMMA SettleClockRunning ==
  ASSUME NEW t \in Nat, NEW th \in [Seats -> Nat], NEW lost \in [Seats -> Nat],
         NEW r, Sound(r, t, th, lost), ClockRuns(r), NEW b \in BOOLEAN
  PROVE  LET x == SettleClock(r, t, b) IN
         /\ x.seated = r.seated /\ x.connected = r.connected /\ x.conn = r.conn
         /\ x.deadline = r.deadline /\ x.turn = r.turn /\ x.ply = r.ply
         /\ x.lastMove = r.lastMove /\ x.anchor = t
         /\ \/ /\ x.status = "playing" /\ x.winner = NoSeat /\ x.reason = NoSeat
               /\ x.running = r.running
               /\ x.structural = r.structural
               /\ x.revision \in {r.revision, r.revision + 1}
               /\ \A s \in Seats : x.remaining[s] > 0
                                   /\ x.remaining[s] = InitialClock - th[s]
            \/ /\ x.status = "done" /\ x.winner \in Seats /\ x.reason = "timeout"
               /\ x.running = NoSeat
               /\ x.revision = IF b THEN r.revision + 1 ELSE r.revision
               /\ x.structural = IF b THEN r.revision + 1 ELSE r.structural
               /\ th[r.turn] >= InitialClock
               /\ \A s \in Seats :
                    x.remaining[s] = IF th[s] < InitialClock THEN InitialClock - th[s] ELSE 0
<1> USE DEF Sound
<1> DEFINE seat == r.running
           n == t - r.anchor
           x == SettleClock(r, t, b)
<1>1. seat \in Seats /\ r.status = "playing" /\ seat = r.turn /\ n \in Nat
  BY DEF ClockRuns, ClockSound, Charged, RoomType
<1>2. r.winner = NoSeat /\ r.reason = NoSeat
  BY <1>1 DEF Loadable
<1>3. \A s \in Seats : /\ r.remaining[s] > 0
                       /\ r.remaining[s] - (IF s = seat THEN n ELSE 0) = InitialClock - th[s]
  BY <1>1 DEF Charged, Pending
<1>4. CASE t <= r.anchor
  <2>1. n = 0
    BY <1>1, <1>4 DEF RoomType
  <2>2. x = r /\ r.anchor = t
    BY <1>4, <2>1 DEF SettleClock, RoomType, ClockRuns
  <2>3. \A s \in Seats : r.remaining[s] = InitialClock - th[s]
    BY <2>1, <1>3, ClockAssumption DEF RoomType
  <2> QED BY <1>1, <1>2, <1>3, <2>2, <2>3
<1>5. CASE ~(t <= r.anchor)
  <2> DEFINE left == IF r.remaining[seat] > n THEN r.remaining[seat] - n ELSE 0
             charged == [r EXCEPT !.remaining[seat] = left]
             flagged == [charged EXCEPT !.winner = Other(seat), !.reason = "timeout",
                                        !.running = NoSeat]
             e == [ElapseClock(r, n) EXCEPT !.anchor = t]
             f == IF e.winner # NoSeat THEN FinishTerminal(e) ELSE e
  <2>1. x = IF b THEN Commit(f, e.winner # NoSeat) ELSE f
    BY <1>5 DEF SettleClock
  <2>2. left \in Nat /\ (left > 0 => left = r.remaining[seat] - n)
        /\ (left = 0 => r.remaining[seat] <= n)
    BY <1>1, ClockAssumption DEF RoomType
  <2> HIDE DEF left, x, seat
  <2>3. CASE left > 0
    <3>1. e = [charged EXCEPT !.anchor = t]
      BY <2>3 DEF ElapseClock, left, seat
    <3> HIDE DEF e
    <3>2. e.winner = NoSeat /\ e.revision = r.revision /\ e.structural = r.structural
      BY <3>1, <1>2 DEF RoomType
    <3>3. x = IF b THEN Commit(e, FALSE) ELSE e
      BY <2>1, <3>2
    <3>4. /\ e.seated = r.seated /\ e.connected = r.connected /\ e.conn = r.conn
          /\ e.deadline = r.deadline /\ e.turn = r.turn /\ e.ply = r.ply
          /\ e.lastMove = r.lastMove /\ e.anchor = t /\ e.status = "playing"
          /\ e.reason = NoSeat /\ e.running = r.running
          /\ e.remaining = [r.remaining EXCEPT ![seat] = left]
          /\ e \in RoomType
      <4>1. left \in 0 .. InitialClock
        BY <1>1, <2>2, ClockAssumption DEF RoomType, left, seat
      <4> QED BY <3>1, <1>1, <1>2, <4>1 DEF RoomType
    <3>5. \A s \in Seats : e.remaining[s] > 0 /\ e.remaining[s] = InitialClock - th[s]
      <4> TAKE s \in Seats
      <4>1. CASE s = seat
        BY <4>1, <3>4, <2>2, <2>3, <1>3, <1>1, ClockAssumption DEF RoomType
      <4>2. CASE s # seat
        BY <4>2, <3>4, <1>3, <1>1, ClockAssumption DEF RoomType
      <4> QED BY <4>1, <4>2
    <3>6. /\ x.seated = e.seated /\ x.connected = e.connected /\ x.conn = e.conn
          /\ x.deadline = e.deadline /\ x.turn = e.turn /\ x.ply = e.ply
          /\ x.lastMove = e.lastMove /\ x.anchor = e.anchor /\ x.status = e.status
          /\ x.winner = e.winner /\ x.reason = e.reason /\ x.running = e.running
          /\ x.remaining = e.remaining /\ x.structural = e.structural
          /\ x.revision \in {e.revision, e.revision + 1}
      BY <3>3, <3>4 DEF Commit, RoomType
    <3> QED BY <3>2, <3>4, <3>5, <3>6 DEF x
  <2>4. CASE left = 0
    <3>0. ~(left > 0)
      BY <2>4
    <3>1. e = [flagged EXCEPT !.anchor = t]
      BY <3>0 DEF ElapseClock, left, seat
    <3> HIDE DEF e
    <3>2. Other(seat) \in Seats /\ Other(seat) # NoSeat
      BY <1>1, OtherSeat DEF Seats, NoSeat
    <3>3. /\ e.seated = r.seated /\ e.connected = r.connected /\ e.conn = r.conn
          /\ e.deadline = r.deadline /\ e.turn = r.turn /\ e.ply = r.ply
          /\ e.lastMove = r.lastMove /\ e.anchor = t
          /\ e.reason = "timeout" /\ e.running = NoSeat /\ e.winner = Other(seat)
          /\ e.revision = r.revision /\ e.structural = r.structural
          /\ e.remaining = [r.remaining EXCEPT ![seat] = 0]
          /\ e \in RoomType
      <4>1. charged = [r EXCEPT !.remaining[seat] = 0]
        BY <2>4
      <4>2. 0 \in 0 .. InitialClock /\ "timeout" \in Reasons
        BY ClockAssumption DEF Reasons
      <4> DEFINE o == Other(seat)
      <4>3. o \in Seats
        BY <3>2
      <4> HIDE DEF o, charged
      <4>4. e = [charged EXCEPT !.winner = o, !.reason = "timeout", !.running = NoSeat,
                                !.anchor = t]
        BY <3>1 DEF o
      <4>5. /\ charged \in RoomType
            /\ charged.remaining = [r.remaining EXCEPT ![seat] = 0]
            /\ charged.seated = r.seated /\ charged.connected = r.connected
            /\ charged.conn = r.conn /\ charged.deadline = r.deadline
            /\ charged.turn = r.turn /\ charged.ply = r.ply
            /\ charged.lastMove = r.lastMove /\ charged.revision = r.revision
            /\ charged.structural = r.structural
        BY <4>1, <4>2, <1>1 DEF RoomType
      <4>6. /\ e.seated = charged.seated /\ e.connected = charged.connected
            /\ e.conn = charged.conn /\ e.deadline = charged.deadline
            /\ e.turn = charged.turn /\ e.ply = charged.ply
            /\ e.lastMove = charged.lastMove /\ e.revision = charged.revision
            /\ e.structural = charged.structural /\ e.remaining = charged.remaining
            /\ e.anchor = t /\ e.reason = "timeout" /\ e.running = NoSeat
            /\ e.winner = o /\ e \in RoomType
        BY <4>4, <4>5, <4>2, <4>3 DEF RoomType
      <4> QED BY <4>5, <4>6 DEF o
    <3>4. x = IF b THEN Commit(FinishTerminal(e), TRUE) ELSE FinishTerminal(e)
      BY <2>1, <3>2, <3>3
    <3>5. th[seat] >= InitialClock /\ e.remaining[seat] = 0
      BY <3>3, <2>2, <2>4, <1>3, <1>1, ClockAssumption DEF RoomType
    <3>6. \A s \in Seats : s # seat => e.remaining[s] = InitialClock - th[s]
                                       /\ e.remaining[s] > 0
      BY <3>3, <1>3, <1>1, ClockAssumption DEF RoomType
    <3>7. \A s \in Seats :
            e.remaining[s] = IF th[s] < InitialClock THEN InitialClock - th[s] ELSE 0
      BY <3>5, <3>6, <1>1, ClockAssumption DEF RoomType
    <3>8. /\ x.seated = e.seated /\ x.connected = e.connected /\ x.conn = e.conn
          /\ x.deadline = e.deadline /\ x.turn = e.turn /\ x.ply = e.ply
          /\ x.lastMove = e.lastMove /\ x.anchor = e.anchor /\ x.status = "done"
          /\ x.winner = e.winner /\ x.reason = e.reason /\ x.running = NoSeat
          /\ x.remaining = e.remaining
          /\ x.revision = IF b THEN e.revision + 1 ELSE e.revision
          /\ x.structural = IF b THEN e.revision + 1 ELSE e.structural
      BY <3>4, <3>3 DEF FinishTerminal, Commit, RoomType
    <3> QED BY <3>2, <3>3, <3>5, <3>7, <3>8, <1>1 DEF x
  <2> QED BY <2>2, <2>3, <2>4 
<1> QED BY <1>4, <1>5

\* Settling r into x keeps it sound and changes nothing but the clocks and, when
\* the clock of the seat on turn is at zero, the outcome.
Settles(r, x, t, th, lost) ==
  /\ Sound(x, t, th, lost)
  /\ Advances(r, x)
  /\ x.seated = r.seated /\ x.connected = r.connected /\ x.conn = r.conn
  /\ x.deadline = r.deadline /\ x.turn = r.turn /\ x.ply = r.ply
  /\ x.lastMove = r.lastMove /\ x.anchor = t
  /\ \/ /\ x.status = r.status /\ x.winner = r.winner /\ x.reason = r.reason
        /\ x.running = r.running
     \/ /\ r.status = "playing" /\ x.status = "done" /\ x.winner \in Seats
        /\ x.reason = "timeout"
  /\ x.status = "playing" => \A s \in Seats : th[s] < InitialClock

LEMMA SettleClockSound ==
  ASSUME NEW t \in Nat, NEW th \in [Seats -> Nat], NEW lost \in [Seats -> Nat],
         NEW r, Sound(r, t, th, lost), NEW b \in BOOLEAN
  PROVE  Settles(r, SettleClock(r, t, b), t, th, lost)
<1> USE DEF Sound, Settles
<1> DEFINE x == SettleClock(r, t, b)
<1>1. x \in RoomType
  BY SettleClockType
<1>2. CASE ~ClockRuns(r)
  <2>1. x = [r EXCEPT !.anchor = t]
    BY <1>2 DEF SettleClock
  <2> HIDE DEF x
  <2>2. /\ x.seated = r.seated /\ x.connected = r.connected /\ x.conn = r.conn
        /\ x.deadline = r.deadline /\ x.turn = r.turn /\ x.ply = r.ply
        /\ x.lastMove = r.lastMove /\ x.anchor = t /\ x.remaining = r.remaining
        /\ x.status = r.status /\ x.winner = r.winner /\ x.reason = r.reason
        /\ x.running = r.running /\ x.revision = r.revision
        /\ x.structural = r.structural
    BY <2>1 DEF RoomType
  <2>3. Loadable(x) /\ SeatsSound(x) /\ ClockSound(x) /\ GraceSound(x, t, lost)
    BY <2>2 DEF Loadable, SeatsSound, ClockSound, GraceSound
  <2>4. x.status = "playing" => x.running = NoSeat
    BY <1>2, <2>2 DEF ClockRuns
  <2>5. Charged(x, t, th)
    BY <2>2, <2>4 DEF Charged, Pending, Seats, NoSeat
  <2>6. Advances(r, x)
    BY <2>2 DEF Advances, RoomType
  <2>7. x.status = "playing" => \A s \in Seats : th[s] < InitialClock
    <3> SUFFICES ASSUME x.status = "playing", NEW s \in Seats PROVE th[s] < InitialClock
      OBVIOUS
    <3>1. x.remaining[s] > 0 /\ x.remaining[s] = InitialClock - th[s]
      BY <2>4, <2>5, <1>1 DEF Charged, Pending, Seats, NoSeat, RoomType
    <3> QED BY <3>1, <1>1, ClockAssumption DEF RoomType
  <2> QED BY <1>1, <2>2, <2>3, <2>5, <2>6, <2>7 DEF x
<1>3. CASE ClockRuns(r)
  <2> HIDE DEF x
  <2>1. /\ x.seated = r.seated /\ x.connected = r.connected /\ x.conn = r.conn
        /\ x.deadline = r.deadline /\ x.turn = r.turn /\ x.ply = r.ply
        /\ x.lastMove = r.lastMove /\ x.anchor = t
    BY <1>3, SettleClockRunning DEF x
  <2>2. /\ r.status = "playing" /\ r.running = r.turn /\ r.turn \in Seats
        /\ r.winner = NoSeat /\ r.reason = NoSeat /\ r.connected[r.turn]
    BY <1>3 DEF ClockRuns, ClockSound, Loadable, RoomType, Seats, NoSeat
  <2>3. CASE /\ x.status = "playing" /\ x.winner = NoSeat /\ x.reason = NoSeat
             /\ x.running = r.running /\ x.structural = r.structural
             /\ x.revision \in {r.revision, r.revision + 1}
             /\ \A s \in Seats : x.remaining[s] > 0
                                 /\ x.remaining[s] = InitialClock - th[s]
    <3>1. Loadable(x) /\ SeatsSound(x) /\ ClockSound(x) /\ GraceSound(x, t, lost)
      BY <2>1, <2>2, <2>3 DEF Loadable, SeatsSound, ClockSound, GraceSound, RoomType
    <3>2. Charged(x, t, th)
      BY <2>1, <2>3, <1>1 DEF Charged, Pending, RoomType
    <3>3. Advances(r, x)
      BY <2>1, <2>3 DEF Advances, RoomType
    <3>4. \A s \in Seats : th[s] < InitialClock
      BY <2>3, <1>1, ClockAssumption DEF RoomType
    <3> QED BY <1>1, <2>1, <2>2, <2>3, <3>1, <3>2, <3>3, <3>4 DEF x
  <2>4. CASE /\ x.status = "done" /\ x.winner \in Seats /\ x.reason = "timeout"
             /\ x.running = NoSeat
             /\ x.revision = IF b THEN r.revision + 1 ELSE r.revision
             /\ x.structural = IF b THEN r.revision + 1 ELSE r.structural
             /\ \A s \in Seats :
                  x.remaining[s] = IF th[s] < InitialClock THEN InitialClock - th[s] ELSE 0
    <3>1. x.structural <= x.revision /\ x.winner # NoSeat /\ x.reason # NoSeat
      BY <2>4, <1>1 DEF Loadable, RoomType, Seats, NoSeat
    <3>2. Loadable(x) /\ SeatsSound(x) /\ ClockSound(x) /\ GraceSound(x, t, lost)
      BY <2>1, <2>2, <2>4, <3>1 DEF Loadable, SeatsSound, ClockSound, GraceSound
    <3>3. Charged(x, t, th)
      BY <2>1, <2>4 DEF Charged
    <3>4. Advances(r, x)
      BY <2>1, <2>4 DEF Advances, RoomType
    <3> QED BY <1>1, <2>1, <2>2, <2>4, <3>2, <3>3, <3>4 DEF x
  <2> QED BY <1>3, <2>3, <2>4, SettleClockRunning DEF x
<1> QED BY <1>2, <1>3

\* What a step of a sound room may do: it leaves a sound room and a later
\* revision, an outcome is final, a move is applied before its player's clock is
\* at zero and to the revision it was sent for, and a seat is lost to a lost
\* connection only when its grace period is over.
Step(r, x, t, th, lost) ==
  /\ Sound(x, t, th, Losses(r, x, t, lost))
  /\ Advances(r, x)
  /\ r.status = "done" => x.status = "done" /\ x.winner = r.winner /\ x.reason = r.reason
  /\ x.ply > r.ply => /\ th[r.turn] < InitialClock
                      /\ x.lastMove.expected # NoRevision
                           => x.lastMove.expected \in r.structural .. r.revision
  /\ r.status # "done" /\ x.reason = "disconnect_timeout"
       => ~r.connected[Loser(x)] /\ t - lost[Loser(x)] >= ReconnectGrace

LEMMA SameLosses ==
  ASSUME NEW t, NEW lost \in [Seats -> Nat], NEW r, NEW x,
         \A s \in Seats : r.connected[s] => x.connected[s]
  PROVE  Losses(r, x, t, lost) = lost
BY DEF Losses

LEMMA AdvancesTransitive ==
  ASSUME NEW r \in RoomType, NEW x \in RoomType, NEW y \in RoomType,
         Loadable(x), Loadable(y), Advances(r, x), Advances(x, y)
  PROVE  Advances(r, y)
BY DEF Advances, Loadable, RoomType

\* payload() after a method is still one step.
LEMMA PayloadStep ==
  ASSUME NEW t \in Nat, NEW th \in [Seats -> Nat], NEW lost \in [Seats -> Nat],
         NEW r, NEW x, Sound(r, t, th, lost), Step(r, x, t, th, lost)
  PROVE  Step(r, Payload(x, t), t, th, lost)
<1> DEFINE y == SettleClock(x, t, TRUE)
           now_lost == Losses(r, x, t, lost)
<1>1. now_lost \in [Seats -> Nat]
  BY DEF Losses
<1>2. Sound(x, t, th, now_lost)
  BY DEF Step
<1>3. Settles(x, y, t, th, now_lost)
  <2> HIDE DEF now_lost
  <2> QED BY <1>1, <1>2, SettleClockSound
<1> HIDE DEF y
<1> USE DEF Settles
<1>4. Losses(r, y, t, lost) = now_lost
  BY <1>3 DEF Losses
<1>5. Advances(r, y)
  <2>1. r \in RoomType /\ x \in RoomType /\ y \in RoomType /\ Loadable(x) /\ Loadable(y)
    BY <1>2, <1>3 DEF Sound
  <2> QED BY <2>1, <1>3, AdvancesTransitive DEF Step
<1>6. y.reason = "disconnect_timeout" => Loser(y) = Loser(x) /\ x.reason = y.reason
  BY <1>3 DEF Loser
<1> QED BY <1>3, <1>4, <1>5, <1>6 DEF Step, Payload, y

LEMMA AddPlayerStep ==
  ASSUME NEW t \in Nat, NEW th \in [Seats -> Nat], NEW lost \in [Seats -> Nat],
         NEW r, Sound(r, t, th, lost), NEW c \in Conn, CanAdd(r)
  PROVE  Step(r, AddPlayer(r, c, t), t, th, lost)
<1> USE DEF Sound
<1> DEFINE s == FreeSeat(r)
           x == AddPlayer(r, c, t)
           seat == [r EXCEPT !.seated[s] = TRUE, !.connected[s] = TRUE,
                             !.conn[s] = c, !.deadline[s] = NoTime]
           sat == Commit(seat, TRUE)
<1>1. /\ r.status = "waiting" /\ ~r.seated["B"] /\ ~r.seated[s]
      /\ s = IF r.seated["A"] THEN "B" ELSE "A"
      /\ r.winner = NoSeat /\ r.reason = NoSeat
  BY DEF CanAdd, SeatsSound, Loadable, FreeSeat, RoomType, Seats
<1>2. s \in Seats
  BY <1>1 DEF Seats
<1>3. x \in RoomType
  BY AddPlayerType
<1> HIDE DEF s
<1>4. /\ sat.seated = [r.seated EXCEPT ![s] = TRUE]
      /\ sat.connected = [r.connected EXCEPT ![s] = TRUE]
      /\ sat.deadline = [r.deadline EXCEPT ![s] = NoTime]
      /\ sat.status = r.status /\ sat.winner = r.winner /\ sat.reason = r.reason
      /\ sat.ply = r.ply /\ sat.remaining = r.remaining /\ sat.running = r.running
      /\ sat.anchor = r.anchor /\ sat.turn = r.turn
      /\ sat.revision = r.revision + 1 /\ sat.structural = r.revision + 1
      /\ sat \in RoomType
  <2>1. seat \in RoomType
    BY <1>2 DEF RoomType
  <2>2. /\ seat.seated = [r.seated EXCEPT ![s] = TRUE]
        /\ seat.connected = [r.connected EXCEPT ![s] = TRUE]
        /\ seat.deadline = [r.deadline EXCEPT ![s] = NoTime]
        /\ seat.status = r.status /\ seat.winner = r.winner /\ seat.reason = r.reason
        /\ seat.ply = r.ply /\ seat.remaining = r.remaining
        /\ seat.running = r.running /\ seat.anchor = r.anchor /\ seat.turn = r.turn
        /\ seat.revision = r.revision
    BY <1>2 DEF RoomType
  <2> HIDE DEF seat
  <2>3. sat \in RoomType
    BY <2>1, CommitType
  <2> QED BY <2>1, <2>2, <2>3 DEF Commit, RoomType
<1> HIDE DEF sat, seat
<1>5. /\ x.seated = sat.seated /\ x.connected = sat.connected
      /\ x.deadline = sat.deadline /\ x.revision = sat.revision
      /\ x.structural = sat.structural /\ x.winner = NoSeat /\ x.reason = NoSeat
      /\ ~(x.ply > r.ply)
      /\ \/ /\ s = "A" /\ x.status = "waiting" /\ x.remaining = sat.remaining
            /\ x.anchor = sat.anchor
         \/ /\ s = "B" /\ x.status = "playing" /\ x.anchor = t /\ x.turn = "A"
            /\ x.remaining = [y \in Seats |-> InitialClock]
            /\ x.running = IF sat.connected["A"] THEN "A" ELSE NoSeat
  <2>1. CASE s = "A"
    <3>1. x = sat
      BY <1>1, <1>4, <2>1 DEF AddPlayer, s, sat, seat, Other, RoomType, Seats
    <3> QED BY <3>1, <2>1, <1>1, <1>4 DEF RoomType
  <2>2. CASE s = "B"
    <3> DEFINE clock == IF sat.connected["A"] THEN "A" ELSE NoSeat
               full == [y \in Seats |-> InitialClock]
    <3>1. sat.seated["A"]
      BY <1>1, <1>4, <2>2 DEF RoomType, Seats
    <3>2. x = [sat EXCEPT !.status = "playing", !.turn = "A", !.ply = 0,
                          !.remaining = full, !.anchor = t, !.running = clock]
      BY <3>1, <2>2 DEF AddPlayer, s, sat, seat, Other
    <3> HIDE DEF x, clock, full
    <3>3. /\ x.seated = sat.seated /\ x.connected = sat.connected
          /\ x.deadline = sat.deadline /\ x.revision = sat.revision
          /\ x.structural = sat.structural /\ x.winner = sat.winner
          /\ x.reason = sat.reason /\ x.ply = 0 /\ x.status = "playing"
          /\ x.anchor = t /\ x.turn = "A" /\ x.remaining = full /\ x.running = clock
      BY <3>2, <1>4 DEF RoomType
    <3> QED BY <3>3, <2>2, <1>1, <1>4 DEF clock, full, RoomType
  <2> QED BY <1>1, <2>1, <2>2
<1> HIDE DEF x
<1>6. Losses(r, x, t, lost) = lost
  BY <1>2, <1>4, <1>5, SameLosses DEF RoomType
<1>7. Loadable(x)
  BY <1>3, <1>4, <1>5 DEF Loadable, RoomType
<1>8. SeatsSound(x) /\ ClockSound(x)
  BY <1>1, <1>2, <1>4, <1>5 DEF SeatsSound, ClockSound, RoomType, Seats
<1>9. Charged(x, t, th)
  BY <1>1, <1>3, <1>4, <1>5, ClockAssumption DEF Charged, Pending, RoomType
<1>10. GraceSound(x, t, lost)
  BY <1>1, <1>2, <1>3, <1>4, <1>5 DEF GraceSound, RoomType
<1>11. Advances(r, x)
  BY <1>4, <1>5 DEF Advances, RoomType
<1> QED
  BY <1>1, <1>3, <1>5, <1>6, <1>7, <1>8, <1>9, <1>10, <1>11 DEF Step, x, NoSeat

LEMMA DisconnectPlayerStep ==
  ASSUME NEW t \in Nat, NEW th \in [Seats -> Nat], NEW lost \in [Seats -> Nat],
         NEW r, Sound(r, t, th, lost), NEW s \in Seats, r.seated[s], r.connected[s]
  PROVE  Step(r, DisconnectPlayer(r, s, t), t, th, lost)
<1> USE DEF Sound
<1> DEFINE x == DisconnectPlayer(r, s, t)
           u == SettleClock(r, t, TRUE)
           gone == [u EXCEPT !.connected[s] = FALSE]
           now_lost == Losses(r, x, t, lost)
<1>1. x \in RoomType
  BY DisconnectPlayerType
<1>2. Settles(r, u, t, th, lost)
  BY SettleClockSound
<1>3. r \in RoomType /\ u \in RoomType
  BY <1>2 DEF Settles
<1>4. CASE r.status = "done"
  <2> DEFINE q == [r EXCEPT !.connected[s] = FALSE]
  <2>1. x = Commit(q, TRUE)
    BY <1>4 DEF DisconnectPlayer
  <2>2. /\ q.connected = [r.connected EXCEPT ![s] = FALSE] /\ q.seated = r.seated
        /\ q.status = "done" /\ q.winner = r.winner /\ q.reason = r.reason
        /\ q.ply = r.ply /\ q.remaining = r.remaining /\ q.running = r.running
        /\ q.anchor = r.anchor /\ q.revision = r.revision /\ q \in RoomType
    BY <1>3, <1>4 DEF RoomType
  <2> HIDE DEF q, x
  <2>3. /\ x.connected = [r.connected EXCEPT ![s] = FALSE] /\ x.seated = r.seated
        /\ x.status = "done" /\ x.winner = r.winner /\ x.reason = r.reason
        /\ x.ply = r.ply /\ x.remaining = r.remaining /\ x.running = r.running
        /\ x.anchor = r.anchor /\ x.revision = r.revision + 1
        /\ x.structural = r.revision + 1
    BY <2>1, <2>2 DEF Commit, RoomType
  <2>4. Loadable(x) /\ SeatsSound(x) /\ ClockSound(x) /\ GraceSound(x, t, now_lost)
    BY <1>1, <1>3, <1>4, <2>3 DEF Loadable, SeatsSound, ClockSound, GraceSound, RoomType, Seats
  <2>5. Charged(x, t, th)
    BY <1>4, <2>3 DEF Charged
  <2>6. Advances(r, x)
    BY <1>3, <2>3 DEF Advances, RoomType
  <2> QED BY <1>1, <1>3, <1>4, <2>3, <2>4, <2>5, <2>6 DEF Step, x, RoomType
<1>5. CASE r.status # "done" /\ u.winner # NoSeat
  <2> HIDE DEF u
  <2>1. x = Commit(gone, TRUE)
    BY <1>5 DEF DisconnectPlayer, u
  <2>2. /\ gone.connected = [u.connected EXCEPT ![s] = FALSE] /\ gone.seated = u.seated
        /\ gone.status = u.status /\ gone.winner = u.winner /\ gone.reason = u.reason
        /\ gone.ply = u.ply /\ gone.remaining = u.remaining
        /\ gone.running = u.running /\ gone.anchor = u.anchor
        /\ gone.revision = u.revision /\ gone \in RoomType
    BY <1>3 DEF RoomType
  <2> HIDE DEF gone, x
  <2>3. /\ x.connected = [u.connected EXCEPT ![s] = FALSE] /\ x.seated = u.seated
        /\ x.status = u.status /\ x.winner = u.winner /\ x.reason = u.reason
        /\ x.ply = u.ply /\ x.remaining = u.remaining /\ x.running = u.running
        /\ x.anchor = u.anchor /\ x.revision = u.revision + 1
        /\ x.structural = u.revision + 1
    BY <2>1, <2>2 DEF Commit, RoomType
  <2>4. u.status = "done" /\ u.reason = "timeout" /\ u.ply = r.ply /\ u.revision >= r.revision
    BY <1>2, <1>3, <1>5 DEF Settles, Loadable, Advances, RoomType
  <2>5. Loadable(x) /\ SeatsSound(x) /\ ClockSound(x) /\ GraceSound(x, t, now_lost)
    BY <1>1, <1>2, <1>3, <1>5, <2>3, <2>4
    DEF Settles, Loadable, SeatsSound, ClockSound, GraceSound, RoomType, Seats
  <2>6. Charged(x, t, th)
    BY <1>2, <2>3, <2>4 DEF Settles, Charged
  <2>7. Advances(r, x)
    BY <1>3, <2>3, <2>4 DEF Advances, RoomType
  <2> QED BY <1>1, <1>3, <1>5, <2>3, <2>4, <2>5, <2>6, <2>7 DEF Step, x, RoomType
<1>6. CASE r.status # "done" /\ u.winner = NoSeat
  <2> DEFINE d == t + ReconnectGrace
             a == IF u.running = s THEN t ELSE u.anchor
             n == IF u.running = s THEN NoSeat ELSE u.running
             held == [gone EXCEPT !.deadline[s] = d, !.anchor = a, !.running = n]
  <2>1. u.status # "done" /\ u.anchor = t
    BY <1>2, <1>6 DEF Settles, Loadable, Seats, NoSeat
  <2> HIDE DEF u
  <2>2. /\ u.seated = r.seated /\ u.connected = r.connected /\ u.ply = r.ply
        /\ u.revision >= r.revision /\ u.winner = NoSeat /\ u.reason = NoSeat
        /\ u.deadline = r.deadline
    BY <1>2, <1>3, <1>6, <2>1 DEF Settles, Loadable, Advances, RoomType
  <2>3. d \in Nat /\ a = t /\ n \in Seats \cup {NoSeat}
    <3>1. u.running \in Seats \cup {NoSeat}
      BY <1>3 DEF RoomType
    <3> QED BY <2>1, <3>1, ClockAssumption
  <2>4. /\ gone.connected = [u.connected EXCEPT ![s] = FALSE] /\ gone.seated = u.seated
        /\ gone.status = u.status /\ gone.winner = u.winner /\ gone.reason = u.reason
        /\ gone.ply = u.ply /\ gone.remaining = u.remaining /\ gone.turn = u.turn
        /\ gone.running = u.running /\ gone.anchor = u.anchor
        /\ gone.deadline = u.deadline
        /\ gone.revision = u.revision /\ gone \in RoomType
    BY <1>3 DEF RoomType
  <2>5. held = [gone EXCEPT !.deadline[s] = d,
                            !.anchor = IF u.running = s THEN t ELSE @,
                            !.running = IF @ = s THEN NoSeat ELSE @]
    <3> HIDE DEF gone
    <3> QED BY <2>4 DEF RoomType
  <2>6. x = Commit(held, TRUE)
    BY <1>6, <2>5 DEF DisconnectPlayer, u
  <2> HIDE DEF gone, d, a, n
  <2>7. /\ held.connected = gone.connected /\ held.seated = gone.seated
        /\ held.status = gone.status /\ held.winner = gone.winner
        /\ held.reason = gone.reason /\ held.ply = gone.ply /\ held.turn = gone.turn
        /\ held.remaining = gone.remaining /\ held.running = n /\ held.anchor = a
        /\ held.deadline = [gone.deadline EXCEPT ![s] = d]
        /\ held.revision = gone.revision /\ held \in RoomType
    BY <2>3, <2>4 DEF RoomType
  <2> HIDE DEF held, x
  <2>8. /\ x.connected = [r.connected EXCEPT ![s] = FALSE] /\ x.seated = r.seated
        /\ x.status = u.status /\ x.winner = NoSeat /\ x.reason = NoSeat
        /\ x.ply = r.ply /\ x.remaining = u.remaining /\ x.turn = u.turn
        /\ x.running = n /\ x.anchor = t
        /\ x.deadline = [r.deadline EXCEPT ![s] = t + ReconnectGrace]
        /\ x.revision = u.revision + 1 /\ x.structural = u.revision + 1
    BY <2>2, <2>3, <2>4, <2>6, <2>7 DEF Commit, RoomType, d
  <2>9. now_lost = [lost EXCEPT ![s] = t]
    <3>1. \A q \in Seats : r.connected[q] /\ ~x.connected[q] <=> q = s
      BY <1>3, <2>8 DEF RoomType
    <3> QED BY <3>1 DEF Losses
  <2> HIDE DEF now_lost
  <2>10. Loadable(x)
    BY <1>3, <2>1, <2>8 DEF Loadable, RoomType
  <2>11. SeatsSound(x)
    BY <1>2, <1>3, <2>1, <2>2, <2>8 DEF Settles, SeatsSound, RoomType
  <2>12. ClockSound(x)
    BY <1>2, <1>3, <2>2, <2>8 DEF Settles, ClockSound, n, RoomType, Seats, NoSeat
  <2>13. Charged(x, t, th)
    <3>1. Charged(u, t, th)
      BY <1>2 DEF Settles
    <3> QED BY <1>1, <1>3, <2>1, <2>8, <3>1 DEF Charged, Pending, RoomType
  <2>14. GraceSound(x, t, now_lost)
    BY <1>2, <1>3, <1>6, <2>2, <2>8, <2>9 DEF Settles, GraceSound, RoomType
  <2>15. Advances(r, x)
    BY <1>3, <2>2, <2>8 DEF Advances, RoomType
  <2> QED
    BY <1>1, <1>3, <1>6, <2>8, <2>10, <2>11, <2>12, <2>13, <2>14, <2>15
    DEF Step, x, now_lost, RoomType, NoSeat
<1> QED BY <1>4, <1>5, <1>6

\* A method that only settles is a step.
LEMMA SettleStep ==
  ASSUME NEW t \in Nat, NEW th \in [Seats -> Nat], NEW lost \in [Seats -> Nat],
         NEW r, Sound(r, t, th, lost), NEW u, Settles(r, u, t, th, lost)
  PROVE  Step(r, u, t, th, lost)
<1>1. Losses(r, u, t, lost) = lost
  BY SameLosses DEF Settles
<1>2. r \in RoomType /\ (r.status # "done" => r.reason = NoSeat)
  BY DEF Sound, Loadable
<1> QED BY <1>1, <1>2 DEF Step, Settles, RoomType, NoSeat

\* The fields of a room that lost or won for good.
Ends(u, x, w, why, conn) ==
  /\ x.status = "done" /\ x.winner = w /\ x.reason = why /\ x.running = NoSeat
  /\ x.seated = u.seated /\ x.connected = conn /\ x.ply = u.ply
  /\ x.remaining = u.remaining /\ x.anchor = u.anchor
  /\ x.revision = u.revision + 1 /\ x.structural = u.revision + 1

\* Ending a room that settled without outcome.
LEMMA EndStep ==
  ASSUME NEW t \in Nat, NEW th \in [Seats -> Nat], NEW lost \in [Seats -> Nat],
         NEW r, Sound(r, t, th, lost), NEW u, Settles(r, u, t, th, lost),
         NEW x \in RoomType, NEW conn, NEW why \in Reasons,
         NEW w \in Seats \cup {NoSeat},
         r.status # "done", u.status # "done", Ends(u, x, w, why, conn),
         w = NoSeat => /\ why \in {"disconnect_timeout", "leave"}
                       /\ u.status = "waiting" /\ r.seated["A"] /\ ~conn["A"],
         why = "disconnect_timeout"
           => ~r.connected[Loser(x)] /\ t - lost[Loser(x)] >= ReconnectGrace
  PROVE  Step(r, x, t, th, lost)
<1> USE DEF Settles
<1>1. r \in RoomType /\ u \in RoomType
  BY DEF Sound
<1>2. u.ply = r.ply /\ u.revision >= r.revision
  BY <1>1 DEF Sound, Loadable, Advances, RoomType
<1>3. Loadable(x)
  BY <1>1 DEF Ends, Sound, Loadable, SeatsSound, Reasons, BoardWins, RoomType, NoSeat
<1>4. SeatsSound(x) /\ ClockSound(x) /\ GraceSound(x, t, Losses(r, x, t, lost))
  BY <1>1 DEF Ends, Sound, SeatsSound, ClockSound, GraceSound
<1>5. Charged(x, t, th)
  <2>1. Charged(u, t, th)
    BY DEF Sound
  <2>2. CASE u.status = "waiting"
    BY <1>1, <2>1, <2>2, ClockAssumption DEF Ends, Charged, RoomType
  <2>3. CASE u.status = "playing"
    <3>1. \A s \in Seats : Pending(u, t, s) = 0
      BY <1>1 DEF Pending, RoomType
    <3>2. \A s \in Seats : u.remaining[s] > 0 /\ u.remaining[s] = InitialClock - th[s]
      BY <1>1, <2>1, <2>3, <3>1, ClockAssumption DEF Charged, RoomType
    <3> QED BY <1>1, <2>1, <3>2, ClockAssumption DEF Ends, Charged, RoomType
  <2> QED BY <1>1, <2>2, <2>3 DEF RoomType
<1>6. Advances(r, x)
  BY <1>1, <1>2 DEF Ends, Advances, RoomType
<1> QED BY <1>1, <1>2, <1>3, <1>4, <1>5, <1>6 DEF Step, Sound, Ends, RoomType

LEMMA LeavePlayerStep ==
  ASSUME NEW t \in Nat, NEW th \in [Seats -> Nat], NEW lost \in [Seats -> Nat],
         NEW r, Sound(r, t, th, lost), NEW s \in Seats, r.seated[s], r.connected[s]
  PROVE  Step(r, LeavePlayer(r, s, t), t, th, lost)
<1> DEFINE x == LeavePlayer(r, s, t)
           u == SettleClock(r, t, TRUE)
           gone == [u EXCEPT !.connected[s] = FALSE, !.deadline[s] = NoTime,
                             !.reason = "leave"]
           conn == [r.connected EXCEPT ![s] = FALSE]
<1>1. r \in RoomType /\ x \in RoomType
  BY LeavePlayerType DEF Sound
<1>2. Settles(r, u, t, th, lost)
  BY SettleClockSound
<1> HIDE DEF u
<1>3. CASE u.winner # NoSeat
  BY <1>2, <1>3, SettleStep DEF LeavePlayer, u
<1>4. CASE u.winner = NoSeat
  <2>1. u \in RoomType /\ u.connected = r.connected
    BY <1>2 DEF Settles, Sound
  <2>2. r.status # "done" /\ u.status # "done"
    BY <1>1, <1>2, <1>4 DEF Settles, Sound, Loadable, SeatsSound, Seats, NoSeat
  <2>3. /\ gone \in RoomType
        /\ gone.seated = u.seated /\ gone.connected = conn /\ gone.ply = u.ply
        /\ gone.remaining = u.remaining /\ gone.anchor = u.anchor
        /\ gone.revision = u.revision /\ gone.reason = "leave"
        /\ gone.winner = NoSeat
    BY <1>4, <2>1 DEF RoomType, Reasons
  <2>4. u.status = "waiting" => s = "A" /\ r.seated["A"]
    BY <1>1, <1>2 DEF Settles, Sound, SeatsSound, Seats
  <2> HIDE DEF gone
  <2>5. CASE u.status = "waiting"
    <3>1. x = FinishTerminal(Commit(gone, TRUE))
      BY <1>4, <2>5 DEF LeavePlayer, u, gone
    <3> HIDE DEF x
    <3>2. Ends(u, x, NoSeat, "leave", conn)
      BY <2>3, <3>1 DEF Ends, FinishTerminal, Commit, RoomType
    <3>3. r.seated["A"] /\ ~conn["A"] /\ "leave" \in Reasons
          /\ "leave" \in {"disconnect_timeout", "leave"} /\ "leave" # "disconnect_timeout"
          /\ NoSeat \in Seats \cup {NoSeat}
      BY <1>1, <2>4, <2>5 DEF Reasons, RoomType
    <3> HIDE DEF conn
    <3> QED
      BY <1>1, <1>2, <2>2, <2>5, <3>2, <3>3, EndStep DEF x
  <2>6. CASE u.status # "waiting"
    <3> DEFINE lose == [gone EXCEPT !.winner = Other(s)]
    <3>1. x = FinishTerminal(Commit(lose, TRUE))
      BY <1>4, <2>6 DEF LeavePlayer, u, gone
    <3>2. Other(s) \in Seats /\ Other(s) # NoSeat
      BY OtherSeat DEF Seats, NoSeat
    <3>3. /\ lose \in RoomType
          /\ lose.seated = u.seated /\ lose.connected = conn /\ lose.ply = u.ply
          /\ lose.remaining = u.remaining /\ lose.anchor = u.anchor
          /\ lose.revision = u.revision /\ lose.reason = "leave"
          /\ lose.winner = Other(s)
      BY <2>3, <3>2 DEF RoomType
    <3> HIDE DEF x, lose
    <3>4. Ends(u, x, Other(s), "leave", conn)
      BY <3>1, <3>3 DEF Ends, FinishTerminal, Commit, RoomType
    <3> QED BY <1>1, <1>2, <2>2, <3>2, <3>4, EndStep DEF x, Reasons
  <2> QED BY <2>5, <2>6
<1> QED BY <1>3, <1>4

LEMMA ResumePlayerStep ==
  ASSUME NEW t \in Nat, NEW th \in [Seats -> Nat], NEW lost \in [Seats -> Nat],
         NEW r, Sound(r, t, th, lost), NEW c \in Conn, NEW s \in Seats, CanResume(r, s, t)
  PROVE  Step(r, ResumePlayer(r, c, s, t), t, th, lost)
<1> DEFINE x == ResumePlayer(r, c, s, t)
           u == SettleClock(r, t, TRUE)
           back == [u EXCEPT !.conn[s] = c, !.connected[s] = TRUE, !.deadline[s] = NoTime]
           conn == [r.connected EXCEPT ![s] = TRUE]
<1>1. r \in RoomType /\ x \in RoomType /\ r.status # "done"
  BY ResumePlayerType DEF Sound, CanResume
<1>2. Settles(r, u, t, th, lost)
  BY SettleClockSound
<1> HIDE DEF u
<1>3. /\ u \in RoomType /\ u.connected = r.connected /\ u.deadline = r.deadline
      /\ u.ply = r.ply /\ u.revision >= r.revision /\ u.anchor = t /\ u.seated = r.seated
      /\ r.reason = NoSeat
  BY <1>1, <1>2 DEF Settles, Sound, Loadable, Advances, RoomType
<1>4. /\ back.connected = conn /\ back.deadline = [r.deadline EXCEPT ![s] = NoTime]
      /\ back.seated = u.seated /\ back.status = u.status /\ back.winner = u.winner
      /\ back.reason = u.reason /\ back.ply = u.ply /\ back.turn = u.turn
      /\ back.remaining = u.remaining /\ back.running = u.running
      /\ back.anchor = u.anchor /\ back.revision = u.revision
      /\ back \in RoomType
  BY <1>3 DEF RoomType
<1> HIDE DEF back
<1>5. CASE u.winner # NoSeat
  <2>1. x = Commit(back, TRUE)
    BY <1>5 DEF ResumePlayer, u, back
  <2>2. u.status = "done" /\ u.reason = "timeout"
    BY <1>1, <1>2, <1>5 DEF Settles, Sound, Loadable
  <2> HIDE DEF x
  <2>3. /\ x.connected = conn /\ x.seated = u.seated /\ x.status = "done"
        /\ x.winner = u.winner /\ x.reason = "timeout" /\ x.ply = u.ply
        /\ x.remaining = u.remaining /\ x.running = u.running
        /\ x.anchor = u.anchor /\ x.revision = u.revision + 1
        /\ x.structural = u.revision + 1
    BY <1>4, <2>1, <2>2 DEF Commit, RoomType
  <2>4. Loadable(x) /\ SeatsSound(x) /\ ClockSound(x)
        /\ GraceSound(x, t, Losses(r, x, t, lost))
    BY <1>1, <1>2, <1>3, <1>5, <2>2, <2>3
    DEF Settles, Sound, Loadable, SeatsSound, ClockSound, GraceSound, RoomType, NoSeat
  <2>5. Charged(x, t, th)
    BY <1>2, <2>2, <2>3 DEF Settles, Sound, Charged
  <2>6. Advances(r, x)
    BY <1>1, <1>3, <2>3 DEF Advances, RoomType
  <2> QED BY <1>1, <1>3, <2>3, <2>4, <2>5, <2>6 DEF Step, Sound, x, RoomType
<1>6. CASE u.winner = NoSeat
  <2> DEFINE n == IF back.connected[back.turn] THEN back.turn ELSE NoSeat
             on == [back EXCEPT !.running = n, !.anchor = t]
  <2>1. n \in Seats \cup {NoSeat}
    BY <1>4 DEF RoomType
  <2>2. x = Commit(on, TRUE)
    BY <1>6, <1>4 DEF ResumePlayer, u, back
  <2> HIDE DEF n
  <2>3. /\ on.connected = conn /\ on.deadline = back.deadline /\ on.seated = u.seated
        /\ on.status = u.status /\ on.winner = u.winner /\ on.reason = u.reason
        /\ on.ply = u.ply /\ on.turn = u.turn /\ on.remaining = u.remaining
        /\ on.running = n /\ on.anchor = t /\ on.revision = u.revision
        /\ on \in RoomType
    BY <1>4, <2>1 DEF RoomType
  <2> HIDE DEF x, on
  <2>4. /\ x.connected = conn /\ x.deadline = [r.deadline EXCEPT ![s] = NoTime]
        /\ x.seated = u.seated
        /\ x.status = u.status /\ x.winner = u.winner /\ x.reason = u.reason
        /\ x.ply = u.ply /\ x.turn = u.turn /\ x.remaining = u.remaining
        /\ x.running = n /\ x.anchor = t /\ x.revision = u.revision + 1
        /\ x.structural = u.revision + 1
    BY <1>4, <2>2, <2>3 DEF Commit, RoomType
  <2>5. u.status # "done" /\ u.reason = NoSeat
    BY <1>1, <1>2, <1>6 DEF Settles, Sound, Loadable, Seats, NoSeat
  <2>6. Losses(r, x, t, lost) = lost
    BY <1>1, <2>4, SameLosses DEF RoomType
  <2>7. Loadable(x) /\ SeatsSound(x)
    BY <1>2, <1>3, <1>6, <2>4, <2>5 DEF Settles, Sound, Loadable, SeatsSound, RoomType
  <2>8. ClockSound(x)
    BY <1>4, <2>4 DEF ClockSound, n
  <2>9. Charged(x, t, th)
    <3>1. Charged(u, t, th)
      BY <1>2 DEF Settles, Sound
    <3>2. \A q \in Seats : Pending(u, t, q) = 0 /\ Pending(x, t, q) = 0
      BY <1>1, <1>3, <2>4 DEF Pending, RoomType
    <3> QED BY <1>1, <1>3, <2>4, <2>5, <3>1, <3>2 DEF Charged, RoomType
  <2>10. GraceSound(x, t, lost)
    BY <1>1, <1>2, <1>3, <2>4, <2>5 DEF Settles, Sound, GraceSound, RoomType
  <2>11. Advances(r, x)
    BY <1>1, <1>3, <2>4 DEF Advances, RoomType
  <2> QED
    BY <1>1, <1>3, <2>4, <2>5, <2>6, <2>7, <2>8, <2>9, <2>10, <2>11
    DEF Step, Sound, x, RoomType, NoSeat
<1> QED BY <1>5, <1>6

LEMMA StutterStep ==
  ASSUME NEW t \in Nat, NEW th \in [Seats -> Nat], NEW lost \in [Seats -> Nat],
         NEW r, Sound(r, t, th, lost)
  PROVE  Step(r, r, t, th, lost)
<1>1. Losses(r, r, t, lost) = lost
  BY SameLosses
<1>2. r \in RoomType /\ (r.status # "done" => r.reason = NoSeat)
  BY DEF Sound, Loadable
<1> QED BY <1>1, <1>2 DEF Step, Advances, RoomType, NoSeat

LEMMA HandleMoveStep ==
  ASSUME NEW t \in Nat, NEW th \in [Seats -> Nat], NEW lost \in [Seats -> Nat],
         NEW r, Sound(r, t, th, lost), NEW s \in Seats, NEW m \in Moves,
         NEW e \in Nat \cup {NoRevision}, NEW v \in Verdicts
  PROVE  Step(r, HandleMove(r, s, m, e, v, t), t, th, lost)
<1> DEFINE x == HandleMove(r, s, m, e, v, t)
           u == SettleClock(r, t, FALSE)
           applied == ApplyMove(u, s, v, t)
           moved == Commit(applied, TRUE)
           last == [seat |-> s, move |-> m, before |-> u.revision,
                    structuralBefore |-> u.structural, expected |-> e]
           next == [moved EXCEPT !.lastMove = last]
<1>1. r \in RoomType /\ x \in RoomType
  BY HandleMoveType DEF Sound
<1>2. Settles(r, u, t, th, lost)
  BY SettleClockSound
<1> HIDE DEF u
<1>3. /\ u \in RoomType /\ u.connected = r.connected /\ u.deadline = r.deadline
      /\ u.ply = r.ply /\ u.revision >= r.revision /\ u.anchor = t /\ u.seated = r.seated
      /\ u.turn = r.turn
  BY <1>1, <1>2 DEF Settles, Sound, Loadable, Advances, RoomType
<1>4. CASE IsDuplicate(r, s, m, e) \/ r.status # "playing" \/ IsStale(r, e)
  BY <1>4, StutterStep DEF HandleMove
<1>5. CASE /\ ~(IsDuplicate(r, s, m, e) \/ r.status # "playing" \/ IsStale(r, e))
           /\ u.winner # NoSeat
  <2>1. x = Commit(u, TRUE)
    BY <1>5 DEF HandleMove, u
  <2>2. u.status = "done" /\ u.reason = "timeout"
    BY <1>2, <1>5 DEF Settles, Sound, Loadable
  <2> HIDE DEF x
  <2>3. /\ x.seated = u.seated /\ x.connected = u.connected /\ x.status = u.status
        /\ x.winner = u.winner /\ x.reason = u.reason /\ x.ply = u.ply
        /\ x.turn = u.turn /\ x.remaining = u.remaining /\ x.running = u.running
        /\ x.anchor = u.anchor /\ x.deadline = u.deadline
        /\ x.revision = u.revision + 1 /\ x.structural = u.revision + 1
    BY <1>3, <2>1 DEF Commit, RoomType
  <2>4. Loadable(x) /\ SeatsSound(x) /\ ClockSound(x) /\ GraceSound(x, t, lost)
    BY <1>2, <1>3, <2>2, <2>3
    DEF Settles, Sound, Loadable, SeatsSound, ClockSound, GraceSound, RoomType
  <2>5. Charged(x, t, th)
    BY <1>2, <2>2, <2>3 DEF Settles, Sound, Charged
  <2>6. Advances(r, x)
    BY <1>1, <1>3, <2>3 DEF Advances, RoomType
  <2>7. Losses(r, x, t, lost) = lost
    BY <1>3, <2>3, SameLosses
  <2> QED
    BY <1>1, <1>3, <1>5, <2>2, <2>3, <2>4, <2>5, <2>6, <2>7 DEF Step, Sound, x, RoomType
<1>6. CASE /\ ~(IsDuplicate(r, s, m, e) \/ r.status # "playing" \/ IsStale(r, e))
           /\ u.winner = NoSeat /\ (u.turn # s \/ v = "illegal")
  BY <1>2, <1>6, SettleStep DEF HandleMove, u
<1>7. CASE /\ ~(IsDuplicate(r, s, m, e) \/ r.status # "playing" \/ IsStale(r, e))
           /\ u.winner = NoSeat /\ u.turn = s /\ v # "illegal"
  <2>1. x = next
    BY <1>7 DEF HandleMove, u
  <2>2. u.status = "playing" /\ u.reason = NoSeat
    BY <1>2, <1>7 DEF Settles, Sound, Loadable, Seats, NoSeat
  <2>3. \A q \in Seats : th[q] < InitialClock
    BY <1>2, <2>2 DEF Settles
  <2>4. \A q \in Seats : u.remaining[q] > 0 /\ u.remaining[q] = InitialClock - th[q]
    <3>1. Charged(u, t, th)
      BY <1>2 DEF Settles, Sound
    <3>2. \A q \in Seats : Pending(u, t, q) = 0
      BY <1>3 DEF Pending
    <3> QED BY <1>3, <2>2, <3>1, <3>2, ClockAssumption DEF Charged, RoomType
  <2>5. applied \in RoomType
    BY <1>3, ApplyMoveType
  <2> HIDE DEF applied, last
  <2>6. moved \in RoomType
    BY <2>5, CommitType
  <2>7. /\ moved.seated = applied.seated /\ moved.connected = applied.connected
        /\ moved.status = applied.status /\ moved.winner = applied.winner
        /\ moved.reason = applied.reason /\ moved.ply = applied.ply
        /\ moved.turn = applied.turn /\ moved.remaining = applied.remaining
        /\ moved.running = applied.running /\ moved.anchor = applied.anchor
        /\ moved.deadline = applied.deadline
        /\ moved.revision = applied.revision + 1
        /\ moved.structural = applied.revision + 1
    BY <2>5 DEF Commit, RoomType
  <2> HIDE DEF moved, x
  <2>8. /\ x.seated = applied.seated /\ x.connected = applied.connected
        /\ x.status = applied.status /\ x.winner = applied.winner
        /\ x.reason = applied.reason /\ x.ply = applied.ply /\ x.turn = applied.turn
        /\ x.remaining = applied.remaining /\ x.running = applied.running
        /\ x.anchor = applied.anchor /\ x.deadline = applied.deadline
        /\ x.revision = applied.revision + 1 /\ x.structural = applied.revision + 1
        /\ x.lastMove = last
    BY <2>1, <2>6, <2>7 DEF RoomType
  <2>9. /\ applied.seated = u.seated /\ applied.connected = u.connected
        /\ applied.ply = u.ply + 1 /\ applied.remaining = u.remaining
        /\ applied.anchor = t /\ applied.deadline = u.deadline
        /\ applied.revision = u.revision
        /\ \/ /\ applied.status = "done" /\ applied.winner = s
              /\ applied.reason \in BoardWins /\ applied.running = NoSeat
           \/ /\ applied.status = "playing" /\ applied.winner = NoSeat
              /\ applied.reason = NoSeat /\ applied.turn = Other(s)
              /\ applied.running = IF u.connected[Other(s)] THEN Other(s) ELSE NoSeat
    <3>1. CASE v \in BoardWins
      <4> DEFINE won == [u EXCEPT !.ply = @ + 1, !.winner = s, !.reason = v, !.anchor = t]
      <4>1. applied = FinishTerminal(won)
        BY <3>1 DEF applied, ApplyMove
      <4>2. /\ won.seated = u.seated /\ won.connected = u.connected
            /\ won.ply = u.ply + 1 /\ won.remaining = u.remaining
            /\ won.anchor = t /\ won.deadline = u.deadline
            /\ won.revision = u.revision /\ won.winner = s /\ won.reason = v
            /\ won \in RoomType
        <5>1. u.ply + 1 \in Nat /\ v \in Reasons
          BY <1>3, <3>1 DEF RoomType, Reasons
        <5> QED BY <1>3, <5>1 DEF RoomType
      <4> HIDE DEF applied, won
      <4>3. /\ applied.seated = u.seated /\ applied.connected = u.connected
            /\ applied.ply = u.ply + 1 /\ applied.remaining = u.remaining
            /\ applied.anchor = t /\ applied.deadline = u.deadline
            /\ applied.revision = u.revision /\ applied.winner = s /\ applied.reason = v
            /\ applied.status = "done" /\ applied.running = NoSeat
        BY <4>1, <4>2 DEF FinishTerminal, RoomType
      <4> QED BY <3>1, <4>3
    <3>2. CASE v \notin BoardWins
      <4> DEFINE n == u.ply + 1
                 o == Other(s)
                 clock == IF u.connected[o] THEN o ELSE NoSeat
      <4>1. applied = [u EXCEPT !.ply = n, !.turn = o, !.anchor = t, !.running = clock]
        BY <3>2 DEF applied, ApplyMove
      <4> HIDE DEF n, o, clock, applied
      <4>2. /\ applied.seated = u.seated /\ applied.connected = u.connected
            /\ applied.ply = n /\ applied.remaining = u.remaining
            /\ applied.anchor = t /\ applied.deadline = u.deadline
            /\ applied.revision = u.revision
            /\ applied.status = u.status /\ applied.winner = u.winner
            /\ applied.reason = u.reason /\ applied.turn = o /\ applied.running = clock
        BY <1>3, <4>1 DEF RoomType
      <4> QED BY <4>2, <2>2, <1>7 DEF n, o, clock
    <3> QED BY <3>1, <3>2
  <2>10. Loadable(x) /\ SeatsSound(x) /\ ClockSound(x) /\ GraceSound(x, t, lost)
    BY <1>1, <1>2, <1>3, <2>2, <2>8, <2>9, OtherSeat
    DEF Settles, Sound, Loadable, SeatsSound, ClockSound, GraceSound, RoomType,
        BoardWins, Seats, NoSeat
  <2>11. Charged(x, t, th)
    <3>1. \A q \in Seats : Pending(x, t, q) = 0
      BY <2>8, <2>9 DEF Pending
    <3> QED BY <2>3, <2>4, <2>8, <2>9, <3>1, ClockAssumption DEF Charged
  <2>12. Advances(r, x)
    BY <1>1, <1>3, <2>8, <2>9 DEF Advances, RoomType
  <2>13. Losses(r, x, t, lost) = lost
    BY <1>3, <2>8, <2>9, SameLosses
  <2>14. x.lastMove.expected # NoRevision
           => x.lastMove.expected \in r.structural .. r.revision
    BY <1>7, <2>8 DEF IsStale, last
  <2>15. x.reason # "disconnect_timeout" /\ r.status = "playing" /\ th[r.turn] < InitialClock
    BY <1>1, <1>7, <2>3, <2>8, <2>9 DEF BoardWins, NoSeat, RoomType
  <2> QED
    BY <1>1, <2>10, <2>11, <2>12, <2>13, <2>14, <2>15 DEF Step, Sound, x
<1> QED BY <1>4, <1>5, <1>6, <1>7

LEMMA GraceLoserIsOver ==
  ASSUME NEW r \in RoomType, NEW t \in Nat, \E s \in Seats : GraceOver(r, s, t)
  PROVE  GraceLoser(r, t) \in Seats /\ GraceOver(r, GraceLoser(r, t), t)
<1>1. CASE /\ \A s \in Seats : GraceOver(r, s, t)
           /\ r.deadline["A"] = r.deadline["B"]
  BY <1>1, GraceLoserSeat DEF GraceLoser
<1>2. CASE ~(/\ \A s \in Seats : GraceOver(r, s, t)
             /\ r.deadline["A"] = r.deadline["B"])
  <2>1. GraceLoser(r, t) = IF GraceOver(r, "A", t) THEN "A" ELSE "B"
    BY <1>2 DEF GraceLoser
  <2>2. GraceOver(r, "A", t) \/ GraceOver(r, "B", t)
    BY DEF Seats
  <2> QED BY <2>1, <2>2 DEF Seats
<1> QED BY <1>1, <1>2

LEMMA AlarmStep ==
  ASSUME NEW t \in Nat, NEW th \in [Seats -> Nat], NEW lost \in [Seats -> Nat],
         NEW r, Sound(r, t, th, lost), r.status # "done"
  PROVE  Step(r, OnAlarm(r, t), t, th, lost)
<1> DEFINE u == SettleClock(r, t, TRUE)
           y == ExpireWaitingCreator(u, t)
           z == ExpireReconnect(y, t)
<1>1. Settles(r, u, t, th, lost)
  BY SettleClockSound
<1> HIDE DEF u
<1>2. /\ r \in RoomType /\ u \in RoomType /\ u.anchor = t
      /\ u.connected = r.connected /\ u.seated = r.seated
  BY <1>1 DEF Settles, Sound
<1>3. y \in RoomType
  BY <1>2, ExpireWaitingCreatorType
<1>4. z \in RoomType
  BY <1>3, ExpireReconnectType
<1>5. OnAlarm(r, t) = z
  BY DEF OnAlarm, u
<1>6. SettleClock(u, t, TRUE) = u
  BY <1>2 DEF SettleClock, RoomType
<1>7. CASE u.status = "waiting" /\ y # u
  <2> DEFINE over == [u EXCEPT !.status = "done", !.reason = "disconnect_timeout",
                               !.running = NoSeat]
  <2>1. /\ u.seated["A"] /\ ~u.connected["A"]
        /\ u.deadline["A"] # NoTime /\ u.deadline["A"] <= t
        /\ y = Commit(over, TRUE)
    BY <1>7 DEF ExpireWaitingCreator
  <2>2. over \in RoomType
    BY <1>2 DEF RoomType, Reasons
  <2>3. /\ over.status = "done" /\ over.winner = u.winner
        /\ over.reason = "disconnect_timeout" /\ over.running = NoSeat
        /\ over.seated = u.seated /\ over.connected = u.connected /\ over.ply = u.ply
        /\ over.remaining = u.remaining /\ over.anchor = u.anchor
        /\ over.revision = u.revision
    BY <1>2 DEF RoomType
  <2> HIDE DEF over, y
  <2>4. u.winner = NoSeat
    BY <1>1, <1>7 DEF Settles, Sound, Loadable
  <2>5. Ends(u, y, NoSeat, "disconnect_timeout", u.connected)
    BY <2>1, <2>2, <2>3, <2>4 DEF Ends, Commit, RoomType
  <2>6. z = y
    BY <2>5 DEF Ends, ExpireReconnect
  <2>7. ~r.connected[Loser(y)] /\ t - lost[Loser(y)] >= ReconnectGrace
    <3>1. Loser(y) = "A" /\ "A" \in Seats
      BY <2>5 DEF Ends, Loser, Seats
    <3>2. GraceSound(u, t, lost)
      BY <1>1 DEF Settles, Sound
    <3>3. u.deadline["A"] = lost["A"] + ReconnectGrace
      BY <1>7, <2>1, <3>1, <3>2 DEF GraceSound
    <3>4. lost["A"] \in Nat /\ t >= lost["A"] + ReconnectGrace
      BY <2>1, <3>1, <3>3, ClockAssumption
    <3>5. t - lost["A"] >= ReconnectGrace
      BY <3>4, ClockAssumption
    <3>6. ~r.connected["A"]
      BY <1>2, <2>1
    <3> QED BY <3>1, <3>5, <3>6
  <2>8. "disconnect_timeout" \in Reasons /\ NoSeat \in Seats \cup {NoSeat}
    BY DEF Reasons
  <2>9. Step(r, y, t, th, lost)
    BY <1>1, <1>2, <1>3, <1>7, <2>1, <2>5, <2>7, <2>8, EndStep
  <2> QED BY <1>5, <2>6, <2>9
<1>8. CASE u.status # "waiting" \/ y = u
  <2>1. y = u
    BY <1>8 DEF ExpireWaitingCreator
  <2>2. CASE u.status # "playing" \/ ~\E s \in Seats : GraceOver(u, s, t)
    <3>1. z = u
      BY <2>1, <2>2 DEF ExpireReconnect
    <3> QED BY <1>1, <1>5, <3>1, SettleStep
  <2>3. CASE u.status = "playing" /\ \E s \in Seats : GraceOver(u, s, t)
    <3> DEFINE l == GraceLoser(u, t)
               w == Other(l)
               lose == [u EXCEPT !.winner = w, !.reason = "disconnect_timeout"]
    <3>1. l \in Seats /\ GraceOver(u, l, t)
      BY <1>2, <2>3, GraceLoserIsOver
    <3>2. u.winner = NoSeat
      BY <1>1, <2>3 DEF Settles, Sound, Loadable
    <3>3. z = FinishTerminal(Commit(lose, TRUE))
      BY <1>6, <2>1, <2>3, <3>2 DEF ExpireReconnect
    <3> HIDE DEF l
    <3>4. w \in Seats /\ w # NoSeat /\ Other(w) = l
      BY <3>1 DEF Other, Seats, NoSeat
    <3> HIDE DEF w, z
    <3>5. /\ lose \in RoomType /\ lose.winner = w /\ lose.reason = "disconnect_timeout"
          /\ lose.seated = u.seated /\ lose.connected = u.connected /\ lose.ply = u.ply
          /\ lose.remaining = u.remaining /\ lose.anchor = u.anchor
          /\ lose.revision = u.revision
      BY <1>2, <3>4 DEF RoomType, Reasons
    <3> HIDE DEF lose
    <3>6. Ends(u, z, w, "disconnect_timeout", u.connected)
      BY <3>3, <3>5 DEF Ends, FinishTerminal, Commit, RoomType
    <3>7. ~r.connected[Loser(z)] /\ t - lost[Loser(z)] >= ReconnectGrace
      <4>1. Loser(z) = l
        BY <3>4, <3>6 DEF Ends, Loser
      <4>2. GraceSound(u, t, lost)
        BY <1>1 DEF Settles, Sound
      <4> QED
        BY <1>2, <2>3, <3>1, <4>1, <4>2, ClockAssumption DEF GraceSound, GraceOver, RoomType
    <3>8. "disconnect_timeout" \in Reasons
      BY DEF Reasons
    <3>9. Step(r, z, t, th, lost)
      BY <1>1, <1>4, <2>3, <3>4, <3>6, <3>7, <3>8, EndStep
    <3> QED BY <1>5, <3>9
  <2> QED BY <2>2, <2>3
<1> QED BY <1>7, <1>8

-----------------------------------------------------------------------------
(* The theorems.                                                           *)

LEMMA RoomInvInit == Init => RoomInv
<1> SUFFICES ASSUME Init PROVE RoomInv
  OBVIOUS
<1> DEFINE r == NewRoom(0)
<1>1. room = r /\ now = 0 /\ published = {}
      /\ thinking = [s \in Seats |-> 0] /\ lostAt = [s \in Seats |-> 0]
  BY DEF Init
<1>2. r \in RoomType
  BY NewRoomType
<1>3. TypeOK
  BY <1>1, <1>2 DEF TypeOK
<1>4. Loadable(r) /\ SeatsSound(r) /\ ClockSound(r) /\ GraceSound(r, 0, lostAt)
  BY DEF NewRoom, Loadable, SeatsSound, ClockSound, GraceSound, Seats
<1>5. Charged(r, 0, thinking)
  BY <1>1, ClockAssumption DEF NewRoom, Charged
<1>6. Broadcast(r, published)
  BY <1>1 DEF Broadcast
<1> QED BY <1>1, <1>3, <1>4, <1>5, <1>6 DEF RoomInv

LEMMA RoomInvSound == RoomInv => Sound(room, now, thinking, lostAt)
BY DEF RoomInv, TypeOK, Sound

\* Every Mutate of a step is a step of the room seen by everyone.
LEMMA MutateStep ==
  ASSUME RoomInv, NEW x, Step(room, x, now, thinking, lostAt), Mutate(x)
  PROVE  /\ RoomInv'
         /\ Step(room, room', now, thinking, lostAt)
         /\ UNCHANGED <<now, thinking>>
<1> DEFINE r == room
           y == Payload(x, now)
<1>1. /\ now \in Nat /\ thinking \in [Seats -> Nat] /\ lostAt \in [Seats -> Nat]
      /\ published \subseteq Nat \X Nat
      /\ Sound(r, now, thinking, lostAt)
  BY RoomInvSound DEF RoomInv, TypeOK
<1>2. Step(r, y, now, thinking, lostAt)
  BY <1>1, PayloadStep
<1> HIDE DEF y
<1>3. /\ room' = y /\ published' = published \cup {<<y.revision, y.ply>>}
      /\ lostAt' = Losses(r, y, now, lostAt) /\ now' = now /\ thinking' = thinking
  BY DEF Mutate, Losses, y
<1>4. Sound(y, now, thinking, lostAt') /\ Advances(r, y)
  BY <1>2, <1>3 DEF Step
<1>5. r \in RoomType /\ y \in RoomType /\ Loadable(r) /\ Loadable(y)
  BY <1>1, <1>4 DEF Sound
<1>6. TypeOK'
  <2>1. y.revision \in Nat /\ y.ply \in Nat
    BY <1>5 DEF RoomType
  <2>2. lostAt' \in [Seats -> Nat]
    BY <1>1, <1>3 DEF Losses
  <2> QED BY <1>1, <1>3, <1>5, <2>1, <2>2 DEF TypeOK
<1>7. Broadcast(y, published')
  <2> SUFFICES ASSUME NEW p \in published'
               PROVE  p[1] <= y.revision /\ (p[1] >= y.structural => p[2] = y.ply)
    BY DEF Broadcast
  <2>1. CASE p = <<y.revision, y.ply>>
    BY <1>5, <2>1 DEF RoomType
  <2>2. CASE p \in published
    <3>1. p[1] \in Nat /\ p[1] <= r.revision /\ (p[1] >= r.structural => p[2] = r.ply)
      BY <1>1, <2>2 DEF RoomInv, Broadcast
    <3>2. r.revision \in Nat /\ y.revision \in Nat /\ y.structural \in Nat
          /\ y.structural <= y.revision
      BY <1>5 DEF RoomType, Loadable
    <3> QED BY <1>4, <3>1, <3>2 DEF Advances
  <2> QED BY <1>3, <2>1, <2>2
<1> QED BY <1>2, <1>3, <1>4, <1>6, <1>7 DEF RoomInv, Sound

\* Every action but Tick mutates the room by a step.
LEMMA ActionStep ==
  ASSUME RoomInv, Next, ~Tick
  PROVE  \E x : Step(room, x, now, thinking, lostAt) /\ Mutate(x)
<1>1. /\ now \in Nat /\ thinking \in [Seats -> Nat] /\ lostAt \in [Seats -> Nat]
      /\ published \subseteq Nat \X Nat /\ Sound(room, now, thinking, lostAt)
  BY RoomInvSound DEF RoomInv, TypeOK
<1>2. ASSUME NEW c \in Conn, Join(c)
      PROVE  \E x : Step(room, x, now, thinking, lostAt) /\ Mutate(x)
  BY <1>1, <1>2, AddPlayerStep DEF Join
<1>3. ASSUME NEW c \in Conn, Move(c)
      PROVE  \E x : Step(room, x, now, thinking, lostAt) /\ Mutate(x)
  <2>1. PICK s \in Seats, m \in Moves, verdict \in Verdicts,
             e \in {p[1] : p \in published} \cup {NoRevision} :
          Mutate(HandleMove(room, s, m, e, verdict, now))
    BY <1>3 DEF Move
  <2>2. e \in Nat \cup {NoRevision}
    BY <1>1, <2>1
  <2>3. Step(room, HandleMove(room, s, m, e, verdict, now), now, thinking, lostAt)
    BY <1>1, <2>2, HandleMoveStep
  <2> QED BY <2>1, <2>3
<1>4. ASSUME NEW c \in Conn, Leave(c)
      PROVE  \E x : Step(room, x, now, thinking, lostAt) /\ Mutate(x)
  BY <1>1, <1>4, LeavePlayerStep DEF Leave, HoldsSeat
<1>5. ASSUME NEW c \in Conn, Disconnect(c)
      PROVE  \E x : Step(room, x, now, thinking, lostAt) /\ Mutate(x)
  BY <1>1, <1>5, DisconnectPlayerStep DEF Disconnect, HoldsSeat
<1>6. ASSUME NEW c \in Conn, Resume(c)
      PROVE  \E x : Step(room, x, now, thinking, lostAt) /\ Mutate(x)
  BY <1>1, <1>6, ResumePlayerStep DEF Resume
<1>7. CASE Alarm
  BY <1>1, <1>7, AlarmStep DEF Alarm
<1> QED BY <1>2, <1>3, <1>4, <1>5, <1>6, <1>7 DEF Next

\* Time passes: the seat on turn, if connected, is the one whose clock runs.
LEMMA TickStep ==
  ASSUME RoomInv, Tick
  PROVE  RoomInv'
<1>1. /\ room' = room /\ published' = published /\ lostAt' = lostAt /\ now' = now + 1
      /\ now \in Nat /\ room \in RoomType
  BY DEF Tick, RoomInv, TypeOK
<1>2. thinking' \in [Seats -> Nat]
  BY DEF Tick, RoomInv, TypeOK
<1>3. TypeOK'
  BY <1>1, <1>2 DEF RoomInv, TypeOK
<1>4. GraceSound(room, now + 1, lostAt)
  BY <1>1 DEF RoomInv, TypeOK, GraceSound
<1>5. Charged(room, now + 1, thinking')
  <2>1. Charged(room, now, thinking) /\ thinking \in [Seats -> Nat] /\ ClockSound(room)
    BY DEF RoomInv, TypeOK
  <2>2. room.anchor <= now + 1
    BY <1>1, <2>1 DEF Charged, RoomType
  <2>3. CASE room.status # "playing"
    <3>1. thinking' = thinking
      BY <2>1, <2>3 DEF Tick
    <3> QED BY <2>1, <2>2, <2>3, <3>1 DEF Charged
  <2>4. CASE room.status = "playing"
    <3> SUFFICES ASSUME NEW s \in Seats
                 PROVE  room.remaining[s] - Pending(room, now + 1, s)
                          = InitialClock - thinking'[s]
      BY <2>1, <2>2, <2>4 DEF Charged
    <3>1. room.remaining[s] - Pending(room, now, s) = InitialClock - thinking[s]
      BY <2>1, <2>4 DEF Charged
    <3>2. room.running = s <=> (room.turn = s /\ room.connected[s])
      BY <1>1, <2>1, <2>4 DEF ClockSound, RoomType, Seats, NoSeat
    <3>3. thinking'[s] = IF room.running = s THEN thinking[s] + 1 ELSE thinking[s]
      BY <2>4, <3>2 DEF Tick
    <3>4. CASE room.running = s
      BY <1>1, <2>1, <3>1, <3>3, <3>4, ClockAssumption DEF Pending, RoomType
    <3>5. CASE room.running # s
      BY <1>1, <2>1, <3>1, <3>3, <3>5, ClockAssumption DEF Pending, RoomType
    <3> QED BY <3>4, <3>5
  <2> QED BY <2>3, <2>4
<1> QED BY <1>1, <1>3, <1>4, <1>5 DEF RoomInv

LEMMA RoomInvStep == RoomInv /\ [Next]_vars => RoomInv'
<1> SUFFICES ASSUME RoomInv, [Next]_vars PROVE RoomInv'
  OBVIOUS
<1>1. CASE Tick
  BY <1>1, TickStep
<1>2. CASE Next /\ ~Tick
  BY <1>2, ActionStep, MutateStep
<1>3. CASE UNCHANGED vars
  BY <1>3 DEF vars, RoomInv, TypeOK, Loadable, SeatsSound, ClockSound, Charged, Pending,
              GraceSound, Broadcast
<1> QED BY <1>1, <1>2, <1>3

\* The seats, clocks, grace periods and broadcast revisions of a game agree in
\* every reachable state.
THEOREM RoomAlwaysSound == Spec => []RoomInv
<1>1. Init => RoomInv
  BY RoomInvInit
<1>2. RoomInv /\ [Next]_vars => RoomInv'
  BY RoomInvStep
<1> QED BY <1>1, <1>2, PTL DEF Spec, Safe

\* Type correctness.
THEOREM TypeCorrect == Spec => []TypeOK
<1>1. RoomInv => TypeOK
  BY DEF RoomInv
<1> QED BY <1>1, RoomAlwaysSound, PTL

\* Every reachable room can be persisted and loaded again.
THEOREM AlwaysHydratable == Spec => []Hydratable
<1>1. RoomInv => Hydratable
  BY DEF RoomInv, Hydratable
<1> QED BY <1>1, RoomAlwaysSound, PTL

\* A seat is charged exactly the time it spent on turn and connected.
THEOREM ClockIsExact == Spec => []ChargedExactly
<1>1. RoomInv => ChargedExactly
  <2> SUFFICES ASSUME RoomInv, room.status # "waiting", NEW s \in Seats
               PROVE  TimeLeft(s) = IF thinking[s] < InitialClock
                                    THEN InitialClock - thinking[s] ELSE 0
    BY DEF ChargedExactly
  <2>1. /\ Charged(room, now, thinking) /\ thinking[s] \in Nat /\ now \in Nat
        /\ room \in RoomType
    BY DEF RoomInv, TypeOK
  <2>2. CASE room.status = "playing"
    <3>1. room.remaining[s] - Pending(room, now, s) = InitialClock - thinking[s]
      BY <2>1, <2>2 DEF Charged
    <3>2. Pending(room, now, s) = IF ClockRuns(room) /\ room.running = s
                                  THEN now - room.anchor ELSE 0
      BY <2>2 DEF Pending, ClockRuns, Seats, NoSeat
    <3>3. CASE ClockRuns(room) /\ room.running = s
      BY <2>1, <3>1, <3>2, <3>3, ClockAssumption DEF TimeLeft, RoomType
    <3>4. CASE ~(ClockRuns(room) /\ room.running = s)
      BY <2>1, <3>1, <3>2, <3>4, ClockAssumption DEF TimeLeft, RoomType
    <3> QED BY <3>3, <3>4
  <2>3. CASE room.status = "done"
    <3>1. room.remaining[s] = IF thinking[s] < InitialClock
                              THEN InitialClock - thinking[s] ELSE 0
      BY <2>1, <2>3 DEF Charged
    <3>2. ~ClockRuns(room)
      BY <2>3 DEF ClockRuns
    <3> QED BY <2>1, <3>1, <3>2, ClockAssumption DEF TimeLeft, RoomType
  <2> QED BY <2>1, <2>2, <2>3 DEF RoomType
<1> QED BY <1>1, RoomAlwaysSound, PTL

\* What a step of the system is: a tick, a stutter or a step of the room.
LEMMA NextIsStep ==
  ASSUME RoomInv, [Next]_vars
  PROVE  \/ room' = room
         \/ Step(room, room', now, thinking, lostAt)
<1>1. CASE Tick
  BY <1>1 DEF Tick
<1>2. CASE Next /\ ~Tick
  BY <1>2, ActionStep, MutateStep
<1>3. CASE UNCHANGED vars
  BY <1>3 DEF vars
<1> QED BY <1>1, <1>2, <1>3

\* No late move, leave, disconnection, resume or alarm changes an outcome.
THEOREM OutcomeIsFinal == Spec => OutcomeFinal
<1>1. RoomInv /\ [Next]_vars =>
        [room.status = "done" => /\ room'.status = "done"
                                 /\ room'.winner = room.winner
                                 /\ room'.reason = room.reason]_vars
  BY NextIsStep DEF Step
<1> QED BY <1>1, RoomAlwaysSound, PTL DEF Spec, Safe, OutcomeFinal

\* A move is applied only while its player has time on the clock.
THEOREM NoMoveOnZero == Spec => NoMoveAfterFlag
<1>1. RoomInv /\ [Next]_vars =>
        [room'.ply > room.ply => thinking[room.turn] < InitialClock]_vars
  <2> SUFFICES ASSUME RoomInv, [Next]_vars, room'.ply > room.ply
               PROVE  thinking[room.turn] < InitialClock
    OBVIOUS
  <2>1. room.ply \in Nat
    BY DEF RoomInv, TypeOK, RoomType
  <2> QED BY <2>1, NextIsStep DEF Step
<1> QED BY <1>1, RoomAlwaysSound, PTL DEF Spec, Safe, NoMoveAfterFlag

\* A move sent for a revision is applied to the position broadcast as it.
THEOREM MovesAreFresh == Spec => FreshMoves
<1>1. RoomInv /\ [Next]_vars =>
        [LET e == room'.lastMove.expected IN
           room'.ply > room.ply /\ e # NoRevision =>
             \A p \in published : p[1] = e => p[2] = room.ply]_vars
  <2> SUFFICES ASSUME RoomInv, [Next]_vars, room'.ply > room.ply,
                      room'.lastMove.expected # NoRevision,
                      NEW p \in published, p[1] = room'.lastMove.expected
               PROVE  p[2] = room.ply
    OBVIOUS
  <2>1. room.ply \in Nat /\ room.structural \in Nat /\ room.revision \in Nat
    BY DEF RoomInv, TypeOK, RoomType
  <2>2. p[1] \in room.structural .. room.revision
    BY <2>1, NextIsStep DEF Step
  <2> QED BY <2>1, <2>2 DEF RoomInv, Broadcast
<1> QED BY <1>1, RoomAlwaysSound, PTL DEF Spec, Safe, FreshMoves

\* A lost connection loses a seat only after the whole grace period.
THEOREM GraceIsHeld == Spec => SeatHeldForGrace
<1>1. RoomInv /\ [Next]_vars =>
        [room.status # "done" /\ room'.reason = "disconnect_timeout" =>
           /\ ~room.connected[Loser(room')]
           /\ now - lostAt[Loser(room')] >= ReconnectGrace]_vars
  <2> SUFFICES ASSUME RoomInv, [Next]_vars, room.status # "done",
                      room'.reason = "disconnect_timeout"
               PROVE  /\ ~room.connected[Loser(room')]
                      /\ now - lostAt[Loser(room')] >= ReconnectGrace
    OBVIOUS
  <2>1. room' # room
    BY DEF RoomInv, Loadable, NoSeat
  <2> QED BY <2>1, NextIsStep DEF Step
<1> QED BY <1>1, RoomAlwaysSound, PTL DEF Spec, Safe, SeatHeldForGrace
=============================================================================
