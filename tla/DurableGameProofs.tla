------------------------- MODULE DurableGameProofs -------------------------
(***************************************************************************)
(* Proofs about the Game Durable Object, for any number of sockets, moves  *)
(* and faults and any clock, grace, retry and retention times.             *)
(***************************************************************************)
EXTENDS DurableGame, NaturalsInduction, WellFoundedInduction, TLAPS

-----------------------------------------------------------------------------
(* What holds of every room.                                                *)

\* Only a game that ended has a winner, and it has a reason; moves begin when
\* both seats are taken.
Fine(r) ==
  /\ r \in RoomType
  /\ r.status # "done" => r.winner = NoSeat
  /\ r.status = "done" => r.reason # NoSeat
  /\ r.status = "waiting" => r.ply = 0
  /\ r.status = "playing" => r.seated["A"] /\ r.seated["B"]

\* x may replace r: it has every move of r, and its winner.
Lasts(r, x) ==
  /\ Fine(x)
  /\ x.ply >= r.ply
  /\ r.winner # NoSeat => x.winner = r.winner /\ x.reason = r.reason

SameSeats(r, x) ==
  /\ x.seated = r.seated /\ x.connected = r.connected
  /\ x.conn = r.conn /\ x.deadline = r.deadline

\* When the clock that runs reaches zero.
FlagTime(r) == r.anchor + r.remaining[r.running]

InTime(r) == \A s \in Seats : r.remaining[s] > 0

LEMMA LastsReflexive == ASSUME NEW r, Fine(r)  PROVE Lasts(r, r)
BY DEF Lasts, Fine, RoomType

LEMMA LastsTransitive ==
  ASSUME NEW r, NEW x, NEW y, Fine(r), Lasts(r, x), Lasts(x, y)
  PROVE  Lasts(r, y)
<1>1. r.ply \in Nat /\ x.ply \in Nat /\ y.ply \in Nat
  BY DEF Lasts, Fine, RoomType
<1> QED  BY <1>1 DEF Lasts

\* Sockets, clocks and counters of a room may change.
LEMMA SameGame ==
  ASSUME NEW r, Fine(r), NEW x \in RoomType,
         x.status = r.status, x.winner = r.winner, x.reason = r.reason,
         x.ply = r.ply, x.seated = r.seated
  PROVE  Lasts(r, x)
BY DEF Lasts, Fine, RoomType

\* A game that ends keeps its moves.
LEMMA GameOver ==
  ASSUME NEW r, Fine(r), NEW x \in RoomType, x.status = "done", x.reason # NoSeat, x.ply >= r.ply,
         r.winner = NoSeat \/ (x.winner = r.winner /\ x.reason = r.reason)
  PROVE  Lasts(r, x)
BY DEF Lasts, Fine, RoomType

LEMMA OtherSeat == \A s \in Seats : Other(s) \in Seats /\ Other(s) # s
BY DEF Seats, Other

LEMMA NewRoomFine == \A t \in Nat : Fine(NewRoom(t))
BY ClockAssumption DEF Fine, NewRoom, RoomType, NoLastMove, LastMoveType, Seats, NoSeat, NoTime,
                       NoRevision

-----------------------------------------------------------------------------
(* Commits and the clock.                                                   *)

LEMMA CommitIs ==
  ASSUME NEW r \in RoomType, NEW b \in BOOLEAN
  PROVE  LET x == Commit(r, b) IN
         /\ x \in RoomType /\ SameSeats(r, x)
         /\ x.status = r.status /\ x.winner = r.winner /\ x.reason = r.reason
         /\ x.ply = r.ply /\ x.turn = r.turn /\ x.remaining = r.remaining
         /\ x.running = r.running /\ x.anchor = r.anchor
<1> DEFINE n == r.revision + 1
           m == IF b THEN r.revision + 1 ELSE r.structural
           x == [r EXCEPT !.revision = n, !.structural = m]
<1>1. n \in Nat /\ m \in Nat
  BY DEF RoomType
<1>2. x = Commit(r, b)
  BY <1>1 DEF Commit, RoomType
<1> HIDE DEF n, m
<1>3. /\ x \in RoomType /\ SameSeats(r, x)
      /\ x.status = r.status /\ x.winner = r.winner /\ x.reason = r.reason
      /\ x.ply = r.ply /\ x.turn = r.turn /\ x.remaining = r.remaining
      /\ x.running = r.running /\ x.anchor = r.anchor
  BY <1>1 DEF RoomType, SameSeats
<1> HIDE DEF x
<1> QED  BY <1>2, <1>3

LEMMA FinishTerminalIs ==
  ASSUME NEW r \in RoomType
  PROVE  LET x == FinishTerminal(r) IN
         /\ x \in RoomType /\ SameSeats(r, x)
         /\ x.status = "done" /\ x.running = NoSeat
         /\ x.winner = r.winner /\ x.reason = r.reason
         /\ x.ply = r.ply /\ x.turn = r.turn
BY DEF FinishTerminal, RoomType, SameSeats

\* The clock of a seat after it has run for n ticks.
LEMMA ElapseClockIs ==
  ASSUME NEW r \in RoomType, ClockRuns(r), NEW n \in Nat, r.winner = NoSeat
  PROVE  LET x == ElapseClock(r, n)
             seat == r.running
         IN
         /\ x \in RoomType /\ SameSeats(r, x)
         /\ x.status = r.status /\ x.ply = r.ply /\ x.turn = r.turn /\ x.anchor = r.anchor
         /\ \/ /\ r.remaining[seat] > n
               /\ x.remaining[seat] = r.remaining[seat] - n
               /\ x.remaining[Other(seat)] = r.remaining[Other(seat)]
               /\ x.winner = NoSeat /\ x.reason = r.reason /\ x.running = seat
            \/ /\ r.remaining[seat] <= n
               /\ x.winner = Other(seat) /\ x.reason = "timeout"
<1> DEFINE seat == r.running
           left == IF r.remaining[seat] > n THEN r.remaining[seat] - n ELSE 0
           charged == [r EXCEPT !.remaining[seat] = left]
           lost == [charged EXCEPT !.winner = Other(seat), !.reason = "timeout",
                                   !.running = NoSeat]
<1>1. seat \in Seats /\ r.remaining[seat] \in 0 .. InitialClock
  BY DEF ClockRuns, RoomType
<1>2. left \in 0 .. InitialClock
  BY <1>1, ClockAssumption
<1>3. /\ r.remaining[seat] > n => left > 0 /\ left = r.remaining[seat] - n
      /\ r.remaining[seat] <= n => left = 0
      /\ r.remaining[seat] > n \/ r.remaining[seat] <= n
  BY <1>1
<1>4. Other(seat) \in Seats /\ Other(seat) # seat
  BY <1>1, OtherSeat
<1>5. ElapseClock(r, n) = IF left > 0 THEN charged ELSE lost
  BY DEF ElapseClock
<1> HIDE DEF left, seat
<1>6. /\ charged \in RoomType /\ SameSeats(r, charged)
      /\ charged.status = r.status /\ charged.ply = r.ply /\ charged.turn = r.turn
      /\ charged.anchor = r.anchor /\ charged.winner = r.winner /\ charged.reason = r.reason
      /\ charged.running = r.running
  BY <1>1, <1>2 DEF RoomType, SameSeats
<1>7. charged.remaining[seat] = left /\ charged.remaining[Other(seat)] = r.remaining[Other(seat)]
  BY <1>1, <1>2, <1>4 DEF RoomType
<1> HIDE DEF charged
<1>8. "timeout" \in Reasons
  BY DEF Reasons
<1>9. /\ lost \in RoomType /\ SameSeats(r, lost)
      /\ lost.status = r.status /\ lost.ply = r.ply /\ lost.turn = r.turn
      /\ lost.anchor = r.anchor /\ lost.winner = Other(seat) /\ lost.reason = "timeout"
  BY <1>4, <1>6, <1>8 DEF RoomType, SameSeats
<1> HIDE DEF lost
<1>10. CASE r.remaining[seat] > n
  BY <1>3, <1>5, <1>6, <1>7, <1>10 DEF seat
<1>11. CASE r.remaining[seat] <= n
  BY <1>3, <1>5, <1>9, <1>11 DEF seat
<1> QED  BY <1>3, <1>10, <1>11

\* x is r with its clock settled: the game goes on ...
GoesOn(r, x, t) ==
  /\ x.status = r.status /\ x.winner = r.winner /\ x.reason = r.reason
  /\ x.ply = r.ply /\ x.turn = r.turn /\ x.running = r.running
  /\ ClockRuns(r) => FlagTime(x) = FlagTime(r)
  /\ InTime(r) => InTime(x)
  /\ ClockRuns(r) /\ InTime(r) => FlagTime(r) > t

\* ... or the clock that ran is at zero.
RunsOut(r, x, t) ==
  /\ ClockRuns(r) /\ FlagTime(r) <= t
  /\ x.status = "done" /\ x.running = NoSeat
  /\ x.winner \in Seats /\ x.reason = "timeout"
  /\ x.ply = r.ply /\ x.turn = r.turn

LEMMA SettleClockIs ==
  ASSUME NEW r, Fine(r), NEW t \in Nat, NEW b \in BOOLEAN
  PROVE  LET x == SettleClock(r, t, b) IN
         /\ x \in RoomType /\ SameSeats(r, x)
         /\ GoesOn(r, x, t) \/ RunsOut(r, x, t)
<1> DEFINE x == SettleClock(r, t, b)
<1>0. r \in RoomType /\ r.anchor \in Nat /\ r.remaining \in [Seats -> 0 .. InitialClock]
      /\ r.running \in Seats \cup {NoSeat} /\ NoSeat \notin Seats
  BY DEF Fine, RoomType, Seats, NoSeat
<1>1. CASE ~ClockRuns(r)
  <2> DEFINE y == [r EXCEPT !.anchor = t]
  <2>1. /\ y \in RoomType /\ SameSeats(r, y)
        /\ y.status = r.status /\ y.winner = r.winner /\ y.reason = r.reason
        /\ y.ply = r.ply /\ y.turn = r.turn /\ y.running = r.running
        /\ y.remaining = r.remaining
    BY <1>0 DEF RoomType, SameSeats
  <2>2. x = y
    BY <1>1 DEF SettleClock
  <2> HIDE DEF x, y
  <2> QED  BY <1>1, <2>1, <2>2 DEF GoesOn, InTime, x
<1>2. CASE ClockRuns(r) /\ t <= r.anchor
  <2>1. x = r
    BY <1>2 DEF SettleClock
  <2>2. InTime(r) => FlagTime(r) > t
    <3>1. r.remaining[r.running] \in Nat /\ r.running \in Seats
      BY <1>0, <1>2, ClockAssumption DEF ClockRuns
    <3> QED  BY <1>0, <1>2, <3>1 DEF InTime, FlagTime
  <2> HIDE DEF x
  <2> QED  BY <1>0, <2>1, <2>2 DEF GoesOn, SameSeats, x
<1>3. CASE ClockRuns(r) /\ ~(t <= r.anchor)
  <2> DEFINE seat == r.running
             n == t - r.anchor
             e0 == ElapseClock(r, n)
             e == [e0 EXCEPT !.anchor = t]
             won == e.winner # NoSeat
             f == IF won THEN FinishTerminal(e) ELSE e
  <2>1. seat \in Seats /\ n \in Nat /\ r.winner = NoSeat /\ r.status = "playing"
        /\ r.remaining[seat] \in Nat
    BY <1>0, <1>3, ClockAssumption DEF ClockRuns, Fine
  <2>2. /\ e0 \in RoomType /\ SameSeats(r, e0)
        /\ e0.status = r.status /\ e0.ply = r.ply /\ e0.turn = r.turn
        /\ \/ /\ r.remaining[seat] > n
              /\ e0.remaining[seat] = r.remaining[seat] - n
              /\ e0.remaining[Other(seat)] = r.remaining[Other(seat)]
              /\ e0.winner = NoSeat /\ e0.reason = r.reason /\ e0.running = seat
           \/ /\ r.remaining[seat] <= n
              /\ e0.winner = Other(seat) /\ e0.reason = "timeout"
    BY <1>0, <1>3, <2>1, ElapseClockIs
  <2> HIDE DEF e0
  <2>3. /\ e \in RoomType /\ SameSeats(e0, e) /\ e.anchor = t
        /\ e.status = e0.status /\ e.ply = e0.ply /\ e.turn = e0.turn
        /\ e.winner = e0.winner /\ e.reason = e0.reason /\ e.running = e0.running
        /\ e.remaining = e0.remaining
    BY <2>2 DEF RoomType, SameSeats
  <2>4. x = IF b THEN Commit(f, won) ELSE f
    BY <1>3 DEF SettleClock, e0
  <2> HIDE DEF e, x
  <2>5. CASE r.remaining[seat] > n
    <3>1. e.winner = NoSeat /\ f = e /\ ~won
      BY <2>1, <2>2, <2>3, <2>5
    <3>2. x = e \/ x = Commit(e, FALSE)
      BY <2>4, <3>1
    <3>3. /\ x \in RoomType /\ SameSeats(e, x)
          /\ x.status = e.status /\ x.winner = e.winner /\ x.reason = e.reason
          /\ x.ply = e.ply /\ x.turn = e.turn /\ x.remaining = e.remaining
          /\ x.running = e.running /\ x.anchor = e.anchor
      <4>1. CASE x = e
        BY <2>3, <4>1 DEF SameSeats
      <4>2. CASE x = Commit(e, FALSE)
        BY <2>3, <4>2, CommitIs
      <4> QED  BY <3>2, <4>1, <4>2
    <3>4. /\ e.remaining[seat] = r.remaining[seat] - n
          /\ e.remaining[Other(seat)] = r.remaining[Other(seat)]
          /\ e.reason = r.reason /\ e.running = seat
      BY <2>1, <2>2, <2>3, <2>5
    <3>5. FlagTime(x) = FlagTime(r) /\ FlagTime(r) > t
      <4>1. FlagTime(x) = t + (r.remaining[seat] - n)
        BY <2>3, <3>3, <3>4 DEF FlagTime
      <4> QED  BY <1>0, <2>1, <2>5, <4>1 DEF FlagTime
    <3>6. InTime(r) => InTime(x)
      <4>1. \A s \in Seats : s = seat \/ s = Other(seat)
        BY <2>1 DEF Seats, Other
      <4>2. x.remaining[seat] > 0
        BY <2>1, <2>5, <3>3, <3>4
      <4> QED  BY <3>3, <3>4, <4>1, <4>2 DEF InTime
    <3>7. SameSeats(r, x)
      BY <2>2, <2>3, <3>3 DEF SameSeats
    <3> QED  BY <2>1, <2>2, <2>3, <3>1, <3>3, <3>4, <3>5, <3>6, <3>7 DEF GoesOn, x
  <2>6. CASE r.remaining[seat] <= n
    <3>1. e.winner = Other(seat) /\ won /\ f = FinishTerminal(e) /\ e.reason = "timeout"
      <4>1. Other(seat) \in Seats
        BY <2>1, OtherSeat
      <4> QED  BY <1>0, <2>1, <2>2, <2>3, <2>6, <4>1
    <3>2. /\ f \in RoomType /\ SameSeats(e, f) /\ f.status = "done" /\ f.running = NoSeat
          /\ f.winner = e.winner /\ f.reason = e.reason /\ f.ply = e.ply /\ f.turn = e.turn
      BY <2>3, <3>1, FinishTerminalIs
    <3> HIDE DEF f
    <3>3. x = f \/ x = Commit(f, TRUE)
      BY <2>4, <3>1
    <3>4. /\ x \in RoomType /\ SameSeats(f, x) /\ x.status = "done" /\ x.running = NoSeat
          /\ x.winner = e.winner /\ x.reason = e.reason /\ x.ply = e.ply /\ x.turn = e.turn
      <4>1. CASE x = f
        BY <3>2, <4>1 DEF SameSeats
      <4>2. CASE x = Commit(f, TRUE)
        BY <3>2, <4>2, CommitIs
      <4> QED  BY <3>3, <4>1, <4>2
    <3>5. FlagTime(r) <= t
      BY <1>0, <2>1, <2>6 DEF FlagTime
    <3>6. SameSeats(r, x)
      BY <2>2, <2>3, <3>2, <3>4 DEF SameSeats
    <3>7. Other(seat) \in Seats
      BY <2>1, OtherSeat
    <3> QED  BY <1>3, <2>2, <2>3, <3>1, <3>4, <3>5, <3>6, <3>7 DEF RunsOut, x
  <2> QED  BY <2>1, <2>5, <2>6
<1> QED  BY <1>1, <1>2, <1>3

LEMMA SettleLasts ==
  ASSUME NEW r, Fine(r), NEW x \in RoomType, SameSeats(r, x), NEW t \in Nat,
         GoesOn(r, x, t) \/ RunsOut(r, x, t)
  PROVE  Lasts(r, x)
<1>1. CASE GoesOn(r, x, t)
  BY <1>1, SameGame DEF GoesOn, SameSeats
<1>2. CASE RunsOut(r, x, t)
  <2>1. r.winner = NoSeat /\ x.ply >= r.ply /\ x.reason # NoSeat
    BY <1>2 DEF RunsOut, ClockRuns, Fine, RoomType, NoSeat
  <2> QED  BY <1>2, <2>1, GameOver DEF RunsOut
<1> QED  BY <1>1, <1>2

-----------------------------------------------------------------------------
(* The methods: what each does to seats, clocks and outcome.                *)

\* The seats, but for one of them.
Seat(f, s, v) == [f EXCEPT ![s] = v]

Start(r) == IF r.connected["A"] THEN "A" ELSE NoSeat
OnTurn(r) == IF r.connected[r.turn] THEN r.turn ELSE NoSeat

LEMMA AddPlayerIs ==
  ASSUME NEW r, Fine(r), CanAdd(r), NEW c \in Conn, NEW t \in Nat
  PROVE  LET x == AddPlayer(r, c, t)
             s == FreeSeat(r)
         IN
         /\ Lasts(r, x) /\ s \in Seats /\ ~r.seated[s]
         /\ x.seated = Seat(r.seated, s, TRUE)
         /\ x.connected = Seat(r.connected, s, TRUE)
         /\ x.conn = Seat(r.conn, s, c)
         /\ x.deadline = Seat(r.deadline, s, NoTime)
         /\ x.status # "done"
         /\ \/ x.status = "playing" /\ x.running = Start(x) /\ x.turn = "A" /\ InTime(x)
            \/ x.status = r.status
<1> DEFINE s == FreeSeat(r)
           seat == [r EXCEPT !.seated[s] = TRUE, !.connected[s] = TRUE,
                             !.conn[s] = c, !.deadline[s] = NoTime]
           sat == Commit(seat, TRUE)
           clock == IF sat.connected["A"] THEN "A" ELSE NoSeat
           full == [x \in Seats |-> InitialClock]
           play == [sat EXCEPT !.status = "playing", !.turn = "A", !.ply = 0,
                               !.remaining = full, !.anchor = t, !.running = clock]
<1>0. r \in RoomType /\ r.status # "done"
  BY DEF Fine, CanAdd
<1>1. s \in Seats /\ ~r.seated[s] /\ Other(s) \in Seats
  BY <1>0, OtherSeat DEF CanAdd, FreeSeat, Seats
<1>1a. r.status # "playing"
  BY <1>0, <1>1 DEF Fine, Seats
<1>1b. r.status = "waiting" /\ r.ply = 0 /\ r.winner = NoSeat
  BY <1>0, <1>1a DEF Fine, RoomType
<1>2. AddPlayer(r, c, t) = IF sat.seated[Other(s)] THEN play ELSE sat
  BY DEF AddPlayer
<1> HIDE DEF s
<1>3. /\ seat \in RoomType
      /\ seat.seated = Seat(r.seated, s, TRUE)
      /\ seat.connected = Seat(r.connected, s, TRUE)
      /\ seat.conn = Seat(r.conn, s, c)
      /\ seat.deadline = Seat(r.deadline, s, NoTime)
      /\ seat.status = r.status /\ seat.winner = r.winner /\ seat.reason = r.reason
      /\ seat.ply = r.ply
  BY <1>0, <1>1 DEF Seat, RoomType
<1> HIDE DEF seat
<1>4. /\ sat \in RoomType /\ SameSeats(seat, sat)
      /\ sat.status = "waiting" /\ sat.winner = NoSeat /\ sat.reason = r.reason /\ sat.ply = 0
  BY <1>1b, <1>3, CommitIs
<1> HIDE DEF sat
<1>5. clock \in Seats \cup {NoSeat} /\ full \in [Seats -> 0 .. InitialClock]
      /\ \A x \in Seats : full[x] > 0
  BY ClockAssumption DEF Seats
<1> HIDE DEF full, clock
<1>6. /\ play \in RoomType /\ SameSeats(sat, play)
      /\ play.status = "playing" /\ play.winner = NoSeat /\ play.reason = r.reason
      /\ play.ply = 0 /\ play.turn = "A" /\ play.running = clock /\ play.remaining = full
  BY <1>4, <1>5 DEF RoomType, SameSeats, Seats
<1>7. play.running = Start(play) /\ InTime(play)
  BY <1>5, <1>6 DEF Start, SameSeats, InTime, clock
<1> HIDE DEF play
<1>8. sat.seated[s] /\ Other(s) \in Seats /\ (s = "A" \/ s = "B")
      /\ (s = "A" => Other(s) = "B") /\ (s = "B" => Other(s) = "A")
  BY <1>0, <1>1, <1>3, <1>4 DEF Seat, Seats, SameSeats, Other, RoomType
<1>9. CASE sat.seated[Other(s)]
  <2>1. play.seated["A"] /\ play.seated["B"]
    BY <1>6, <1>8, <1>9 DEF SameSeats
  <2>2. Lasts(r, play)
    BY <1>1b, <1>6, <2>1 DEF Lasts, Fine
  <2> QED  BY <1>1, <1>2, <1>3, <1>4, <1>6, <1>7, <1>9, <2>2 DEF SameSeats, s
<1>10. CASE ~sat.seated[Other(s)]
  <2>1. Lasts(r, sat)
    BY <1>1b, <1>4 DEF Lasts, Fine
  <2> QED  BY <1>1, <1>1b, <1>2, <1>3, <1>4, <1>10, <2>1 DEF SameSeats, s
<1> QED  BY <1>9, <1>10

LEMMA DisconnectPlayerIs ==
  ASSUME NEW r, Fine(r), NEW s \in Seats, NEW t \in Nat
  PROVE  LET x == DisconnectPlayer(r, s, t) IN
         /\ Lasts(r, x)
         /\ x.seated = r.seated /\ x.conn = r.conn
         /\ x.connected = Seat(r.connected, s, FALSE)
         /\ \/ /\ r.status # "done" /\ x.status = r.status /\ x.turn = r.turn
               /\ x.running = IF r.running = s THEN NoSeat ELSE r.running
               /\ x.deadline = Seat(r.deadline, s, t + ReconnectGrace)
               /\ InTime(r) => InTime(x)
            \/ x.status = "done" /\ (r.status = "done" \/ (ClockRuns(r) /\ FlagTime(r) <= t))
<1> DEFINE settled == SettleClock(r, t, TRUE)
           left == [r EXCEPT !.connected[s] = FALSE]
           gone == [settled EXCEPT !.connected[s] = FALSE]
           d == t + ReconnectGrace
           a == IF settled.running = s THEN t ELSE settled.anchor
           n == IF settled.running = s THEN NoSeat ELSE settled.running
           held == [gone EXCEPT !.deadline[s] = d, !.anchor = a, !.running = n]
           held0 == [gone EXCEPT !.deadline[s] = t + ReconnectGrace,
                                 !.anchor = IF settled.running = s THEN t ELSE @,
                                 !.running = IF @ = s THEN NoSeat ELSE @]
           x == DisconnectPlayer(r, s, t)
<1>0. r \in RoomType
  BY DEF Fine
<1>1. x = IF r.status = "done" THEN Commit(left, TRUE)
          ELSE IF settled.winner # NoSeat THEN Commit(gone, TRUE) ELSE Commit(held0, TRUE)
  BY DEF DisconnectPlayer
<1> HIDE DEF x
<1>2. /\ left \in RoomType /\ left.seated = r.seated /\ left.conn = r.conn
      /\ left.connected = Seat(r.connected, s, FALSE) /\ left.status = r.status
      /\ left.winner = r.winner /\ left.reason = r.reason /\ left.ply = r.ply
  BY <1>0 DEF Seat, RoomType
<1> HIDE DEF left
<1>3. /\ settled \in RoomType /\ SameSeats(r, settled)
      /\ GoesOn(r, settled, t) \/ RunsOut(r, settled, t)
  BY SettleClockIs
<1>3a. Lasts(r, settled) /\ Fine(settled)
  BY <1>3, SettleLasts DEF Lasts
<1> HIDE DEF settled
<1>4. d \in Nat /\ a \in Nat /\ n \in Seats \cup {NoSeat}
  BY <1>3, ClockAssumption DEF RoomType
<1>5. /\ gone \in RoomType /\ gone.seated = r.seated /\ gone.conn = r.conn
      /\ gone.connected = Seat(r.connected, s, FALSE) /\ gone.deadline = r.deadline
      /\ gone.status = settled.status /\ gone.winner = settled.winner
      /\ gone.reason = settled.reason /\ gone.ply = settled.ply /\ gone.turn = settled.turn
      /\ gone.remaining = settled.remaining
      /\ gone.anchor = settled.anchor /\ gone.running = settled.running
  BY <1>3 DEF Seat, RoomType, SameSeats
<1> HIDE DEF gone, d
<1>6. held0 = held
  BY <1>5 DEF RoomType, d
<1> HIDE DEF a, n, held0
<1>7. /\ held \in RoomType /\ held.seated = r.seated /\ held.conn = r.conn
      /\ held.connected = Seat(r.connected, s, FALSE)
      /\ held.deadline = Seat(r.deadline, s, d)
      /\ held.status = settled.status /\ held.winner = settled.winner
      /\ held.reason = settled.reason /\ held.ply = settled.ply /\ held.turn = settled.turn
      /\ held.remaining = settled.remaining /\ held.running = n
  BY <1>4, <1>5 DEF Seat, RoomType
<1> HIDE DEF held
<1>8. CASE r.status = "done"
  <2>1. x = Commit(left, TRUE)
    BY <1>1, <1>8
  <2>2. /\ x \in RoomType /\ SameSeats(left, x) /\ x.status = "done"
        /\ x.winner = r.winner /\ x.reason = r.reason /\ x.ply = r.ply
    BY <1>2, <1>8, <2>1, CommitIs
  <2>3. Lasts(r, x)
    <3>1. r.ply \in Nat /\ r.reason # NoSeat
      BY <1>0, <1>8 DEF RoomType, Fine
    <3> QED  BY <2>2, <3>1, GameOver
  <2> QED  BY <1>2, <1>8, <2>2, <2>3 DEF SameSeats, x
<1>9. CASE r.status # "done" /\ settled.winner # NoSeat
  <2>1. x = Commit(gone, TRUE)
    BY <1>1, <1>9
  <2>2. /\ x \in RoomType /\ SameSeats(gone, x) /\ x.status = settled.status
        /\ x.winner = settled.winner /\ x.reason = settled.reason /\ x.ply = settled.ply
    BY <1>5, <2>1, CommitIs
  <2>3. settled.status = "done" /\ ClockRuns(r) /\ FlagTime(r) <= t /\ settled.ply = r.ply
        /\ r.winner = NoSeat
    BY <1>3, <1>9 DEF GoesOn, RunsOut, Fine
  <2>4. Lasts(r, x)
    <3>1. r.ply \in Nat /\ settled.reason # NoSeat
      BY <1>0, <1>3, <1>9 DEF RoomType, GoesOn, RunsOut, Fine, NoSeat
    <3> QED  BY <2>2, <2>3, <3>1, GameOver
  <2> QED  BY <1>5, <2>2, <2>3, <2>4 DEF SameSeats, x
<1>10. CASE r.status # "done" /\ settled.winner = NoSeat
  <2>1. x = Commit(held, TRUE)
    BY <1>1, <1>6, <1>10
  <2>2. GoesOn(r, settled, t)
    BY <1>3, <1>10 DEF RunsOut, Seats, NoSeat
  <2>3. /\ x \in RoomType /\ SameSeats(held, x) /\ x.status = r.status
        /\ x.winner = r.winner /\ x.reason = r.reason /\ x.ply = r.ply /\ x.turn = r.turn
        /\ x.remaining = settled.remaining /\ x.running = n
    BY <1>7, <2>1, <2>2, CommitIs DEF GoesOn
  <2>4. x.seated = r.seated /\ x.conn = r.conn
        /\ x.connected = Seat(r.connected, s, FALSE)
        /\ x.deadline = Seat(r.deadline, s, t + ReconnectGrace)
    BY <1>7, <2>3 DEF SameSeats, d
  <2>5. Lasts(r, x)
    BY <2>3, <2>4, SameGame
  <2>6. x.running = IF r.running = s THEN NoSeat ELSE r.running
    BY <2>2, <2>3 DEF GoesOn, n
  <2>7. InTime(r) => InTime(x)
    BY <2>2, <2>3 DEF GoesOn, InTime
  <2> QED  BY <1>10, <2>3, <2>4, <2>5, <2>6, <2>7 DEF x
<1> QED  BY <1>8, <1>9, <1>10

LEMMA LeavePlayerIs ==
  ASSUME NEW r, Fine(r), NEW s \in Seats, NEW t \in Nat
  PROVE  LET x == LeavePlayer(r, s, t) IN Lasts(r, x) /\ x.status = "done"
<1> DEFINE settled == SettleClock(r, t, TRUE)
           gone == [settled EXCEPT !.connected[s] = FALSE, !.deadline[s] = NoTime,
                                   !.reason = "leave"]
           lost == [gone EXCEPT !.winner = Other(s)]
           x == LeavePlayer(r, s, t)
<1>1. x = IF settled.winner # NoSeat THEN settled
          ELSE IF settled.status = "waiting" THEN FinishTerminal(Commit(gone, TRUE))
          ELSE FinishTerminal(Commit(lost, TRUE))
  BY DEF LeavePlayer
<1> HIDE DEF x
<1>2. /\ settled \in RoomType /\ SameSeats(r, settled)
      /\ GoesOn(r, settled, t) \/ RunsOut(r, settled, t)
  BY SettleClockIs
<1>3. Lasts(r, settled) /\ settled.ply = r.ply /\ r.ply \in Nat
  BY <1>2, SettleLasts DEF GoesOn, RunsOut, Fine, RoomType
<1> HIDE DEF settled
<1>4. /\ gone \in RoomType /\ gone.ply = r.ply /\ gone.reason # NoSeat
      /\ lost \in RoomType /\ lost.ply = r.ply /\ lost.reason # NoSeat
  <2>1. gone \in RoomType /\ gone.ply = r.ply /\ gone.reason # NoSeat
    BY <1>2, <1>3 DEF RoomType, Reasons, NoSeat
  <2> HIDE DEF gone
  <2> QED  BY <2>1, OtherSeat DEF RoomType
<1> HIDE DEF gone, lost
<1>5. CASE settled.winner # NoSeat
  <2>1. settled.status = "done"
    BY <1>3, <1>5 DEF Lasts, Fine
  <2> QED  BY <1>1, <1>3, <1>5, <2>1 DEF x
<1>6. CASE settled.winner = NoSeat
  <2>1. PICK y \in {gone, lost} : x = FinishTerminal(Commit(y, TRUE))
    BY <1>1, <1>6
  <2>2. /\ Commit(y, TRUE) \in RoomType /\ Commit(y, TRUE).ply = r.ply
        /\ Commit(y, TRUE).reason # NoSeat
    <3>1. y \in RoomType /\ y.ply = r.ply /\ y.reason # NoSeat
      BY <1>4, <2>1
    <3> HIDE DEF x
    <3> QED  BY <3>1, CommitIs
  <2>3. x \in RoomType /\ x.status = "done" /\ x.ply = r.ply /\ x.reason # NoSeat
    BY <2>1, <2>2, FinishTerminalIs
  <2>4. r.winner = NoSeat
    BY <1>3, <1>6 DEF Lasts
  <2> QED  BY <1>3, <2>3, <2>4, GameOver DEF x
<1> QED  BY <1>5, <1>6

LEMMA ResumePlayerIs ==
  ASSUME NEW r, Fine(r), NEW c \in Conn, NEW s \in Seats, NEW t \in Nat
  PROVE  LET x == ResumePlayer(r, c, s, t) IN
         /\ Lasts(r, x)
         /\ x.seated = r.seated
         /\ x.connected = Seat(r.connected, s, TRUE)
         /\ x.conn = Seat(r.conn, s, c)
         /\ x.deadline = Seat(r.deadline, s, NoTime)
         /\ \/ /\ x.status = r.status /\ x.turn = r.turn /\ x.running = OnTurn(x)
               /\ InTime(r) => InTime(x)
            \/ x.status = "done"
<1> DEFINE settled == SettleClock(r, t, TRUE)
           back == [settled EXCEPT !.conn[s] = c, !.connected[s] = TRUE,
                                   !.deadline[s] = NoTime]
           n == IF back.connected[back.turn] THEN back.turn ELSE NoSeat
           runs == [back EXCEPT !.running = n, !.anchor = t]
           x == ResumePlayer(r, c, s, t)
<1>1. x = IF settled.winner # NoSeat THEN Commit(back, TRUE) ELSE Commit(runs, TRUE)
  BY DEF ResumePlayer
<1> HIDE DEF x
<1>2. /\ settled \in RoomType /\ SameSeats(r, settled)
      /\ GoesOn(r, settled, t) \/ RunsOut(r, settled, t)
  BY SettleClockIs
<1>3. Lasts(r, settled) /\ settled.ply = r.ply /\ r.ply \in Nat
  BY <1>2, SettleLasts DEF GoesOn, RunsOut, Fine, RoomType
<1> HIDE DEF settled
<1>4. /\ back \in RoomType /\ back.seated = r.seated
      /\ back.connected = Seat(r.connected, s, TRUE)
      /\ back.conn = Seat(r.conn, s, c)
      /\ back.deadline = Seat(r.deadline, s, NoTime)
      /\ back.status = settled.status /\ back.winner = settled.winner
      /\ back.reason = settled.reason /\ back.ply = r.ply /\ back.turn = settled.turn
      /\ back.remaining = settled.remaining
  BY <1>2, <1>3 DEF Seat, RoomType, SameSeats
<1> HIDE DEF back
<1>5. n \in Seats \cup {NoSeat} /\ n = OnTurn(back)
  BY <1>4 DEF RoomType, OnTurn
<1> HIDE DEF n
<1>6. /\ runs \in RoomType /\ SameSeats(back, runs)
      /\ runs.status = settled.status /\ runs.winner = settled.winner
      /\ runs.reason = settled.reason /\ runs.ply = r.ply /\ runs.turn = settled.turn
      /\ runs.remaining = settled.remaining /\ runs.running = n
  BY <1>4, <1>5 DEF RoomType, SameSeats
<1> HIDE DEF runs
<1>7. ASSUME NEW y \in {back, runs}, x = Commit(y, TRUE)
      PROVE  /\ Lasts(r, x)
             /\ x.seated = r.seated
             /\ x.connected = Seat(r.connected, s, TRUE)
             /\ x.conn = Seat(r.conn, s, c)
             /\ x.deadline = Seat(r.deadline, s, NoTime)
             /\ x.status = settled.status /\ x.turn = settled.turn
             /\ x.remaining = settled.remaining /\ x.running = y.running
  <2>1. /\ x \in RoomType /\ SameSeats(y, x)
        /\ x.status = y.status /\ x.winner = y.winner /\ x.reason = y.reason
        /\ x.ply = y.ply /\ x.turn = y.turn /\ x.remaining = y.remaining
        /\ x.running = y.running
    BY <1>4, <1>6, <1>7, CommitIs
  <2>2. /\ y.status = settled.status /\ y.winner = settled.winner
        /\ y.reason = settled.reason /\ y.ply = r.ply /\ y.turn = settled.turn
        /\ y.remaining = settled.remaining /\ SameSeats(back, y)
    BY <1>4, <1>6, <1>7 DEF SameSeats
  <2>3. x.seated = settled.seated /\ x.seated = r.seated
    BY <1>2, <1>4, <2>1, <2>2 DEF SameSeats
  <2>4. Lasts(settled, x)
    BY <1>3, <2>1, <2>2, <2>3, SameGame DEF Lasts, Fine, RoomType
  <2>5. Lasts(r, x)
    BY <1>3, <2>4, LastsTransitive
  <2> QED  BY <1>4, <2>1, <2>2, <2>5 DEF SameSeats
<1>8. CASE settled.winner # NoSeat
  <2>1. settled.status = "done"
    BY <1>3, <1>8 DEF Lasts, Fine
  <2> QED  BY <1>1, <1>7, <1>8, <2>1 DEF x
<1>9. CASE settled.winner = NoSeat
  <2>1. GoesOn(r, settled, t)
    BY <1>2, <1>9 DEF RunsOut, Seats, NoSeat
  <2>2. x = Commit(runs, TRUE)
    BY <1>1, <1>9
  <2>3. x.running = OnTurn(x)
    BY <1>4, <1>5, <1>6, <1>7, <2>2 DEF OnTurn
  <2>4. InTime(r) => InTime(x)
    BY <1>7, <2>1, <2>2 DEF GoesOn, InTime
  <2> QED  BY <1>7, <2>1, <2>2, <2>3, <2>4 DEF GoesOn, x
<1> QED  BY <1>8, <1>9

LEMMA ApplyMoveIs ==
  ASSUME NEW r, Fine(r), r.status = "playing", NEW s \in Seats, NEW v \in Verdicts, NEW t \in Nat
  PROVE  LET x == ApplyMove(r, s, v, t) IN
         /\ Lasts(r, x) /\ SameSeats(r, x)
         /\ \/ x.status = "done"
            \/ /\ x.status = "playing" /\ x.running = OnTurn(x)
               /\ InTime(r) => InTime(x)
<1> DEFINE n == r.ply + 1
           o == Other(s)
           won == [r EXCEPT !.ply = n, !.winner = s, !.reason = v, !.anchor = t]
           clock == IF r.connected[o] THEN o ELSE NoSeat
           moved == [r EXCEPT !.ply = n, !.turn = o, !.anchor = t, !.running = clock]
           x == ApplyMove(r, s, v, t)
<1>0. r \in RoomType /\ r.winner = NoSeat
  BY DEF Fine
<1>1. n \in Nat /\ n >= r.ply /\ o \in Seats
  BY <1>0, OtherSeat DEF RoomType
<1>2. x = IF v \in BoardWins THEN FinishTerminal(won) ELSE moved
  BY <1>0 DEF ApplyMove, RoomType
<1> HIDE DEF x, n, o
<1>3. CASE v \in BoardWins
  <2>1. won \in RoomType /\ won.ply = n /\ SameSeats(r, won) /\ won.reason # NoSeat
    BY <1>0, <1>1, <1>3 DEF RoomType, Reasons, SameSeats, BoardWins, NoSeat
  <2> HIDE DEF won
  <2>2. x \in RoomType /\ SameSeats(r, x) /\ x.status = "done" /\ x.ply = n /\ x.reason # NoSeat
    BY <1>2, <1>3, <2>1, FinishTerminalIs DEF SameSeats
  <2> QED  BY <1>0, <1>1, <2>2, GameOver DEF x
<1>4. CASE v \notin BoardWins
  <2>1. clock \in Seats \cup {NoSeat}
    BY <1>1
  <2> HIDE DEF clock
  <2>2. /\ moved \in RoomType /\ SameSeats(r, moved) /\ moved.status = r.status
        /\ moved.winner = r.winner /\ moved.ply = n /\ moved.turn = o
        /\ moved.running = clock /\ moved.remaining = r.remaining
    BY <1>0, <1>1, <2>1 DEF RoomType, SameSeats
  <2> HIDE DEF moved
  <2>3. moved.running = OnTurn(moved)
    BY <2>2 DEF OnTurn, SameSeats, clock
  <2>4. Lasts(r, moved)
    BY <1>0, <1>1, <2>2 DEF Lasts, Fine, SameSeats
  <2> QED  BY <1>2, <1>4, <2>2, <2>3, <2>4 DEF InTime, x
<1> QED  BY <1>3, <1>4

LEMMA HandleMoveIs ==
  ASSUME NEW r, Fine(r), NEW s \in Seats, NEW m \in Moves, NEW e \in Nat \cup {NoRevision},
         NEW v \in Verdicts, NEW t \in Nat
  PROVE  LET x == HandleMove(r, s, m, e, v, t) IN
         /\ Lasts(r, x) /\ SameSeats(r, x)
         /\ \/ x = r
            \/ GoesOn(r, x, t)
            \/ r.status = "playing" /\ x.status = "done"
            \/ /\ r.status = "playing" /\ x.status = "playing" /\ x.running = OnTurn(x)
               /\ InTime(r) => InTime(x)
<1> DEFINE settled == SettleClock(r, t, FALSE)
           moved == Commit(ApplyMove(settled, s, v, t), TRUE)
           last == [seat |-> s, move |-> m, before |-> settled.revision,
                    structuralBefore |-> settled.structural, expected |-> e]
           noted == [moved EXCEPT !.lastMove = last]
           x == HandleMove(r, s, m, e, v, t)
<1>1. x = IF IsDuplicate(r, s, m, e) \/ r.status # "playing" \/ IsStale(r, e) THEN r
          ELSE IF settled.winner # NoSeat THEN Commit(settled, TRUE)
          ELSE IF settled.turn # s \/ v = "illegal" THEN settled
          ELSE noted
  BY DEF HandleMove
<1> HIDE DEF x
<1>2. /\ settled \in RoomType /\ SameSeats(r, settled)
      /\ GoesOn(r, settled, t) \/ RunsOut(r, settled, t)
  BY SettleClockIs
<1>3. Lasts(r, settled) /\ Fine(settled)
  BY <1>2, SettleLasts DEF Lasts
<1> HIDE DEF settled
<1>4. CASE x = r
  BY <1>4, LastsReflexive DEF SameSeats, x
<1>5. CASE r.status = "playing" /\ settled.winner # NoSeat /\ x = Commit(settled, TRUE)
  <2>1. /\ x \in RoomType /\ SameSeats(settled, x) /\ x.status = settled.status
        /\ x.winner = settled.winner /\ x.reason = settled.reason /\ x.ply = settled.ply
    BY <1>2, <1>5, CommitIs
  <2>2. Lasts(settled, x)
    BY <1>3, <2>1, SameGame DEF SameSeats
  <2>3. settled.status = "done"
    BY <1>3, <1>5 DEF Fine
  <2> QED  BY <1>2, <1>3, <1>5, <2>1, <2>2, <2>3, LastsTransitive DEF SameSeats, x
<1>6. CASE r.status = "playing" /\ settled.winner = NoSeat /\ x = settled
  <2>1. GoesOn(r, settled, t)
    BY <1>2, <1>6 DEF RunsOut, Seats, NoSeat
  <2> QED  BY <1>2, <1>3, <1>6, <2>1 DEF x
<1>7. CASE r.status = "playing" /\ settled.winner = NoSeat /\ x = noted
  <2> DEFINE y == ApplyMove(settled, s, v, t)
  <2>1. GoesOn(r, settled, t) /\ settled.status = "playing"
    BY <1>2, <1>7 DEF RunsOut, GoesOn, Seats, NoSeat
  <2>2. /\ Lasts(settled, y) /\ SameSeats(settled, y)
        /\ \/ y.status = "done"
           \/ /\ y.status = "playing" /\ y.running = OnTurn(y)
              /\ InTime(settled) => InTime(y)
    BY <1>3, <2>1, ApplyMoveIs
  <2> HIDE DEF y
  <2>3. y \in RoomType
    BY <2>2 DEF Lasts, Fine
  <2>4. /\ moved \in RoomType /\ SameSeats(y, moved)
        /\ moved.status = y.status /\ moved.winner = y.winner /\ moved.reason = y.reason
        /\ moved.ply = y.ply /\ moved.turn = y.turn /\ moved.remaining = y.remaining
        /\ moved.running = y.running
    BY <2>3, CommitIs DEF y
  <2> HIDE DEF moved
  <2>5. last \in LastMoveType
    BY <1>2 DEF LastMoveType, RoomType
  <2> HIDE DEF last
  <2>6. /\ noted \in RoomType /\ SameSeats(y, noted)
        /\ noted.status = y.status /\ noted.winner = y.winner /\ noted.reason = y.reason
        /\ noted.ply = y.ply /\ noted.turn = y.turn /\ noted.remaining = y.remaining
        /\ noted.running = y.running
    BY <2>4, <2>5 DEF RoomType, SameSeats
  <2> HIDE DEF noted
  <2>7. Fine(y)
    BY <2>2 DEF Lasts
  <2>8. Lasts(y, noted)
    BY <2>6, <2>7, SameGame DEF SameSeats
  <2>9. Lasts(r, noted)
    BY <1>3, <2>2, <2>8, LastsTransitive
  <2>10. SameSeats(r, noted)
    BY <1>2, <2>2, <2>6 DEF SameSeats
  <2>11. y.status = "playing" => noted.running = OnTurn(noted)
                                 /\ (InTime(r) => InTime(noted))
    BY <2>1, <2>2, <2>6 DEF OnTurn, InTime, GoesOn, SameSeats
  <2> QED  BY <1>7, <2>2, <2>6, <2>9, <2>10, <2>11 DEF x
<1> QED  BY <1>1, <1>4, <1>5, <1>6, <1>7

-----------------------------------------------------------------------------
(* Grace periods and restarts.                                              *)

LEMMA ExpireWaitingCreatorIs ==
  ASSUME NEW r, Fine(r), NEW t \in Nat
  PROVE  LET x == ExpireWaitingCreator(r, t) IN
         /\ Lasts(r, x)
         /\ x = r \/ (r.status = "waiting" /\ x.status = "done")
<1> DEFINE over == [r EXCEPT !.status = "done", !.reason = "disconnect_timeout",
                             !.running = NoSeat]
           x == ExpireWaitingCreator(r, t)
<1>0. r \in RoomType
  BY DEF Fine
<1>1. x = r \/ (r.status = "waiting" /\ x = Commit(over, TRUE))
  BY DEF ExpireWaitingCreator
<1> HIDE DEF x
<1>2. /\ over \in RoomType /\ over.status = "done" /\ over.ply = r.ply
      /\ over.reason # NoSeat
  BY <1>0 DEF RoomType, Reasons, NoSeat
<1> HIDE DEF over
<1>3. CASE x = r
  BY <1>3, LastsReflexive DEF x
<1>4. CASE r.status = "waiting" /\ x = Commit(over, TRUE)
  <2>1. x \in RoomType /\ x.status = "done" /\ x.ply = r.ply /\ x.reason # NoSeat
    BY <1>2, <1>4, CommitIs
  <2>2. Lasts(r, x)
    <3>1. r.ply \in Nat
      BY <1>0 DEF RoomType
    <3>2. x.ply >= r.ply
      BY <2>1, <3>1
    <3>3. r.winner = NoSeat
      BY <1>4 DEF Fine
    <3> QED  BY <2>1, <3>2, <3>3, GameOver
  <2> QED  BY <1>4, <2>1, <2>2 DEF x
<1> QED  BY <1>1, <1>3, <1>4

LEMMA ExpireReconnectIs ==
  ASSUME NEW r, Fine(r), NEW t \in Nat
  PROVE  LET x == ExpireReconnect(r, t) IN
         /\ Lasts(r, x)
         /\ x = r \/ (r.status = "playing" /\ x.status = "done")
<1> DEFINE settled == SettleClock(r, t, TRUE)
           w == Other(GraceLoser(settled, t))
           lost == [settled EXCEPT !.winner = w, !.reason = "disconnect_timeout"]
           x == ExpireReconnect(r, t)
<1>1. \/ x = r
      \/ r.status = "playing" /\ settled.winner # NoSeat /\ x = settled
      \/ r.status = "playing" /\ settled.winner = NoSeat
         /\ x = FinishTerminal(Commit(lost, TRUE))
  BY DEF ExpireReconnect
<1> HIDE DEF x
<1>2. /\ settled \in RoomType /\ SameSeats(r, settled)
      /\ GoesOn(r, settled, t) \/ RunsOut(r, settled, t)
  BY SettleClockIs
<1>3. Lasts(r, settled) /\ Fine(settled) /\ settled.ply = r.ply /\ r.ply \in Nat
  BY <1>2, SettleLasts DEF Lasts, GoesOn, RunsOut, Fine, RoomType
<1> HIDE DEF settled
<1>4. CASE x = r
  BY <1>4, LastsReflexive DEF x
<1>5. CASE r.status = "playing" /\ settled.winner # NoSeat /\ x = settled
  BY <1>3, <1>5 DEF Fine, x
<1>6. CASE r.status = "playing" /\ settled.winner = NoSeat
           /\ x = FinishTerminal(Commit(lost, TRUE))
  <2>1. w \in Seats
    <3>1. GraceLoser(settled, t) \in Seats
      BY <1>2 DEF GraceLoser, TieBreakGraceLoser, RoomType, Seats
    <3> QED  BY <3>1, OtherSeat
  <2> HIDE DEF w
  <2>2. lost \in RoomType /\ lost.ply = r.ply /\ lost.reason # NoSeat
    BY <1>2, <1>3, <2>1 DEF RoomType, Reasons, NoSeat
  <2> HIDE DEF lost
  <2>3. /\ Commit(lost, TRUE) \in RoomType /\ Commit(lost, TRUE).ply = r.ply
        /\ Commit(lost, TRUE).reason # NoSeat
    BY <2>2, CommitIs
  <2>4. x \in RoomType /\ x.status = "done" /\ x.ply = r.ply /\ x.reason # NoSeat
    BY <1>6, <2>3, FinishTerminalIs
  <2>5. Lasts(r, x)
    <3>1. x.ply >= r.ply
      BY <1>3, <2>4
    <3>2. r.winner = NoSeat
      BY <1>6 DEF Fine
    <3> QED  BY <2>4, <3>1, <3>2, GameOver
  <2> QED  BY <1>6, <2>4, <2>5 DEF x
<1> QED  BY <1>1, <1>4, <1>5, <1>6

LEMMA ReconcileHydrationIs ==
  ASSUME NEW r, Fine(r), NEW t \in Nat, NEW here \in SUBSET Seats
  PROVE  LET x == ReconcileHydration(r, t, here)
             lost == {s \in Seats : r.seated[s] /\ r.connected[s] /\ s \notin here}
         IN
         /\ Lasts(r, x)
         /\ x.seated = r.seated /\ x.conn = r.conn /\ x.status = r.status
         /\ \/ x = r /\ (r.status = "done" \/ lost = {})
            \/ /\ r.status # "done"
               /\ x.connected = [s \in Seats |-> s \notin lost /\ r.connected[s]]
               /\ x.deadline = [s \in Seats |-> IF s \in lost THEN t + ReconnectGrace
                                                 ELSE r.deadline[s]]
               /\ x.remaining = r.remaining
               /\ x.running = IF ClockRuns(r) THEN NoSeat ELSE r.running
               /\ lost # {}
<1> DEFINE lost == {s \in Seats : r.seated[s] /\ r.connected[s] /\ s \notin here}
           con == [s \in Seats |-> s \notin lost /\ r.connected[s]]
           dead == [s \in Seats |-> IF s \in lost THEN t + ReconnectGrace ELSE r.deadline[s]]
           gone == [r EXCEPT !.connected = con, !.deadline = dead]
           stopped == [gone EXCEPT !.running = NoSeat, !.anchor = t]
           x == ReconcileHydration(r, t, here)
<1>0. r \in RoomType
  BY DEF Fine
<1>1. x = IF r.status = "done" \/ lost = {} THEN r
          ELSE Commit(IF ClockRuns(r) THEN stopped ELSE gone, TRUE)
  BY <1>0 DEF ReconcileHydration, RoomType
<1> HIDE DEF x
<1>2. con \in [Seats -> BOOLEAN] /\ dead \in [Seats -> Nat \cup {NoTime}]
  BY <1>0, ClockAssumption DEF RoomType
<1> HIDE DEF con, dead
<1>3. /\ gone \in RoomType /\ gone.seated = r.seated /\ gone.conn = r.conn
      /\ gone.status = r.status /\ gone.winner = r.winner /\ gone.reason = r.reason
      /\ gone.ply = r.ply /\ gone.connected = con /\ gone.deadline = dead
      /\ gone.remaining = r.remaining /\ gone.running = r.running
  BY <1>0, <1>2 DEF RoomType
<1> HIDE DEF gone
<1>4. /\ stopped \in RoomType /\ stopped.seated = r.seated /\ stopped.conn = r.conn
      /\ stopped.status = r.status /\ stopped.winner = r.winner /\ stopped.reason = r.reason
      /\ stopped.ply = r.ply /\ stopped.connected = con /\ stopped.deadline = dead
      /\ stopped.remaining = r.remaining /\ stopped.running = NoSeat
  BY <1>3 DEF RoomType
<1> HIDE DEF stopped
<1>5. CASE r.status = "done" \/ lost = {}
  BY <1>1, <1>5, LastsReflexive DEF x
<1>6. CASE ~(r.status = "done" \/ lost = {})
  <2> DEFINE y == IF ClockRuns(r) THEN stopped ELSE gone
  <2>1. /\ y \in RoomType /\ y.seated = r.seated /\ y.conn = r.conn
        /\ y.status = r.status /\ y.winner = r.winner /\ y.reason = r.reason
        /\ y.ply = r.ply /\ y.connected = con /\ y.deadline = dead
        /\ y.remaining = r.remaining
        /\ y.running = IF ClockRuns(r) THEN NoSeat ELSE r.running
    BY <1>3, <1>4
  <2>2. x = Commit(y, TRUE)
    BY <1>1, <1>6
  <2> HIDE DEF y
  <2>3. /\ x \in RoomType /\ SameSeats(y, x) /\ x.status = y.status /\ x.winner = y.winner
        /\ x.reason = y.reason /\ x.ply = y.ply /\ x.remaining = y.remaining
        /\ x.running = y.running
    BY <2>1, <2>2, CommitIs
  <2>4. Lasts(r, x)
    BY <2>1, <2>3, SameGame DEF SameSeats
  <2> QED  BY <1>6, <2>1, <2>3, <2>4 DEF SameSeats, x, con, dead
<1> QED  BY <1>5, <1>6

-----------------------------------------------------------------------------
(* The room in storage.                                                     *)

\* What SameSeats says of seats, this says of the game.
SamePlay(r, x) ==
  /\ x.seated = r.seated /\ x.status = r.status /\ x.turn = r.turn /\ x.ply = r.ply
  /\ x.winner = r.winner /\ x.reason = r.reason
  /\ x.running = r.running /\ x.anchor = r.anchor /\ x.remaining = r.remaining

LEMMA SerializedIs ==
  ASSUME NEW r, Fine(r)
  PROVE  LET x == Serialized(r) IN
         /\ Lasts(r, x) /\ SamePlay(r, x)
         /\ x.connected = r.connected /\ x.deadline = r.deadline
         /\ x.conn = [s \in Seats |-> NoConn]
<1> DEFINE none == [s \in Seats |-> NoConn]
           x == [r EXCEPT !.conn = none, !.lastMove = NoLastMove]
<1>1. r \in RoomType /\ none \in [Seats -> Conn \cup {NoConn}]
  BY DEF Fine
<1>2. NoLastMove \in LastMoveType
  BY DEF NoLastMove, LastMoveType, NoRevision
<1>3. x = Serialized(r)
  BY DEF Serialized
<1> HIDE DEF none
<1>4. /\ x \in RoomType /\ SamePlay(r, x)
      /\ x.connected = r.connected /\ x.deadline = r.deadline /\ x.conn = none
  BY <1>1, <1>2 DEF RoomType, SamePlay
<1> HIDE DEF x
<1>5. Lasts(r, x)
  BY <1>4, SameGame DEF SamePlay
<1> QED  BY <1>3, <1>4, <1>5 DEF none

LEMMA WithLiveIs ==
  ASSUME NEW r, Fine(r), NEW live \in [Seats -> Conn \cup {NoConn}]
  PROVE  LET x == WithLive(Hydrated(r), live) IN
         /\ Lasts(r, x) /\ SamePlay(r, x)
         /\ x.connected = [s \in Seats |-> r.seated[s] /\ live[s] # NoConn]
         /\ x.deadline = [s \in Seats |-> IF r.seated[s] /\ live[s] # NoConn THEN NoTime
                                           ELSE r.deadline[s]]
         /\ x.conn = live
<1> DEFINE off == [s \in Seats |-> FALSE]
           h == [r EXCEPT !.connected = off]
           con == [s \in Seats |-> h.seated[s] /\ live[s] # NoConn]
           dead == [s \in Seats |-> IF h.seated[s] /\ live[s] # NoConn THEN NoTime
                                    ELSE h.deadline[s]]
           x == [h EXCEPT !.connected = con, !.conn = live, !.deadline = dead]
<1>1. r \in RoomType /\ off \in [Seats -> BOOLEAN]
  BY DEF Fine
<1>2. h = Hydrated(r)
  BY DEF Hydrated
<1> HIDE DEF off
<1>3. /\ h \in RoomType /\ SamePlay(r, h) /\ h.deadline = r.deadline
  BY <1>1 DEF RoomType, SamePlay
<1>4. x = WithLive(h, live)
  BY <1>3 DEF WithLive, RoomType
<1> HIDE DEF h
<1>5. con \in [Seats -> BOOLEAN] /\ dead \in [Seats -> Nat \cup {NoTime}]
  BY <1>3 DEF RoomType
<1>6. /\ con = [s \in Seats |-> r.seated[s] /\ live[s] # NoConn]
      /\ dead = [s \in Seats |-> IF r.seated[s] /\ live[s] # NoConn THEN NoTime
                                 ELSE r.deadline[s]]
  BY <1>3 DEF SamePlay
<1> HIDE DEF con, dead
<1>7. /\ x \in RoomType /\ SamePlay(h, x)
      /\ x.connected = con /\ x.deadline = dead /\ x.conn = live
  BY <1>3, <1>5 DEF RoomType, SamePlay
<1> HIDE DEF x
<1>8. SamePlay(r, x)
  BY <1>3, <1>7 DEF SamePlay
<1>9. Lasts(r, x)
  BY <1>7, <1>8, SameGame DEF SamePlay
<1> QED  BY <1>2, <1>4, <1>6, <1>7, <1>8, <1>9

-----------------------------------------------------------------------------
(* The adapter.                                                             *)

\* The adapter and its storage, and the rooms they hold.
Adapter(g) ==
  /\ \E C \in SUBSET Conn : g \in GameType(C)
  /\ Fine(g.room) /\ Fine(g.saved)
  /\ \A c \in DOMAIN g.provisional : Fine(g.provisional[c].room)

\* What most steps of the adapter leave alone.
SameState(g, h) ==
  /\ h.loaded = g.loaded /\ h.provisional = g.provisional
  /\ h.terminal = g.terminal /\ h.gcAt = g.gcAt /\ h.consumed = g.consumed
  /\ h.wiped = g.wiped

LEMMA SmallestOf ==
  ASSUME NEW S \in SUBSET Nat, S # {}
  PROVE  Least(S) \in S /\ \A y \in S : Least(S) <= y
<1> DEFINE Less == OpToRel(<, Nat)
<1>1. IsWellFoundedOn(Less, Nat)
  BY NatLessThanWellFounded
<1>2. \A x, y \in Nat : <<y, x>> \in Less <=> y < x
  BY DEF OpToRel
<1> HIDE DEF Less
<1>3. PICK x \in S : \A y \in S : ~ (<<y, x>> \in Less)
  BY <1>1, WFMin
<1>4. ASSUME NEW y \in S  PROVE x <= y
  <2>1. x \in Nat /\ y \in Nat
    OBVIOUS
  <2>2. ~(y < x)
    BY <1>2, <1>3, <2>1
  <2> QED  BY <2>1, <2>2
<1> QED  BY <1>4 DEF Least

LEMMA DeadlinesAreTimes ==
  ASSUME NEW g, Adapter(g)
  PROVE  LifecycleDeadlines(g) \subseteq Nat
<1> DEFINE r == g.room
<1>1. r \in RoomType
  BY DEF Adapter, Fine
<1>2. ClockRuns(r) => r.anchor + r.remaining[r.running] \in Nat
  BY <1>1, ClockAssumption DEF ClockRuns, RoomType
<1>3. \A s \in Seats : r.deadline[s] # NoTime => r.deadline[s] \in Nat
  BY <1>1 DEF RoomType
<1>4. CreatorDeadline \in Nat
  BY DurableAssumption
<1> QED  BY <1>2, <1>3, <1>4 DEF LifecycleDeadlines

\* What scheduleAlarm sets the alarm to.
Timer(g, t) ==
  IF g.terminal # NoSeat THEN g.gcAt
  ELSE IF g.room.status = "done" THEN t + AlarmRetry
  ELSE IF LifecycleDeadlines(g) = {} THEN NoTime
  ELSE NotBefore(t, Least(LifecycleDeadlines(g)))

LEMMA SameTimer ==
  ASSUME NEW g, NEW h, NEW t, h.room = g.room,
         h.terminal = g.terminal, h.gcAt = g.gcAt, h.consumed = g.consumed
  PROVE  /\ LifecycleDeadlines(h) = LifecycleDeadlines(g)
         /\ Timer(h, t) = Timer(g, t)
<1>1. LifecycleDeadlines(h) = LifecycleDeadlines(g)
  BY DEF LifecycleDeadlines, AwaitsCreator
<1> QED  BY <1>1 DEF Timer

LEMMA ScheduledIs ==
  ASSUME NEW g, Adapter(g), NEW t \in Nat
  PROVE  LET h == Scheduled(g, t) IN
         /\ Adapter(h) /\ SameState(g, h)
         /\ h.room = g.room /\ h.saved = g.saved /\ h.down = g.down
         /\ h.retry = g.retry /\ h.emitted = g.emitted
         /\ h.alarm = Timer(h, t)
<1> DEFINE D == LifecycleDeadlines(g)
           a == Timer(g, t)
           h == [g EXCEPT !.alarm = a]
<1>1. PICK C \in SUBSET Conn : g \in GameType(C)
  BY DEF Adapter
<1>2. a \in Nat \cup {NoTime}
  <2>1. g.gcAt \in Nat \cup {NoTime} /\ t + AlarmRetry \in Nat
    BY <1>1, DurableAssumption DEF GameType
  <2>2. D # {} => Least(D) \in Nat
    BY DeadlinesAreTimes, SmallestOf
  <2>3. D # {} => NotBefore(t, Least(D)) \in Nat
    BY <2>2 DEF NotBefore
  <2> QED  BY <2>1, <2>3 DEF Timer
<1>3. h = Scheduled(g, t)
  BY DEF Scheduled, Timer
<1> HIDE DEF a
<1>4. /\ h \in GameType(C) /\ SameState(g, h)
      /\ h.room = g.room /\ h.saved = g.saved /\ h.down = g.down
      /\ h.retry = g.retry /\ h.emitted = g.emitted /\ h.alarm = a
  BY <1>1, <1>2 DEF GameType, SameState
<1> HIDE DEF h
<1>5. Adapter(h)
  BY <1>4 DEF Adapter, SameState
<1>6. Timer(h, t) = a
  BY <1>4, SameTimer DEF a, SameState
<1> QED  BY <1>3, <1>4, <1>5, <1>6

LEMMA PersistedIs ==
  ASSUME NEW g, Adapter(g)
  PROVE  LET h == Persisted(g) IN
         /\ Adapter(h) /\ SameState(g, h)
         /\ h.room = g.room /\ h.saved = Serialized(g.room) /\ h.down = g.down
         /\ h.retry = g.retry /\ h.emitted = g.emitted /\ h.alarm = g.alarm
<1> DEFINE v == Serialized(g.room)
           h == [g EXCEPT !.saved = v]
<1>1. PICK C \in SUBSET Conn : g \in GameType(C)
  BY DEF Adapter
<1>2. Fine(v) /\ v \in RoomType
  BY SerializedIs DEF Adapter, Lasts, Fine
<1>3. h = Persisted(g)
  BY DEF Persisted
<1> HIDE DEF v
<1>4. /\ h \in GameType(C) /\ SameState(g, h)
      /\ h.room = g.room /\ h.saved = v /\ h.down = g.down
      /\ h.retry = g.retry /\ h.emitted = g.emitted /\ h.alarm = g.alarm
  BY <1>1, <1>2 DEF GameType, SameState
<1> HIDE DEF h
<1>5. Adapter(h)
  BY <1>2, <1>4 DEF Adapter, SameState
<1> QED  BY <1>3, <1>4, <1>5 DEF v

LEMMA RoomChanged ==
  ASSUME NEW g, Adapter(g), NEW r, Fine(r)
  PROVE  LET h == [g EXCEPT !.room = r] IN
         /\ Adapter(h) /\ SameState(g, h)
         /\ h.room = r /\ h.saved = g.saved /\ h.down = g.down
         /\ h.retry = g.retry /\ h.emitted = g.emitted /\ h.alarm = g.alarm
<1> DEFINE h == [g EXCEPT !.room = r]
<1>1. PICK C \in SUBSET Conn : g \in GameType(C)
  BY DEF Adapter
<1>2. r \in RoomType
  BY DEF Fine
<1>3. /\ h \in GameType(C) /\ SameState(g, h)
      /\ h.room = r /\ h.saved = g.saved /\ h.down = g.down
      /\ h.retry = g.retry /\ h.emitted = g.emitted /\ h.alarm = g.alarm
  BY <1>1, <1>2 DEF GameType, SameState
<1> HIDE DEF h
<1>4. Adapter(h)
  BY <1>3 DEF Adapter, SameState
<1> QED  BY <1>3, <1>4 DEF h

LEMMA PayloadIs ==
  ASSUME NEW r, Fine(r), NEW t \in Nat
  PROVE  LET x == Payload(r, t) IN
         /\ Lasts(r, x) /\ SameSeats(r, x)
         /\ GoesOn(r, x, t) \/ RunsOut(r, x, t)
<1> DEFINE x == SettleClock(r, t, TRUE)
<1>1. x \in RoomType /\ SameSeats(r, x) /\ (GoesOn(r, x, t) \/ RunsOut(r, x, t))
  BY SettleClockIs
<1> HIDE DEF x
<1>2. Lasts(r, x)
  BY <1>1, SettleLasts
<1> QED  BY <1>1, <1>2 DEF Payload, x

LEMMA MutatedIs ==
  ASSUME NEW g, Adapter(g), NEW after, Fine(after), NEW t \in Nat, NEW write
  PROVE  LET h == Mutated(g, after, t, write) IN
         /\ Adapter(h) /\ SameState(g, h)
         /\ h.retry = g.retry /\ h.emitted = g.emitted
         /\ h.room = Payload(after, t)
         /\ \/ /\ write = "put_fails" /\ h.down
               /\ h.saved = g.saved /\ h.alarm = g.alarm
            \/ /\ write = "alarm_fails" /\ (h.down <=> h.room.status # "done")
               /\ h.saved = Serialized(h.room) /\ h.alarm = g.alarm
            \/ /\ write # "put_fails" /\ write # "alarm_fails" /\ h.down = g.down
               /\ h.saved = Serialized(h.room) /\ h.alarm = Timer(h, t)
<1> DEFINE r == Payload(after, t)
           changed == [g EXCEPT !.room = r]
           kept == Persisted(changed)
           d == changed.room.status # "done"
           h == Mutated(g, after, t, write)
<1>1. h = IF write = "put_fails" THEN [changed EXCEPT !.down = TRUE]
          ELSE IF write = "alarm_fails" THEN [kept EXCEPT !.down = d]
          ELSE Scheduled(kept, t)
  BY DEF Mutated
<1>2. Fine(r)
  BY PayloadIs DEF Lasts
<1> HIDE DEF h, r
<1>3. /\ Adapter(changed) /\ SameState(g, changed)
      /\ changed.room = r /\ changed.saved = g.saved /\ changed.down = g.down
      /\ changed.retry = g.retry /\ changed.emitted = g.emitted /\ changed.alarm = g.alarm
  BY <1>2, RoomChanged
<1> HIDE DEF changed
<1>4. /\ Adapter(kept) /\ SameState(g, kept)
      /\ kept.room = r /\ kept.saved = Serialized(r) /\ kept.down = g.down
      /\ kept.retry = g.retry /\ kept.emitted = g.emitted /\ kept.alarm = g.alarm
  BY <1>3, PersistedIs DEF SameState
<1> HIDE DEF kept
<1>5. ASSUME NEW x, Adapter(x), NEW b \in BOOLEAN
      PROVE  LET y == [x EXCEPT !.down = b] IN
             /\ Adapter(y) /\ SameState(x, y) /\ y.down = b
             /\ y.room = x.room /\ y.saved = x.saved
             /\ y.retry = x.retry /\ y.emitted = x.emitted /\ y.alarm = x.alarm
  <2> DEFINE y == [x EXCEPT !.down = b]
  <2>1. PICK C \in SUBSET Conn : x \in GameType(C)
    BY <1>5 DEF Adapter
  <2>2. /\ y \in GameType(C) /\ SameState(x, y) /\ y.down = b
        /\ y.room = x.room /\ y.saved = x.saved
        /\ y.retry = x.retry /\ y.emitted = x.emitted /\ y.alarm = x.alarm
    BY <2>1 DEF GameType, SameState
  <2> HIDE DEF y
  <2>3. Adapter(y)
    BY <1>5, <2>2 DEF Adapter, SameState
  <2> QED  BY <2>2, <2>3 DEF y
<1>6. CASE write = "put_fails"
  <2>1. h = [changed EXCEPT !.down = TRUE]
    BY <1>1, <1>6
  <2>2. /\ Adapter(h) /\ SameState(changed, h) /\ h.down = TRUE
        /\ h.room = changed.room /\ h.saved = changed.saved
        /\ h.retry = changed.retry /\ h.emitted = changed.emitted /\ h.alarm = changed.alarm
    BY <1>3, <1>5, <2>1
  <2> QED  BY <1>3, <1>6, <2>2 DEF SameState, h, r
<1>7. CASE write = "alarm_fails"
  <2>1. h = [kept EXCEPT !.down = d]
    BY <1>1, <1>7
  <2>2. d \in BOOLEAN
    OBVIOUS
  <2> HIDE DEF d
  <2>3. /\ Adapter(h) /\ SameState(kept, h) /\ h.down = d
        /\ h.room = kept.room /\ h.saved = kept.saved
        /\ h.retry = kept.retry /\ h.emitted = kept.emitted /\ h.alarm = kept.alarm
    BY <1>4, <1>5, <2>1, <2>2
  <2>4. d = (h.room.status # "done")
    BY <1>3, <1>4, <2>3 DEF d
  <2> QED  BY <1>4, <1>7, <2>3, <2>4 DEF SameState, h, r
<1>8. CASE write # "put_fails" /\ write # "alarm_fails"
  <2>1. h = Scheduled(kept, t)
    BY <1>1, <1>8
  <2>2. /\ Adapter(h) /\ SameState(kept, h)
        /\ h.room = kept.room /\ h.saved = kept.saved /\ h.down = kept.down
        /\ h.retry = kept.retry /\ h.emitted = kept.emitted /\ h.alarm = Timer(h, t)
    BY <1>4, <2>1, ScheduledIs
  <2> QED  BY <1>4, <1>8, <2>2 DEF SameState, h, r
<1> QED  BY <1>6, <1>7, <1>8

\* One field of the adapter at a time.
LEMMA EmittedChanged ==
  ASSUME NEW g, Adapter(g), NEW E \in SUBSET TerminalReasons
  PROVE  LET h == [g EXCEPT !.emitted = E] IN
         /\ Adapter(h) /\ SameState(g, h) /\ h.emitted = E
         /\ h.room = g.room /\ h.saved = g.saved /\ h.down = g.down
         /\ h.retry = g.retry /\ h.alarm = g.alarm
<1> DEFINE h == [g EXCEPT !.emitted = E]
<1>1. PICK C \in SUBSET Conn : g \in GameType(C)
  BY DEF Adapter
<1>2. /\ h \in GameType(C) /\ SameState(g, h) /\ h.emitted = E
      /\ h.room = g.room /\ h.saved = g.saved /\ h.down = g.down
      /\ h.retry = g.retry /\ h.alarm = g.alarm
  BY <1>1 DEF GameType, SameState
<1> HIDE DEF h
<1>3. Adapter(h)
  BY <1>2 DEF Adapter, SameState
<1> QED  BY <1>2, <1>3 DEF h

LEMMA AlarmChanged ==
  ASSUME NEW g, Adapter(g), NEW a \in Nat \cup {NoTime}
  PROVE  LET h == [g EXCEPT !.alarm = a] IN
         /\ Adapter(h) /\ SameState(g, h) /\ h.alarm = a
         /\ h.room = g.room /\ h.saved = g.saved /\ h.down = g.down
         /\ h.retry = g.retry /\ h.emitted = g.emitted
<1> DEFINE h == [g EXCEPT !.alarm = a]
<1>1. PICK C \in SUBSET Conn : g \in GameType(C)
  BY DEF Adapter
<1>2. /\ h \in GameType(C) /\ SameState(g, h) /\ h.alarm = a
      /\ h.room = g.room /\ h.saved = g.saved /\ h.down = g.down
      /\ h.retry = g.retry /\ h.emitted = g.emitted
  BY <1>1 DEF GameType, SameState
<1> HIDE DEF h
<1>3. Adapter(h)
  BY <1>2 DEF Adapter, SameState
<1> QED  BY <1>2, <1>3 DEF h

LEMMA SnapshotsChanged ==
  ASSUME NEW g, Adapter(g), NEW D \in SUBSET Conn, NEW p \in [D -> SnapshotType],
         \A c \in D : Fine(p[c].room)
  PROVE  LET h == [g EXCEPT !.provisional = p] IN
         /\ Adapter(h) /\ h.provisional = p
         /\ h.loaded = g.loaded /\ h.terminal = g.terminal /\ h.gcAt = g.gcAt
         /\ h.consumed = g.consumed /\ h.wiped = g.wiped
         /\ h.room = g.room /\ h.saved = g.saved /\ h.down = g.down
         /\ h.retry = g.retry /\ h.emitted = g.emitted /\ h.alarm = g.alarm
<1> DEFINE h == [g EXCEPT !.provisional = p]
<1>1. PICK C \in SUBSET Conn : g \in GameType(C)
  BY DEF Adapter
<1>2. /\ h \in GameType(D) /\ h.provisional = p
      /\ h.loaded = g.loaded /\ h.terminal = g.terminal /\ h.gcAt = g.gcAt
      /\ h.consumed = g.consumed /\ h.wiped = g.wiped
      /\ h.room = g.room /\ h.saved = g.saved /\ h.down = g.down
      /\ h.retry = g.retry /\ h.emitted = g.emitted /\ h.alarm = g.alarm
  BY <1>1 DEF GameType
<1> HIDE DEF h
<1>3. DOMAIN h.provisional = D
  BY <1>2
<1>4. Adapter(h)
  BY <1>2, <1>3 DEF Adapter
<1> QED  BY <1>2, <1>4 DEF h

LEMMA LiveSeatsIs ==
  ASSUME NEW r, Fine(r)
  PROVE  LiveSeats(r) \in [Seats -> Conn \cup {NoConn}]
BY DEF Fine, RoomType, LiveSeats

LEMMA LiveSocketsIs ==
  ASSUME NEW sockets, NEW ids
  PROVE  LET live == LiveSockets(sockets, ids) IN
         /\ live \in [Seats -> Conn \cup {NoConn}]
         /\ \A s \in Seats : live[s] # NoConn =>
              live[s] \in Conn /\ sockets[live[s]] = "open" /\ ids[live[s]] = s
<1> DEFINE live == LiveSockets(sockets, ids)
<1>1. ASSUME NEW s \in Seats
      PROVE  /\ live[s] \in Conn \cup {NoConn}
             /\ live[s] # NoConn =>
                  live[s] \in Conn /\ sockets[live[s]] = "open" /\ ids[live[s]] = s
  BY DEF LiveSockets
<1>2. live = [s \in Seats |-> live[s]]
  BY DEF LiveSockets
<1> HIDE DEF live
<1>3. live \in [Seats -> Conn \cup {NoConn}]
  BY <1>1, <1>2
<1> QED  BY <1>1, <1>3 DEF live

LEMMA RetryScheduledIs ==
  ASSUME NEW g, Adapter(g), NEW reason \in TerminalReasons, NEW t \in Nat
  PROVE  LET h == RetryScheduled(g, reason, t) IN
         /\ Adapter(h) /\ SameState(g, h)
         /\ h.room = g.room /\ h.saved = g.saved /\ h.down = g.down
         /\ h.retry = reason /\ h.emitted \in SUBSET TerminalReasons
         /\ h.alarm = Timer(h, t)
<1> DEFINE E == g.emitted \ {reason}
           y == [g EXCEPT !.emitted = E, !.retry = reason]
           h == Scheduled(y, t)
<1>1. PICK C \in SUBSET Conn : g \in GameType(C)
  BY DEF Adapter
<1>2. E \in SUBSET TerminalReasons
  BY <1>1 DEF GameType
<1>3. h = RetryScheduled(g, reason, t)
  BY DEF RetryScheduled
<1> HIDE DEF E
<1>4. /\ y \in GameType(C) /\ SameState(g, y) /\ y.emitted = E
      /\ y.room = g.room /\ y.saved = g.saved /\ y.down = g.down
      /\ y.retry = reason /\ y.alarm = g.alarm
  BY <1>1, <1>2 DEF GameType, SameState
<1> HIDE DEF y
<1>5. Adapter(y)
  BY <1>4 DEF Adapter, SameState
<1>6. /\ Adapter(h) /\ SameState(y, h)
      /\ h.room = y.room /\ h.saved = y.saved /\ h.down = y.down
      /\ h.retry = y.retry /\ h.emitted = y.emitted
      /\ h.alarm = Timer(h, t)
  BY <1>5, ScheduledIs
<1> HIDE DEF h
<1> QED  BY <1>2, <1>3, <1>4, <1>6 DEF SameState

LEMMA TerminalizedIs ==
  ASSUME NEW g, Adapter(g), NEW reason \in TerminalReasons, NEW t \in Nat
  PROVE  LET h == Terminalized(g, reason, t) IN
         /\ Adapter(h) /\ h.terminal = reason /\ h.down
         /\ h.loaded = g.loaded /\ h.provisional = g.provisional /\ h.wiped = g.wiped
         /\ h.room = g.room /\ h.saved = g.saved
<1> DEFINE n == t + Retention
           h == [g EXCEPT !.terminal = reason, !.retry = NoSeat, !.down = TRUE,
                          !.gcAt = n, !.alarm = n]
<1>1. PICK C \in SUBSET Conn : g \in GameType(C)
  BY DEF Adapter
<1>2. n \in Nat
  BY DurableAssumption
<1>3. h = Terminalized(g, reason, t)
  BY DEF Terminalized
<1> HIDE DEF n
<1>4. /\ h \in GameType(C) /\ h.terminal = reason /\ h.down = TRUE
      /\ h.loaded = g.loaded /\ h.provisional = g.provisional /\ h.wiped = g.wiped
      /\ h.room = g.room /\ h.saved = g.saved
  BY <1>1, <1>2 DEF GameType
<1> HIDE DEF h
<1>5. Adapter(h)
  BY <1>4 DEF Adapter
<1> QED  BY <1>3, <1>4, <1>5

LEMMA ForgottenIs ==
  ASSUME NEW g, Adapter(g)
  PROVE  LET h == Forgotten(g) IN
         /\ Adapter(h) /\ ~h.loaded /\ ~h.down
         /\ h.room = g.saved /\ h.saved = g.saved /\ DOMAIN h.provisional = {}
         /\ h.retry = g.retry /\ h.terminal = g.terminal /\ h.gcAt = g.gcAt
         /\ h.consumed = g.consumed /\ h.alarm = g.alarm /\ h.wiped = g.wiped
<1> DEFINE h == [g EXCEPT !.loaded = FALSE, !.down = FALSE, !.emitted = {}, !.room = g.saved,
                          !.provisional = NoSnapshots]
<1>1. PICK C \in SUBSET Conn : g \in GameType(C)
  BY DEF Adapter
<1>2. NoSnapshots \in [{} -> SnapshotType] /\ DOMAIN NoSnapshots = {}
  BY DEF NoSnapshots
<1>3. h = Forgotten(g)
  BY DEF Forgotten
<1>4. /\ h \in GameType({}) /\ h.loaded = FALSE /\ h.down = FALSE
      /\ h.room = g.saved /\ h.saved = g.saved /\ h.provisional = NoSnapshots
      /\ h.retry = g.retry /\ h.terminal = g.terminal /\ h.gcAt = g.gcAt
      /\ h.consumed = g.consumed /\ h.alarm = g.alarm /\ h.wiped = g.wiped
  BY <1>1, <1>2 DEF GameType
<1> HIDE DEF h
<1>5. Adapter(h)
  BY <1>2, <1>4 DEF Adapter
<1> QED  BY <1>2, <1>3, <1>4, <1>5

\* The room a load leaves in memory: the stored one, settled, with the seats of
\* lost sockets in their grace period.
Unwoken(v, live) ==
  [v EXCEPT !.conn = [s \in Seats |-> IF v.connected[s] THEN live[s] ELSE NoConn]]
Preserved(v, live) == {s \in Seats : v.connected[s] /\ live[s] # NoConn}
Shown(v, live, t) == Payload(Unwoken(v, live), t)
Reconciled(v, live, t) == ReconcileHydration(Shown(v, live, t), t, Preserved(v, live))
Woken(v, live, t) == Payload(Reconciled(v, live, t), t)

LEMMA UnwokenIs ==
  ASSUME NEW v, Fine(v), NEW live \in [Seats -> Conn \cup {NoConn}]
  PROVE  LET x == Unwoken(v, live) IN
         /\ Lasts(v, x) /\ SamePlay(v, x)
         /\ x.connected = v.connected /\ x.deadline = v.deadline
<1> DEFINE k == [s \in Seats |-> IF v.connected[s] THEN live[s] ELSE NoConn]
           x == [v EXCEPT !.conn = k]
<1>1. v \in RoomType /\ k \in [Seats -> Conn \cup {NoConn}]
  BY DEF Fine
<1>2. x = Unwoken(v, live)
  BY DEF Unwoken
<1> HIDE DEF k
<1>3. /\ x \in RoomType /\ SamePlay(v, x)
      /\ x.connected = v.connected /\ x.deadline = v.deadline
  BY <1>1 DEF RoomType, SamePlay
<1> HIDE DEF x
<1>4. Lasts(v, x)
  BY <1>3, SameGame DEF SamePlay
<1> QED  BY <1>2, <1>3, <1>4

LEMMA WokenIs ==
  ASSUME NEW v, Fine(v), NEW live \in [Seats -> Conn \cup {NoConn}], NEW t \in Nat
  PROVE  /\ Fine(Shown(v, live, t)) /\ Fine(Reconciled(v, live, t))
         /\ Lasts(v, Woken(v, live, t))
<1> DEFINE b == Unwoken(v, live)
           shown == Payload(b, t)
           room == ReconcileHydration(shown, t, Preserved(v, live))
           x == Payload(room, t)
<1>1. Lasts(v, b)
  BY UnwokenIs
<1> HIDE DEF b
<1>2. Lasts(b, shown)
  BY <1>1, PayloadIs DEF Lasts
<1>3. shown = Shown(v, live, t)
  BY DEF Shown, b
<1> HIDE DEF shown
<1>4. Lasts(shown, room)
  <2>1. Fine(shown) /\ Preserved(v, live) \in SUBSET Seats
    BY <1>2 DEF Lasts, Preserved
  <2> QED  BY <2>1, ReconcileHydrationIs
<1>5. room = Reconciled(v, live, t)
  BY <1>3 DEF Reconciled
<1> HIDE DEF room
<1>6. Lasts(room, x)
  BY <1>4, PayloadIs DEF Lasts
<1>7. x = Woken(v, live, t)
  BY <1>5 DEF Woken
<1> HIDE DEF x
<1>8. Fine(b) /\ Fine(shown) /\ Fine(room)
  BY <1>1, <1>2, <1>4 DEF Lasts
<1>9. Lasts(v, shown)
  BY <1>1, <1>2, <1>8, LastsTransitive
<1>10. Lasts(v, room)
  BY <1>4, <1>8, <1>9, LastsTransitive
<1>11. Lasts(v, x)
  BY <1>6, <1>8, <1>10, LastsTransitive
<1> QED  BY <1>3, <1>5, <1>7, <1>8, <1>11

LEMMA LoadedIs ==
  ASSUME NEW g, Adapter(g), NEW live \in [Seats -> Conn \cup {NoConn}], NEW t \in Nat
  PROVE  LET h == Loaded(g, live, t)
             r == Reconciled(g.saved, live, t)
         IN
         /\ Adapter(h) /\ h.loaded /\ (h.down <=> g.terminal # NoSeat)
         /\ h.provisional = g.provisional /\ h.retry = g.retry
         /\ h.terminal = g.terminal /\ h.gcAt = g.gcAt
         /\ h.consumed = g.consumed /\ h.wiped = g.wiped
         /\ h.room = Woken(g.saved, live, t)
         /\ g.terminal = NoSeat => h.alarm = Timer(h, t)
         /\ \/ /\ h.saved = g.saved
               /\ g.terminal = NoSeat => r = Shown(g.saved, live, t)
            \/ h.saved = Serialized(h.room)
<1> DEFINE v == g.saved
           shown == Shown(v, live, t)
           room == Reconciled(v, live, t)
           x == Woken(v, live, t)
           b == g.terminal # NoSeat
           fresh == [g EXCEPT !.loaded = TRUE, !.emitted = {}, !.down = b, !.room = x]
           kept == IF room # shown \/ room.status = "waiting" THEN Persisted(fresh) ELSE fresh
           h == Loaded(g, live, t)
<1>1. PICK C \in SUBSET Conn : g \in GameType(C)
  BY DEF Adapter
<1>2. Fine(v) /\ Fine(x) /\ v \in RoomType /\ x \in RoomType
  BY WokenIs DEF Adapter, Lasts, Fine
<1>3. h = IF g.terminal # NoSeat THEN fresh ELSE Scheduled(kept, t)
  <2> DEFINE seats == {s \in Seats : v.connected[s]}
             bound == [v EXCEPT !.conn = [s \in Seats |->
                         IF s \in seats THEN live[s] ELSE NoConn]]
             here == {s \in seats : live[s] # NoConn}
  <2>1. bound = Unwoken(v, live)
    <3>1. \A s \in Seats : s \in seats <=> v.connected[s]
      OBVIOUS
    <3>2. [s \in Seats |-> IF s \in seats THEN live[s] ELSE NoConn]
            = [s \in Seats |-> IF v.connected[s] THEN live[s] ELSE NoConn]
      BY <3>1
    <3> QED  BY <3>2 DEF Unwoken
  <2>2. here = Preserved(v, live)
    BY DEF Preserved
  <2>3. Payload(bound, t) = shown
    BY <2>1 DEF Shown
  <2>4. ReconcileHydration(Payload(bound, t), t, here) = room
    BY <2>2, <2>3 DEF Reconciled
  <2>5. Payload(ReconcileHydration(Payload(bound, t), t, here), t) = x
    BY <2>4 DEF Woken
  <2> HIDE DEF shown, room, x
  <2> QED  BY <2>3, <2>4, <2>5 DEF Loaded
<1> HIDE DEF h, x, room, shown, v
<1>4. /\ fresh \in GameType(C) /\ fresh.loaded = TRUE /\ fresh.down = b
      /\ fresh.provisional = g.provisional /\ fresh.retry = g.retry
      /\ fresh.terminal = g.terminal /\ fresh.gcAt = g.gcAt
      /\ fresh.consumed = g.consumed /\ fresh.wiped = g.wiped
      /\ fresh.room = x /\ fresh.saved = g.saved
  BY <1>1, <1>2 DEF GameType
<1> HIDE DEF fresh
<1>5. Adapter(fresh)
  BY <1>2, <1>4 DEF Adapter
<1>6. /\ Adapter(kept) /\ SameState(fresh, kept) /\ kept.room = x /\ kept.down = fresh.down
      /\ kept.retry = fresh.retry
      /\ \/ kept.saved = g.saved /\ room = shown
         \/ kept.saved = Serialized(x)
  <2>1. CASE room # shown \/ room.status = "waiting"
    <3>1. kept = Persisted(fresh)
      BY <2>1
    <3> HIDE DEF kept
    <3>2. /\ Adapter(kept) /\ SameState(fresh, kept) /\ kept.room = fresh.room
          /\ kept.down = fresh.down
          /\ kept.retry = fresh.retry /\ kept.saved = Serialized(fresh.room)
      BY <1>5, <3>1, PersistedIs
    <3> QED  BY <1>4, <3>2
  <2>2. CASE ~(room # shown \/ room.status = "waiting")
    <3>1. kept = fresh
      BY <2>2
    <3> HIDE DEF kept
    <3> QED  BY <1>4, <1>5, <2>2, <3>1 DEF SameState
  <2> QED  BY <2>1, <2>2
<1> HIDE DEF kept
<1>7. CASE g.terminal # NoSeat
  <2>1. h = fresh
    BY <1>3, <1>7
  <2> QED  BY <1>4, <1>5, <1>7, <2>1 DEF h, x, v
<1>8. CASE g.terminal = NoSeat
  <2>1. h = Scheduled(kept, t)
    BY <1>3, <1>8
  <2>2. /\ Adapter(h) /\ SameState(kept, h)
        /\ h.room = kept.room /\ h.saved = kept.saved /\ h.down = kept.down
        /\ h.retry = kept.retry /\ h.alarm = Timer(h, t)
    BY <1>6, <2>1, ScheduledIs
  <2> QED  BY <1>4, <1>6, <1>8, <2>2 DEF SameState, h, x, room, shown, v
<1> QED  BY <1>7, <1>8

LEMMA ReboundIs ==
  ASSUME NEW g, Adapter(g), NEW live \in [Seats -> Conn \cup {NoConn}], NEW t \in Nat
  PROVE  LET h == Rebound(g, live, t) IN
         /\ Adapter(h) /\ SameState(g, h) /\ h.down = g.down /\ h.retry = g.retry
         /\ Lasts(g.room, h.room) /\ h.room.status = g.room.status
         /\ \/ h.saved = g.saved /\ h.alarm = g.alarm
            \/ h.saved = Serialized(h.room) /\ h.alarm = Timer(h, t)
<1> DEFINE r == g.room
           present == {s \in Seats : live[s] # NoConn /\ r.seated[s]}
           k == [s \in Seats |-> IF s \in present THEN live[s] ELSE r.conn[s]]
           on == [s \in Seats |-> s \in present \/ r.connected[s]]
           dead == [s \in Seats |-> IF s \in present THEN NoTime ELSE r.deadline[s]]
           taken == [r EXCEPT !.conn = k, !.connected = on, !.deadline = dead]
           restart == /\ present # {}
                      /\ taken.status = "playing" /\ taken.winner = NoSeat
                      /\ taken.running = NoSeat /\ taken.connected[taken.turn]
           started == [taken EXCEPT !.running = taken.turn, !.anchor = t]
           room == IF restart THEN started ELSE taken
           seated == [g EXCEPT !.room = room]
           h == Rebound(g, live, t)
<1>1. Fine(r) /\ r \in RoomType
  BY DEF Adapter, Fine
<1>2. h = IF g.down THEN g ELSE IF taken = r THEN seated ELSE Scheduled(Persisted(seated), t)
  BY <1>1 DEF Rebound, RoomType
<1>3. /\ k \in [Seats -> Conn \cup {NoConn}] /\ on \in [Seats -> BOOLEAN]
      /\ dead \in [Seats -> Nat \cup {NoTime}]
  BY <1>1 DEF RoomType
<1> HIDE DEF h, k, on, dead, present
<1>4. /\ taken \in RoomType /\ taken.seated = r.seated /\ taken.status = r.status
      /\ taken.winner = r.winner /\ taken.reason = r.reason /\ taken.ply = r.ply
  BY <1>1, <1>3 DEF RoomType
<1> HIDE DEF taken
<1>5. /\ started \in RoomType /\ started.seated = r.seated /\ started.status = r.status
      /\ started.winner = r.winner /\ started.reason = r.reason /\ started.ply = r.ply
  BY <1>4 DEF RoomType
<1> HIDE DEF started
<1>6. /\ room \in RoomType /\ room.seated = r.seated /\ room.status = r.status
      /\ room.winner = r.winner /\ room.reason = r.reason /\ room.ply = r.ply
  BY <1>4, <1>5
<1> HIDE DEF room
<1>7. Lasts(r, room) /\ Fine(room)
  BY <1>1, <1>6, SameGame DEF Lasts
<1>8. /\ Adapter(seated) /\ SameState(g, seated)
      /\ seated.room = room /\ seated.saved = g.saved /\ seated.down = g.down
      /\ seated.retry = g.retry /\ seated.alarm = g.alarm
  BY <1>7, RoomChanged
<1> HIDE DEF seated
<1>9. CASE g.down
  <2>1. h = g
    BY <1>2, <1>9
  <2> QED  BY <1>1, <2>1, LastsReflexive DEF SameState, h
<1>10. CASE ~g.down /\ taken = r
  <2>1. h = seated
    BY <1>2, <1>10
  <2> QED  BY <1>6, <1>7, <1>8, <2>1 DEF h
<1>11. CASE ~g.down /\ taken # r
  <2> DEFINE p == Persisted(seated)
  <2>1. h = Scheduled(p, t)
    BY <1>2, <1>11
  <2>2. /\ Adapter(p) /\ SameState(seated, p) /\ p.room = room /\ p.saved = Serialized(room)
        /\ p.down = seated.down /\ p.retry = seated.retry
    BY <1>8, PersistedIs
  <2> HIDE DEF p
  <2>3. /\ Adapter(h) /\ SameState(p, h) /\ h.room = room /\ h.saved = Serialized(room)
        /\ h.down = p.down /\ h.retry = p.retry /\ h.alarm = Timer(h, t)
    BY <2>1, <2>2, ScheduledIs
  <2> QED  BY <1>6, <1>7, <1>8, <2>2, <2>3 DEF SameState, h
<1> QED  BY <1>9, <1>10, <1>11

-----------------------------------------------------------------------------
(* Attaching.                                                               *)

Away(r, s, t) == IF r.connected[s] THEN DisconnectPlayer(r, s, t) ELSE r

LEMMA AwayIs ==
  ASSUME NEW r, Fine(r), NEW s \in Seats, NEW t \in Nat
  PROVE  Lasts(r, Away(r, s, t)) /\ Fine(Away(r, s, t))
<1>1. CASE r.connected[s]
  <2>1. Away(r, s, t) = DisconnectPlayer(r, s, t)
    BY <1>1 DEF Away
  <2>2. Lasts(r, DisconnectPlayer(r, s, t))
    BY DisconnectPlayerIs
  <2> QED  BY <2>1, <2>2 DEF Lasts
<1>2. CASE ~r.connected[s]
  BY <1>2, LastsReflexive DEF Away
<1> QED  BY <1>1, <1>2

LEMMA AttachedIs ==
  ASSUME NEW g, Adapter(g), NEW c \in Conn, NEW s \in Seats, NEW t \in Nat, Accepts(g, s, t)
  PROVE  Lasts(g.room, Attached(g, c, s, t))
<1> DEFINE r == g.room
           away == Away(r, s, t)
<1>1. Fine(r)
  BY DEF Adapter
<1>2. Lasts(r, away) /\ Fine(away)
  BY <1>1, AwayIs
<1>3. Attached(g, c, s, t) = IF r.seated[s] THEN ResumePlayer(away, c, s, t)
                             ELSE AddPlayer(r, c, t)
  BY DEF Attached, Away
<1> HIDE DEF away
<1>4. CASE r.seated[s]
  <2> DEFINE x == ResumePlayer(away, c, s, t)
  <2>1. Lasts(away, x)
    BY <1>2, ResumePlayerIs
  <2> HIDE DEF x
  <2>2. Lasts(r, x)
    BY <1>1, <1>2, <2>1, LastsTransitive
  <2> QED  BY <1>3, <1>4, <2>2 DEF x
<1>5. CASE ~r.seated[s]
  <2>1. CanAdd(r)
    BY <1>5 DEF Accepts
  <2>2. Lasts(r, AddPlayer(r, c, t))
    BY <1>1, <2>1, AddPlayerIs
  <2> QED  BY <1>3, <1>5, <2>2
<1> QED  BY <1>4, <1>5

LEMMA AttachCommittedIs ==
  ASSUME NEW g, Adapter(g), NEW c \in Conn, NEW s \in Seats, NEW t \in Nat, Accepts(g, s, t)
  PROVE  LET h == AttachCommitted(g, c, s, t) IN
         /\ Adapter(h) /\ h.loaded = g.loaded /\ h.terminal = g.terminal /\ h.gcAt = g.gcAt
         /\ h.consumed = g.consumed /\ h.wiped = g.wiped /\ h.down = g.down
         /\ h.room = Payload(Attached(g, c, s, t), t) /\ Lasts(g.room, h.room)
         /\ h.saved = Serialized(h.room) /\ h.alarm = Timer(h, t)
         /\ DOMAIN h.provisional = DOMAIN g.provisional \cup {c}
         /\ h.provisional[c] = [room |-> Serialized(g.room), live |-> LiveSeats(g.room)]
<1> DEFINE a == Attached(g, c, s, t)
           m == Mutated(g, a, t, "ok")
           D == DOMAIN m.provisional
           new == [room |-> Serialized(g.room), live |-> LiveSeats(g.room)]
           p == [x \in D \cup {c} |-> IF x = c THEN new ELSE m.provisional[x]]
           h == [m EXCEPT !.provisional = p]
<1>1. Lasts(g.room, a) /\ Fine(a) /\ Fine(g.room)
  BY AttachedIs DEF Lasts, Adapter
<1> HIDE DEF a
<1>2. /\ Adapter(m) /\ SameState(g, m) /\ m.room = Payload(a, t)
      /\ m.down = g.down /\ m.saved = Serialized(m.room) /\ m.alarm = Timer(m, t)
  <2> DEFINE ok == "ok"
  <2>1. ok # "put_fails" /\ ok # "alarm_fails"
    OBVIOUS
  <2>2. m = Mutated(g, a, t, ok)
    OBVIOUS
  <2> HIDE DEF ok, m, D, new, p, h
  <2>3. /\ Adapter(m) /\ SameState(g, m) /\ m.room = Payload(a, t)
        /\ \/ ok = "put_fails"
           \/ ok = "alarm_fails"
           \/ /\ m.down = g.down /\ m.saved = Serialized(m.room) /\ m.alarm = Timer(m, t)
    BY <1>1, <2>2, MutatedIs
  <2> QED  BY <2>1, <2>3
<1>3. h = AttachCommitted(g, c, s, t)
  BY DEF AttachCommitted, a
<1> HIDE DEF m
<1>4. PICK C \in SUBSET Conn : m \in GameType(C)
  BY <1>2 DEF Adapter
<1>5. D = C /\ m.provisional \in [C -> SnapshotType]
  BY <1>4 DEF GameType
<1>6. new \in SnapshotType /\ Fine(new.room)
  <2>1. Fine(Serialized(g.room)) /\ Serialized(g.room) \in RoomType
    BY <1>1, SerializedIs DEF Lasts, Fine
  <2>2. LiveSeats(g.room) \in [Seats -> Conn \cup {NoConn}]
    BY <1>1, LiveSeatsIs
  <2> QED  BY <2>1, <2>2 DEF SnapshotType
<1> HIDE DEF new
<1>7. p \in [D \cup {c} -> SnapshotType]
  BY <1>5, <1>6
<1>8. \A x \in D \cup {c} : Fine(p[x].room)
  BY <1>2, <1>6 DEF Adapter
<1>9. DOMAIN p = D \cup {c} /\ p[c] = new
  OBVIOUS
<1>10. D \cup {c} \in SUBSET Conn
  BY <1>5
<1> HIDE DEF p, D
<1>11. /\ Adapter(h) /\ h.provisional = p
       /\ h.loaded = m.loaded /\ h.terminal = m.terminal /\ h.gcAt = m.gcAt
       /\ h.consumed = m.consumed /\ h.wiped = m.wiped
       /\ h.room = m.room /\ h.saved = m.saved /\ h.down = m.down /\ h.alarm = m.alarm
  BY <1>2, <1>7, <1>8, <1>10, SnapshotsChanged
<1> HIDE DEF h
<1>12. Timer(h, t) = Timer(m, t)
  BY <1>11, SameTimer
<1>13. Lasts(g.room, m.room)
  <2>1. Lasts(a, m.room)
    BY <1>1, <1>2, PayloadIs
  <2> QED  BY <1>1, <2>1, LastsTransitive
<1>14. DOMAIN m.provisional = DOMAIN g.provisional
  BY <1>2 DEF SameState
<1> QED  BY <1>2, <1>3, <1>9, <1>11, <1>12, <1>13, <1>14 DEF SameState, a, new, D

LEMMA CommitAttachIs ==
  ASSUME NEW g, Adapter(g), NEW c
  PROVE  LET h == CommitAttach(g, c) IN
         /\ Adapter(h) /\ DOMAIN h.provisional = DOMAIN g.provisional \ {c}
         /\ h.loaded = g.loaded /\ h.terminal = g.terminal /\ h.gcAt = g.gcAt
         /\ h.consumed = g.consumed /\ h.wiped = g.wiped /\ h.down = g.down
         /\ h.room = g.room /\ h.saved = g.saved /\ h.alarm = g.alarm
<1> DEFINE D == DOMAIN g.provisional \ {c}
           p == Restrict(g.provisional, D)
<1>1. PICK C \in SUBSET Conn : g \in GameType(C)
  BY DEF Adapter
<1>2. g.provisional \in [C -> SnapshotType] /\ DOMAIN g.provisional = C
  BY <1>1 DEF GameType
<1>3. p = [x \in D |-> g.provisional[x]]
  BY DEF Restrict
<1>4. p \in [D -> SnapshotType] /\ \A x \in D : Fine(p[x].room)
  BY <1>2, <1>3 DEF Adapter
<1>5. D \in SUBSET Conn /\ DOMAIN p = D
  BY <1>2, <1>3
<1>6. CommitAttach(g, c) = [g EXCEPT !.provisional = p]
  BY <1>1 DEF CommitAttach, GameType
<1> HIDE DEF p, D
<1> QED  BY <1>4, <1>5, <1>6, SnapshotsChanged DEF D

\* The live seats without the socket that failed to attach.
Remaining(r, c) ==
  [s \in Seats |-> IF LiveSeats(r)[s] = c THEN NoConn ELSE LiveSeats(r)[s]]

LEMMA ReloadedIs ==
  ASSUME NEW g, Adapter(g), NEW r, Fine(r), NEW c \in Conn, NEW t \in Nat
  PROVE  LET h == Reloaded(g, r, c, t) IN
         /\ Adapter(h) /\ DOMAIN h.provisional = {} /\ ~h.down
         /\ h.loaded = g.loaded /\ h.terminal = g.terminal /\ h.gcAt = g.gcAt
         /\ h.consumed = g.consumed /\ h.wiped = g.wiped
         /\ Remaining(r, c) \in [Seats -> Conn \cup {NoConn}]
         /\ h.room = Payload(WithLive(Hydrated(g.saved), Remaining(r, c)), t)
         /\ h.saved = g.saved /\ h.alarm = g.alarm /\ Lasts(g.saved, h.room)
<1> DEFINE live == Remaining(r, c)
           w == WithLive(Hydrated(g.saved), live)
           x == Payload(w, t)
           h == [g EXCEPT !.room = x, !.provisional = NoSnapshots, !.down = FALSE]
<1>1. PICK C \in SUBSET Conn : g \in GameType(C)
  BY DEF Adapter
<1>2. NoSnapshots \in [{} -> SnapshotType] /\ DOMAIN NoSnapshots = {}
  BY DEF NoSnapshots
<1>3. Fine(g.saved)
  BY DEF Adapter
<1>4. live \in [Seats -> Conn \cup {NoConn}]
  BY LiveSeatsIs DEF Remaining
<1>5. h = Reloaded(g, r, c, t)
  BY DEF Reloaded, Remaining
<1> HIDE DEF live
<1>6. Lasts(g.saved, w) /\ Fine(w)
  BY <1>3, <1>4, WithLiveIs DEF Lasts
<1> HIDE DEF w
<1>7. Lasts(w, x)
  BY <1>6, PayloadIs
<1> HIDE DEF x
<1>8. Lasts(g.saved, x) /\ Fine(x) /\ x \in RoomType
  BY <1>3, <1>6, <1>7, LastsTransitive DEF Lasts, Fine
<1>9. /\ h \in GameType({}) /\ h.down = FALSE /\ h.provisional = NoSnapshots
      /\ h.loaded = g.loaded /\ h.terminal = g.terminal /\ h.gcAt = g.gcAt
      /\ h.consumed = g.consumed /\ h.wiped = g.wiped
      /\ h.room = x /\ h.saved = g.saved /\ h.alarm = g.alarm
  BY <1>1, <1>2, <1>8 DEF GameType
<1> HIDE DEF h
<1>10. Adapter(h)
  BY <1>2, <1>3, <1>8, <1>9 DEF Adapter
<1> QED  BY <1>2, <1>4, <1>5, <1>8, <1>9, <1>10 DEF x, w, live

LEMMA RolledBackIs ==
  ASSUME NEW g, Adapter(g), NEW c \in DOMAIN g.provisional, NEW t \in Nat
  PROVE  LET h == RolledBack(g, c, t)
             before == g.provisional[c]
         IN
         /\ Adapter(h) /\ DOMAIN h.provisional = DOMAIN g.provisional \ {c}
         /\ h.loaded = g.loaded /\ h.terminal = g.terminal /\ h.gcAt = g.gcAt
         /\ h.consumed = g.consumed /\ h.wiped = g.wiped /\ h.down = g.down
         /\ before.live \in [Seats -> Conn \cup {NoConn}] /\ Fine(before.room)
         /\ h.room = WithLive(Hydrated(before.room), before.live)
         /\ h.saved = before.room /\ h.alarm = Timer(h, t)
         /\ Lasts(h.saved, h.room)
<1> DEFINE before == g.provisional[c]
           k == CommitAttach(g, c)
           w == WithLive(Hydrated(before.room), before.live)
           v == before.room
           y == [k EXCEPT !.room = w, !.saved = v]
           h == Scheduled(y, t)
<1>1. before \in SnapshotType
  <2>1. PICK C \in SUBSET Conn : g \in GameType(C)
    BY DEF Adapter
  <2>2. g.provisional \in [C -> SnapshotType]
    BY <2>1 DEF GameType
  <2> QED  BY <2>2
<1>2. Fine(v) /\ before.live \in [Seats -> Conn \cup {NoConn}] /\ v \in RoomType
  BY <1>1 DEF Adapter, SnapshotType, Fine
<1>3. /\ Adapter(k) /\ DOMAIN k.provisional = DOMAIN g.provisional \ {c}
      /\ k.loaded = g.loaded /\ k.terminal = g.terminal /\ k.gcAt = g.gcAt
      /\ k.consumed = g.consumed /\ k.wiped = g.wiped /\ k.down = g.down
  BY CommitAttachIs
<1>4. h = RolledBack(g, c, t)
  BY DEF RolledBack
<1> HIDE DEF k, before
<1>5. Lasts(v, w) /\ Fine(w) /\ w \in RoomType
  <2>1. Lasts(v, w)
    BY <1>2, WithLiveIs
  <2> HIDE DEF w
  <2> QED  BY <2>1 DEF Lasts, Fine
<1> HIDE DEF w
<1>6. PICK C \in SUBSET Conn : k \in GameType(C)
  BY <1>3 DEF Adapter
<1> HIDE DEF v
<1>7. /\ y \in GameType(C) /\ SameState(k, y) /\ y.room = w /\ y.saved = v /\ y.down = k.down
  BY <1>2, <1>5, <1>6 DEF GameType, SameState
<1> HIDE DEF y
<1>8. Adapter(y)
  BY <1>2, <1>3, <1>5, <1>7 DEF Adapter, SameState
<1>9. /\ Adapter(h) /\ SameState(y, h) /\ h.room = w /\ h.saved = v /\ h.down = y.down
      /\ h.alarm = Timer(h, t)
  BY <1>7, <1>8, ScheduledIs
<1> HIDE DEF h
<1>10. DOMAIN h.provisional = DOMAIN g.provisional \ {c}
  BY <1>3, <1>7, <1>9 DEF SameState
<1> QED  BY <1>2, <1>3, <1>4, <1>5, <1>7, <1>9, <1>10 DEF SameState, w, v, before

-----------------------------------------------------------------------------
(* Queue, flight and faults.                                                *)

LEMMA OperationIs ==
  \A o \in OperationType :
    /\ o.op \in {"move", "leave", "close", "attach", "alarm"}
    /\ o.op # "alarm" => o.conn \in Conn
    /\ o.op = "attach" => o.seat \in Seats
BY DEF OperationType

LEMMA OperationsAre ==
  /\ \A c \in Conn, op \in {"move", "leave", "close"} : [op |-> op, conn |-> c] \in OperationType
  /\ \A c \in Conn, s \in Seats : [op |-> "attach", conn |-> c, seat |-> s] \in OperationType
  /\ [op |-> "alarm"] \in OperationType
BY DEF OperationType

LEMMA FlightIs ==
  \A f \in FlightType :
    /\ f.kind = "attach" =>
         f.conn \in Conn /\ f.seat \in Seats /\ f.previous \in Conn \cup {NoConn}
    /\ f.kind = "publish" =>
         f.reason \in TerminalReasons /\ f.winner \in Seats \cup {NoSeat}
    /\ f.kind \in {"idle", "attach", "publish"}
    /\ f.kind = "idle" <=> f = Idle
BY DEF FlightType, Idle

LEMMA FlightsAre ==
  /\ Idle \in FlightType /\ Idle.kind = "idle"
  /\ \A c \in Conn, s \in Seats, p \in Conn \cup {NoConn} :
       [kind |-> "attach", conn |-> c, seat |-> s, previous |-> p] \in FlightType
  /\ \A by \in {"client", "alarm"}, e \in TerminalReasons, w \in Seats \cup {NoSeat} :
       [kind |-> "publish", by |-> by, reason |-> e, winner |-> w] \in FlightType
BY DEF FlightType, Idle

\* The types of everything but the adapter.
Surroundings ==
  /\ now \in Nat
  /\ socket \in [Conn -> {"idle", "open", "closing", "closed"}]
  /\ identity \in [Conn -> Seats \cup {NoSeat}]
  /\ queue \in Seq(OperationType)
  /\ flight \in FlightType
  /\ reported \in [reason : TerminalReasons \cup {NoSeat}, winner : Seats \cup {NoSeat}]
  /\ faults \in 0 .. MaxFaults

\* TypeOK, of rooms that are fine.
Typed == Adapter(game) /\ Surroundings

LEMMA DequeueIs ==
  ASSUME Surroundings, NEW op, Dequeue(op)
  PROVE  /\ flight = Idle /\ queue # <<>>
         /\ Head(queue) \in OperationType /\ Head(queue).op = op
         /\ queue' = Tail(queue) /\ queue' \in Seq(OperationType)
BY DEF Surroundings, Dequeue

LEMMA FaultIs ==
  ASSUME Surroundings, NEW kind, Fault(kind)
  PROVE  faults' \in 0 .. MaxFaults /\ kind \in Faults
BY DurableAssumption DEF Surroundings, Fault

LEMMA PublishIs ==
  ASSUME NEW g, Fine(g.room), NEW by \in {"client", "alarm"}, Publish(g, by)
  PROVE  /\ flight' \in FlightType /\ flight'.kind # "attach"
         /\ flight' # Idle <=> g.room.status = "done"
<1>1. CASE g.room.status = "done"
  <2> DEFINE f == [kind |-> "publish", by |-> by, reason |-> g.room.reason,
                   winner |-> g.room.winner]
  <2>1. g.room.reason \in TerminalReasons /\ g.room.winner \in Seats \cup {NoSeat}
    BY <1>1 DEF Fine, RoomType, TerminalReasons
  <2>2. f \in FlightType /\ f.kind = "publish"
    BY <2>1, FlightsAre
  <2>3. flight' = f
    BY <1>1 DEF Publish
  <2> HIDE DEF f
  <2> QED  BY <1>1, <2>2, <2>3, FlightIs
<1>2. CASE g.room.status # "done"
  BY <1>2, FlightsAre DEF Publish
<1> QED  BY <1>1, <1>2

LEMMA CommittedIs ==
  ASSUME Surroundings, NEW g, Adapter(g), NEW after, Fine(after), NEW published \in BOOLEAN,
         Committed(g, after, published)
  PROVE  /\ Adapter(game') /\ SameState(g, game') /\ game'.retry = g.retry
         /\ game'.room = Payload(after, now) /\ Lasts(after, game'.room)
         /\ \/ game'.saved = g.saved /\ game'.down /\ "write" \in Faults
            \/ /\ game'.saved = Serialized(game'.room)
               /\ \/ game'.alarm = Timer(game', now)
                  \/ game'.alarm = g.alarm /\ "write" \in Faults
                       /\ (game'.down <=> game'.room.status # "done")
               /\ game'.down /\ ~g.down => "write" \in Faults
         /\ faults' \in 0 .. MaxFaults
         /\ flight' \in FlightType /\ flight'.kind # "attach"
         /\ flight' # Idle => game'.room.status = "done" /\ ~game'.down
<1>1. PICK write \in Writes :
        /\ Spend(write) /\ game' = Mutated(g, after, now, write)
        /\ IF published /\ ~Mutated(g, after, now, write).down
           THEN Publish(Mutated(g, after, now, write), "client") ELSE flight' = Idle
  BY DEF Committed
<1> DEFINE h == Mutated(g, after, now, write)
<1>2. now \in Nat
  BY DEF Surroundings
<1>3. h = Mutated(g, after, now, write)
  OBVIOUS
<1> HIDE DEF h
<1>4. /\ Adapter(h) /\ SameState(g, h)
      /\ h.retry = g.retry /\ h.room = Payload(after, now)
      /\ \/ write = "put_fails" /\ h.down /\ h.saved = g.saved
         \/ /\ write = "alarm_fails" /\ (h.down <=> h.room.status # "done")
            /\ h.saved = Serialized(h.room) /\ h.alarm = g.alarm
         \/ /\ h.down = g.down
            /\ h.saved = Serialized(h.room) /\ h.alarm = Timer(h, now)
  BY <1>2, <1>3, MutatedIs
<1>5. game' = h
  BY <1>1, <1>3
<1>6. Lasts(after, h.room) /\ Fine(h.room)
  BY <1>2, <1>4, PayloadIs DEF Lasts
<1>7. faults' \in 0 .. MaxFaults
  BY <1>1, DurableAssumption DEF Surroundings, Writes, Spend
<1>8. /\ flight' \in FlightType /\ flight'.kind # "attach"
      /\ flight' # Idle => h.room.status = "done" /\ ~h.down
  <2>1. CASE published /\ ~h.down
    <3>1. Publish(h, "client")
      BY <1>1, <1>3, <2>1
    <3> QED  BY <1>6, <2>1, <3>1, PublishIs
  <2>2. CASE ~(published /\ ~h.down)
    <3>1. flight' = Idle
      BY <1>1, <1>3, <2>2
    <3> QED  BY <3>1, FlightsAre
  <2> QED  BY <2>1, <2>2
<1>9. write = "put_fails" \/ write = "alarm_fails" => "write" \in Faults
  BY <1>1 DEF Writes
<1> QED  BY <1>4, <1>5, <1>6, <1>7, <1>8, <1>9

-----------------------------------------------------------------------------
(* What is stored is kept.  An attach whose socket closes under it may be    *)
(* rolled back over later moves, so this needs "interrupt" \notin Faults.    *)

\* Memory is ahead of storage, and there is no attach left to roll back.
Held(g) ==
  /\ DOMAIN g.provisional = {}
  /\ g.loaded /\ ~g.down => Lasts(g.saved, g.room)
  /\ g.terminal # NoSeat /\ g.loaded => g.down

Kept ==
  /\ Held(game)
  /\ flight.kind = "attach" =>
       game.loaded /\ ~game.down /\ socket[flight.conn] = "open"
  /\ queue # <<>> => game.loaded \/ game.wiped

Calm == "interrupt" \notin Faults

Lasting == Lasts(game.saved, game'.saved)

\* What each action has to show.
Keeps == Typed' /\ (Calm /\ Kept => Kept' /\ Lasting)

LEMMA SerializedLasts ==
  ASSUME NEW r, Fine(r)  PROVE Lasts(r, Serialized(r)) /\ Lasts(Serialized(r), r)
<1>1. Lasts(r, Serialized(r)) /\ SamePlay(r, Serialized(r))
  BY SerializedIs
<1> QED  BY <1>1 DEF Lasts, SamePlay, Fine, RoomType

LEMMA Renewed ==
  ASSUME NEW g, Adapter(g), Held(g), g.loaded, ~g.down,
         NEW h, Adapter(h), DOMAIN h.provisional = {}, h.terminal = g.terminal,
         Lasts(g.room, h.room), h.saved = g.saved \/ h.saved = Serialized(h.room)
  PROVE  Held(h) /\ Lasts(g.saved, h.saved)
<1>1. Fine(g.saved) /\ Fine(g.room) /\ Fine(h.room) /\ Fine(h.saved)
  BY DEF Adapter
<1>2. Lasts(g.saved, h.room)
  <2>1. Lasts(g.saved, g.room)
    BY DEF Held
  <2> QED  BY <1>1, <2>1, LastsTransitive
<1>3. h.terminal = NoSeat
  BY DEF Held
<1>4. CASE h.saved = g.saved
  <2>1. Lasts(g.saved, g.saved)
    BY <1>1, LastsReflexive
  <2> QED  BY <1>2, <1>3, <1>4, <2>1 DEF Held
<1>5. CASE h.saved = Serialized(h.room)
  <2>1. Lasts(h.room, h.saved) /\ Lasts(h.saved, h.room)
    BY <1>1, <1>5, SerializedLasts
  <2>2. Lasts(g.saved, h.saved)
    BY <1>1, <1>2, <2>1, LastsTransitive
  <2> QED  BY <1>3, <2>1, <2>2 DEF Held
<1> QED  BY <1>4, <1>5

\* Waking an adapter loses nothing that is stored.
LEMMA LoadedKeeps ==
  ASSUME NEW g, Adapter(g), DOMAIN g.provisional = {},
         NEW live \in [Seats -> Conn \cup {NoConn}], NEW t \in Nat
  PROVE  LET h == Loaded(g, live, t) IN Held(h) /\ Lasts(g.saved, h.saved)
<1> DEFINE h == Loaded(g, live, t)
<1>1. /\ Adapter(h) /\ h.loaded /\ (h.down <=> g.terminal # NoSeat)
      /\ h.provisional = g.provisional /\ h.terminal = g.terminal
      /\ h.room = Woken(g.saved, live, t)
      /\ h.saved = g.saved \/ h.saved = Serialized(h.room)
  BY LoadedIs
<1> HIDE DEF h
<1>2. Fine(g.saved) /\ Fine(h.room) /\ Fine(h.saved)
  BY <1>1 DEF Adapter
<1>3. Lasts(g.saved, h.room)
  BY <1>1, <1>2, WokenIs
<1>4. Lasts(h.saved, h.room) /\ Lasts(g.saved, h.saved)
  <2>1. CASE h.saved = g.saved
    BY <1>2, <1>3, <2>1, LastsReflexive
  <2>2. CASE h.saved = Serialized(h.room)
    <3>1. Lasts(h.room, h.saved) /\ Lasts(h.saved, h.room)
      BY <1>2, <2>2, SerializedLasts
    <3> QED  BY <1>2, <1>3, <3>1, LastsTransitive
  <2> QED  BY <1>1, <2>1, <2>2
<1>5. Held(h)
  BY <1>1, <1>4 DEF Held
<1> QED  BY <1>4, <1>5 DEF h

LEMMA AwakeIs ==
  ASSUME Typed, NEW sockets
  PROVE  LET h == Awake(sockets) IN
         /\ Adapter(h) /\ h.loaded /\ h.wiped = game.wiped /\ h.terminal = game.terminal
         /\ h.provisional = game.provisional
         /\ game.loaded => h = game
         /\ Held(game) => Held(h) /\ Lasts(game.saved, h.saved)
<1> DEFINE h == Awake(sockets)
           live == LiveSockets(sockets, identity)
<1>1. Adapter(game) /\ now \in Nat /\ live \in [Seats -> Conn \cup {NoConn}]
  BY LiveSocketsIs DEF Typed, Surroundings
<1>2. CASE game.loaded
  <2>1. h = game
    BY <1>2 DEF Awake
  <2>2. Lasts(game.saved, game.saved)
    BY <1>1, LastsReflexive DEF Adapter
  <2> HIDE DEF h
  <2> QED  BY <1>1, <1>2, <2>1, <2>2 DEF h
<1>3. CASE ~game.loaded
  <2>1. h = Loaded(game, live, now)
    BY <1>3 DEF Awake
  <2> HIDE DEF h, live
  <2>2. /\ Adapter(h) /\ h.loaded /\ h.wiped = game.wiped /\ h.terminal = game.terminal
        /\ h.provisional = game.provisional
    BY <1>1, <2>1, LoadedIs
  <2>3. ASSUME Held(game)  PROVE Held(h) /\ Lasts(game.saved, h.saved)
    <3>1. DOMAIN game.provisional = {}
      BY <2>3 DEF Held
    <3> QED  BY <1>1, <2>1, <3>1, LoadedKeeps
  <2> QED  BY <1>3, <2>2, <2>3 DEF h
<1> QED  BY <1>2, <1>3

LEMMA SendAttachKeeps ==
  ASSUME Typed, NEW c \in Conn, NEW s \in Seats, SendAttach(c, s)
  PROVE  Keeps
<1> DEFINE o == [op |-> "attach", conn |-> c, seat |-> s]
<1>1. /\ socket[c] = "idle" /\ socket' = [socket EXCEPT ![c] = "open"]
      /\ queue' = Append(queue, o) /\ game' = Awake(socket) /\ ~game.wiped
      /\ UNCHANGED <<now, identity, flight, reported, faults>>
  BY DEF SendAttach, Enqueue
<1>2. o \in OperationType
  BY OperationsAre
<1> HIDE DEF o
<1>3. /\ Adapter(game') /\ game'.loaded /\ (game.loaded => game' = game)
      /\ Held(game) => Held(game') /\ Lasts(game.saved, game'.saved)
  BY <1>1, AwakeIs
<1>4. queue' \in Seq(OperationType)
  BY <1>1, <1>2 DEF Typed, Surroundings
<1>5. Typed'
  BY <1>1, <1>3, <1>4 DEF Typed, Surroundings
<1>6. ASSUME Kept  PROVE Kept' /\ Lasting
  <2>1. flight.kind = "attach" => flight.conn # c /\ flight.conn \in Conn
    BY <1>1, <1>6, FlightIs DEF Kept, Typed, Surroundings
  <2> QED  BY <1>1, <1>3, <1>6, <2>1 DEF Kept, Lasting, Typed, Surroundings
<1> QED  BY <1>5, <1>6 DEF Keeps

LEMMA SendCommandKeeps ==
  ASSUME Typed, NEW c \in Conn, NEW op \in {"move", "leave"}, SendCommand(c, op)
  PROVE  Keeps
<1> DEFINE o == [op |-> op, conn |-> c]
<1>1. /\ queue' = Append(queue, o) /\ game' = Awake(socket)
      /\ UNCHANGED <<now, socket, identity, flight, reported, faults>>
  BY DEF SendCommand, Enqueue
<1>2. o \in OperationType
  BY OperationsAre
<1> HIDE DEF o
<1>3. /\ Adapter(game') /\ game'.loaded /\ (game.loaded => game' = game)
      /\ Held(game) => Held(game') /\ Lasts(game.saved, game'.saved)
  BY <1>1, AwakeIs
<1>4. queue' \in Seq(OperationType)
  BY <1>1, <1>2 DEF Typed, Surroundings
<1>5. Typed'
  BY <1>1, <1>3, <1>4 DEF Typed, Surroundings
<1>6. ASSUME Kept  PROVE Kept' /\ Lasting
  BY <1>1, <1>3, <1>6 DEF Kept, Lasting
<1> QED  BY <1>5, <1>6 DEF Keeps

LEMMA CloseKeeps ==
  ASSUME Typed, NEW c \in Conn, Close(c)
  PROVE  Keeps
<1> DEFINE o == [op |-> "close", conn |-> c]
<1>1. /\ socket' = [socket EXCEPT ![c] = "closed"]
      /\ identity' = [identity EXCEPT ![c] = NoSeat]
      /\ queue' = Append(queue, o)
      /\ IF flight.kind = "attach" /\ flight.conn = c
         THEN Fault("interrupt") ELSE UNCHANGED faults
      /\ game' = IF game.wiped THEN game ELSE Awake([socket EXCEPT ![c] = "closed"])
      /\ UNCHANGED <<now, flight, reported>>
  BY DEF Close, Enqueue
<1>2. o \in OperationType
  BY OperationsAre
<1> HIDE DEF o
<1>3. /\ Adapter(game') /\ (game.loaded => game' = game) /\ (game'.loaded \/ game'.wiped)
      /\ Held(game) => Held(game') /\ Lasts(game.saved, game'.saved)
  <2>1. CASE game.wiped
    <3>1. Lasts(game.saved, game.saved)
      BY LastsReflexive DEF Typed, Adapter
    <3> QED  BY <1>1, <2>1, <3>1 DEF Typed
  <2>2. CASE ~game.wiped
    <3>1. game' = Awake([socket EXCEPT ![c] = "closed"])
      BY <1>1, <2>2
    <3> QED  BY <3>1, AwakeIs
  <2> QED  BY <2>1, <2>2
<1>4. queue' \in Seq(OperationType)
  BY <1>1, <1>2 DEF Typed, Surroundings
<1>5. faults' \in 0 .. MaxFaults
  BY <1>1, FaultIs DEF Typed, Surroundings
<1>6. Typed'
  BY <1>1, <1>3, <1>4, <1>5 DEF Typed, Surroundings
<1>7. ASSUME Calm, Kept  PROVE Kept' /\ Lasting
  <2>1. flight.kind = "attach" => flight.conn # c /\ flight.conn \in Conn
    BY <1>1, <1>7, FaultIs, FlightIs DEF Calm, Typed, Surroundings
  <2> QED  BY <1>1, <1>3, <1>7, <2>1 DEF Kept, Lasting, Typed, Surroundings
<1> QED  BY <1>6, <1>7 DEF Keeps

LEMMA WipedIs ==
  ASSUME NEW g, Adapter(g)
  PROVE  LET h == [Forgotten(g) EXCEPT !.wiped = TRUE, !.alarm = NoTime] IN
         /\ Adapter(h) /\ ~h.loaded /\ ~h.down /\ h.wiped /\ h.alarm = NoTime
         /\ h.room = g.saved /\ h.saved = g.saved /\ DOMAIN h.provisional = {}
         /\ h.terminal = g.terminal
<1> DEFINE f == Forgotten(g)
           h == [f EXCEPT !.wiped = TRUE, !.alarm = NoTime]
<1>1. /\ Adapter(f) /\ ~f.loaded /\ ~f.down
      /\ f.room = g.saved /\ f.saved = g.saved /\ DOMAIN f.provisional = {}
      /\ f.terminal = g.terminal
  BY ForgottenIs
<1> HIDE DEF f
<1>2. PICK C \in SUBSET Conn : f \in GameType(C)
  BY <1>1 DEF Adapter
<1>3. /\ h \in GameType(C) /\ h.loaded = f.loaded /\ h.down = f.down /\ h.wiped
      /\ h.alarm = NoTime /\ h.room = f.room /\ h.saved = f.saved
      /\ h.provisional = f.provisional /\ h.terminal = f.terminal
  BY <1>2 DEF GameType
<1> HIDE DEF h
<1>4. Adapter(h)
  BY <1>1, <1>3 DEF Adapter
<1> QED  BY <1>1, <1>3, <1>4 DEF h, f

LEMMA AlarmFiresKeeps ==
  ASSUME Typed, AlarmFires
  PROVE  Keeps
<1>1. /\ ~game.wiped
      /\ IF game.terminal # NoSeat /\ game.gcAt <= now
         THEN /\ game' = [Forgotten(game) EXCEPT !.wiped = TRUE, !.alarm = NoTime]
              /\ UNCHANGED queue
         ELSE LET g == Awake(socket)
                  spent == [g EXCEPT !.alarm = NoTime]
              IN  /\ game' = IF g.down THEN spent ELSE Scheduled(spent, now)
                  /\ queue' = Append(queue, [op |-> "alarm"])
      /\ UNCHANGED <<now, socket, identity, flight, reported, faults>>
  BY DEF AlarmFires
<1>2. Adapter(game) /\ now \in Nat /\ Lasts(game.saved, game.saved)
  BY LastsReflexive DEF Typed, Surroundings, Adapter
<1>3. CASE game.terminal # NoSeat /\ game.gcAt <= now
  <2> DEFINE h == [Forgotten(game) EXCEPT !.wiped = TRUE, !.alarm = NoTime]
  <2>1. game' = h /\ UNCHANGED queue
    BY <1>1, <1>3
  <2>2. /\ Adapter(h) /\ ~h.loaded /\ h.wiped
        /\ h.saved = game.saved /\ DOMAIN h.provisional = {}
    BY <1>2, WipedIs
  <2> HIDE DEF h
  <2>3. Typed'
    BY <1>1, <2>1, <2>2 DEF Typed, Surroundings
  <2>4. ASSUME Kept  PROVE Kept' /\ Lasting
    <3>1. flight.kind # "attach"
      BY <1>3, <2>4 DEF Kept, Held
    <3> QED  BY <1>1, <1>2, <2>1, <2>2, <3>1 DEF Kept, Held, Lasting
  <2> QED  BY <2>3, <2>4 DEF Keeps
<1>4. CASE ~(game.terminal # NoSeat /\ game.gcAt <= now)
  <2> DEFINE g == Awake(socket)
             spent == [g EXCEPT !.alarm = NoTime]
             o == [op |-> "alarm"]
  <2>1. game' = (IF g.down THEN spent ELSE Scheduled(spent, now)) /\ queue' = Append(queue, o)
    BY <1>1, <1>4
  <2>2. o \in OperationType
    BY OperationsAre
  <2> HIDE DEF o
  <2>3. /\ Adapter(g) /\ g.loaded /\ (game.loaded => g = game)
        /\ Held(game) => Held(g) /\ Lasts(game.saved, g.saved)
    BY AwakeIs
  <2> HIDE DEF g
  <2>4. /\ Adapter(spent) /\ SameState(g, spent)
        /\ spent.room = g.room /\ spent.saved = g.saved /\ spent.down = g.down
    BY <2>3, AlarmChanged
  <2> HIDE DEF spent
  <2>5. /\ Adapter(game') /\ SameState(g, game')
        /\ game'.room = g.room /\ game'.saved = g.saved /\ game'.down = g.down
    <3>1. CASE g.down
      <4>1. game' = spent
        BY <2>1, <3>1
      <4> QED  BY <2>4, <4>1
    <3>2. CASE ~g.down
      <4> DEFINE h == Scheduled(spent, now)
      <4>1. game' = h
        BY <2>1, <3>2
      <4>2. /\ Adapter(h) /\ SameState(spent, h)
            /\ h.room = spent.room /\ h.saved = spent.saved /\ h.down = spent.down
        BY <1>2, <2>4, ScheduledIs
      <4> HIDE DEF h
      <4> QED  BY <2>4, <4>1, <4>2 DEF SameState
    <3> QED  BY <3>1, <3>2
  <2>6. queue' \in Seq(OperationType)
    BY <2>1, <2>2 DEF Typed, Surroundings
  <2>7. Typed'
    BY <1>1, <2>5, <2>6 DEF Typed, Surroundings
  <2>8. ASSUME Kept  PROVE Kept' /\ Lasting
    <3>1. Held(g) /\ Lasts(game.saved, g.saved)
      BY <2>3, <2>8 DEF Kept
    <3>2. Held(game') /\ game'.loaded
      BY <2>3, <2>5, <3>1 DEF Held, SameState
    <3> QED  BY <1>1, <2>3, <2>5, <2>8, <3>1, <3>2 DEF Kept, Lasting
  <2> QED  BY <2>7, <2>8 DEF Keeps
<1> QED  BY <1>3, <1>4

\* An operation that does not end at the await of a ticket.
LEMMA OperationKeeps ==
  ASSUME Typed, UNCHANGED <<now, socket, identity>>,
         reported' \in [reason : TerminalReasons \cup {NoSeat}, winner : Seats \cup {NoSeat}],
         queue' \in Seq(OperationType), queue' # <<>> => queue # <<>>,
         faults' \in 0 .. MaxFaults, flight' \in FlightType, flight'.kind # "attach",
         Adapter(game'), game'.loaded = game.loaded, game'.wiped = game.wiped,
         Calm /\ Kept => Held(game') /\ Lasting
  PROVE  Keeps
<1>1. Typed'
  BY DEF Typed, Surroundings
<1>2. Calm /\ Kept => Kept' /\ Lasting
  BY DEF Kept
<1> QED  BY <1>1, <1>2 DEF Keeps

LEMMA IgnoredKeeps ==
  ASSUME Typed, UNCHANGED <<now, socket, identity, reported>>,
         NEW op, Dequeue(op), game' = game, flight' = Idle, faults' = faults
  PROVE  Keeps
<1>1. queue # <<>> /\ queue' \in Seq(OperationType)
  BY DequeueIs DEF Typed
<1>2. Lasts(game.saved, game.saved) /\ Adapter(game)
  BY LastsReflexive DEF Typed, Adapter
<1>3. Kept => Held(game') /\ Lasting
  BY <1>2 DEF Kept, Lasting
<1>4. flight' \in FlightType /\ flight'.kind # "attach"
  BY FlightsAre
<1>5. faults' \in 0 .. MaxFaults
      /\ reported' \in [reason : TerminalReasons \cup {NoSeat}, winner : Seats \cup {NoSeat}]
  BY DEF Typed, Surroundings
<1> QED  BY <1>1, <1>2, <1>3, <1>4, <1>5, OperationKeeps

\* A seat's command or close, once its sockets are bound again.
LEMMA CommandKeeps ==
  ASSUME Typed, UNCHANGED <<now, socket, identity, reported>>, NEW op, Dequeue(op),
         ~game.down, ~game.wiped,
         NEW g, Adapter(g), SameState(game, g), g.down = game.down, Lasts(game.room, g.room),
         g.saved = game.saved \/ g.saved = Serialized(g.room),
         NEW after, Lasts(g.room, after), NEW published \in BOOLEAN,
         Committed(g, after, published)
  PROVE  Keeps
<1>1. queue # <<>> /\ queue' \in Seq(OperationType)
  BY DequeueIs DEF Typed
<1>2. /\ Adapter(game') /\ SameState(g, game') /\ Lasts(after, game'.room)
      /\ game'.saved = g.saved \/ game'.saved = Serialized(game'.room)
      /\ faults' \in 0 .. MaxFaults
      /\ flight' \in FlightType /\ flight'.kind # "attach"
  BY CommittedIs DEF Typed, Lasts
<1>3. Fine(game.room) /\ Fine(g.room) /\ Fine(after) /\ Adapter(game)
  BY DEF Typed, Adapter, Lasts
<1>4. Lasts(g.room, game'.room)
  BY <1>2, <1>3, LastsTransitive
<1>5. ASSUME Kept  PROVE Held(game') /\ Lasting
  <2>1. Held(game) /\ game.loaded /\ DOMAIN game.provisional = {}
    BY <1>1, <1>5 DEF Kept, Held
  <2>2. Held(g) /\ Lasts(game.saved, g.saved)
    <3>1. DOMAIN g.provisional = {} /\ g.terminal = game.terminal
      BY <2>1 DEF SameState
    <3> QED  BY <1>3, <2>1, <3>1, Renewed
  <2>3. Held(game') /\ Lasts(g.saved, game'.saved)
    <3>1. DOMAIN game'.provisional = {} /\ game'.terminal = g.terminal /\ g.loaded /\ ~g.down
      BY <1>2, <2>1, <2>2 DEF SameState, Held
    <3> QED  BY <1>2, <1>4, <2>2, <3>1, Renewed
  <2>4. Lasts(game.saved, game'.saved)
    <3>1. Fine(game.saved)
      BY <1>3 DEF Adapter
    <3> QED  BY <2>2, <2>3, <3>1, LastsTransitive
  <2> QED  BY <2>3, <2>4 DEF Lasting
<1>6. game'.loaded = game.loaded /\ game'.wiped = game.wiped
  BY <1>2 DEF SameState
<1>7. reported' \in [reason : TerminalReasons \cup {NoSeat}, winner : Seats \cup {NoSeat}]
  BY DEF Typed, Surroundings
<1> QED  BY <1>1, <1>2, <1>5, <1>6, <1>7, OperationKeeps

LEMMA SeatOfIs ==
  ASSUME NEW r, NEW c, SeatHeld(r, c)
  PROVE  SeatOf(r, c) \in Seats /\ HoldsSeat(r, SeatOf(r, c), c)
BY DEF SeatHeld, SeatOf

LEMMA RunMoveKeeps ==
  ASSUME Typed, RunMove
  PROVE  Keeps
<1> DEFINE c == Head(queue).conn
           g == Rebound(game, Live, now)
<1>1. Dequeue("move") /\ UNCHANGED <<now, socket, identity, reported>>
  BY DEF RunMove
<1>2. CASE socket[c] # "open" \/ game.down \/ game.wiped
  <2>1. game' = game /\ flight' = Idle /\ faults' = faults
    BY <1>2 DEF RunMove, Ignored
  <2> QED  BY <1>1, <2>1, IgnoredKeeps
<1>3. CASE ~(socket[c] # "open" \/ game.down \/ game.wiped)
  <2>1. PICK m \in Moves, verdict \in {"moved", "goal"} :
          Committed(g, IF SeatHeld(g.room, c)
                       THEN HandleMove(g.room, SeatOf(g.room, c), m, NoRevision, verdict, now)
                       ELSE g.room, TRUE)
    BY <1>3 DEF RunMove
  <2>2. Live \in [Seats -> Conn \cup {NoConn}] /\ now \in Nat /\ Adapter(game)
    BY LiveSocketsIs DEF Live, Typed, Surroundings
  <2>3. /\ Adapter(g) /\ SameState(game, g) /\ g.down = game.down /\ Lasts(game.room, g.room)
        /\ g.saved = game.saved \/ g.saved = Serialized(g.room)
    BY <2>2, ReboundIs
  <2> HIDE DEF g
  <2> DEFINE after == IF SeatHeld(g.room, c)
                      THEN HandleMove(g.room, SeatOf(g.room, c), m, NoRevision, verdict, now)
                      ELSE g.room
  <2>4. Lasts(g.room, after)
    <3>1. Fine(g.room)
      BY <2>3 DEF Adapter
    <3>2. CASE SeatHeld(g.room, c)
      <4>1. SeatOf(g.room, c) \in Seats /\ verdict \in Verdicts
        BY <3>2, SeatOfIs DEF Verdicts, BoardWins
      <4>2. NoRevision \in Nat \cup {NoRevision}
        OBVIOUS
      <4> QED  BY <2>2, <3>1, <3>2, <4>1, <4>2, HandleMoveIs
    <3>3. CASE ~SeatHeld(g.room, c)
      BY <3>1, <3>3, LastsReflexive
    <3> QED  BY <3>2, <3>3
  <2>5. Committed(g, after, TRUE)
    BY <2>1
  <2> HIDE DEF after
  <2> QED  BY <1>1, <1>3, <2>3, <2>4, <2>5, CommandKeeps
<1> QED  BY <1>2, <1>3

LEMMA RunLeaveKeeps ==
  ASSUME Typed, RunLeave
  PROVE  Keeps
<1> DEFINE c == Head(queue).conn
           g == Rebound(game, Live, now)
           after == IF SeatHeld(g.room, c)
                    THEN LeavePlayer(g.room, SeatOf(g.room, c), now) ELSE g.room
<1>1. Dequeue("leave") /\ UNCHANGED <<now, socket, identity, reported>>
  BY DEF RunLeave
<1>2. CASE socket[c] # "open" \/ game.down \/ game.wiped
  <2>1. game' = game /\ flight' = Idle /\ faults' = faults
    BY <1>2 DEF RunLeave, Ignored
  <2> QED  BY <1>1, <2>1, IgnoredKeeps
<1>3. CASE ~(socket[c] # "open" \/ game.down \/ game.wiped)
  <2>1. Committed(g, after, TRUE)
    BY <1>3 DEF RunLeave
  <2>2. Live \in [Seats -> Conn \cup {NoConn}] /\ now \in Nat /\ Adapter(game)
    BY LiveSocketsIs DEF Live, Typed, Surroundings
  <2>3. /\ Adapter(g) /\ SameState(game, g) /\ g.down = game.down /\ Lasts(game.room, g.room)
        /\ g.saved = game.saved \/ g.saved = Serialized(g.room)
    BY <2>2, ReboundIs
  <2> HIDE DEF g
  <2>4. Lasts(g.room, after)
    <3>1. Fine(g.room)
      BY <2>3 DEF Adapter
    <3>2. CASE SeatHeld(g.room, c)
      <4>1. SeatOf(g.room, c) \in Seats
        BY <3>2, SeatOfIs
      <4> QED  BY <2>2, <3>1, <3>2, <4>1, LeavePlayerIs
    <3>3. CASE ~SeatHeld(g.room, c)
      BY <3>1, <3>3, LastsReflexive
    <3> QED  BY <3>2, <3>3
  <2> HIDE DEF after
  <2> QED  BY <1>1, <1>3, <2>1, <2>3, <2>4, CommandKeeps
<1> QED  BY <1>2, <1>3

LEMMA RunCloseKeeps ==
  ASSUME Typed, RunClose
  PROVE  Keeps
<1> DEFINE c == Head(queue).conn
           h == RolledBack(game, c, now)
           after == IF SeatHeld(game.room, c)
                    THEN DisconnectPlayer(game.room, SeatOf(game.room, c), now)
                    ELSE game.room
<1>1. Dequeue("close") /\ UNCHANGED <<now, socket, identity, reported>>
  BY DEF RunClose
<1>2. Adapter(game) /\ now \in Nat /\ Fine(game.room)
  BY DEF Typed, Surroundings, Adapter
<1>3. CASE game.down \/ game.wiped
  <2>1. game' = game /\ flight' = Idle /\ faults' = faults
    BY <1>3 DEF RunClose, Ignored
  <2> QED  BY <1>1, <2>1, IgnoredKeeps
<1>4. CASE ~(game.down \/ game.wiped) /\ c \in DOMAIN game.provisional
  <2>1. game' = h /\ Publish(h, "client") /\ UNCHANGED faults
    BY <1>4 DEF RunClose
  <2>2. /\ Adapter(h) /\ h.loaded = game.loaded /\ h.wiped = game.wiped
    BY <1>2, <1>4, RolledBackIs
  <2> HIDE DEF h
  <2>3. flight' \in FlightType /\ flight'.kind # "attach"
    BY <2>1, <2>2, PublishIs DEF Adapter
  <2>4. queue # <<>> /\ queue' \in Seq(OperationType)
    BY <1>1, DequeueIs DEF Typed
  <2>5. ~Kept
    BY <1>4 DEF Kept, Held
  <2>6. faults' \in 0 .. MaxFaults
        /\ reported' \in [reason : TerminalReasons \cup {NoSeat}, winner : Seats \cup {NoSeat}]
    BY <1>1, <2>1 DEF Typed, Surroundings
  <2> QED  BY <1>1, <2>1, <2>2, <2>3, <2>4, <2>5, <2>6, OperationKeeps
<1>5. CASE ~(game.down \/ game.wiped) /\ c \notin DOMAIN game.provisional
  <2>1. Committed(game, after, SeatHeld(game.room, c))
    BY <1>5 DEF RunClose
  <2>2. Lasts(game.room, after)
    <3>1. CASE SeatHeld(game.room, c)
      <4>1. SeatOf(game.room, c) \in Seats
        BY <3>1, SeatOfIs
      <4> QED  BY <1>2, <3>1, <4>1, DisconnectPlayerIs
    <3>2. CASE ~SeatHeld(game.room, c)
      BY <1>2, <3>2, LastsReflexive
    <3> QED  BY <3>1, <3>2
  <2>3. Lasts(game.room, game.room) /\ SameState(game, game)
    BY <1>2, LastsReflexive DEF SameState
  <2>4. SeatHeld(game.room, c) \in BOOLEAN
    BY DEF SeatHeld
  <2> HIDE DEF after
  <2> QED  BY <1>1, <1>2, <1>5, <2>1, <2>2, <2>3, <2>4, CommandKeeps
<1> QED  BY <1>3, <1>4, <1>5

LEMMA RunAttachKeeps ==
  ASSUME Typed, RunAttach
  PROVE  Keeps
<1> DEFINE c == Head(queue).conn
           s == Head(queue).seat
           g == Rebound(game, Live, now)
<1>1. Dequeue("attach") /\ UNCHANGED <<now, socket, identity, reported>>
  BY DEF RunAttach
<1>2. CASE socket[c] # "open" \/ game.down \/ game.wiped
  <2>1. game' = game /\ flight' = Idle /\ faults' = faults
    BY <1>2 DEF RunAttach, Ignored
  <2> QED  BY <1>1, <2>1, IgnoredKeeps
<1>3. CASE ~(socket[c] # "open" \/ game.down \/ game.wiped)
  <2> DEFINE p == g.room.conn[s]
             f == [kind |-> "attach", conn |-> c, seat |-> s, previous |-> p]
  <2>1. game' = g /\ flight' = f /\ UNCHANGED faults
    BY <1>3 DEF RunAttach
  <2>2. Live \in [Seats -> Conn \cup {NoConn}] /\ now \in Nat /\ Adapter(game)
    BY LiveSocketsIs DEF Live, Typed, Surroundings
  <2>3. /\ Adapter(g) /\ SameState(game, g) /\ g.down = game.down /\ Lasts(game.room, g.room)
        /\ g.saved = game.saved \/ g.saved = Serialized(g.room)
    BY <2>2, ReboundIs
  <2> HIDE DEF g
  <2>4. queue # <<>> /\ queue' = Tail(queue) /\ queue' \in Seq(OperationType)
        /\ c \in Conn /\ s \in Seats
    BY <1>1, DequeueIs, OperationIs DEF Typed
  <2>5. p \in Conn \cup {NoConn}
    BY <2>3, <2>4 DEF Adapter, Fine, RoomType
  <2> HIDE DEF c, s, p
  <2>6. f \in FlightType /\ f.kind = "attach" /\ f.conn = c
    BY <2>4, <2>5, FlightsAre
  <2> HIDE DEF f
  <2>7. Typed'
    BY <1>1, <2>1, <2>3, <2>4, <2>6 DEF Typed, Surroundings
  <2>8. ASSUME Kept  PROVE Kept' /\ Lasting
    <3>1. Held(game) /\ game.loaded /\ DOMAIN game.provisional = {} /\ ~game.down
      BY <1>3, <2>4, <2>8 DEF Kept, Held
    <3>2. DOMAIN g.provisional = {} /\ g.terminal = game.terminal /\ g.loaded /\ ~g.down
      BY <2>3, <3>1 DEF SameState
    <3>3. Held(g) /\ Lasts(game.saved, g.saved)
      BY <2>2, <2>3, <3>1, <3>2, Renewed
    <3>4. socket'[flight'.conn] = "open"
      BY <1>1, <1>3, <2>1, <2>6
    <3> QED  BY <2>1, <3>2, <3>3, <3>4 DEF Kept, Lasting
  <2> QED  BY <2>7, <2>8 DEF Keeps
<1> QED  BY <1>2, <1>3

LEMMA AttachRejectedKeeps ==
  ASSUME Typed, AttachRejected
  PROVE  Keeps
<1> DEFINE c == flight.conn
           s == flight.seat
           tried == IF Accepts(game, s, now) THEN Attached(game, c, s, now)
                    ELSE IF game.room.seated[s] /\ game.room.connected[s]
                    THEN DisconnectPlayer(game.room, s, now) ELSE game.room
           h == Reloaded(game, tried, c, now)
<1>1. /\ IF Accepts(game, s, now) THEN Fault("transaction") ELSE UNCHANGED faults
      /\ game' = h /\ flight' = Idle /\ flight.kind = "attach"
      /\ UNCHANGED <<now, socket, identity, queue, reported>>
  BY DEF AttachRejected
<1>2. c \in Conn /\ s \in Seats /\ Adapter(game) /\ Fine(game.room) /\ now \in Nat
  BY <1>1, FlightIs DEF Typed, Surroundings, Adapter
<1>3. Fine(tried)
  <2>1. CASE Accepts(game, s, now)
    <3>1. Lasts(game.room, Attached(game, c, s, now))
      BY <1>2, <2>1, AttachedIs
    <3> QED  BY <2>1, <3>1 DEF Lasts
  <2>2. CASE ~Accepts(game, s, now)
    <3>1. Fine(DisconnectPlayer(game.room, s, now))
      <4>1. Lasts(game.room, DisconnectPlayer(game.room, s, now))
        BY <1>2, DisconnectPlayerIs
      <4> QED  BY <4>1 DEF Lasts
    <3> QED  BY <1>2, <2>2, <3>1
  <2> QED  BY <2>1, <2>2
<1> HIDE DEF tried, c, s
<1>4. /\ Adapter(h) /\ DOMAIN h.provisional = {} /\ ~h.down
      /\ h.loaded = game.loaded /\ h.terminal = game.terminal /\ h.wiped = game.wiped
      /\ h.saved = game.saved /\ Lasts(game.saved, h.room)
  BY <1>2, <1>3, ReloadedIs
<1> HIDE DEF h
<1>5. faults' \in 0 .. MaxFaults
  BY <1>1, FaultIs DEF Typed, Surroundings
<1>6. Typed'
  BY <1>1, <1>4, <1>5, FlightsAre DEF Typed, Surroundings
<1>7. ASSUME Kept  PROVE Kept' /\ Lasting
  <2>1. Lasts(game.saved, game.saved) /\ game.loaded /\ game.terminal = NoSeat
    BY <1>1, <1>2, <1>7, LastsReflexive DEF Adapter, Kept, Held
  <2>2. flight'.kind # "attach"
    BY <1>1, FlightsAre
  <2> QED  BY <1>1, <1>4, <2>1, <2>2 DEF Kept, Held, Lasting
<1> QED  BY <1>6, <1>7 DEF Keeps

LEMMA AttachAcceptedKeeps ==
  ASSUME Typed, AttachAccepted
  PROVE  Keeps
<1> DEFINE c == flight.conn
           s == flight.seat
           previous == flight.previous
           g == AttachCommitted(game, c, s, now)
           done == CommitAttach(g, c)
           back == RolledBack(g, c, now)
<1>1. /\ flight.kind = "attach" /\ Accepts(game, s, now)
      /\ \/ /\ identity' = [x \in Conn |-> IF x = c THEN s
                                           ELSE IF x = previous THEN NoSeat
                                           ELSE identity[x]]
            /\ socket' = [x \in Conn |->
                            IF x = previous /\ socket[x] = "open" THEN "closing"
                            ELSE socket[x]]
            /\ game' = done /\ Publish(done, "client") /\ UNCHANGED faults
         \/ /\ Fault("install") /\ game' = back
            /\ socket' = [socket EXCEPT ![c] = "closing"]
            /\ flight' = Idle /\ UNCHANGED identity
         \/ /\ socket[c] # "open" /\ game' = g
            /\ flight' = Idle /\ UNCHANGED <<socket, identity, faults>>
      /\ UNCHANGED <<now, queue, reported>>
  BY DEF AttachAccepted
<1>2. c \in Conn /\ s \in Seats /\ previous \in Conn \cup {NoConn}
      /\ Adapter(game) /\ Fine(game.room) /\ Fine(game.saved) /\ now \in Nat
  BY <1>1, FlightIs DEF Typed, Surroundings, Adapter
<1> HIDE DEF c, s, previous
<1>3. /\ Adapter(g) /\ g.loaded = game.loaded /\ g.terminal = game.terminal
      /\ g.wiped = game.wiped /\ g.down = game.down
      /\ Lasts(game.room, g.room) /\ g.saved = Serialized(g.room)
      /\ DOMAIN g.provisional = DOMAIN game.provisional \cup {c}
      /\ g.provisional[c] = [room |-> Serialized(game.room), live |-> LiveSeats(game.room)]
  BY <1>1, <1>2, AttachCommittedIs
<1> HIDE DEF g
<1>4. /\ Adapter(done) /\ DOMAIN done.provisional = DOMAIN g.provisional \ {c}
      /\ done.loaded = g.loaded /\ done.terminal = g.terminal
      /\ done.wiped = g.wiped /\ done.down = g.down
      /\ done.room = g.room /\ done.saved = g.saved
  BY <1>3, CommitAttachIs
<1> HIDE DEF done
<1>5. /\ Adapter(back) /\ DOMAIN back.provisional = DOMAIN g.provisional \ {c}
      /\ back.loaded = g.loaded /\ back.terminal = g.terminal
      /\ back.wiped = g.wiped /\ back.down = g.down
      /\ back.saved = Serialized(game.room) /\ Lasts(back.saved, back.room)
  <2> DEFINE before == g.provisional[c]
  <2>1. c \in DOMAIN g.provisional /\ before.room = Serialized(game.room)
    BY <1>3
  <2>2. /\ Adapter(back) /\ DOMAIN back.provisional = DOMAIN g.provisional \ {c}
        /\ back.loaded = g.loaded /\ back.terminal = g.terminal
        /\ back.wiped = g.wiped /\ back.down = g.down
        /\ back.saved = before.room /\ Lasts(back.saved, back.room)
    BY <1>2, <1>3, <2>1, RolledBackIs
  <2> QED  BY <2>1, <2>2
<1> HIDE DEF back
<1>6. CASE /\ identity' = [x \in Conn |-> IF x = c THEN s
                                          ELSE IF x = previous THEN NoSeat
                                          ELSE identity[x]]
           /\ socket' = [x \in Conn |->
                           IF x = previous /\ socket[x] = "open" THEN "closing"
                           ELSE socket[x]]
           /\ game' = done /\ Publish(done, "client") /\ UNCHANGED faults
  <2>1. flight' \in FlightType /\ flight'.kind # "attach"
    BY <1>4, <1>6, PublishIs DEF Adapter
  <2>2. identity' \in [Conn -> Seats \cup {NoSeat}]
        /\ socket' \in [Conn -> {"idle", "open", "closing", "closed"}]
    BY <1>2, <1>6 DEF Typed, Surroundings
  <2>3. Typed'
    BY <1>1, <1>4, <1>6, <2>1, <2>2 DEF Typed, Surroundings
  <2>4. ASSUME Kept  PROVE Kept' /\ Lasting
    <3>1. Held(game) /\ game.loaded /\ ~game.down /\ DOMAIN game.provisional = {}
      BY <1>1, <2>4 DEF Kept, Held
    <3>2. DOMAIN done.provisional = {} /\ done.terminal = game.terminal
      BY <1>3, <1>4, <3>1
    <3>3. Lasts(game.room, done.room) /\ done.saved = Serialized(done.room)
      BY <1>3, <1>4
    <3>4. Held(done) /\ Lasts(game.saved, done.saved)
      BY <1>2, <1>4, <3>1, <3>2, <3>3, Renewed
    <3> QED  BY <1>1, <1>3, <1>4, <1>6, <2>1, <3>1, <3>4 DEF Kept, Lasting
  <2> QED  BY <2>3, <2>4 DEF Keeps
<1>7. CASE /\ Fault("install") /\ game' = back
           /\ socket' = [socket EXCEPT ![c] = "closing"]
           /\ flight' = Idle /\ UNCHANGED identity
  <2>1. faults' \in 0 .. MaxFaults
    BY <1>7, FaultIs DEF Typed
  <2>2. Typed'
    BY <1>1, <1>2, <1>5, <1>7, <2>1, FlightsAre DEF Typed, Surroundings
  <2>3. ASSUME Kept  PROVE Kept' /\ Lasting
    <3>1. Held(game) /\ game.loaded /\ ~game.down /\ DOMAIN game.provisional = {}
          /\ game.terminal = NoSeat /\ Lasts(game.saved, game.room)
      BY <1>1, <2>3 DEF Kept, Held
    <3>2. Held(back)
      BY <1>3, <1>5, <3>1 DEF Held
    <3>3. Lasts(game.saved, back.saved)
      <4>1. Lasts(game.room, Serialized(game.room))
        BY <1>2, SerializedLasts
      <4> QED  BY <1>2, <1>5, <3>1, <4>1, LastsTransitive
    <3>4. flight'.kind # "attach"
      BY <1>7, FlightsAre
    <3> QED  BY <1>1, <1>3, <1>5, <1>7, <3>1, <3>2, <3>3, <3>4 DEF Kept, Lasting
  <2> QED  BY <2>2, <2>3 DEF Keeps
<1>8. CASE /\ socket[c] # "open" /\ game' = g
           /\ flight' = Idle /\ UNCHANGED <<socket, identity, faults>>
  <2>1. Typed'
    BY <1>1, <1>3, <1>8, FlightsAre DEF Typed, Surroundings
  <2>2. ~Kept
    BY <1>1, <1>8 DEF Kept, c
  <2> QED  BY <2>1, <2>2 DEF Keeps
<1> QED  BY <1>1, <1>6, <1>7, <1>8

-----------------------------------------------------------------------------
(* The alarm.                                                               *)

LEMMA GoesOnTransitive ==
  ASSUME NEW r, NEW x, NEW y, NEW t, GoesOn(r, x, t), GoesOn(x, y, t)
  PROVE  GoesOn(r, y, t)
BY DEF GoesOn, ClockRuns

LEMMA SameSeatsTransitive ==
  ASSUME NEW r, NEW x, NEW y, SameSeats(r, x), SameSeats(x, y)
  PROVE  SameSeats(r, y)
BY DEF SameSeats

\* An outcome that is about to be told, and told again if that fails.
Telling(g, e, t) == [RetryScheduled(g, e, t) EXCEPT !.emitted = @ \cup {e}]

LEMMA TellingIs ==
  ASSUME NEW g, Adapter(g), NEW e \in TerminalReasons, NEW t \in Nat
  PROVE  LET h == Telling(g, e, t) IN
         /\ Adapter(h) /\ SameState(g, h)
         /\ h.room = g.room /\ h.saved = g.saved /\ h.down = g.down
         /\ h.retry = e /\ h.alarm = Timer(h, t)
<1> DEFINE k == RetryScheduled(g, e, t)
           E == k.emitted \cup {e}
           h == [k EXCEPT !.emitted = E]
<1>1. /\ Adapter(k) /\ SameState(g, k)
      /\ k.room = g.room /\ k.saved = g.saved /\ k.down = g.down
      /\ k.retry = e /\ k.emitted \in SUBSET TerminalReasons
      /\ k.alarm = Timer(k, t)
  BY RetryScheduledIs
<1>2. E \in SUBSET TerminalReasons
  BY <1>1
<1>3. h = Telling(g, e, t)
  BY DEF Telling
<1> HIDE DEF k, E
<1>4. /\ Adapter(h) /\ SameState(k, h)
      /\ h.room = k.room /\ h.saved = k.saved /\ h.down = k.down
      /\ h.retry = k.retry /\ h.alarm = k.alarm
  BY <1>1, <1>2, EmittedChanged
<1> HIDE DEF h
<1>5. Timer(h, t) = Timer(k, t)
  BY <1>4, SameTimer DEF SameState
<1> QED  BY <1>1, <1>3, <1>4, <1>5 DEF SameState

LEMMA ReportIs ==
  ASSUME NEW e \in TerminalReasons, NEW w \in Seats \cup {NoSeat}, Report(e, w)
  PROVE  flight' \in FlightType /\ flight'.kind = "publish"
<1> DEFINE f == [kind |-> "publish", by |-> "alarm", reason |-> e, winner |-> w]
<1>1. f \in FlightType /\ f.kind = "publish"
  BY FlightsAre
<1>2. flight' = f
  BY DEF Report
<1> QED  BY <1>1, <1>2

\* What an alarm does to the adapter.
Alarmed(g, h, t) ==
  /\ Adapter(h) /\ h.loaded = g.loaded /\ h.provisional = g.provisional
  /\ h.terminal = g.terminal /\ h.wiped = g.wiped /\ h.down = g.down
  /\ \/ h = g
     \/ h.saved = g.saved /\ h.room = Payload(g.room, t) /\ h.consumed = g.consumed
          /\ h.alarm = g.alarm
     \/ h.saved = g.saved /\ h.room = g.room /\ h.alarm = Timer(h, t)
     \/ /\ h.saved = Serialized(h.room) /\ h.alarm = Timer(h, t) /\ Lasts(g.room, h.room)
        /\ h.room = Payload(g.room, t) \/ h.room.status = "done"
     \/ /\ h.saved = g.saved /\ h.alarm = Timer(h, t) /\ h.room.status # "done"
        /\ Lasts(g.room, h.room) /\ SameSeats(g.room, h.room) /\ GoesOn(g.room, h.room, t)

\* What every action that ends at a report or not at all leaves in flight.
Landed == flight' \in FlightType /\ flight'.kind # "attach"

LEMMA RetryAlarmIs ==
  ASSUME Typed, RetryAlarm
  PROVE  Alarmed(game, game', now) /\ Landed
<1> DEFINE e == game.retry
           r == Payload(game.room, now)
           E == game.emitted \cup {e}
           h == [game EXCEPT !.room = r, !.emitted = E]
<1>1. Adapter(game) /\ now \in Nat /\ Fine(game.room)
  BY DEF Typed, Surroundings, Adapter
<1>2. CASE e \in game.emitted
  <2>1. game' = game /\ flight' = Idle
    BY <1>2 DEF RetryAlarm
  <2> QED  BY <1>1, <2>1, FlightsAre DEF Alarmed, Landed
<1>3. CASE e \notin game.emitted
  <2>1. game' = h /\ Report(e, r.winner) /\ e # NoSeat
    BY <1>3 DEF RetryAlarm
  <2>2. e \in TerminalReasons /\ E \in SUBSET TerminalReasons
    BY <1>1, <2>1 DEF Adapter, GameType
  <2>3. r = Payload(game.room, now)
    OBVIOUS
  <2>4. Fine(r)
    BY <1>1, PayloadIs DEF Lasts
  <2> HIDE DEF r, e, E
  <2>5. /\ Adapter(h) /\ SameState(game, h)
        /\ h.room = r /\ h.saved = game.saved /\ h.down = game.down /\ h.alarm = game.alarm
    <3>1. PICK C \in SUBSET Conn : game \in GameType(C)
      BY <1>1 DEF Adapter
    <3>2. r \in RoomType
      BY <2>4 DEF Fine
    <3>3. /\ h \in GameType(C) /\ SameState(game, h)
          /\ h.room = r /\ h.saved = game.saved /\ h.down = game.down
          /\ h.alarm = game.alarm
      BY <2>2, <3>1, <3>2 DEF GameType, SameState
    <3> HIDE DEF h
    <3>4. Adapter(h)
      BY <1>1, <2>4, <3>3 DEF Adapter, SameState
    <3> QED  BY <3>3, <3>4
  <2> HIDE DEF h
  <2>6. r.winner \in Seats \cup {NoSeat}
    BY <2>4 DEF Fine, RoomType
  <2>7. Landed
    BY <2>1, <2>2, <2>6, ReportIs DEF Landed
  <2> QED  BY <2>1, <2>3, <2>5, <2>7 DEF Alarmed, SameState
<1> QED  BY <1>2, <1>3

LEMMA OutcomeAlarmIs ==
  ASSUME Typed, OutcomeAlarm
  PROVE  Alarmed(game, game', now) /\ Landed
<1> DEFINE e == game.room.reason
           h == Telling(game, e, now)
<1>1. Adapter(game) /\ now \in Nat /\ Fine(game.room) /\ game.room.status = "done"
  BY DEF Typed, Surroundings, Adapter, OutcomeAlarm
<1>2. CASE e \in game.emitted
  <2>1. game' = game /\ flight' = Idle
    BY <1>2 DEF OutcomeAlarm
  <2> QED  BY <1>1, <2>1, FlightsAre DEF Alarmed, Landed
<1>3. CASE e \notin game.emitted
  <2>1. game' = h /\ Report(e, game.room.winner)
    BY <1>3 DEF OutcomeAlarm, Telling
  <2>2. e \in TerminalReasons /\ game.room.winner \in Seats \cup {NoSeat}
    BY <1>1 DEF Fine, RoomType, TerminalReasons
  <2> HIDE DEF e
  <2>3. /\ Adapter(h) /\ SameState(game, h)
        /\ h.room = game.room /\ h.saved = game.saved /\ h.down = game.down
        /\ h.alarm = Timer(h, now)
    BY <1>1, <2>2, TellingIs
  <2> HIDE DEF h
  <2>4. Landed
    BY <2>1, <2>2, ReportIs DEF Landed
  <2> QED  BY <2>1, <2>3, <2>4 DEF Alarmed, SameState
<1> QED  BY <1>2, <1>3

LEMMA CreatorAlarmIs ==
  ASSUME Typed, CreatorAlarm
  PROVE  Alarmed(game, game', now) /\ Landed
<1> DEFINE r == Payload(game.room, now)
           k == [game EXCEPT !.consumed = TRUE, !.room = r]
           p == Persisted(k)
           h == Telling(p, CreatorTimeout, now)
<1>1. Adapter(game) /\ now \in Nat /\ Fine(game.room)
  BY DEF Typed, Surroundings, Adapter
<1>2. game' = h /\ Report(CreatorTimeout, NoSeat)
  BY DEF CreatorAlarm, Telling
<1>3. PICK C \in SUBSET Conn : game \in GameType(C)
  BY <1>1 DEF Adapter
<1>4. Lasts(game.room, r) /\ r = Payload(game.room, now)
  BY <1>1, PayloadIs
<1> HIDE DEF r
<1>5. Fine(r) /\ r \in RoomType
  BY <1>4 DEF Lasts, Fine
<1>6. /\ k \in GameType(C) /\ k.loaded = game.loaded /\ k.provisional = game.provisional
      /\ k.terminal = game.terminal /\ k.wiped = game.wiped /\ k.down = game.down
      /\ k.room = r /\ k.saved = game.saved
  BY <1>3, <1>5 DEF GameType
<1> HIDE DEF k
<1>7. Adapter(k)
  BY <1>1, <1>5, <1>6 DEF Adapter
<1>8. /\ Adapter(p) /\ SameState(k, p) /\ p.room = r /\ p.saved = Serialized(r)
      /\ p.down = k.down
  BY <1>6, <1>7, PersistedIs
<1> HIDE DEF p
<1>9. CreatorTimeout \in TerminalReasons
  BY DEF TerminalReasons
<1>10. /\ Adapter(h) /\ SameState(p, h)
       /\ h.room = p.room /\ h.saved = p.saved /\ h.down = p.down
       /\ h.alarm = Timer(h, now)
  BY <1>1, <1>8, <1>9, TellingIs
<1> HIDE DEF h
<1>11. Landed
  BY <1>2, <1>9, ReportIs DEF Landed
<1> QED  BY <1>2, <1>4, <1>6, <1>8, <1>10, <1>11 DEF Alarmed, SameState

\* What the alarm makes of a game that goes on.
Lapsed(r, t) ==
  Payload(ExpireReconnect(ExpireWaitingCreator(SettleClock(r, t, TRUE), t), t), t)

LEMMA LapsedIs ==
  ASSUME NEW r, Fine(r), NEW t \in Nat
  PROVE  LET x == Lapsed(r, t) IN
         /\ Lasts(r, x)
         /\ x.status # "done" => SameSeats(r, x) /\ GoesOn(r, x, t)
<1> DEFINE a == SettleClock(r, t, TRUE)
           b == ExpireWaitingCreator(a, t)
           c == ExpireReconnect(b, t)
           x == Payload(c, t)
<1>1. a \in RoomType /\ SameSeats(r, a) /\ (GoesOn(r, a, t) \/ RunsOut(r, a, t))
  BY SettleClockIs
<1>2. Lasts(r, a) /\ Fine(a)
  BY <1>1, SettleLasts DEF Lasts
<1>3. x = Lapsed(r, t)
  BY DEF Lapsed
<1> HIDE DEF a
<1>4. Lasts(a, b) /\ (b = a \/ b.status = "done")
  BY <1>2, ExpireWaitingCreatorIs
<1> HIDE DEF b
<1>5. Lasts(b, c) /\ (c = b \/ c.status = "done")
  BY <1>4, ExpireReconnectIs DEF Lasts
<1> HIDE DEF c
<1>6. Lasts(c, x) /\ SameSeats(c, x) /\ (GoesOn(c, x, t) \/ RunsOut(c, x, t))
  BY <1>5, PayloadIs DEF Lasts
<1> HIDE DEF x
<1>7. Lasts(r, x)
  <2>1. Fine(b) /\ Fine(c)
    BY <1>4, <1>5 DEF Lasts
  <2>2. Lasts(r, b)
    BY <1>2, <1>4, LastsTransitive
  <2>3. Lasts(r, c)
    BY <1>5, <2>1, <2>2, LastsTransitive
  <2> QED  BY <1>6, <2>1, <2>3, LastsTransitive
<1>8. ASSUME x.status # "done"  PROVE SameSeats(r, x) /\ GoesOn(r, x, t)
  <2>1. GoesOn(c, x, t) /\ c.status # "done"
    BY <1>6, <1>8 DEF GoesOn, RunsOut
  <2>2. c = b /\ b.status # "done"
    BY <1>5, <2>1
  <2>3. b = a /\ a.status # "done"
    BY <1>4, <2>2
  <2>4. GoesOn(r, a, t)
    BY <1>1, <2>3 DEF RunsOut
  <2>5. c = a
    BY <2>2, <2>3
  <2> QED  BY <1>1, <1>6, <2>1, <2>4, <2>5, GoesOnTransitive, SameSeatsTransitive
<1> QED  BY <1>3, <1>7, <1>8

LEMMA LifecycleAlarmIs ==
  ASSUME Typed, LifecycleAlarm
  PROVE  Alarmed(game, game', now) /\ Landed
<1> DEFINE r == Lapsed(game.room, now)
           k == [game EXCEPT !.room = r]
           p == Persisted(k)
<1>1. Adapter(game) /\ now \in Nat /\ Fine(game.room)
  BY DEF Typed, Surroundings, Adapter
<1>2. IF r.status = "done"
      THEN game' = Telling(p, r.reason, now) /\ Report(r.reason, r.winner)
      ELSE game' = Scheduled(k, now) /\ flight' = Idle
  BY DEF LifecycleAlarm, Lapsed, Telling
<1>3. /\ Lasts(game.room, r)
      /\ r.status # "done" => SameSeats(game.room, r) /\ GoesOn(game.room, r, now)
  BY <1>1, LapsedIs
<1> HIDE DEF r
<1>4. Fine(r)
  BY <1>3 DEF Lasts
<1>5. /\ Adapter(k) /\ SameState(game, k)
      /\ k.room = r /\ k.saved = game.saved /\ k.down = game.down
  BY <1>1, <1>4, RoomChanged
<1> HIDE DEF k
<1>6. CASE r.status = "done"
  <2> DEFINE e == r.reason
             h == Telling(p, e, now)
  <2>1. game' = h /\ Report(e, r.winner)
    BY <1>2, <1>6
  <2>2. e \in TerminalReasons /\ r.winner \in Seats \cup {NoSeat}
    BY <1>4, <1>6 DEF Fine, RoomType, TerminalReasons
  <2> HIDE DEF e
  <2>3. /\ Adapter(p) /\ SameState(k, p) /\ p.room = r /\ p.saved = Serialized(r)
        /\ p.down = k.down
    BY <1>5, PersistedIs
  <2> HIDE DEF p
  <2>4. /\ Adapter(h) /\ SameState(p, h)
        /\ h.room = p.room /\ h.saved = p.saved /\ h.down = p.down
        /\ h.alarm = Timer(h, now)
    BY <1>1, <2>2, <2>3, TellingIs
  <2> HIDE DEF h
  <2>5. Landed
    BY <2>1, <2>2, ReportIs DEF Landed
  <2> QED  BY <1>3, <1>5, <1>6, <2>1, <2>3, <2>4, <2>5 DEF Alarmed, SameState
<1>7. CASE r.status # "done"
  <2> DEFINE h == Scheduled(k, now)
  <2>1. game' = h /\ flight' = Idle
    BY <1>2, <1>7
  <2>2. /\ Adapter(h) /\ SameState(k, h)
        /\ h.room = k.room /\ h.saved = k.saved /\ h.down = k.down
        /\ h.alarm = Timer(h, now)
    BY <1>1, <1>5, ScheduledIs
  <2> HIDE DEF h
  <2>3. Landed
    BY <2>1, FlightsAre DEF Landed
  <2> QED  BY <1>3, <1>5, <1>7, <2>1, <2>2, <2>3 DEF Alarmed, SameState
<1> QED  BY <1>6, <1>7

LEMMA RunAlarmIs ==
  ASSUME Typed, RunAlarm, ~game.down, ~game.wiped
  PROVE  Alarmed(game, game', now) /\ Landed
<1>1. RetryAlarm \/ OutcomeAlarm \/ CreatorAlarm \/ LifecycleAlarm
  BY DEF RunAlarm
<1> QED  BY <1>1, RetryAlarmIs, OutcomeAlarmIs, CreatorAlarmIs, LifecycleAlarmIs

LEMMA RunAlarmKeeps ==
  ASSUME Typed, RunAlarm
  PROVE  Keeps
<1>1. Dequeue("alarm") /\ UNCHANGED <<now, socket, identity, reported, faults>>
  BY DEF RunAlarm
<1>2. CASE game.down \/ game.wiped
  <2>1. game' = game /\ flight' = Idle
    BY <1>2 DEF RunAlarm
  <2> QED  BY <1>1, <2>1, IgnoredKeeps
<1>3. CASE ~(game.down \/ game.wiped)
  <2>1. Alarmed(game, game', now) /\ Landed
    BY <1>3, RunAlarmIs
  <2>2. Adapter(game) /\ Fine(game.room) /\ now \in Nat
    BY DEF Typed, Adapter, Surroundings
  <2>3. /\ Adapter(game') /\ game'.loaded = game.loaded /\ game'.provisional = game.provisional
        /\ game'.terminal = game.terminal /\ game'.wiped = game.wiped
    BY <2>1 DEF Alarmed
  <2>4. /\ Lasts(game.room, game'.room)
        /\ game'.saved = game.saved \/ game'.saved = Serialized(game'.room)
    <3>1. Lasts(game.room, game.room) /\ Lasts(game.room, Payload(game.room, now))
      BY <2>2, LastsReflexive, PayloadIs
    <3> QED  BY <2>1, <3>1 DEF Alarmed
  <2>5. queue # <<>> /\ queue' \in Seq(OperationType)
    BY <1>1, DequeueIs DEF Typed
  <2>6. ASSUME Kept  PROVE Held(game') /\ Lasting
    <3>1. Held(game) /\ game.loaded /\ DOMAIN game.provisional = {}
      BY <1>3, <2>5, <2>6 DEF Kept, Held
    <3> QED  BY <1>3, <2>2, <2>3, <2>4, <3>1, Renewed DEF Lasting
  <2>7. faults' \in 0 .. MaxFaults
        /\ reported' \in [reason : TerminalReasons \cup {NoSeat}, winner : Seats \cup {NoSeat}]
    BY <1>1 DEF Typed, Surroundings
  <2> QED  BY <1>1, <2>1, <2>3, <2>5, <2>6, <2>7, OperationKeeps DEF Landed
<1> QED  BY <1>2, <1>3

-----------------------------------------------------------------------------
(* The Lobby's answer, eviction and time.                                   *)

LEMMA LobbyAnswersKeeps ==
  ASSUME Typed, LobbyAnswers
  PROVE  Keeps
<1> DEFINE e == flight.reason
           h == Terminalized(game, e, now)
<1>1. /\ flight.kind = "publish" /\ game' = h /\ reported' = Outcome /\ flight' = Idle
      /\ UNCHANGED <<now, socket, identity, queue, faults>>
  BY DEF LobbyAnswers
<1>2. e \in TerminalReasons /\ flight.winner \in Seats \cup {NoSeat}
      /\ Adapter(game) /\ now \in Nat
  BY <1>1, FlightIs DEF Typed, Surroundings
<1>3. reported' \in [reason : TerminalReasons \cup {NoSeat}, winner : Seats \cup {NoSeat}]
  BY <1>1, <1>2 DEF Outcome
<1> HIDE DEF e
<1>4. /\ Adapter(h) /\ h.terminal = e /\ h.down
      /\ h.loaded = game.loaded /\ h.provisional = game.provisional /\ h.wiped = game.wiped
      /\ h.room = game.room /\ h.saved = game.saved
  BY <1>2, TerminalizedIs
<1> HIDE DEF h
<1>5. ASSUME Kept  PROVE Held(game') /\ Lasting
  <2>1. Lasts(game.saved, game.saved)
    BY <1>2, LastsReflexive DEF Adapter
  <2> QED  BY <1>1, <1>4, <1>5, <2>1 DEF Kept, Held, Lasting
<1>6. queue' \in Seq(OperationType) /\ faults' \in 0 .. MaxFaults
  BY <1>1 DEF Typed, Surroundings
<1> QED  BY <1>1, <1>3, <1>4, <1>5, <1>6, FlightsAre, OperationKeeps

LEMMA LobbyFailsKeeps ==
  ASSUME Typed, LobbyFails
  PROVE  Keeps
<1> DEFINE e == flight.reason
           h == RetryScheduled(game, e, now)
<1>1. /\ flight.kind = "publish" /\ Fault("lobby") /\ game' = h
      /\ reported' \in {reported, Outcome} /\ flight' = Idle
      /\ UNCHANGED <<now, socket, identity, queue>>
  BY DEF LobbyFails
<1>2. e \in TerminalReasons /\ flight.winner \in Seats \cup {NoSeat}
      /\ Adapter(game) /\ now \in Nat
  BY <1>1, FlightIs DEF Typed, Surroundings
<1>3. reported' \in [reason : TerminalReasons \cup {NoSeat}, winner : Seats \cup {NoSeat}]
  BY <1>1, <1>2 DEF Outcome, Typed, Surroundings
<1> HIDE DEF e
<1>4. /\ Adapter(h) /\ SameState(game, h)
      /\ h.room = game.room /\ h.saved = game.saved /\ h.down = game.down
  BY <1>2, RetryScheduledIs
<1> HIDE DEF h
<1>5. ASSUME Kept  PROVE Held(game') /\ Lasting
  <2>1. Lasts(game.saved, game.saved)
    BY <1>2, LastsReflexive DEF Adapter
  <2> QED  BY <1>1, <1>4, <1>5, <2>1 DEF Kept, Held, Lasting, SameState
<1>6. queue' \in Seq(OperationType) /\ faults' \in 0 .. MaxFaults
  BY <1>1, FaultIs DEF Typed, Surroundings
<1> QED  BY <1>1, <1>3, <1>4, <1>5, <1>6, FlightsAre, OperationKeeps DEF SameState

LEMMA HibernateKeeps ==
  ASSUME Typed, Hibernate
  PROVE  Keeps
<1>1. /\ queue = <<>> /\ flight = Idle /\ Fault("hibernate") /\ game' = Forgotten(game)
      /\ UNCHANGED <<now, socket, identity, queue, flight, reported>>
  BY DEF Hibernate
<1>2. /\ Adapter(game') /\ ~game'.loaded /\ game'.saved = game.saved
      /\ DOMAIN game'.provisional = {}
  BY <1>1, ForgottenIs DEF Typed
<1>3. faults' \in 0 .. MaxFaults
  BY <1>1, FaultIs DEF Typed
<1>4. Typed'
  BY <1>1, <1>2, <1>3 DEF Typed, Surroundings
<1>5. Kept' /\ Lasting
  <2>1. Lasts(game.saved, game.saved)
    BY LastsReflexive DEF Typed, Adapter
  <2>2. flight'.kind # "attach"
    BY <1>1, FlightsAre
  <2> QED  BY <1>1, <1>2, <2>1, <2>2 DEF Kept, Held, Lasting
<1> QED  BY <1>4, <1>5 DEF Keeps

LEMMA CrashKeeps ==
  ASSUME Typed, Crash
  PROVE  Keeps
<1> DEFINE f == Forgotten(game)
           a == IF AlarmRuns THEN now ELSE f.alarm
           h == [f EXCEPT !.alarm = a]
<1>1. /\ Fault("crash") /\ game' = [f EXCEPT !.alarm = IF AlarmRuns THEN now ELSE @]
      /\ socket' = [c \in Conn |-> IF socket[c] = "idle" THEN "idle" ELSE "closed"]
      /\ identity' = [c \in Conn |-> NoSeat]
      /\ queue' = <<>> /\ flight' = Idle
      /\ reported' \in {reported} \cup (IF flight.kind = "publish" THEN {Outcome} ELSE {})
      /\ UNCHANGED now
  BY DEF Crash
<1>2. Adapter(game) /\ now \in Nat
  BY DEF Typed, Surroundings
<1>3. /\ Adapter(f) /\ ~f.loaded /\ f.saved = game.saved /\ DOMAIN f.provisional = {}
  BY <1>2, ForgottenIs
<1> HIDE DEF f
<1>4. a \in Nat \cup {NoTime}
  BY <1>2, <1>3 DEF Adapter, GameType
<1>5. game' = h
  BY <1>1
<1> HIDE DEF a
<1>6. /\ Adapter(h) /\ SameState(f, h) /\ h.saved = f.saved
  BY <1>3, <1>4, AlarmChanged
<1> HIDE DEF h
<1>7. reported' \in [reason : TerminalReasons \cup {NoSeat}, winner : Seats \cup {NoSeat}]
  BY <1>1, FlightIs DEF Outcome, Typed, Surroundings
<1>8. faults' \in 0 .. MaxFaults
  BY <1>1, FaultIs DEF Typed
<1>9. socket' \in [Conn -> {"idle", "open", "closing", "closed"}]
      /\ identity' \in [Conn -> Seats \cup {NoSeat}]
  BY <1>1
<1>10. queue' \in Seq(OperationType)
  BY <1>1
<1>11. Typed'
  BY <1>1, <1>5, <1>6, <1>7, <1>8, <1>9, <1>10, FlightsAre DEF Typed, Surroundings
<1>12. Kept' /\ Lasting
  <2>1. Lasts(game.saved, game.saved)
    BY LastsReflexive DEF Typed, Adapter
  <2>2. flight'.kind # "attach"
    BY <1>1, FlightsAre
  <2> QED  BY <1>1, <1>3, <1>5, <1>6, <2>1, <2>2 DEF Kept, Held, Lasting, SameState
<1> QED  BY <1>11, <1>12 DEF Keeps

LEMMA TickKeeps ==
  ASSUME Typed, Tick
  PROVE  Keeps
<1>1. now' = now + 1 /\ UNCHANGED <<game, socket, identity, queue, flight, reported, faults>>
  BY DEF Tick
<1>2. Typed'
  BY <1>1 DEF Typed, Surroundings
<1>3. Lasting
  BY <1>1, LastsReflexive DEF Typed, Adapter, Lasting
<1>4. Kept => Kept'
  BY <1>1 DEF Kept
<1> QED  BY <1>2, <1>3, <1>4 DEF Keeps

LEMMA StutterKeeps ==
  ASSUME Typed, UNCHANGED vars
  PROVE  Keeps
<1>1. Typed'
  BY DEF vars, Typed, Surroundings
<1>2. Lasting
  BY LastsReflexive DEF vars, Typed, Adapter, Lasting
<1>3. Kept => Kept'
  BY DEF Kept, vars
<1> QED  BY <1>1, <1>2, <1>3 DEF Keeps

LEMMA NextKeeps ==
  ASSUME Typed, [Next]_vars
  PROVE  Keeps
<1>1. CASE \E c \in Conn :
             \/ \E s \in Seats : SendAttach(c, s)
             \/ \E op \in {"move", "leave"} : SendCommand(c, op)
             \/ Close(c)
  BY <1>1, SendAttachKeeps, SendCommandKeeps, CloseKeeps
<1>2. CASE AlarmFires
  BY <1>2, AlarmFiresKeeps
<1>3. CASE RunMove \/ RunLeave \/ RunClose \/ RunAttach \/ RunAlarm
  BY <1>3, RunMoveKeeps, RunLeaveKeeps, RunCloseKeeps, RunAttachKeeps, RunAlarmKeeps
<1>4. CASE AttachRejected \/ AttachAccepted \/ LobbyAnswers \/ LobbyFails
  BY <1>4, AttachRejectedKeeps, AttachAcceptedKeeps, LobbyAnswersKeeps, LobbyFailsKeeps
<1>5. CASE Hibernate \/ Crash \/ Tick \/ UNCHANGED vars
  BY <1>5, HibernateKeeps, CrashKeeps, TickKeeps, StutterKeeps
<1> QED  BY <1>1, <1>2, <1>3, <1>4, <1>5 DEF Next

LEMMA InitKeeps ==
  ASSUME Init
  PROVE  Typed /\ Kept
<1>1. Fine(NewRoom(0)) /\ NewRoom(0) \in RoomType
  BY NewRoomFine DEF Fine
<1>2. NoSnapshots \in [{} -> SnapshotType] /\ DOMAIN NoSnapshots = {}
  BY DEF NoSnapshots
<1>3. CreatorDeadline \in Nat /\ MaxFaults \in Nat
  BY DurableAssumption
<1>4. game \in GameType({}) /\ game.provisional = NoSnapshots
      /\ game.room = NewRoom(0) /\ game.saved = NewRoom(0) /\ game.terminal = NoSeat
  BY <1>1, <1>2, <1>3 DEF Init, GameType
<1>5. Adapter(game)
  BY <1>1, <1>2, <1>4 DEF Adapter
<1>6. reported \in [reason : TerminalReasons \cup {NoSeat}, winner : Seats \cup {NoSeat}]
  BY DEF Init, NotReported
<1>7. Surroundings
  BY <1>3, <1>6, FlightsAre DEF Init, Surroundings
<1>8. Lasts(game.saved, game.room)
  BY <1>1, <1>4, LastsReflexive
<1>9. Kept
  BY <1>2, <1>4, <1>8, FlightsAre DEF Init, Kept, Held
<1> QED  BY <1>5, <1>7, <1>9 DEF Typed

LEMMA TypedIsTypeOK == Typed => TypeOK
BY DEF Typed, Surroundings, Adapter, TypeOK

\* Whatever is lost, fails or is interrupted, the object's state and the rooms it
\* holds and stores are what the code expects them to be; only a game that ended
\* has a winner, in memory and in storage (room-storage.ts, room.js).
THEOREM GameTyped == Safe => [](TypeOK /\ Fine(game.room) /\ Fine(game.saved))
<1>1. Init => Typed
  BY InitKeeps
<1>2. Typed /\ [Next]_vars => Typed'
  BY NextKeeps DEF Keeps
<1>3. Typed => TypeOK /\ Fine(game.room) /\ Fine(game.saved)
  BY TypedIsTypeOK DEF Typed, Adapter
<1> QED  BY <1>1, <1>2, <1>3, PTL DEF Safe

\* Unless a socket can close under its attach, a stored winner and the reason stay,
\* over lost memory, failed writes and aborted attaches (room-storage.ts).
THEOREM WinnerAlwaysFinal == "interrupt" \notin Faults => (Safe => WinnerFinal)
<1> SUFFICES ASSUME "interrupt" \notin Faults  PROVE Safe => WinnerFinal
  OBVIOUS
<1>1. Init => Typed /\ Kept
  BY InitKeeps
<1>2. Typed /\ Kept /\ [Next]_vars => (Typed /\ Kept)'
  BY NextKeeps DEF Keeps, Calm
<1>3. Typed /\ Kept /\ [Next]_vars =>
        [game.saved.winner # NoSeat => game'.saved.winner = game.saved.winner
                                       /\ game'.saved.reason = game.saved.reason]_vars
  BY NextKeeps DEF Keeps, Calm, Lasting, Lasts
<1> QED  BY <1>1, <1>2, <1>3, PTL DEF Safe, WinnerFinal

\* Under the same condition no stored move is ever undone.
THEOREM MovesAlwaysKept == "interrupt" \notin Faults => (Safe => MovesKept)
<1> SUFFICES ASSUME "interrupt" \notin Faults  PROVE Safe => MovesKept
  OBVIOUS
<1>1. Init => Typed /\ Kept
  BY InitKeeps
<1>2. Typed /\ Kept /\ [Next]_vars => (Typed /\ Kept)'
  BY NextKeeps DEF Keeps, Calm
<1>3. Typed /\ Kept /\ [Next]_vars => [game'.saved.ply >= game.saved.ply]_vars
  BY NextKeeps DEF Keeps, Calm, Lasting, Lasts
<1> QED  BY <1>1, <1>2, <1>3, PTL DEF Safe, MovesKept

-----------------------------------------------------------------------------
(* Seats, deadlines and clocks fit together.                                *)

\* A room whose seats, deadlines and clock fit together.
Sound(r) ==
  /\ Fine(r)
  /\ r.status = "playing" => r.running = OnTurn(r) /\ InTime(r)
  /\ r.status # "done" => \A s \in Seats :
       /\ r.connected[s] => r.seated[s] /\ r.deadline[s] = NoTime
       /\ r.seated[s] /\ ~r.connected[s] => r.deadline[s] # NoTime

LEMMA DoneSound ==
  ASSUME NEW r, Fine(r), r.status = "done"
  PROVE  Sound(r)
BY DEF Sound

LEMMA NewRoomSound == \A t \in Nat : Sound(NewRoom(t))
BY NewRoomFine DEF Sound, NewRoom, Seats

LEMMA SettledSound ==
  ASSUME NEW r, Sound(r), NEW x \in RoomType, SameSeats(r, x), NEW t \in Nat,
         GoesOn(r, x, t) \/ RunsOut(r, x, t)
  PROVE  Sound(x)
<1>1. Fine(r) /\ Fine(x)
  BY SettleLasts DEF Sound, Lasts
<1>2. CASE GoesOn(r, x, t)
  BY <1>1, <1>2 DEF Sound, GoesOn, SameSeats, OnTurn
<1>3. CASE RunsOut(r, x, t)
  BY <1>1, <1>3, DoneSound DEF RunsOut
<1> QED  BY <1>2, <1>3

LEMMA PayloadSound ==
  ASSUME NEW r, Sound(r), NEW t \in Nat
  PROVE  Sound(Payload(r, t))
<1>1. Fine(r)
  BY DEF Sound
<1>2. Payload(r, t) \in RoomType /\ SameSeats(r, Payload(r, t))
      /\ (GoesOn(r, Payload(r, t), t) \/ RunsOut(r, Payload(r, t), t))
  BY <1>1, PayloadIs DEF Lasts, Fine
<1> QED  BY <1>2, SettledSound

LEMMA HandleMoveSound ==
  ASSUME NEW r, Sound(r), NEW s \in Seats, NEW m \in Moves, NEW e \in Nat \cup {NoRevision},
         NEW v \in Verdicts, NEW t \in Nat
  PROVE  Sound(HandleMove(r, s, m, e, v, t))
<1> DEFINE x == HandleMove(r, s, m, e, v, t)
<1>1. Fine(r)
  BY DEF Sound
<1>2. /\ Lasts(r, x) /\ SameSeats(r, x)
      /\ \/ x = r
         \/ GoesOn(r, x, t)
         \/ r.status = "playing" /\ x.status = "done"
         \/ /\ r.status = "playing" /\ x.status = "playing" /\ x.running = OnTurn(x)
            /\ InTime(r) => InTime(x)
  BY <1>1, HandleMoveIs
<1> HIDE DEF x
<1>3. Fine(x) /\ x \in RoomType
  BY <1>2 DEF Lasts, Fine
<1>4. CASE x = r
  BY <1>4 DEF x
<1>5. CASE GoesOn(r, x, t)
  <2>1. Sound(x)
    BY <1>2, <1>3, <1>5, SettledSound
  <2> QED  BY <2>1 DEF x
<1>6. CASE x.status = "done"
  <2>1. Sound(x)
    BY <1>3, <1>6, DoneSound
  <2> QED  BY <2>1 DEF x
<1>7. CASE r.status = "playing" /\ x.status = "playing" /\ x.running = OnTurn(x)
           /\ (InTime(r) => InTime(x))
  <2>1. Sound(x)
    BY <1>2, <1>3, <1>7 DEF Sound, SameSeats
  <2> QED  BY <2>1 DEF x
<1> QED  BY <1>2, <1>4, <1>5, <1>6, <1>7

LEMMA HandleMoveSeats ==
  ASSUME NEW r, Sound(r), NEW s \in Seats, NEW m \in Moves, NEW e \in Nat \cup {NoRevision},
         NEW v \in Verdicts, NEW t \in Nat
  PROVE  LET x == HandleMove(r, s, m, e, v, t) IN
         SameSeats(r, x) /\ (r.status = "done" => x.status = "done")
<1> DEFINE x == HandleMove(r, s, m, e, v, t)
<1>1. Fine(r)
  BY DEF Sound
<1>2. /\ Lasts(r, x) /\ SameSeats(r, x)
      /\ \/ x = r
         \/ GoesOn(r, x, t)
         \/ r.status = "playing" /\ x.status = "done"
         \/ /\ r.status = "playing" /\ x.status = "playing" /\ x.running = OnTurn(x)
            /\ InTime(r) => InTime(x)
  BY <1>1, HandleMoveIs
<1> HIDE DEF x
<1>3. r.status = "done" => x.status = "done"
  BY <1>2 DEF GoesOn
<1> QED  BY <1>2, <1>3 DEF x

LEMMA DisconnectPlayerSound ==
  ASSUME NEW r, Sound(r), NEW s \in Seats, NEW t \in Nat
  PROVE  Sound(DisconnectPlayer(r, s, t))
<1> DEFINE x == DisconnectPlayer(r, s, t)
<1>1. Fine(r)
  BY DEF Sound
<1>2. /\ Lasts(r, x)
      /\ x.seated = r.seated /\ x.conn = r.conn
      /\ x.connected = Seat(r.connected, s, FALSE)
      /\ \/ /\ r.status # "done" /\ x.status = r.status /\ x.turn = r.turn
            /\ x.running = IF r.running = s THEN NoSeat ELSE r.running
            /\ x.deadline = Seat(r.deadline, s, t + ReconnectGrace)
            /\ InTime(r) => InTime(x)
         \/ x.status = "done"
  BY <1>1, DisconnectPlayerIs
<1> HIDE DEF x
<1>3. Fine(x)
  BY <1>2 DEF Lasts
<1>4. CASE x.status = "done"
  <2>1. Sound(x)
    BY <1>3, <1>4, DoneSound
  <2> QED  BY <2>1 DEF x
<1>5. CASE /\ r.status # "done" /\ x.status = r.status /\ x.turn = r.turn
           /\ x.running = IF r.running = s THEN NoSeat ELSE r.running
           /\ x.deadline = Seat(r.deadline, s, t + ReconnectGrace)
           /\ InTime(r) => InTime(x)
  <2>1. r.connected \in [Seats -> BOOLEAN] /\ r.deadline \in [Seats -> Nat \cup {NoTime}]
        /\ r.turn \in Seats /\ NoSeat \notin Seats
    BY <1>1 DEF Fine, RoomType, Seats, NoSeat
  <2>2. ~x.connected[s] /\ x.deadline[s] = t + ReconnectGrace
        /\ \A y \in Seats \ {s} : x.connected[y] = r.connected[y] /\ x.deadline[y] = r.deadline[y]
      BY <1>2, <1>5, <2>1 DEF Seat
  <2>3. t + ReconnectGrace # NoTime
    BY ClockAssumption DEF NoTime
  <2>4. r.status = "playing" => x.running = OnTurn(x)
    BY <1>5, <2>1, <2>2 DEF Sound, OnTurn
  <2>5. \A y \in Seats :
          /\ x.connected[y] => x.seated[y] /\ x.deadline[y] = NoTime
          /\ x.seated[y] /\ ~x.connected[y] => x.deadline[y] # NoTime
    <3>1. TAKE y \in Seats
    <3>2. CASE y = s
      BY <2>2, <2>3, <3>2
    <3>3. CASE y # s
      <4>1. /\ x.connected[y] = r.connected[y] /\ x.deadline[y] = r.deadline[y]
            /\ x.seated[y] = r.seated[y]
        BY <1>2, <2>2, <3>3
      <4>2. /\ r.connected[y] => r.seated[y] /\ r.deadline[y] = NoTime
            /\ r.seated[y] /\ ~r.connected[y] => r.deadline[y] # NoTime
        BY <1>5 DEF Sound
      <4> QED  BY <4>1, <4>2
    <3> QED  BY <3>2, <3>3
  <2>6. x.status = "playing" => InTime(x)
    BY <1>5 DEF Sound
  <2>7. Sound(x)
    BY <1>3, <1>5, <2>4, <2>5, <2>6 DEF Sound
  <2> QED  BY <2>7 DEF x
<1> QED  BY <1>2, <1>4, <1>5

LEMMA LeavePlayerSound ==
  ASSUME NEW r, Sound(r), NEW s \in Seats, NEW t \in Nat
  PROVE  Sound(LeavePlayer(r, s, t)) /\ LeavePlayer(r, s, t).status = "done"
<1>1. Fine(r)
  BY DEF Sound
<1>2. Lasts(r, LeavePlayer(r, s, t)) /\ LeavePlayer(r, s, t).status = "done"
  BY <1>1, LeavePlayerIs
<1> QED  BY <1>2, DoneSound DEF Lasts

\* What attaching c to s makes of r, unless the game is over.
Takes(r, x, c, s) ==
  x.status # "done" =>
    /\ x.connected = Seat(r.connected, s, TRUE)
    /\ x.conn = Seat(r.conn, s, c)

LEMMA ResumePlayerSound ==
  ASSUME NEW r, Sound(r), NEW c \in Conn, NEW s \in Seats, r.seated[s], NEW t \in Nat
  PROVE  Sound(ResumePlayer(r, c, s, t)) /\ Takes(r, ResumePlayer(r, c, s, t), c, s)
<1> DEFINE x == ResumePlayer(r, c, s, t)
<1>1. Fine(r)
  BY DEF Sound
<1>2. /\ Lasts(r, x)
      /\ x.seated = r.seated
      /\ x.connected = Seat(r.connected, s, TRUE)
      /\ x.conn = Seat(r.conn, s, c)
      /\ x.deadline = Seat(r.deadline, s, NoTime)
      /\ \/ /\ x.status = r.status /\ x.turn = r.turn /\ x.running = OnTurn(x)
            /\ InTime(r) => InTime(x)
         \/ x.status = "done"
  BY <1>1, ResumePlayerIs
<1> HIDE DEF x
<1>3. Fine(x)
  BY <1>2 DEF Lasts
<1>4. r.connected \in [Seats -> BOOLEAN] /\ r.deadline \in [Seats -> Nat \cup {NoTime}]
  BY <1>1 DEF Fine, RoomType
<1>5. x.connected[s] /\ x.deadline[s] = NoTime
      /\ \A y \in Seats \ {s} : x.connected[y] = r.connected[y] /\ x.deadline[y] = r.deadline[y]
  BY <1>2, <1>4 DEF Seat
<1>6. Sound(x)
  <2>1. CASE x.status = "done"
    BY <1>3, <2>1, DoneSound
  <2>2. CASE x.status # "done"
    BY <1>2, <1>3, <1>5, <2>2 DEF Sound
  <2> QED  BY <2>1, <2>2
<1>7. Takes(r, x, c, s)
  BY <1>2 DEF Takes
<1> QED  BY <1>6, <1>7 DEF x

LEMMA AddPlayerSound ==
  ASSUME NEW r, Sound(r), CanAdd(r), NEW c \in Conn, NEW t \in Nat
  PROVE  Sound(AddPlayer(r, c, t)) /\ Takes(r, AddPlayer(r, c, t), c, FreeSeat(r))
<1> DEFINE x == AddPlayer(r, c, t)
           s == FreeSeat(r)
<1>1. Fine(r)
  BY DEF Sound
<1>2. /\ Lasts(r, x) /\ s \in Seats /\ ~r.seated[s]
      /\ x.seated = Seat(r.seated, s, TRUE)
      /\ x.connected = Seat(r.connected, s, TRUE)
      /\ x.conn = Seat(r.conn, s, c)
      /\ x.deadline = Seat(r.deadline, s, NoTime)
      /\ x.status # "done"
      /\ \/ x.status = "playing" /\ x.running = Start(x) /\ x.turn = "A" /\ InTime(x)
         \/ x.status = r.status
  BY <1>1, AddPlayerIs
<1>2a. r.status # "done" /\ r.status # "playing"
  BY <1>1, <1>2 DEF CanAdd, Fine, Seats
<1> HIDE DEF x, s
<1>3. Fine(x)
  BY <1>2 DEF Lasts
<1>4. r.connected \in [Seats -> BOOLEAN] /\ r.deadline \in [Seats -> Nat \cup {NoTime}]
      /\ r.seated \in [Seats -> BOOLEAN]
  BY <1>1 DEF Fine, RoomType
<1>5. x.connected[s] /\ x.deadline[s] = NoTime /\ x.seated[s]
      /\ \A y \in Seats \ {s} : /\ x.connected[y] = r.connected[y] /\ x.deadline[y] = r.deadline[y]
                                /\ x.seated[y] = r.seated[y]
  BY <1>2, <1>4 DEF Seat
<1>6. x.status = "playing" => x.running = OnTurn(x) /\ InTime(x)
  BY <1>2, <1>2a DEF Start, OnTurn
<1>7. Sound(x)
  BY <1>2a, <1>3, <1>5, <1>6 DEF Sound
<1>8. Takes(r, x, c, s)
  BY <1>2 DEF Takes
<1> QED  BY <1>7, <1>8 DEF x, s

LEMMA AwaySound ==
  ASSUME NEW r, Sound(r), NEW s \in Seats, NEW t \in Nat
  PROVE  LET x == Away(r, s, t) IN
         /\ Sound(x) /\ x.seated = r.seated /\ x.conn = r.conn
         /\ x.connected = Seat(r.connected, s, FALSE)
         /\ r.status = "done" => x.status = "done"
<1> DEFINE x == DisconnectPlayer(r, s, t)
<1>1. Fine(r)
  BY DEF Sound
<1>2. r.connected \in [Seats -> BOOLEAN]
  BY <1>1 DEF Fine, RoomType
<1>3. CASE r.connected[s]
  <2>1. Away(r, s, t) = x
    BY <1>3 DEF Away
  <2>2. Sound(x)
    BY DisconnectPlayerSound
  <2>3. /\ x.seated = r.seated /\ x.conn = r.conn
        /\ x.connected = Seat(r.connected, s, FALSE)
        /\ \/ r.status # "done" 
           \/ x.status = "done"
    BY <1>1, DisconnectPlayerIs
  <2> HIDE DEF x
  <2> QED  BY <2>1, <2>2, <2>3
<1>4. CASE ~r.connected[s]
  <2>1. Away(r, s, t) = r
    BY <1>4 DEF Away
  <2>2. r.connected = Seat(r.connected, s, FALSE)
    BY <1>2, <1>4 DEF Seat
  <2> QED  BY <2>1, <2>2
<1> QED  BY <1>3, <1>4

LEMMA AttachedSound ==
  ASSUME NEW g, Sound(g.room), NEW c \in Conn, NEW s \in Seats, NEW t \in Nat, Accepts(g, s, t)
  PROVE  /\ Sound(Attached(g, c, s, t)) /\ Takes(g.room, Attached(g, c, s, t), c, s)
         /\ g.room.status # "done"
<1> DEFINE r == g.room
           away == Away(r, s, t)
<1>1. Fine(r)
  BY DEF Sound
<1>2. Attached(g, c, s, t) = IF r.seated[s] THEN ResumePlayer(away, c, s, t)
                             ELSE AddPlayer(r, c, t)
  BY DEF Attached, Away
<1>3. Accepts(g, s, t) <=> IF r.seated[s] THEN CanResume(away, s, t)
                           ELSE CanAdd(r) /\ FreeSeat(r) = s
  BY DEF Accepts, Away
<1>4. /\ Sound(away) /\ away.seated = r.seated /\ away.conn = r.conn
      /\ away.connected = Seat(r.connected, s, FALSE)
      /\ r.status = "done" => away.status = "done"
  BY AwaySound
<1> HIDE DEF away
<1>5. CASE r.seated[s]
  <2> DEFINE x == ResumePlayer(away, c, s, t)
  <2>1. Sound(x) /\ Takes(away, x, c, s)
    BY <1>4, <1>5, ResumePlayerSound
  <2> HIDE DEF x
  <2>2. Takes(r, x, c, s)
    <3>1. r.connected \in [Seats -> BOOLEAN]
      BY <1>1 DEF Fine, RoomType
    <3> QED  BY <1>4, <2>1, <3>1 DEF Takes, Seat
  <2>3. r.status # "done"
    BY <1>3, <1>4, <1>5 DEF CanResume
  <2> QED  BY <1>2, <1>5, <2>1, <2>2, <2>3 DEF x
<1>6. CASE ~r.seated[s]
  <2>1. CanAdd(r) /\ FreeSeat(r) = s /\ r.status # "done"
    BY <1>3, <1>6 DEF CanAdd
  <2>2. Sound(AddPlayer(r, c, t)) /\ Takes(r, AddPlayer(r, c, t), c, s)
    BY <2>1, AddPlayerSound
  <2> QED  BY <1>2, <1>6, <2>1, <2>2
<1> QED  BY <1>5, <1>6

LEMMA SerializedSound ==
  ASSUME NEW r, Sound(r)
  PROVE  Sound(Serialized(r))
<1> DEFINE x == Serialized(r)
<1>1. Fine(r)
  BY DEF Sound
<1>2. Lasts(r, x) /\ SamePlay(r, x) /\ x.connected = r.connected /\ x.deadline = r.deadline
  BY <1>1, SerializedIs
<1> HIDE DEF x
<1>3. Sound(x)
  BY <1>2 DEF Sound, SamePlay, Lasts, OnTurn, InTime
<1> QED  BY <1>3 DEF x

LEMMA LapsedSound ==
  ASSUME NEW r, Sound(r), NEW t \in Nat
  PROVE  Sound(Lapsed(r, t))
<1> DEFINE x == Lapsed(r, t)
<1>1. Fine(r)
  BY DEF Sound
<1>2. Lasts(r, x) /\ (x.status # "done" => SameSeats(r, x) /\ GoesOn(r, x, t))
  BY <1>1, LapsedIs
<1> HIDE DEF x
<1>3. Fine(x) /\ x \in RoomType
  BY <1>2 DEF Lasts, Fine
<1>4. Sound(x)
  <2>1. CASE x.status = "done"
    BY <1>3, <2>1, DoneSound
  <2>2. CASE x.status # "done"
    BY <1>2, <1>3, <2>2, SettledSound
  <2> QED  BY <2>1, <2>2
<1> QED  BY <1>4 DEF x

-----------------------------------------------------------------------------
(* Memory and storage.                                                      *)

\* The room v in storage is the room r in memory, but for reads of its clock: they
\* are not stored, not even when they find the clock at zero.
Agrees(r, v, t) ==
  /\ r.status # "done" =>
       /\ v.status = r.status /\ v.seated = r.seated /\ v.connected = r.connected
       /\ v.deadline = r.deadline /\ v.turn = r.turn /\ v.running = r.running
       /\ ClockRuns(r) => FlagTime(v) = FlagTime(r)
  /\ r.status = "done" /\ v.status # "done" => ClockRuns(v) /\ FlagTime(v) <= t

LEMMA AgreesReflexive ==
  ASSUME NEW r, NEW t  PROVE Agrees(r, r, t)
BY DEF Agrees

\* v may be another record of the same room.
LEMMA AgreesSerialized ==
  ASSUME NEW r, Fine(r), NEW t
  PROVE  Agrees(r, Serialized(r), t)
<1> DEFINE x == Serialized(r)
<1>1. SamePlay(r, x) /\ x.connected = r.connected /\ x.deadline = r.deadline
  BY SerializedIs
<1> HIDE DEF x
<1>2. Agrees(r, x, t)
  BY <1>1 DEF Agrees, SamePlay, FlagTime
<1> QED  BY <1>2 DEF x

LEMMA FlagTimeIs ==
  ASSUME NEW r, Fine(r), ClockRuns(r)  PROVE FlagTime(r) \in Nat
<1>1. r.anchor \in Nat /\ r.running \in Seats /\ r.remaining[r.running] \in Nat
  BY ClockAssumption DEF Fine, RoomType, ClockRuns
<1> QED  BY <1>1 DEF FlagTime

LEMMA AgreesLater ==
  ASSUME NEW r, NEW v, Fine(v), NEW t \in Nat, NEW u \in Nat, t <= u, Agrees(r, v, t)
  PROVE  Agrees(r, v, u)
<1>1. r.status = "done" /\ v.status # "done" => ClockRuns(v) /\ FlagTime(v) <= u
  BY FlagTimeIs DEF Agrees
<1> QED  BY <1>1 DEF Agrees

LEMMA SettledAgrees ==
  ASSUME NEW r, NEW v, NEW t \in Nat, Agrees(r, v, t), NEW x, SameSeats(r, x),
         GoesOn(r, x, t) \/ RunsOut(r, x, t)
  PROVE  Agrees(x, v, t)
<1>1. CASE GoesOn(r, x, t)
  <2>1. ClockRuns(x) <=> ClockRuns(r)
    BY <1>1 DEF GoesOn, ClockRuns
  <2> QED  BY <1>1, <2>1 DEF Agrees, GoesOn, SameSeats
<1>2. CASE RunsOut(r, x, t)
  <2>1. r.status # "done" /\ ClockRuns(r) /\ FlagTime(r) <= t /\ x.status = "done"
    BY <1>2 DEF RunsOut, ClockRuns
  <2>2. ClockRuns(v) /\ FlagTime(v) <= t
    BY <2>1 DEF Agrees, ClockRuns
  <2> QED  BY <2>1, <2>2 DEF Agrees
<1> QED  BY <1>1, <1>2

LEMMA PayloadAgrees ==
  ASSUME NEW r, Fine(r), NEW v, NEW t \in Nat, Agrees(r, v, t)
  PROVE  Agrees(Payload(r, t), v, t)
<1>1. SameSeats(r, Payload(r, t))
      /\ (GoesOn(r, Payload(r, t), t) \/ RunsOut(r, Payload(r, t), t))
  BY PayloadIs
<1> QED  BY <1>1, SettledAgrees

-----------------------------------------------------------------------------
(* Loading a room whose sockets are gone.                                   *)

NoSockets == [s \in Seats |-> NoConn]

\* Nobody is connected to the room of an object that lost its sockets.
Alone(r) ==
  r.status # "done" => \A s \in Seats : ~r.connected[s] /\ r.conn[s] = NoConn

LEMMA PayloadAlone ==
  ASSUME NEW r, Fine(r), Alone(r), NEW t \in Nat
  PROVE  Alone(Payload(r, t))
<1> DEFINE x == Payload(r, t)
<1>1. SameSeats(r, x) /\ (GoesOn(r, x, t) \/ RunsOut(r, x, t))
  BY PayloadIs
<1> HIDE DEF x
<1>2. Alone(x)
  BY <1>1 DEF Alone, SameSeats, GoesOn, RunsOut
<1> QED  BY <1>2 DEF x

LEMMA UnwokenAlone ==
  ASSUME NEW v, Sound(v), NEW t
  PROVE  LET x == Unwoken(v, NoSockets) IN
         /\ Sound(x) /\ Agrees(x, v, t)
         /\ \A s \in Seats : x.conn[s] = NoConn
<1> DEFINE x == Unwoken(v, NoSockets)
<1>1. Fine(v)
  BY DEF Sound
<1>2. NoSockets \in [Seats -> Conn \cup {NoConn}]
  BY DEF NoSockets
<1>3. Lasts(v, x) /\ SamePlay(v, x) /\ x.connected = v.connected /\ x.deadline = v.deadline
  BY <1>1, <1>2, UnwokenIs
<1>4. \A s \in Seats : x.conn[s] = NoConn
  BY <1>1 DEF Unwoken, NoSockets, Fine, RoomType
<1> HIDE DEF x
<1>5. Sound(x)
  BY <1>3 DEF Sound, SamePlay, Lasts, OnTurn, InTime
<1>6. Agrees(x, v, t)
  BY <1>3 DEF Agrees, SamePlay, FlagTime
<1> QED  BY <1>4, <1>5, <1>6 DEF x

LEMMA ReconciledAlone ==
  ASSUME NEW r, Sound(r), NEW t \in Nat, \A s \in Seats : r.conn[s] = NoConn
  PROVE  LET x == ReconcileHydration(r, t, {}) IN Sound(x) /\ Alone(x)
<1> DEFINE x == ReconcileHydration(r, t, {})
           lost == {s \in Seats : r.seated[s] /\ r.connected[s] /\ s \notin {}}
<1>1. Fine(r) /\ {} \in SUBSET Seats
  BY DEF Sound
<1>2. /\ Lasts(r, x)
      /\ x.seated = r.seated /\ x.conn = r.conn /\ x.status = r.status
      /\ \/ x = r /\ (r.status = "done" \/ lost = {})
         \/ /\ r.status # "done"
            /\ x.connected = [s \in Seats |-> s \notin lost /\ r.connected[s]]
            /\ x.deadline = [s \in Seats |-> IF s \in lost THEN t + ReconnectGrace
                                              ELSE r.deadline[s]]
            /\ x.remaining = r.remaining
            /\ x.running = IF ClockRuns(r) THEN NoSeat ELSE r.running
            /\ lost # {}
  BY <1>1, ReconcileHydrationIs
<1>3. r.status # "done" => \A s \in Seats : r.connected[s] => s \in lost
  BY DEF Sound
<1>4. Fine(x)
  BY <1>2 DEF Lasts
<1> HIDE DEF x
<1>5. CASE x = r
  <2>1. r.status # "done" => lost = {}
    BY <1>2, <1>5
  <2>2. Alone(x)
    BY <1>3, <1>5, <2>1 DEF Alone
  <2> QED  BY <1>5, <2>2 DEF x
<1>6. CASE /\ r.status # "done"
           /\ x.connected = [s \in Seats |-> s \notin lost /\ r.connected[s]]
           /\ x.deadline = [s \in Seats |-> IF s \in lost THEN t + ReconnectGrace
                                             ELSE r.deadline[s]]
           /\ x.remaining = r.remaining
           /\ x.running = IF ClockRuns(r) THEN NoSeat ELSE r.running
  <2>1. \A s \in Seats : ~x.connected[s]
    BY <1>3, <1>6
  <2>2. Alone(x)
    BY <1>2, <2>1 DEF Alone
  <2>3. \A s \in Seats : r.seated[s] => x.deadline[s] # NoTime
    <3>1. TAKE s \in Seats
    <3>2. CASE s \in lost
      <4>1. x.deadline[s] = t + ReconnectGrace
        BY <1>6, <3>2
      <4> QED  BY <4>1, ClockAssumption DEF NoTime
    <3>3. CASE s \notin lost
      <4>1. x.deadline[s] = r.deadline[s] /\ ~r.connected[s]
        BY <1>3, <1>6, <3>3
      <4> QED  BY <1>6, <4>1 DEF Sound
    <3> QED  BY <3>2, <3>3
  <2>4. x.status = "playing" => x.running = OnTurn(x) /\ InTime(x)
    <3>1. SUFFICES ASSUME x.status = "playing"  PROVE x.running = OnTurn(x) /\ InTime(x)
      OBVIOUS
    <3>2. x.turn \in Seats /\ r.running \in Seats \cup {NoSeat}
      BY <1>1, <1>4 DEF Fine, RoomType
    <3>3. x.running = NoSeat
      BY <1>2, <1>6, <3>1, <3>2 DEF ClockRuns
    <3>4. InTime(x)
      BY <1>2, <1>6, <3>1 DEF Sound, InTime
    <3> QED  BY <2>1, <3>2, <3>3, <3>4 DEF OnTurn
  <2>5. Sound(x)
    BY <1>2, <1>4, <2>1, <2>3, <2>4 DEF Sound
  <2> QED  BY <2>2, <2>5 DEF x
<1> QED  BY <1>2, <1>5, <1>6

LEMMA LoadedAlone ==
  ASSUME NEW g, Adapter(g), Sound(g.saved), NEW t \in Nat
  PROVE  LET h == Loaded(g, NoSockets, t) IN
         /\ Sound(h.room) /\ Sound(h.saved) /\ Alone(h.room)
         /\ g.terminal = NoSeat => Agrees(h.room, h.saved, t)
<1> DEFINE v == g.saved
           h == Loaded(g, NoSockets, t)
           u == Unwoken(v, NoSockets)
           shown == Shown(v, NoSockets, t)
           rec == Reconciled(v, NoSockets, t)
           x == Woken(v, NoSockets, t)
<1>0. NoSockets \in [Seats -> Conn \cup {NoConn}] /\ Preserved(v, NoSockets) = {}
  BY DEF NoSockets, Preserved
<1>1. /\ Sound(u) /\ Agrees(u, v, t)
      /\ \A s \in Seats : u.conn[s] = NoConn
  BY UnwokenAlone
<1>1a. Fine(u)
  BY <1>1 DEF Sound
<1>2. shown = Payload(u, t) /\ rec = ReconcileHydration(shown, t, {}) /\ x = Payload(rec, t)
  BY <1>0 DEF Shown, Reconciled, Woken
<1> HIDE DEF u
<1>3. /\ Sound(shown) /\ Agrees(shown, v, t)
      /\ \A s \in Seats : shown.conn[s] = NoConn
  <2>1. Sound(Payload(u, t)) /\ Agrees(Payload(u, t), v, t) /\ SameSeats(u, Payload(u, t))
    BY <1>1, <1>1a, PayloadSound, PayloadAgrees, PayloadIs
  <2> QED  BY <1>1, <1>2, <2>1 DEF SameSeats
<1> HIDE DEF shown
<1>4. Sound(rec) /\ Alone(rec)
  BY <1>2, <1>3, ReconciledAlone
<1> HIDE DEF rec
<1>5. Fine(rec)
  BY <1>4 DEF Sound
<1>6. Sound(x) /\ Alone(x)
  <2>1. Sound(Payload(rec, t)) /\ Alone(Payload(rec, t))
    BY <1>4, <1>5, PayloadSound, PayloadAlone
  <2> QED  BY <1>2, <2>1
<1>7. /\ h.room = x
      /\ \/ /\ h.saved = v
            /\ g.terminal = NoSeat => rec = shown
         \/ h.saved = Serialized(h.room)
  BY <1>0, LoadedIs DEF rec, shown
<1> HIDE DEF x, h
<1>8. CASE h.saved = v /\ (g.terminal = NoSeat => rec = shown)
  <2>1. ASSUME g.terminal = NoSeat  PROVE Agrees(x, v, t)
    <3>1. Agrees(rec, v, t)
      BY <1>3, <1>8, <2>1
    <3>2. Agrees(Payload(rec, t), v, t)
      BY <1>5, <3>1, PayloadAgrees
    <3> QED  BY <1>2, <3>2
  <2> QED  BY <1>6, <1>7, <1>8, <2>1 DEF h
<1>9. CASE h.saved = Serialized(h.room)
  <2>1. Sound(Serialized(x)) /\ Agrees(x, Serialized(x), t)
    BY <1>6, SerializedSound, AgreesSerialized DEF Sound
  <2> QED  BY <1>6, <1>7, <1>9, <2>1 DEF h
<1> QED  BY <1>7, <1>8, <1>9

-----------------------------------------------------------------------------
(* Operations that wait.                                                    *)

Queued(q, op, c) == \E i \in 1 .. Len(q) : q[i].op = op /\ q[i].conn = c

AttachesOnce(q) ==
  \A i, j \in 1 .. Len(q) :
    q[i].op = "attach" /\ q[j].op = "attach" /\ q[i].conn = q[j].conn => i = j

LEMMA AppendIs ==
  ASSUME NEW q \in Seq(OperationType), NEW o \in OperationType
  PROVE  LET p == Append(q, o) IN
         /\ \A op, c : Queued(p, op, c) <=> Queued(q, op, c) \/ (o.op = op /\ o.conn = c)
         /\ AttachesOnce(q) /\ (o.op = "attach" => ~Queued(q, "attach", o.conn))
              => AttachesOnce(p)
<1> DEFINE p == Append(q, o)
           n == Len(q)
<1>1. n \in Nat /\ Len(p) = n + 1 /\ p[n + 1] = o /\ \A i \in 1 .. n : p[i] = q[i]
  OBVIOUS
<1> HIDE DEF p, n
<1>2. \A i \in 1 .. Len(p) : i = n + 1 \/ i \in 1 .. n
  BY <1>1
<1>3. \A i \in 1 .. n : i \in 1 .. Len(p)
  BY <1>1
<1>3a. n + 1 \in 1 .. Len(p)
  BY <1>1
<1>4. ASSUME NEW op, NEW c
      PROVE  Queued(p, op, c) <=> Queued(q, op, c) \/ (o.op = op /\ o.conn = c)
  <2>1. ASSUME Queued(p, op, c)  PROVE Queued(q, op, c) \/ (o.op = op /\ o.conn = c)
    <3>1. PICK i \in 1 .. Len(p) : p[i].op = op /\ p[i].conn = c
      BY <2>1 DEF Queued
    <3>2. CASE i = n + 1
      BY <1>1, <3>1, <3>2
    <3>3. CASE i \in 1 .. n
      BY <1>1, <3>1, <3>3 DEF Queued, n
    <3> QED  BY <1>2, <3>2, <3>3
  <2>2. ASSUME Queued(q, op, c)  PROVE Queued(p, op, c)
    <3>1. PICK i \in 1 .. n : q[i].op = op /\ q[i].conn = c
      BY <2>2 DEF Queued, n
    <3> QED  BY <1>1, <1>3, <3>1 DEF Queued
  <2>3. ASSUME o.op = op, o.conn = c  PROVE Queued(p, op, c)
    BY <1>1, <1>3a, <2>3 DEF Queued
  <2> QED  BY <2>1, <2>2, <2>3
<1>5. ASSUME AttachesOnce(q), o.op = "attach" => ~Queued(q, "attach", o.conn)
      PROVE  AttachesOnce(p)
  <2>1. \A i \in 1 .. n : o.op = "attach" /\ q[i].op = "attach" => q[i].conn # o.conn
    BY <1>5 DEF Queued, n
  <2>2. \A i, j \in 1 .. n :
          q[i].op = "attach" /\ q[j].op = "attach" /\ q[i].conn = q[j].conn => i = j
    BY <1>5 DEF AttachesOnce, n
  <2> QED  BY <1>1, <1>2, <2>1, <2>2 DEF AttachesOnce
<1> QED  BY <1>4, <1>5 DEF p

LEMMA TailIs ==
  ASSUME NEW q \in Seq(OperationType), q # <<>>
  PROVE  LET p == Tail(q)
             o == Head(q)
         IN
         /\ \A op, c : Queued(p, op, c) => Queued(q, op, c)
         /\ \A op, c : Queued(q, op, c) => Queued(p, op, c) \/ (o.op = op /\ o.conn = c)
         /\ AttachesOnce(q) =>
              AttachesOnce(p) /\ (o.op = "attach" => ~Queued(p, "attach", o.conn))
<1> DEFINE p == Tail(q)
           o == Head(q)
           n == Len(p)
<1>1. n \in Nat /\ Len(q) = n + 1 /\ q[1] = o /\ \A i \in 1 .. n : p[i] = q[i + 1]
  OBVIOUS
<1> HIDE DEF p, n, o
<1>2. \A i \in 1 .. Len(q) : i = 1 \/ (i - 1 \in 1 .. n /\ p[i - 1] = q[i])
  BY <1>1
<1>3. \A i \in 1 .. n : i + 1 \in 1 .. Len(q) /\ i + 1 # 1
  BY <1>1
<1>3a. 1 \in 1 .. Len(q)
  BY <1>1
<1>4. ASSUME NEW op, NEW c, Queued(p, op, c)  PROVE Queued(q, op, c)
  <2>1. PICK i \in 1 .. n : p[i].op = op /\ p[i].conn = c
    BY <1>4 DEF Queued, n
  <2> QED  BY <1>1, <1>3, <2>1 DEF Queued
<1>5. ASSUME NEW op, NEW c, Queued(q, op, c)
      PROVE  Queued(p, op, c) \/ (o.op = op /\ o.conn = c)
  <2>1. PICK i \in 1 .. Len(q) : q[i].op = op /\ q[i].conn = c
    BY <1>5 DEF Queued
  <2>2. CASE i = 1
    BY <1>1, <2>1, <2>2
  <2>3. CASE i - 1 \in 1 .. n /\ p[i - 1] = q[i]
    BY <2>1, <2>3 DEF Queued, n
  <2> QED  BY <1>2, <2>2, <2>3
<1>6. ASSUME AttachesOnce(q)
      PROVE  AttachesOnce(p) /\ (o.op = "attach" => ~Queued(p, "attach", o.conn))
  <2>1. ASSUME NEW i \in 1 .. n, NEW j \in 1 .. n,
               p[i].op = "attach", p[j].op = "attach", p[i].conn = p[j].conn
        PROVE  i = j
    <3>1. i + 1 \in 1 .. Len(q) /\ j + 1 \in 1 .. Len(q) /\ p[i] = q[i + 1] /\ p[j] = q[j + 1]
      BY <1>1, <1>3
    <3>2. i + 1 = j + 1
      BY <1>6, <2>1, <3>1 DEF AttachesOnce
    <3> QED  BY <1>1, <3>2
  <2>2. ASSUME o.op = "attach", Queued(p, "attach", o.conn)  PROVE FALSE
    <3>1. PICK i \in 1 .. n : p[i].op = "attach" /\ p[i].conn = o.conn
      BY <2>2 DEF Queued, n
    <3>2. i + 1 \in 1 .. Len(q) /\ q[i + 1] = p[i] /\ i + 1 # 1
      BY <1>1, <1>3, <3>1
    <3>3. i + 1 = 1
      BY <1>1, <1>3a, <1>6, <2>2, <3>1, <3>2 DEF AttachesOnce
    <3> QED  BY <3>2, <3>3
  <2> QED  BY <2>1, <2>2 DEF AttachesOnce, n
<1> QED  BY <1>4, <1>5, <1>6 DEF p, o

-----------------------------------------------------------------------------
(* Sockets and seats.                                                       *)

\* c is to be attached.
Waits(c, q, f) == Queued(q, "attach", c) \/ (f.kind = "attach" /\ f.conn = c)

\* Who carries a seat is open, a close is queued when its socket is closed, and a
\* socket that waits for a seat has none.
Sockets(sockets, ids, q, f) ==
  /\ \A c \in Conn :
       /\ ids[c] # NoSeat => sockets[c] = "open"
       /\ Queued(q, "close", c) => sockets[c] = "closed"
       /\ Waits(c, q, f) => sockets[c] # "idle" /\ ids[c] = NoSeat
  /\ AttachesOnce(q)
  /\ f.kind = "attach" => ~Queued(q, "attach", f.conn)

\* The sockets of connected seats carry the seat, until their close is handled.
Bound(r, sockets, ids, q, f) ==
  r.status # "done" =>
    /\ \A s \in Seats : r.connected[s] =>
         r.conn[s] \in Conn /\ (ids[r.conn[s]] = s \/ Queued(q, "close", r.conn[s]))
    /\ r.conn["A"] # r.conn["B"] \/ r.conn["A"] = NoConn
    /\ \A c \in Conn, s \in Seats : ids[c] = s => r.connected[s] /\ r.conn[s] = c
    /\ \A c \in Conn, s \in Seats : sockets[c] = "idle" \/ Waits(c, q, f) => r.conn[s] # c

\* A room with the same seats, or a game that ended.
LEMMA SameBound ==
  ASSUME NEW r, NEW x, NEW sockets, NEW ids, NEW q, NEW f, Bound(r, sockets, ids, q, f),
         x.connected = r.connected, x.conn = r.conn, r.status = "done" => x.status = "done"
  PROVE  Bound(x, sockets, ids, q, f)
BY DEF Bound

LEMMA DoneBound ==
  ASSUME NEW x, NEW sockets, NEW ids, NEW q, NEW f, x.status = "done"
  PROVE  Bound(x, sockets, ids, q, f)
BY DEF Bound

LEMMA PayloadBound ==
  ASSUME NEW r, Fine(r), NEW t \in Nat, NEW sockets, NEW ids, NEW q, NEW f,
         Bound(r, sockets, ids, q, f)
  PROVE  Bound(Payload(r, t), sockets, ids, q, f)
<1>1. /\ SameSeats(r, Payload(r, t))
      /\ GoesOn(r, Payload(r, t), t) \/ RunsOut(r, Payload(r, t), t)
  BY PayloadIs
<1>2. r.status = "done" => Payload(r, t).status = "done"
  BY <1>1 DEF GoesOn, RunsOut
<1>3. Payload(r, t).connected = r.connected /\ Payload(r, t).conn = r.conn
  BY <1>1 DEF SameSeats
<1> QED  BY <1>2, <1>3, SameBound

\* No operation is put before those that wait, and a close stays queued.
LEMMA QueueBound ==
  ASSUME NEW r, NEW sockets, NEW ids, NEW q, NEW f, Bound(r, sockets, ids, q, f),
         NEW p, NEW e,
         \A c \in Conn : Queued(q, "close", c) => Queued(p, "close", c),
         \A c \in Conn : Waits(c, p, e) => Waits(c, q, f)
  PROVE  Bound(r, sockets, ids, p, e)
BY DEF Bound

LEMMA AloneBound ==
  ASSUME NEW r, Alone(r), NEW sockets, NEW ids, NEW q, NEW f,
         \A c \in Conn : ids[c] = NoSeat
  PROVE  Bound(r, sockets, ids, q, f)
<1>1. NoSeat \notin Seats /\ "A" \in Seats
  BY DEF Seats, NoSeat
<1>2. \A c \in Conn : NoConn # c
  BY SentinelAssumption
<1> QED  BY <1>1, <1>2 DEF Bound, Alone

\* A seat that loses its socket.
LEMMA VacatedBound ==
  ASSUME NEW r, Fine(r), NEW s \in Seats, NEW sockets, NEW ids, NEW q, NEW f,
         Bound(r, sockets, ids, q, f), \A c \in Conn : ids[c] # s,
         NEW x, x.conn = r.conn, x.connected = Seat(r.connected, s, FALSE),
         r.status = "done" => x.status = "done"
  PROVE  Bound(x, sockets, ids, q, f)
<1>1. r.connected \in [Seats -> BOOLEAN]
  BY DEF Fine, RoomType
<1>2. ~x.connected[s] /\ \A y \in Seats : y # s => (x.connected[y] <=> r.connected[y])
  BY <1>1 DEF Seat
<1> QED  BY <1>2 DEF Bound

\* The room as it was stored, with the sockets it has.
LEMMA RestoredIs ==
  ASSUME NEW r, Sound(r), NEW v, Sound(v), NEW t, Agrees(r, v, t), r.status # "done",
         \A s \in Seats : r.connected[s] => r.conn[s] \in Conn
  PROVE  LET x == WithLive(Hydrated(v), LiveSeats(r)) IN
         /\ Sound(x) /\ Agrees(x, v, t)
         /\ x.status = r.status /\ x.connected = r.connected /\ x.conn = LiveSeats(r)
<1> DEFINE live == LiveSeats(r)
           x == WithLive(Hydrated(v), live)
<1>0. Fine(r) /\ Fine(v)
  BY DEF Sound
<1>1. live \in [Seats -> Conn \cup {NoConn}]
  BY <1>0, LiveSeatsIs
<1>2. \A s \in Seats : live[s] # NoConn <=> r.connected[s]
  <2>1. \A s \in Seats : r.connected[s] => r.seated[s] /\ r.conn[s] # NoConn
    BY SentinelAssumption DEF Sound
  <2> QED  BY <2>1 DEF LiveSeats
<1> HIDE DEF live
<1>3. /\ Lasts(v, x) /\ SamePlay(v, x)
      /\ x.connected = [s \in Seats |-> v.seated[s] /\ live[s] # NoConn]
      /\ x.deadline = [s \in Seats |-> IF v.seated[s] /\ live[s] # NoConn THEN NoTime
                                        ELSE v.deadline[s]]
      /\ x.conn = live
  BY <1>0, <1>1, WithLiveIs
<1> HIDE DEF x
<1>4. v.status = r.status /\ v.seated = r.seated /\ v.connected = r.connected
  BY DEF Agrees
<1>5. /\ v.connected \in [Seats -> BOOLEAN] /\ v.deadline \in [Seats -> Nat \cup {NoTime}]
      /\ x.connected \in [Seats -> BOOLEAN] /\ x.deadline \in [Seats -> Nat \cup {NoTime}]
  BY <1>0, <1>3 DEF Lasts, Fine, RoomType
<1>6. \A s \in Seats : r.connected[s] => v.seated[s] /\ v.deadline[s] = NoTime
  BY <1>4 DEF Sound
<1>7. \A s \in Seats : x.connected[s] <=> v.connected[s]
  BY <1>2, <1>3, <1>4, <1>6
<1>8. x.connected = v.connected
  BY <1>5, <1>7
<1>9. \A s \in Seats : x.deadline[s] = v.deadline[s]
  BY <1>2, <1>3, <1>6
<1>10. x.deadline = v.deadline
  BY <1>5, <1>9
<1>11. Sound(x)
  BY <1>3, <1>8, <1>10 DEF Sound, SamePlay, Lasts, OnTurn, InTime
<1>12. Agrees(x, v, t)
  BY <1>3, <1>8, <1>10 DEF Agrees, SamePlay, FlagTime
<1> QED  BY <1>3, <1>4, <1>8, <1>11, <1>12 DEF x, live, SamePlay

LEMMA RestoredBound ==
  ASSUME NEW r, Sound(r), NEW sockets, NEW ids, NEW q, NEW f, Bound(r, sockets, ids, q, f),
         NEW x, x.status = r.status, x.connected = r.connected, x.conn = LiveSeats(r)
  PROVE  Bound(x, sockets, ids, q, f)
<1>1. CASE r.status = "done"
  BY <1>1, DoneBound
<1>2. CASE r.status # "done"
  <2>1. \A s \in Seats : r.connected[s] => x.conn[s] = r.conn[s]
    BY <1>2 DEF Sound, LiveSeats
  <2>2. \A s \in Seats : ~r.connected[s] => x.conn[s] = NoConn
    BY DEF LiveSeats
  <2>3. \A s \in Seats : x.conn[s] = r.conn[s] \/ x.conn[s] = NoConn
    BY <2>1, <2>2
  <2>4. "A" \in Seats /\ "B" \in Seats /\ \A c \in Conn : c # NoConn
    BY SentinelAssumption DEF Seats
  <2>5. x.conn["A"] # x.conn["B"] \/ x.conn["A"] = NoConn
    BY <1>2, <2>3, <2>4 DEF Bound
  <2>6. \A c \in Conn, s \in Seats : ids[c] = s => r.connected[s] /\ x.conn[s] = c
    BY <1>2, <2>1 DEF Bound
  <2>7. \A c \in Conn, s \in Seats : sockets[c] = "idle" \/ Waits(c, q, f) => x.conn[s] # c
    BY <1>2, <2>3, <2>4 DEF Bound
  <2>8. \A s \in Seats : r.connected[s] =>
          x.conn[s] \in Conn /\ (ids[x.conn[s]] = s \/ Queued(q, "close", x.conn[s]))
    BY <1>2, <2>1 DEF Bound
  <2> QED  BY <2>5, <2>6, <2>7, <2>8 DEF Bound
<1> QED  BY <1>1, <1>2

\* Nothing is bound again while the sockets of the seats are those of the room.
LEMMA ReboundSame ==
  ASSUME NEW g, Adapter(g), Sound(g.room), g.room.status # "done",
         NEW live \in [Seats -> Conn \cup {NoConn}],
         \A s \in Seats : live[s] # NoConn => g.room.connected[s] /\ g.room.conn[s] = live[s],
         NEW t
  PROVE  Rebound(g, live, t) = g
<1> DEFINE r == g.room
           present == {s \in Seats : live[s] # NoConn /\ r.seated[s]}
           conn == [s \in Seats |-> IF s \in present THEN live[s] ELSE r.conn[s]]
           connected == [s \in Seats |-> s \in present \/ r.connected[s]]
           deadline == [s \in Seats |-> IF s \in present THEN NoTime ELSE r.deadline[s]]
           taken == [r EXCEPT !.conn = conn, !.connected = connected, !.deadline = deadline]
           restart == /\ present # {}
                      /\ taken.status = "playing" /\ taken.winner = NoSeat
                      /\ taken.running = NoSeat /\ taken.connected[taken.turn]
           room == IF restart THEN [taken EXCEPT !.running = taken.turn, !.anchor = t] ELSE taken
<1>1. Fine(r) /\ r \in RoomType
  BY DEF Sound, Fine
<1>2. r.conn \in [Seats -> Conn \cup {NoConn}] /\ r.connected \in [Seats -> BOOLEAN]
      /\ r.deadline \in [Seats -> Nat \cup {NoTime}] /\ r.turn \in Seats
  BY <1>1 DEF RoomType
<1>3. \A s \in present : r.connected[s] /\ r.conn[s] = live[s] /\ r.deadline[s] = NoTime
  BY DEF Sound
<1> HIDE DEF present
<1>4. conn = r.conn
  BY <1>2, <1>3
<1>5. connected = r.connected
  <2>1. \A s \in Seats : connected[s] <=> r.connected[s]
    BY <1>3
  <2>2. connected \in [Seats -> BOOLEAN]
    OBVIOUS
  <2> HIDE DEF connected
  <2> QED  BY <1>2, <2>1, <2>2
<1>6. deadline = r.deadline
  BY <1>2, <1>3
<1> HIDE DEF conn, connected, deadline
<1>7. taken = r
  BY <1>1, <1>4, <1>5, <1>6 DEF RoomType
<1>8. Rebound(g, live, t) =
        IF g.down THEN g
        ELSE IF taken = r THEN [g EXCEPT !.room = room]
        ELSE Scheduled(Persisted([g EXCEPT !.room = room]), t)
  BY DEF Rebound, conn, connected, deadline, present
<1> HIDE DEF taken
<1>9. ~restart
  <2>1. r.status = "playing" /\ r.connected[r.turn] => r.running \in Seats
    BY <1>2 DEF Sound, OnTurn
  <2> QED  BY <1>7, <2>1 DEF Seats, NoSeat
<1>10. room = r
  BY <1>7, <1>9
<1> HIDE DEF room
<1>11. [g EXCEPT !.room = r] = g
  BY DEF Adapter, GameType
<1> QED  BY <1>7, <1>8, <1>10, <1>11

LEMMA ReboundSound ==
  ASSUME NEW g, Adapter(g), Sound(g.room), Sound(g.saved), NEW t \in Nat,
         Agrees(g.room, g.saved, t), NEW sockets, NEW ids, NEW q, NEW f,
         Bound(g.room, sockets, ids, q, f)
  PROVE  LET h == Rebound(g, LiveSockets(sockets, ids), t) IN
         /\ Sound(h.room) /\ Sound(h.saved) /\ Agrees(h.room, h.saved, t)
         /\ Bound(h.room, sockets, ids, q, f)
<1> DEFINE live == LiveSockets(sockets, ids)
           h == Rebound(g, live, t)
<1>1. /\ live \in [Seats -> Conn \cup {NoConn}]
      /\ \A s \in Seats : live[s] # NoConn =>
           live[s] \in Conn /\ sockets[live[s]] = "open" /\ ids[live[s]] = s
  BY LiveSocketsIs
<1> HIDE DEF live
<1>2. CASE g.room.status # "done"
  <2>1. \A s \in Seats : live[s] # NoConn => g.room.connected[s] /\ g.room.conn[s] = live[s]
    BY <1>1, <1>2 DEF Bound
  <2>2. h = g
    BY <1>1, <1>2, <2>1, ReboundSame
  <2> HIDE DEF h
  <2> QED  BY <2>2 DEF h, live
<1>3. CASE g.room.status = "done"
  <2>1. /\ Lasts(g.room, h.room) /\ h.room.status = "done"
        /\ h.saved = g.saved \/ h.saved = Serialized(h.room)
    BY <1>1, <1>3, ReboundIs
  <2> HIDE DEF h
  <2>2. Sound(h.room) /\ Fine(h.room)
    BY <2>1, DoneSound DEF Lasts
  <2>3. Bound(h.room, sockets, ids, q, f)
    BY <2>1, DoneBound
  <2>4. CASE h.saved = g.saved
    <3>1. Agrees(h.room, h.saved, t)
      BY <1>3, <2>1, <2>4 DEF Agrees
    <3> QED  BY <2>2, <2>3, <2>4, <3>1 DEF h, live
  <2>5. CASE h.saved = Serialized(h.room)
    <3>1. Sound(h.saved) /\ Agrees(h.room, h.saved, t)
      BY <2>2, <2>5, SerializedSound, AgreesSerialized
    <3> QED  BY <2>2, <2>3, <3>1 DEF h, live
  <2> QED  BY <2>1, <2>4, <2>5
<1> QED  BY <1>2, <1>3

-----------------------------------------------------------------------------
(* Everything together.  An interrupted attach or an aborted one may leave a *)
(* seat without socket or grace period, and so may hibernation.              *)

Steady == Faults \cap {"interrupt", "transaction", "hibernate"} = {}

Fits ==
  game.loaded /\ ~game.down =>
    /\ Agrees(game.room, game.saved, now)
    /\ Bound(game.room, socket, identity, queue, flight)

Order ==
  /\ flight # Idle => game.loaded /\ game.terminal = NoSeat
  /\ flight.kind = "attach" => flight.previous = game.room.conn[flight.seat]
  /\ game.wiped => ~game.loaded /\ game.terminal # NoSeat
  /\ ~game.loaded => game.room = game.saved /\ ~game.down
  /\ ~game.loaded /\ ~game.wiped => \A c \in Conn : identity[c] = NoSeat

Strong ==
  /\ Sound(game.room) /\ Sound(game.saved)
  /\ Sockets(socket, identity, queue, flight)
  /\ Fits /\ Order

\* Operations that attach nobody and close nothing.
LEMMA OperationStrong ==
  ASSUME Strong, UNCHANGED <<now, socket, identity>>,
         queue \in Seq(OperationType),
         queue' = queue \/ (queue # <<>> /\ queue' = Tail(queue)),
         flight'.kind # "attach",
         Sound(game'.room), Sound(game'.saved),
         game'.loaded /\ ~game'.down =>
           Agrees(game'.room, game'.saved, now)
             /\ Bound(game'.room, socket, identity, queue', Idle),
         game'.loaded = game.loaded, game'.wiped = game.wiped,
         flight' # Idle => game'.loaded /\ game'.terminal = NoSeat,
         ~game.loaded => game' = game
  PROVE  Strong'
<1>1. /\ \A op, c : Queued(queue', op, c) => Queued(queue, op, c)
      /\ AttachesOnce(queue')
  <2>1. AttachesOnce(queue)
    BY DEF Strong, Sockets
  <2>2. CASE queue' = queue
    BY <2>1, <2>2
  <2>3. CASE queue # <<>> /\ queue' = Tail(queue)
    BY <2>1, <2>3, TailIs
  <2> QED  BY <2>2, <2>3
<1>2. \A c : Waits(c, queue', flight') => Waits(c, queue, flight)
  BY <1>1 DEF Waits
<1>3. Sockets(socket, identity, queue, flight)'
  BY <1>1, <1>2 DEF Strong, Sockets
<1>4. Fits'
  <2>1. \A c : Waits(c, queue', flight') <=> Waits(c, queue', Idle)
    BY FlightsAre DEF Waits
  <2>2. SUFFICES ASSUME game'.loaded, ~game'.down
                 PROVE  /\ Agrees(game'.room, game'.saved, now)
                        /\ Bound(game'.room, socket, identity, queue', flight')
    BY DEF Fits
  <2>3. Bound(game'.room, socket, identity, queue', flight')
    BY <2>1, <2>2, QueueBound
  <2> QED  BY <2>2, <2>3
<1>5. Order'
  BY DEF Strong, Order
<1> QED  BY <1>3, <1>4, <1>5 DEF Strong

LEMMA IgnoredStrong ==
  ASSUME Typed, Strong, UNCHANGED <<now, socket, identity>>, NEW op, Dequeue(op),
         op # "close" \/ ~game.loaded \/ game.down, game' = game, flight' = Idle
  PROVE  Strong'
<1>1. /\ flight = Idle /\ queue # <<>> /\ Head(queue).op = op
      /\ queue' = Tail(queue) /\ queue \in Seq(OperationType)
  BY DequeueIs DEF Typed, Surroundings
<1>2. Idle.kind # "attach"
  BY DEF Idle
<1>3. /\ \A o, c : Queued(queue', o, c) => Queued(queue, o, c)
      /\ \A o, c : Queued(queue, o, c) => Queued(queue', o, c) \/ (op = o /\ Head(queue).conn = c)
  BY <1>1, TailIs
<1>4. ASSUME game.loaded, ~game.down
      PROVE  Agrees(game.room, game.saved, now)
               /\ Bound(game.room, socket, identity, queue', Idle)
  <2>1. Agrees(game.room, game.saved, now) /\ Bound(game.room, socket, identity, queue, flight)
    BY <1>4 DEF Strong, Fits
  <2>2. \A c \in Conn : Queued(queue, "close", c) => Queued(queue', "close", c)
    BY <1>3, <1>4
  <2>3. \A c \in Conn : Waits(c, queue', Idle) => Waits(c, queue, flight)
    BY <1>1, <1>3 DEF Waits
  <2> QED  BY <2>1, <2>2, <2>3, QueueBound
<1>5. Sound(game.room) /\ Sound(game.saved)
  BY DEF Strong
<1> QED  BY <1>1, <1>2, <1>4, <1>5, OperationStrong

\* A command of a seat, once its sockets are bound again, or the close of one.
LEMMA CommittedStrong ==
  ASSUME Typed, NEW g, Adapter(g), Sound(g.saved), NEW after, Sound(after),
         NEW q, Bound(after, socket, identity, q, Idle),
         NEW published \in BOOLEAN, Committed(g, after, published)
  PROVE  /\ Sound(game'.room) /\ Sound(game'.saved)
         /\ ~game'.down => Agrees(game'.room, game'.saved, now)
         /\ Bound(game'.room, socket, identity, q, Idle)
<1>1. Surroundings /\ now \in Nat /\ Fine(after)
  BY DEF Typed, Surroundings, Sound
<1>2. /\ game'.room = Payload(after, now)
      /\ \/ game'.saved = g.saved /\ game'.down
         \/ game'.saved = Serialized(game'.room)
  BY <1>1, CommittedIs
<1>3. Sound(game'.room) /\ Bound(game'.room, socket, identity, q, Idle)
  <2>1. Sound(Payload(after, now)) /\ Bound(Payload(after, now), socket, identity, q, Idle)
    BY <1>1, PayloadSound, PayloadBound
  <2> QED  BY <1>2, <2>1
<1>4. CASE game'.saved = g.saved /\ game'.down
  BY <1>3, <1>4
<1>5. CASE game'.saved = Serialized(game'.room)
  <2>1. Fine(game'.room)
    BY <1>3 DEF Sound
  <2>2. Sound(Serialized(game'.room)) /\ Agrees(game'.room, Serialized(game'.room), now)
    BY <1>3, <2>1, SerializedSound, AgreesSerialized
  <2> QED  BY <1>3, <1>5, <2>2
<1> QED  BY <1>2, <1>4, <1>5

LEMMA CommandStrong ==
  ASSUME Typed, Kept, Strong, UNCHANGED <<now, socket, identity>>, NEW op, Dequeue(op),
         ~game.down, ~game.wiped,
         NEW g, Adapter(g), SameState(game, g), Sound(g.saved),
         NEW after, Sound(after), Bound(after, socket, identity, queue', Idle),
         NEW published \in BOOLEAN, Committed(g, after, published)
  PROVE  Strong'
<1>1. /\ flight = Idle /\ queue # <<>> /\ queue' = Tail(queue)
      /\ queue \in Seq(OperationType)
  BY DequeueIs DEF Typed, Surroundings
<1>2. game.loaded /\ game.terminal = NoSeat
  BY <1>1 DEF Kept, Held
<1>3. Idle.kind # "attach"
  BY DEF Idle
<1>4. /\ Sound(game'.room) /\ Sound(game'.saved)
      /\ ~game'.down => Agrees(game'.room, game'.saved, now)
      /\ Bound(game'.room, socket, identity, queue', Idle)
  BY CommittedStrong
<1>5. Surroundings /\ Fine(after)
  BY DEF Typed, Sound
<1>6. SameState(g, game') /\ flight'.kind # "attach"
  BY <1>5, CommittedIs
<1>7. game'.loaded = game.loaded /\ game'.wiped = game.wiped /\ game'.terminal = game.terminal
  BY <1>6 DEF SameState
<1> QED  BY <1>1, <1>2, <1>3, <1>4, <1>6, <1>7, OperationStrong

\* The seats' sockets are bound before a command, and its room has the same seats.
LEMMA BoundAgain ==
  ASSUME Typed, Kept, Strong, NEW op, Dequeue(op), ~game.down, ~game.wiped
  PROVE  LET g == Rebound(game, Live, now) IN
         /\ Adapter(g) /\ SameState(game, g) /\ ~g.down
         /\ Sound(g.room) /\ Sound(g.saved) /\ Agrees(g.room, g.saved, now)
         /\ Bound(g.room, socket, identity, queue, flight)
<1> DEFINE g == Rebound(game, Live, now)
<1>1. Adapter(game) /\ now \in Nat /\ Live \in [Seats -> Conn \cup {NoConn}]
  BY LiveSocketsIs DEF Typed, Surroundings, Live
<1>2. Adapter(g) /\ SameState(game, g) /\ g.down = game.down
  BY <1>1, ReboundIs
<1>3. game.loaded
  BY DequeueIs DEF Kept, Typed
<1>4. /\ Sound(game.room) /\ Sound(game.saved) /\ Agrees(game.room, game.saved, now)
      /\ Bound(game.room, socket, identity, queue, flight)
  BY <1>3 DEF Strong, Fits
<1>5. g = Rebound(game, LiveSockets(socket, identity), now)
  BY DEF Live
<1> HIDE DEF g
<1>6. /\ Sound(g.room) /\ Sound(g.saved) /\ Agrees(g.room, g.saved, now)
      /\ Bound(g.room, socket, identity, queue, flight)
  BY <1>1, <1>4, <1>5, ReboundSound
<1> QED  BY <1>2, <1>6 DEF g

\* Whoever is bound stays bound when another operation is taken off the queue.
LEMMA DequeuedBound ==
  ASSUME Surroundings, NEW op, Dequeue(op), op # "close",
         NEW r, Bound(r, socket, identity, queue, flight)
  PROVE  Bound(r, socket, identity, queue', Idle)
<1>1. /\ flight = Idle /\ queue # <<>> /\ Head(queue).op = op
      /\ queue' = Tail(queue) /\ queue \in Seq(OperationType)
  BY DequeueIs DEF Surroundings
<1>2. /\ \A o, c : Queued(queue', o, c) => Queued(queue, o, c)
      /\ \A o, c : Queued(queue, o, c) => Queued(queue', o, c) \/ (op = o /\ Head(queue).conn = c)
  BY <1>1, TailIs
<1>3. \A c \in Conn : Queued(queue, "close", c) => Queued(queue', "close", c)
  BY <1>2
<1>4. \A c \in Conn : Waits(c, queue', Idle) => Waits(c, queue, flight)
  BY <1>1, <1>2 DEF Waits
<1> QED  BY <1>3, <1>4, QueueBound

LEMMA RunMoveStrong ==
  ASSUME Typed, Kept, Strong, RunMove
  PROVE  Strong'
<1> DEFINE c == Head(queue).conn
           g == Rebound(game, Live, now)
           After(m, v) == IF SeatHeld(g.room, c)
                          THEN HandleMove(g.room, SeatOf(g.room, c), m, NoRevision, v, now)
                          ELSE g.room
<1>1. Dequeue("move") /\ UNCHANGED <<now, socket, identity>>
  BY DEF RunMove
<1>2. Surroundings /\ now \in Nat
  BY DEF Typed, Surroundings
<1>3. CASE socket[c] # "open" \/ game.down \/ game.wiped
  BY <1>1, <1>3, IgnoredStrong DEF RunMove, Ignored
<1>4. CASE ~(socket[c] # "open" \/ game.down \/ game.wiped)
  <2>1. PICK m \in Moves, v \in {"moved", "goal"} : Committed(g, After(m, v), TRUE)
    BY <1>4 DEF RunMove
  <2>2. /\ Adapter(g) /\ SameState(game, g) /\ ~g.down
        /\ Sound(g.room) /\ Sound(g.saved) /\ Agrees(g.room, g.saved, now)
        /\ Bound(g.room, socket, identity, queue, flight)
    BY <1>1, <1>4, BoundAgain
  <2> HIDE DEF g, c
  <2>3. Bound(g.room, socket, identity, queue', Idle)
    BY <1>1, <1>2, <2>2, DequeuedBound
  <2> DEFINE x == After(m, v)
  <2>4. Sound(x) /\ Bound(x, socket, identity, queue', Idle)
    <3>1. CASE ~SeatHeld(g.room, c)
      BY <2>2, <2>3, <3>1
    <3>2. CASE SeatHeld(g.room, c)
      <4> DEFINE s == SeatOf(g.room, c)
                 y == HandleMove(g.room, s, m, NoRevision, v, now)
      <4>1. s \in Seats /\ v \in Verdicts /\ NoRevision \in Nat \cup {NoRevision}
        BY <3>2, SeatOfIs DEF Verdicts, BoardWins
      <4> HIDE DEF s
      <4>2. Sound(y)
        BY <1>2, <2>2, <4>1, HandleMoveSound
      <4>3. SameSeats(g.room, y) /\ (g.room.status = "done" => y.status = "done")
        BY <1>2, <2>2, <4>1, HandleMoveSeats
      <4> HIDE DEF y
      <4>4. y.connected = g.room.connected /\ y.conn = g.room.conn
        BY <4>3 DEF SameSeats
      <4>5. Bound(y, socket, identity, queue', Idle)
        BY <2>3, <4>3, <4>4, SameBound
      <4>6. x = y
        BY <3>2 DEF y, s
      <4> QED  BY <4>2, <4>5, <4>6
    <3> QED  BY <3>1, <3>2
  <2> HIDE DEF x
  <2>5. Committed(g, x, TRUE)
    BY <2>1 DEF x
  <2> QED  BY <1>1, <1>4, <2>2, <2>4, <2>5, CommandStrong
<1> QED  BY <1>3, <1>4

LEMMA RunLeaveStrong ==
  ASSUME Typed, Kept, Strong, RunLeave
  PROVE  Strong'
<1> DEFINE c == Head(queue).conn
           g == Rebound(game, Live, now)
           x == IF SeatHeld(g.room, c) THEN LeavePlayer(g.room, SeatOf(g.room, c), now)
                ELSE g.room
<1>1. Dequeue("leave") /\ UNCHANGED <<now, socket, identity>>
  BY DEF RunLeave
<1>2. Surroundings /\ now \in Nat
  BY DEF Typed, Surroundings
<1>3. CASE socket[c] # "open" \/ game.down \/ game.wiped
  BY <1>1, <1>3, IgnoredStrong DEF RunLeave, Ignored
<1>4. CASE ~(socket[c] # "open" \/ game.down \/ game.wiped)
  <2>1. Committed(g, x, TRUE)
    BY <1>4 DEF RunLeave
  <2>2. /\ Adapter(g) /\ SameState(game, g) /\ ~g.down
        /\ Sound(g.room) /\ Sound(g.saved) /\ Agrees(g.room, g.saved, now)
        /\ Bound(g.room, socket, identity, queue, flight)
    BY <1>1, <1>4, BoundAgain
  <2> HIDE DEF g, c
  <2>3. Bound(g.room, socket, identity, queue', Idle)
    BY <1>1, <1>2, <2>2, DequeuedBound
  <2>4. Sound(x) /\ Bound(x, socket, identity, queue', Idle)
    <3>1. CASE ~SeatHeld(g.room, c)
      BY <2>2, <2>3, <3>1
    <3>2. CASE SeatHeld(g.room, c)
      <4> DEFINE y == LeavePlayer(g.room, SeatOf(g.room, c), now)
      <4>1. Sound(y) /\ y.status = "done"
        BY <1>2, <2>2, <3>2, SeatOfIs, LeavePlayerSound
      <4> HIDE DEF y
      <4>2. Bound(y, socket, identity, queue', Idle)
        BY <4>1, DoneBound
      <4>3. x = y
        BY <3>2 DEF y
      <4> QED  BY <4>1, <4>2, <4>3
    <3> QED  BY <3>1, <3>2
  <2> HIDE DEF x
  <2> QED  BY <1>1, <1>4, <2>1, <2>2, <2>4, CommandStrong
<1> QED  BY <1>3, <1>4

\* A close is handled once nobody is connected with its socket.
LEMMA ClosedBound ==
  ASSUME Surroundings, Dequeue("close"), NEW r, Bound(r, socket, identity, queue, flight),
         r.status # "done" =>
           \A s \in Seats : r.connected[s] => r.conn[s] # Head(queue).conn
  PROVE  Bound(r, socket, identity, queue', Idle)
<1>1. /\ flight = Idle /\ queue # <<>> /\ queue' = Tail(queue)
      /\ queue \in Seq(OperationType)
  BY DequeueIs DEF Surroundings
<1>2. /\ \A o, c : Queued(queue', o, c) => Queued(queue, o, c)
      /\ \A c : Queued(queue, "close", c) => Queued(queue', "close", c) \/ Head(queue).conn = c
  BY <1>1, TailIs
<1>3. \A c \in Conn : Waits(c, queue', Idle) => Waits(c, queue, flight)
  BY <1>1, <1>2 DEF Waits
<1>4. CASE r.status = "done"
  BY <1>4, DoneBound
<1>5. CASE r.status # "done"
  BY <1>2, <1>3, <1>5 DEF Bound
<1> QED  BY <1>4, <1>5

LEMMA RunCloseStrong ==
  ASSUME Typed, Kept, Strong, RunClose
  PROVE  Strong'
<1> DEFINE c == Head(queue).conn
           r == game.room
           x == IF SeatHeld(r, c) THEN DisconnectPlayer(r, SeatOf(r, c), now) ELSE r
<1>1. Dequeue("close") /\ UNCHANGED <<now, socket, identity>>
  BY DEF RunClose
<1>2. Surroundings /\ now \in Nat /\ Adapter(game) /\ Sound(r) /\ Sound(game.saved) /\ Fine(r)
  BY DEF Typed, Surroundings, Strong, Sound
<1>3. CASE game.down \/ game.wiped
  <2>1. ~game.loaded \/ game.down
    BY <1>3 DEF Strong, Order
  <2> QED  BY <1>1, <1>3, <2>1, IgnoredStrong DEF RunClose, Ignored
<1>4. CASE ~(game.down \/ game.wiped)
  <2>1. /\ flight = Idle /\ queue # <<>> /\ Head(queue) \in OperationType
        /\ Head(queue).op = "close" /\ queue \in Seq(OperationType)
    BY <1>1, <1>2, DequeueIs DEF Surroundings
  <2>2. c \in Conn /\ Queued(queue, "close", c)
    <3>1. 1 \in 1 .. Len(queue) /\ Head(queue) = queue[1]
      BY <2>1
    <3> QED  BY <2>1, <3>1, OperationIs DEF Queued
  <2>3. identity[c] = NoSeat
    BY <2>2 DEF Strong, Sockets
  <2>4. game.loaded /\ c \notin DOMAIN game.provisional
    BY <1>4, <2>1 DEF Kept, Held
  <2>5. Bound(r, socket, identity, queue, flight)
    BY <1>4, <2>4 DEF Strong, Fits
  <2>6. Committed(game, x, SeatHeld(r, c))
    BY <1>4, <2>4 DEF RunClose
  <2>7. Sound(x) /\ Bound(x, socket, identity, queue', Idle)
    <3>1. CASE ~SeatHeld(r, c)
      <4>1. r.status # "done" => \A s \in Seats : r.connected[s] => r.conn[s] # c
        BY <1>2, <3>1 DEF SeatHeld, HoldsSeat, Sound
      <4>2. Bound(r, socket, identity, queue', Idle)
        BY <1>1, <1>2, <2>5, <4>1, ClosedBound
      <4> QED  BY <1>2, <3>1, <4>2
    <3>2. CASE SeatHeld(r, c)
      <4> DEFINE s == SeatOf(r, c)
                 y == DisconnectPlayer(r, s, now)
      <4>1. s \in Seats /\ r.connected[s] /\ r.conn[s] = c
        BY <3>2, SeatOfIs DEF HoldsSeat
      <4> HIDE DEF s
      <4> DEFINE z == Away(r, s, now)
      <4>2. Sound(y) /\ y = z
        BY <1>2, <4>1, DisconnectPlayerSound DEF Away
      <4>2a. /\ Sound(z) /\ z.seated = r.seated /\ z.conn = r.conn
             /\ z.connected = Seat(r.connected, s, FALSE)
             /\ r.status = "done" => z.status = "done"
        BY <1>2, <4>1, AwaySound
      <4> HIDE DEF z
      <4>3. /\ y.seated = r.seated /\ y.conn = r.conn
            /\ y.connected = Seat(r.connected, s, FALSE)
            /\ r.status = "done" => y.status = "done"
        BY <4>2, <4>2a
      <4> HIDE DEF y
      <4>4. CASE r.status = "done"
        <5>1. Bound(y, socket, identity, queue', Idle)
          BY <4>3, <4>4, DoneBound
        <5> QED  BY <3>2, <4>2, <5>1 DEF y, s
      <4>5. CASE r.status # "done"
        <5>1. \A d \in Conn : identity[d] # s
          BY <2>3, <2>5, <4>1, <4>5 DEF Bound, Seats, NoSeat
        <5>2. Bound(y, socket, identity, queue, flight)
          BY <1>2, <2>5, <4>1, <4>3, <4>5, <5>1, VacatedBound
        <5>3. \A d \in Seats : y.connected[d] => d # s
          <6>1. r.connected \in [Seats -> BOOLEAN]
            BY <1>2 DEF Fine, RoomType
          <6> QED  BY <4>1, <4>3, <6>1 DEF Seat
        <5>4. \A d \in Seats : d # s => r.conn[d] # c
          <6>1. c # NoConn
            BY <2>2, SentinelAssumption
          <6>2. r.conn["A"] # r.conn["B"] \/ r.conn["A"] = NoConn
            BY <2>5, <4>5 DEF Bound
          <6> QED  BY <4>1, <6>1, <6>2 DEF Seats
        <5>5. \A d \in Seats : y.connected[d] => y.conn[d] # c
          BY <4>3, <5>3, <5>4
        <5>6. Bound(y, socket, identity, queue', Idle)
          BY <1>1, <1>2, <5>2, <5>5, ClosedBound
        <5> QED  BY <3>2, <4>2, <5>6 DEF y, s
      <4> QED  BY <4>4, <4>5
    <3> QED  BY <3>1, <3>2
  <2>8. SameState(game, game) /\ SeatHeld(r, c) \in BOOLEAN
    BY DEF SameState, SeatHeld
  <2> HIDE DEF x
  <2> QED  BY <1>1, <1>2, <1>4, <2>6, <2>7, <2>8, CommandStrong
<1> QED  BY <1>3, <1>4

LEMMA RunAlarmStrong ==
  ASSUME Typed, Kept, Strong, RunAlarm
  PROVE  Strong'
<1>1. Dequeue("alarm") /\ UNCHANGED <<now, socket, identity>>
  BY DEF RunAlarm
<1>2. Surroundings /\ now \in Nat /\ Adapter(game) /\ Sound(game.room) /\ Sound(game.saved)
      /\ Fine(game.room)
  BY DEF Typed, Surroundings, Strong, Sound
<1>3. CASE game.down \/ game.wiped
  BY <1>1, <1>3, IgnoredStrong DEF RunAlarm
<1>4. CASE ~(game.down \/ game.wiped)
  <2> DEFINE g == game
             h == game'
  <2>1. /\ flight = Idle /\ queue # <<>> /\ queue' = Tail(queue)
        /\ queue \in Seq(OperationType) /\ Idle.kind # "attach"
    BY <1>1, <1>2, DequeueIs DEF Surroundings, Idle
  <2>2. g.loaded /\ g.terminal = NoSeat
    BY <1>4, <2>1 DEF Kept, Held
  <2>3. Agrees(g.room, g.saved, now) /\ Bound(g.room, socket, identity, queue', Idle)
    <3>1. Agrees(g.room, g.saved, now) /\ Bound(g.room, socket, identity, queue, flight)
      BY <1>4, <2>2 DEF Strong, Fits
    <3> QED  BY <1>1, <1>2, <3>1, DequeuedBound
  <2>4. Alarmed(game, game', now) /\ Landed
    BY <1>4, RunAlarmIs
  <2>5. /\ h.loaded = g.loaded /\ h.terminal = g.terminal /\ h.wiped = g.wiped /\ h.down = g.down
        /\ flight'.kind # "attach"
    BY <2>4 DEF Alarmed, Landed
  <2>6. /\ Sound(Payload(g.room, now)) /\ Agrees(Payload(g.room, now), g.saved, now)
        /\ Bound(Payload(g.room, now), socket, identity, queue', Idle)
    BY <1>2, <2>3, PayloadSound, PayloadAgrees, PayloadBound
  <2>7. /\ Sound(h.room) /\ Sound(h.saved) /\ Agrees(h.room, h.saved, now)
        /\ Bound(h.room, socket, identity, queue', Idle)
    <3>1. CASE h = g
      BY <1>2, <2>3, <3>1
    <3>2. CASE h.saved = g.saved /\ h.room = Payload(g.room, now)
      BY <1>2, <2>6, <3>2
    <3>3. CASE h.saved = g.saved /\ h.room = g.room
      BY <1>2, <2>3, <3>3
    <3>4. CASE /\ h.saved = Serialized(h.room) /\ Lasts(g.room, h.room)
               /\ h.room = Payload(g.room, now) \/ h.room.status = "done"
      <4>1. Sound(h.room) /\ Bound(h.room, socket, identity, queue', Idle)
        <5>1. CASE h.room = Payload(g.room, now)
          BY <2>6, <5>1
        <5>2. CASE h.room.status = "done"
          BY <3>4, <5>2, DoneSound, DoneBound DEF Lasts
        <5> QED  BY <3>4, <5>1, <5>2
      <4>2. Fine(h.room)
        BY <3>4 DEF Lasts
      <4>3. Sound(Serialized(h.room)) /\ Agrees(h.room, Serialized(h.room), now)
        BY <4>1, <4>2, SerializedSound, AgreesSerialized
      <4> QED  BY <3>4, <4>1, <4>3
    <3>5. CASE /\ h.saved = g.saved /\ Lasts(g.room, h.room)
               /\ SameSeats(g.room, h.room) /\ GoesOn(g.room, h.room, now)
      <4>1. h.room \in RoomType
        BY <3>5 DEF Lasts, Fine
      <4>2. Sound(h.room) /\ Agrees(h.room, g.saved, now)
        BY <1>2, <2>3, <3>5, <4>1, SettledSound, SettledAgrees
      <4>3. h.room.connected = g.room.connected /\ h.room.conn = g.room.conn
            /\ (g.room.status = "done" => h.room.status = "done")
        BY <3>5 DEF SameSeats, GoesOn
      <4>4. Bound(h.room, socket, identity, queue', Idle)
        BY <2>3, <4>3, SameBound
      <4> QED  BY <1>2, <3>5, <4>2, <4>4
    <3> QED  BY <2>4, <3>1, <3>2, <3>3, <3>4, <3>5 DEF Alarmed
  <2> HIDE DEF g, h
  <2>8. game'.loaded = game.loaded /\ game'.wiped = game.wiped
        /\ game'.terminal = NoSeat /\ game.loaded
    BY <2>2, <2>5 DEF g, h
  <2> QED  BY <1>1, <2>1, <2>5, <2>7, <2>8, OperationStrong DEF g, h
<1> QED  BY <1>3, <1>4

LEMMA LobbyAnswersStrong ==
  ASSUME Typed, Strong, LobbyAnswers
  PROVE  Strong'
<1> DEFINE e == flight.reason
           h == Terminalized(game, e, now)
<1>1. /\ flight.kind = "publish" /\ game' = h /\ flight' = Idle
      /\ UNCHANGED <<now, socket, identity, queue>>
  BY DEF LobbyAnswers
<1>2. e \in TerminalReasons /\ Adapter(game) /\ now \in Nat /\ queue \in Seq(OperationType)
  BY <1>1, FlightIs DEF Typed, Surroundings
<1> HIDE DEF e
<1>3. /\ h.down /\ h.loaded = game.loaded /\ h.wiped = game.wiped
      /\ h.room = game.room /\ h.saved = game.saved
  BY <1>2, TerminalizedIs
<1> HIDE DEF h
<1>4. flight # Idle /\ flight'.kind # "attach"
  BY <1>1, FlightsAre
<1>5. game.loaded /\ Sound(game.room) /\ Sound(game.saved)
  BY <1>4 DEF Strong, Order
<1> QED  BY <1>1, <1>2, <1>3, <1>4, <1>5, OperationStrong

LEMMA LobbyFailsStrong ==
  ASSUME Typed, Strong, LobbyFails
  PROVE  Strong'
<1> DEFINE e == flight.reason
           h == RetryScheduled(game, e, now)
<1>1. /\ flight.kind = "publish" /\ game' = h /\ flight' = Idle
      /\ UNCHANGED <<now, socket, identity, queue>>
  BY DEF LobbyFails
<1>2. e \in TerminalReasons /\ Adapter(game) /\ now \in Nat /\ queue \in Seq(OperationType)
  BY <1>1, FlightIs DEF Typed, Surroundings
<1> HIDE DEF e
<1>3. /\ h.down = game.down /\ SameState(game, h)
      /\ h.room = game.room /\ h.saved = game.saved
  BY <1>2, RetryScheduledIs
<1> HIDE DEF h
<1>4. flight # Idle /\ flight'.kind # "attach" /\ Idle.kind # "attach"
  BY <1>1, FlightsAre
<1>5. game.loaded /\ Sound(game.room) /\ Sound(game.saved)
  BY <1>4 DEF Strong, Order
<1>6. ASSUME ~game.down
      PROVE  Agrees(game.room, game.saved, now)
               /\ Bound(game.room, socket, identity, queue, Idle)
  <2>1. Agrees(game.room, game.saved, now) /\ Bound(game.room, socket, identity, queue, flight)
    BY <1>5, <1>6 DEF Strong, Fits
  <2>2. \A c \in Conn : Waits(c, queue, Idle) => Waits(c, queue, flight)
    BY <1>4 DEF Waits
  <2> QED  BY <2>1, <2>2, QueueBound
<1>7. h.loaded = game.loaded /\ h.wiped = game.wiped
  BY <1>3 DEF SameState
<1> QED  BY <1>1, <1>2, <1>3, <1>4, <1>5, <1>6, <1>7, OperationStrong

\* A ticket is awaited.
LEMMA RunAttachStrong ==
  ASSUME Typed, Kept, Strong, RunAttach
  PROVE  Strong'
<1> DEFINE c == Head(queue).conn
           s == Head(queue).seat
           g == Rebound(game, Live, now)
<1>1. Dequeue("attach") /\ UNCHANGED <<now, socket, identity>>
  BY DEF RunAttach
<1>2. CASE socket[c] # "open" \/ game.down \/ game.wiped
  BY <1>1, <1>2, IgnoredStrong DEF RunAttach, Ignored
<1>3. CASE ~(socket[c] # "open" \/ game.down \/ game.wiped)
  <2> DEFINE p == g.room.conn[s]
             f == [kind |-> "attach", conn |-> c, seat |-> s, previous |-> p]
  <2>1. game' = g /\ flight' = f
    BY <1>3 DEF RunAttach
  <2>2. /\ SameState(game, g) /\ ~g.down
        /\ Sound(g.room) /\ Sound(g.saved) /\ Agrees(g.room, g.saved, now)
        /\ Bound(g.room, socket, identity, queue, flight)
    BY <1>1, <1>3, BoundAgain
  <2> HIDE DEF g
  <2>3. /\ flight = Idle /\ queue # <<>> /\ queue' = Tail(queue)
        /\ queue \in Seq(OperationType) /\ Head(queue).op = "attach"
    BY <1>1, DequeueIs DEF Typed, Surroundings
  <2>4. Queued(queue, "attach", c)
    <3>1. 1 \in 1 .. Len(queue) /\ Head(queue) = queue[1]
      BY <2>3
    <3> QED  BY <2>3, <3>1 DEF Queued
  <2>5. AttachesOnce(queue)
    BY DEF Strong, Sockets
  <2>6. /\ \A op, d : Queued(queue', op, d) => Queued(queue, op, d)
        /\ \A op, d : Queued(queue, op, d) => Queued(queue', op, d) \/ (op = "attach" /\ d = c)
        /\ AttachesOnce(queue') /\ ~Queued(queue', "attach", c)
    BY <2>3, <2>5, TailIs
  <2>7. f.kind = "attach" /\ f.conn = c /\ f.seat = s /\ f.previous = p /\ f # Idle
    BY FlightsAre
  <2> HIDE DEF f, c, s, p
  <2>8. \A d \in Conn : Waits(d, queue', f) => Waits(d, queue, flight)
    BY <2>4, <2>6, <2>7 DEF Waits
  <2>9. \A d \in Conn : Queued(queue, "close", d) => Queued(queue', "close", d)
    BY <2>6
  <2>10. Bound(g.room, socket, identity, queue', f)
    BY <2>2, <2>8, <2>9, QueueBound
  <2>11. Sockets(socket, identity, queue', f)
    BY <2>6, <2>7, <2>8 DEF Strong, Sockets
  <2>12. game.loaded /\ game.terminal = NoSeat
    BY <1>3, <2>3 DEF Kept, Held
  <2>13. g.loaded /\ g.terminal = NoSeat /\ ~g.wiped
    BY <1>3, <2>2, <2>12 DEF SameState
  <2>14. Fits'
    BY <1>1, <2>1, <2>2, <2>10 DEF Fits
  <2>15. Order'
    BY <2>1, <2>7, <2>13 DEF Order, p
  <2>16. Sockets(socket, identity, queue, flight)'
    BY <1>1, <2>1, <2>11
  <2> QED  BY <2>1, <2>2, <2>14, <2>15, <2>16 DEF Strong
<1> QED  BY <1>2, <1>3

\* A flag that is down ends the game of the stored room.
LEMMA FlagOut ==
  ASSUME NEW v, Sound(v), NEW live \in [Seats -> Conn \cup {NoConn}], NEW t \in Nat,
         v.status # "done" => ClockRuns(v) /\ FlagTime(v) <= t
  PROVE  Payload(WithLive(Hydrated(v), live), t).status = "done"
<1> DEFINE x == WithLive(Hydrated(v), live)
           y == Payload(x, t)
<1>1. Fine(v)
  BY DEF Sound
<1>2. Lasts(v, x) /\ SamePlay(v, x)
  BY <1>1, WithLiveIs
<1> HIDE DEF x
<1>3. Fine(x)
  BY <1>2 DEF Lasts
<1>4. GoesOn(x, y, t) \/ RunsOut(x, y, t)
  BY <1>3, PayloadIs
<1> HIDE DEF y
<1>5. CASE RunsOut(x, y, t)
  BY <1>5 DEF RunsOut, x, y
<1>6. CASE GoesOn(x, y, t)
  <2>1. y.status = v.status
    BY <1>2, <1>6 DEF GoesOn, SamePlay
  <2>2. SUFFICES ASSUME v.status # "done"  PROVE FALSE
    BY <2>1 DEF x, y
  <2>3. ClockRuns(v) /\ FlagTime(v) <= t /\ FlagTime(v) \in Nat /\ InTime(v)
    BY <1>1, <2>2, FlagTimeIs DEF Sound, ClockRuns
  <2>4. ClockRuns(x) /\ FlagTime(x) = FlagTime(v) /\ InTime(x)
    BY <1>2, <2>3 DEF SamePlay, ClockRuns, FlagTime, InTime
  <2>5. FlagTime(x) > t
    BY <1>6, <2>4 DEF GoesOn
  <2> QED  BY <2>3, <2>4, <2>5
<1> QED  BY <1>4, <1>5, <1>6

\* A seat that was just vacated can be taken again, unless its flag is down.
LEMMA Vacated ==
  ASSUME NEW r, Fine(r), NEW s \in Seats, r.seated[s], NEW t \in Nat,
         ~CanResume(DisconnectPlayer(r, s, t), s, t)
  PROVE  r.status # "done" => ClockRuns(r) /\ FlagTime(r) <= t
<1> DEFINE x == DisconnectPlayer(r, s, t)
<1>1. SUFFICES ASSUME r.status # "done"  PROVE ClockRuns(r) /\ FlagTime(r) <= t
  OBVIOUS
<1>2. /\ x.seated = r.seated
      /\ x.connected = Seat(r.connected, s, FALSE)
      /\ \/ /\ r.status # "done" /\ x.status = r.status /\ x.turn = r.turn
            /\ x.running = IF r.running = s THEN NoSeat ELSE r.running
            /\ x.deadline = Seat(r.deadline, s, t + ReconnectGrace)
            /\ InTime(r) => InTime(x)
         \/ x.status = "done" /\ (r.status = "done" \/ (ClockRuns(r) /\ FlagTime(r) <= t))
  BY DisconnectPlayerIs
<1>3. ~CanResume(x, s, t)
  OBVIOUS
<1> HIDE DEF x
<1>4. r.connected \in [Seats -> BOOLEAN] /\ r.deadline \in [Seats -> Nat \cup {NoTime}]
  BY DEF Fine, RoomType
<1>5. ~x.connected[s] /\ x.seated[s]
  BY <1>2, <1>4 DEF Seat
<1>6. CASE x.status # "done"
  <2>1. x.deadline[s] = t + ReconnectGrace
    BY <1>2, <1>4, <1>6 DEF Seat
  <2>2. x.deadline[s] >= t
    BY <2>1, ClockAssumption
  <2> QED  BY <1>3, <1>5, <1>6, <2>2 DEF CanResume
<1> QED  BY <1>1, <1>2, <1>6

\* The room that a refused attach leaves in memory.
LEMMA RefusedStrong ==
  ASSUME NEW r, Sound(r), NEW v, Sound(v), NEW t \in Nat, Agrees(r, v, t),
         NEW c \in Conn, NEW s \in Seats, NEW sockets, NEW ids, NEW q, NEW f,
         Bound(r, sockets, ids, q, f), Waits(c, q, f),
         NEW tried, Fine(tried),
         tried = r \/ (r.status # "done" => ClockRuns(r) /\ FlagTime(r) <= t)
  PROVE  LET x == Payload(WithLive(Hydrated(v), Remaining(tried, c)), t) IN
         /\ Sound(x) /\ Agrees(x, v, t) /\ Bound(x, sockets, ids, q, f)
         /\ r.status = "done" => x.status = "done"
<1> DEFINE live == Remaining(tried, c)
           w == WithLive(Hydrated(v), live)
           x == Payload(w, t)
<1>1. Fine(r) /\ Fine(v)
  BY DEF Sound
<1>2. live \in [Seats -> Conn \cup {NoConn}]
  <2>1. LiveSeats(tried) \in [Seats -> Conn \cup {NoConn}]
    BY LiveSeatsIs
  <2> QED  BY <2>1 DEF Remaining
<1>3. CASE r.status # "done" => ClockRuns(r) /\ FlagTime(r) <= t
  <2>1. v.status # "done" => ClockRuns(v) /\ FlagTime(v) <= t
    BY <1>3 DEF Agrees, ClockRuns
  <2> HIDE DEF live
  <2>2. x.status = "done"
    BY <1>2, <2>1, FlagOut
  <2>3. Fine(x)
    <3>1. Lasts(v, w)
      BY <1>1, <1>2, WithLiveIs
    <3> HIDE DEF w
    <3>2. Lasts(w, x)
      BY <3>1, PayloadIs DEF Lasts
    <3> QED  BY <3>2 DEF Lasts
  <2> HIDE DEF x
  <2>4. Sound(x) /\ Agrees(x, v, t) /\ Bound(x, sockets, ids, q, f)
    BY <2>1, <2>2, <2>3, DoneSound, DoneBound DEF Agrees
  <2> QED  BY <2>2, <2>4 DEF x, w, live
<1>4. CASE tried = r /\ r.status # "done"
  <2>1. \A y \in Seats : r.conn[y] # c
    BY <1>4 DEF Bound
  <2>2. c # NoConn
    BY SentinelAssumption
  <2>3. \A y \in Seats : LiveSeats(r)[y] # c
    BY <2>1, <2>2 DEF LiveSeats
  <2>4. live = LiveSeats(r)
    <3>1. LiveSeats(r) \in [Seats -> Conn \cup {NoConn}]
      BY <1>1, LiveSeatsIs
    <3>2. Remaining(r, c) = [y \in Seats |-> LiveSeats(r)[y]]
      BY <2>3 DEF Remaining
    <3> QED  BY <1>4, <3>1, <3>2
  <2> HIDE DEF live
  <2> DEFINE u == WithLive(Hydrated(v), LiveSeats(r))
  <2>5. \A y \in Seats : r.connected[y] => r.conn[y] \in Conn
    BY <1>4 DEF Bound
  <2>6. /\ Sound(u) /\ Agrees(u, v, t)
        /\ u.status = r.status /\ u.connected = r.connected /\ u.conn = LiveSeats(r)
    BY <1>4, <2>5, RestoredIs
  <2> HIDE DEF u
  <2>7. Bound(u, sockets, ids, q, f)
    BY <2>6, RestoredBound
  <2>8. Fine(u)
    BY <2>6 DEF Sound
  <2>9. Sound(Payload(u, t)) /\ Agrees(Payload(u, t), v, t) /\ Bound(Payload(u, t), sockets, ids, q, f)
    BY <2>6, <2>7, <2>8, PayloadSound, PayloadAgrees, PayloadBound
  <2>10. x = Payload(u, t)
    BY <2>4 DEF u
  <2> QED  BY <1>4, <2>9, <2>10 DEF live
<1> QED  BY <1>3, <1>4

LEMMA AttachRejectedIs ==
  ASSUME Typed, Kept, Strong, Steady, AttachRejected
  PROVE  /\ Adapter(game') /\ ~game'.down /\ game'.loaded = game.loaded
         /\ game'.consumed = game.consumed /\ game'.saved = game.saved
         /\ game'.alarm = game.alarm /\ game'.wiped = game.wiped
         /\ Sound(game'.room) /\ Agrees(game'.room, game.saved, now)
         /\ Bound(game'.room, socket, identity, queue, flight)
         /\ game.room.status = "done" => game'.room.status = "done"
         /\ flight' = Idle /\ UNCHANGED <<now, socket, identity, queue>>
<1> DEFINE c == flight.conn
           s == flight.seat
           r == game.room
           away == DisconnectPlayer(r, s, now)
           tried == IF r.seated[s] /\ r.connected[s] THEN away ELSE r
           h == Reloaded(game, tried, c, now)
<1>1. /\ ~Accepts(game, s, now) /\ flight.kind = "attach"
      /\ game' = h /\ flight' = Idle /\ UNCHANGED <<now, socket, identity, queue>>
  <2>1. ~Fault("transaction")
    BY FaultIs DEF Steady, Typed
  <2> QED  BY <2>1 DEF AttachRejected
<1>2. c \in Conn /\ s \in Seats /\ Adapter(game) /\ now \in Nat /\ queue \in Seq(OperationType)
  BY <1>1, FlightIs DEF Typed, Surroundings
<1>3. Sound(r) /\ Sound(game.saved) /\ Fine(r)
  BY DEF Strong, Sound
<1>4. game.loaded /\ Agrees(r, game.saved, now) /\ Bound(r, socket, identity, queue, flight)
  BY <1>1 DEF Kept, Strong, Fits
<1>5. Fine(tried) /\ (tried = r \/ (r.status # "done" => ClockRuns(r) /\ FlagTime(r) <= now))
  <2>1. CASE r.seated[s] /\ r.connected[s]
    <3>1. ~CanResume(away, s, now)
      BY <1>1, <2>1 DEF Accepts
    <3>2. Lasts(r, away)
      BY <1>2, <1>3, DisconnectPlayerIs
    <3>3. r.status # "done" => ClockRuns(r) /\ FlagTime(r) <= now
      BY <1>2, <1>3, <2>1, <3>1, Vacated
    <3> QED  BY <2>1, <3>2, <3>3 DEF Lasts
  <2>2. CASE ~(r.seated[s] /\ r.connected[s])
    BY <1>3, <2>2
  <2> QED  BY <2>1, <2>2
<1> HIDE DEF tried
<1>6. Waits(c, queue, flight)
  BY <1>1 DEF Waits
<1> HIDE DEF c, s, r
<1>7. /\ Adapter(h) /\ ~h.down /\ h.consumed = game.consumed /\ h.alarm = game.alarm
      /\ h.loaded = game.loaded /\ h.wiped = game.wiped /\ h.saved = game.saved
      /\ h.room = Payload(WithLive(Hydrated(game.saved), Remaining(tried, c)), now)
  BY <1>2, <1>5, ReloadedIs
<1> HIDE DEF h
<1>8. Sound(h.room) /\ Agrees(h.room, game.saved, now)
      /\ Bound(h.room, socket, identity, queue, flight)
      /\ (r.status = "done" => h.room.status = "done")
  BY <1>2, <1>3, <1>4, <1>5, <1>6, <1>7, RefusedStrong DEF r
<1> QED  BY <1>1, <1>7, <1>8 DEF r

LEMMA AttachRejectedStrong ==
  ASSUME Typed, Kept, Strong, Steady, AttachRejected
  PROVE  Strong'
<1> DEFINE x == game'.room
<1>1. /\ ~game'.down /\ game'.loaded = game.loaded /\ game'.saved = game.saved
      /\ game'.wiped = game.wiped
      /\ Sound(x) /\ Agrees(x, game.saved, now)
      /\ Bound(x, socket, identity, queue, flight)
      /\ flight' = Idle /\ UNCHANGED <<now, socket, identity, queue>>
  BY AttachRejectedIs
<1> HIDE DEF x
<1>2. flight'.kind # "attach" /\ Idle.kind # "attach"
  BY <1>1, FlightsAre
<1>3. \A d \in Conn : Waits(d, queue, Idle) => Waits(d, queue, flight)
  BY <1>2 DEF Waits
<1>4. Bound(x, socket, identity, queue, Idle)
  BY <1>1, <1>3, QueueBound
<1>5. queue \in Seq(OperationType) /\ Sound(game.saved) /\ game.loaded
  <2>1. flight.kind = "attach"
    BY DEF AttachRejected
  <2> QED  BY <2>1 DEF Typed, Surroundings, Strong, Kept
<1> QED  BY <1>1, <1>2, <1>4, <1>5, OperationStrong DEF x

\* What becomes of sockets and of their seats when c takes s from the socket p.
SeatsTaken(ids, c, s, p) ==
  [x \in Conn |-> IF x = c THEN s ELSE IF x = p THEN NoSeat ELSE ids[x]]

SocketsClosing(sockets, p) ==
  [x \in Conn |-> IF x = p /\ sockets[x] = "open" THEN "closing" ELSE sockets[x]]

LEMMA TakenSockets ==
  ASSUME NEW sockets, NEW ids, NEW q, NEW f, f.kind = "attach", Sockets(sockets, ids, q, f),
         NEW c \in Conn, f.conn = c, sockets[c] = "open", NEW s \in Seats, NEW p, p # c
  PROVE  Sockets(SocketsClosing(sockets, p), SeatsTaken(ids, c, s, p), q, Idle)
<1> DEFINE sockets2 == SocketsClosing(sockets, p)
           ids2 == SeatsTaken(ids, c, s, p)
<1>1. \A d \in Conn : /\ sockets2[d] = "closing" \/ sockets2[d] = sockets[d]
                      /\ sockets2[d] # sockets[d] => d = p /\ sockets[d] = "open"
                      /\ ids2[d] = IF d = c THEN s ELSE IF d = p THEN NoSeat ELSE ids[d]
  BY DEF SocketsClosing, SeatsTaken
<1> HIDE DEF sockets2, ids2
<1>2. \A d : Waits(d, q, Idle) => Waits(d, q, f) /\ d # c
  BY FlightsAre DEF Waits, Sockets
<1>3. ASSUME NEW d \in Conn
      PROVE  /\ ids2[d] # NoSeat => sockets2[d] = "open"
             /\ Queued(q, "close", d) => sockets2[d] = "closed"
             /\ Waits(d, q, Idle) => sockets2[d] # "idle" /\ ids2[d] = NoSeat
  <2>1. ids2[d] # NoSeat => sockets2[d] = "open"
    BY <1>1 DEF Sockets
  <2>2. Queued(q, "close", d) => sockets2[d] = "closed"
    BY <1>1 DEF Sockets
  <2>3. Waits(d, q, Idle) => sockets2[d] # "idle" /\ ids2[d] = NoSeat
    BY <1>1, <1>2 DEF Sockets
  <2> QED  BY <2>1, <2>2, <2>3
<1>4. AttachesOnce(q) /\ Idle.kind # "attach"
  BY FlightsAre DEF Sockets
<1> QED  BY <1>3, <1>4 DEF Sockets, sockets2, ids2

LEMMA TakenBound ==
  ASSUME NEW r, Fine(r), r.status # "done", NEW sockets, NEW ids, NEW q, NEW f,
         Bound(r, sockets, ids, q, f), Sockets(sockets, ids, q, f),
         f.kind = "attach", NEW c \in Conn, f.conn = c, NEW s \in Seats,
         NEW x, Takes(r, x, c, s)
  PROVE  /\ r.conn[s] # c
         /\ Bound(x, SocketsClosing(sockets, r.conn[s]), SeatsTaken(ids, c, s, r.conn[s]), q, Idle)
<1> DEFINE p == r.conn[s]
           sockets2 == SocketsClosing(sockets, p)
           ids2 == SeatsTaken(ids, c, s, p)
<1>1. \A d \in Conn : /\ sockets2[d] = "idle" => sockets[d] = "idle"
                      /\ ids2[d] = IF d = c THEN s ELSE IF d = p THEN NoSeat ELSE ids[d]
  BY DEF SocketsClosing, SeatsTaken
<1> HIDE DEF sockets2, ids2
<1>2. \A d : Waits(d, q, Idle) => Waits(d, q, f) /\ d # c
  BY FlightsAre DEF Waits, Sockets
<1>3. Waits(c, q, f) /\ \A y \in Seats : r.conn[y] # c
  BY DEF Waits, Bound
<1>4. sockets[c] # "idle"
  BY <1>3 DEF Sockets
<1>5. CASE x.status = "done"
  <2>1. Bound(x, sockets2, ids2, q, Idle)
    BY <1>5, DoneBound
  <2> QED  BY <1>3, <2>1 DEF sockets2, ids2, p
<1>6. CASE x.status # "done"
  <2>1. r.connected \in [Seats -> BOOLEAN] /\ r.conn \in [Seats -> Conn \cup {NoConn}]
    BY DEF Fine, RoomType
  <2>2. /\ x.connected = Seat(r.connected, s, TRUE)
        /\ x.conn = Seat(r.conn, s, c)
    BY <1>6 DEF Takes
  <2>3. /\ x.conn[s] = c /\ x.connected[s]
        /\ \A y \in Seats : y # s =>
             x.conn[y] = r.conn[y] /\ (x.connected[y] <=> r.connected[y])
    BY <2>1, <2>2 DEF Seat
  <2>4. \A y \in Seats : r.connected[y] =>
          r.conn[y] \in Conn /\ (ids[r.conn[y]] = y \/ Queued(q, "close", r.conn[y]))
    BY DEF Bound
  <2>5. \A y \in Seats : y # s /\ r.conn[y] \in Conn => r.conn[y] # p
    <3>1. r.conn["A"] # r.conn["B"] \/ r.conn["A"] = NoConn
      BY DEF Bound
    <3> QED  BY <3>1, SentinelAssumption DEF Seats
  <2> HIDE DEF p
  <2>6. ASSUME NEW y \in Seats, x.connected[y]
        PROVE  x.conn[y] \in Conn /\ (ids2[x.conn[y]] = y \/ Queued(q, "close", x.conn[y]))
    <3>1. CASE y = s
      BY <1>1, <2>3, <3>1
    <3>2. CASE y # s
      BY <1>1, <1>3, <2>3, <2>4, <2>5, <2>6, <3>2
    <3> QED  BY <3>1, <3>2
  <2>7. x.conn["A"] # x.conn["B"] \/ x.conn["A"] = NoConn
    BY <1>3, <2>3 DEF Seats
  <2>8. ASSUME NEW d \in Conn, NEW y \in Seats, ids2[d] = y
        PROVE  x.connected[y] /\ x.conn[y] = d
    <3>1. NoSeat \notin Seats
      BY DEF Seats, NoSeat
    <3>2. CASE d = c
      BY <1>1, <2>3, <2>8, <3>2
    <3>3. CASE d # c
      <4>1. d # p /\ ids[d] = y
        BY <1>1, <2>8, <3>1, <3>3
      <4>2. r.connected[y] /\ r.conn[y] = d
        BY <4>1 DEF Bound
      <4>3. y # s
        BY <4>1, <4>2 DEF p
      <4> QED  BY <2>3, <4>2, <4>3
    <3> QED  BY <3>2, <3>3
  <2>9. ASSUME NEW d \in Conn, NEW y \in Seats, sockets2[d] = "idle" \/ Waits(d, q, Idle)
        PROVE  x.conn[y] # d
    <3>1. d # c /\ (sockets[d] = "idle" \/ Waits(d, q, f))
      BY <1>1, <1>2, <1>4, <2>9
    <3>2. r.conn[y] # d
      BY <3>1 DEF Bound
    <3> QED  BY <2>3, <3>1, <3>2
  <2>10. Bound(x, sockets2, ids2, q, Idle)
    BY <2>6, <2>7, <2>8, <2>9 DEF Bound
  <2> QED  BY <1>3, <2>10 DEF sockets2, ids2, p
<1> QED  BY <1>5, <1>6

ClosedByServer(sockets, c) == [sockets EXCEPT ![c] = "closing"]

\* An attach whose answer could not be sent is undone before anything else happens.
LEMMA UndoneStrong ==
  ASSUME NEW r, Sound(r), r.status # "done", NEW t, NEW sockets, NEW ids, NEW q, NEW f,
         Bound(r, sockets, ids, q, f), Sockets(sockets, ids, q, f),
         f.kind = "attach", NEW c \in Conn, f.conn = c, sockets[c] = "open",
         sockets \in [Conn -> {"idle", "open", "closing", "closed"}]
  PROVE  LET v == Serialized(r)
             x == WithLive(Hydrated(v), LiveSeats(r))
             sockets2 == ClosedByServer(sockets, c)
         IN
         /\ Sound(x) /\ Sound(v) /\ Agrees(x, v, t)
         /\ Bound(x, sockets2, ids, q, Idle) /\ Sockets(sockets2, ids, q, Idle)
<1> DEFINE v == Serialized(r)
           x == WithLive(Hydrated(v), LiveSeats(r))
           sockets2 == ClosedByServer(sockets, c)
<1>1. Fine(r) /\ \A s \in Seats : r.connected[s] => r.conn[s] \in Conn
  BY DEF Sound, Bound
<1>2. Sound(v) /\ Agrees(r, v, t)
  BY <1>1, SerializedSound, AgreesSerialized
<1> HIDE DEF v
<1>3. /\ Sound(x) /\ Agrees(x, v, t)
      /\ x.status = r.status /\ x.connected = r.connected /\ x.conn = LiveSeats(r)
  BY <1>1, <1>2, RestoredIs
<1> HIDE DEF x
<1>4. Bound(x, sockets, ids, q, f)
  BY <1>3, RestoredBound
<1>5. /\ sockets2[c] = "closing"
      /\ \A d \in Conn : d # c => sockets2[d] = sockets[d]
  BY DEF ClosedByServer
<1> HIDE DEF sockets2
<1>6. \A d : Waits(d, q, Idle) => Waits(d, q, f)
  BY FlightsAre DEF Waits
<1>7. \A d \in Conn : sockets2[d] = "idle" => sockets[d] = "idle"
  BY <1>5
<1>8. Bound(x, sockets2, ids, q, Idle)
  BY <1>4, <1>6, <1>7 DEF Bound
<1>9. Waits(c, q, f) /\ AttachesOnce(q) /\ Idle.kind # "attach"
  BY FlightsAre DEF Waits, Sockets
<1>10. ids[c] = NoSeat /\ ~Queued(q, "close", c)
  BY <1>9 DEF Sockets
<1>11. Sockets(sockets2, ids, q, Idle)
  BY <1>5, <1>6, <1>9, <1>10 DEF Sockets
<1> QED  BY <1>2, <1>3, <1>8, <1>11 DEF x, v, sockets2

\* An operation with a room, sockets and seats of its own is over.
LEMMA LandedStrong ==
  ASSUME Strong, now' = now, Sound(game'.room), Sound(game'.saved),
         flight'.kind # "attach", Sockets(socket', identity', queue', Idle),
         Agrees(game'.room, game'.saved, now),
         Bound(game'.room, socket', identity', queue', Idle),
         game'.loaded, ~game'.wiped, game'.terminal = NoSeat
  PROVE  Strong'
<1>1. \A d : Waits(d, queue', flight') <=> Waits(d, queue', Idle)
  BY FlightsAre DEF Waits
<1>2. Bound(game'.room, socket', identity', queue', flight')
  BY <1>1, QueueBound
<1>3. Sockets(socket', identity', queue', flight')
  BY <1>1 DEF Sockets
<1>4. Fits'
  BY <1>2 DEF Fits
<1>5. Order'
  BY DEF Order
<1> QED  BY <1>3, <1>4, <1>5 DEF Strong

LEMMA AttachAcceptedStrong ==
  ASSUME Typed, Kept, Strong, AttachAccepted
  PROVE  Strong'
<1> DEFINE c == flight.conn
           s == flight.seat
           p == flight.previous
           r == game.room
           a == Attached(game, c, s, now)
           g == AttachCommitted(game, c, s, now)
           done == CommitAttach(g, c)
           back == RolledBack(g, c, now)
<1>1. /\ flight.kind = "attach" /\ Accepts(game, s, now) /\ socket[c] = "open"
      /\ \/ /\ identity' = SeatsTaken(identity, c, s, p)
            /\ socket' = SocketsClosing(socket, p)
            /\ game' = done /\ Publish(done, "client")
         \/ /\ game' = back
            /\ socket' = [socket EXCEPT ![c] = "closing"]
            /\ flight' = Idle /\ UNCHANGED identity
      /\ UNCHANGED <<now, queue>>
  BY DEF AttachAccepted, Kept, SeatsTaken, SocketsClosing
<1>2. c \in Conn /\ s \in Seats /\ Adapter(game) /\ Fine(r) /\ now \in Nat
      /\ socket \in [Conn -> {"idle", "open", "closing", "closed"}]
  BY <1>1, FlightIs DEF Typed, Surroundings, Adapter
<1>3. Sound(r) /\ Sockets(socket, identity, queue, flight)
      /\ game.loaded /\ ~game.wiped /\ game.terminal = NoSeat /\ p = r.conn[s]
      /\ Bound(r, socket, identity, queue, flight)
  <2>1. game.loaded /\ ~game.down /\ game.terminal = NoSeat
    BY <1>1 DEF Kept, Held
  <2> QED  BY <1>1, <2>1 DEF Strong, Fits, Order
<1>4. flight.kind = "attach" /\ flight.conn = c
  BY <1>1
<1>5. Sound(a) /\ Takes(r, a, c, s) /\ r.status # "done"
  BY <1>1, <1>2, <1>3, AttachedSound
<1> HIDE DEF c, s, p, r
<1>6. /\ Adapter(g) /\ g.loaded = game.loaded /\ g.terminal = game.terminal
      /\ g.wiped = game.wiped /\ g.room = Payload(a, now) /\ g.saved = Serialized(g.room)
      /\ c \in DOMAIN g.provisional
      /\ g.provisional[c] = [room |-> Serialized(r), live |-> LiveSeats(r)]
  <2>1. /\ Adapter(g) /\ g.loaded = game.loaded /\ g.terminal = game.terminal
        /\ g.wiped = game.wiped /\ g.room = Payload(a, now) /\ g.saved = Serialized(g.room)
        /\ DOMAIN g.provisional = DOMAIN game.provisional \cup {c}
        /\ g.provisional[c] = [room |-> Serialized(game.room), live |-> LiveSeats(game.room)]
    BY <1>1, <1>2, AttachCommittedIs
  <2> HIDE DEF g
  <2> QED  BY <2>1 DEF r
<1> HIDE DEF g, a
<1>7. /\ done.loaded = g.loaded /\ done.terminal = g.terminal /\ done.wiped = g.wiped
      /\ done.room = g.room /\ done.saved = g.saved
  BY <1>6, CommitAttachIs
<1> HIDE DEF done
<1>8. /\ back.loaded = g.loaded /\ back.terminal = g.terminal /\ back.wiped = g.wiped
      /\ back.saved = Serialized(r)
      /\ back.room = WithLive(Hydrated(Serialized(r)), LiveSeats(r))
  <2> DEFINE before == g.provisional[c]
  <2>1. before.room = Serialized(r) /\ before.live = LiveSeats(r)
    BY <1>6
  <2>2. /\ back.loaded = g.loaded /\ back.terminal = g.terminal /\ back.wiped = g.wiped
        /\ back.room = WithLive(Hydrated(before.room), before.live)
        /\ back.saved = before.room
    BY <1>2, <1>6, RolledBackIs
  <2> QED  BY <2>1, <2>2
<1> HIDE DEF back
<1>9. CASE /\ identity' = SeatsTaken(identity, c, s, p)
           /\ socket' = SocketsClosing(socket, p)
           /\ game' = done /\ Publish(done, "client")
  <2>1. Sound(g.room) /\ Sound(g.saved) /\ Agrees(g.room, g.saved, now) /\ Fine(g.room)
    <3>1. Sound(Payload(a, now))
      BY <1>2, <1>5, PayloadSound
    <3>2. Sound(g.room) /\ Fine(g.room)
      BY <1>6, <3>1 DEF Sound
    <3>3. Sound(Serialized(g.room)) /\ Agrees(g.room, Serialized(g.room), now)
      BY <3>2, SerializedSound, AgreesSerialized
    <3> QED  BY <1>6, <3>2, <3>3
  <2>2. p # c /\ Bound(a, socket', identity', queue, Idle)
    BY <1>2, <1>3, <1>4, <1>5, <1>9, TakenBound
  <2>3. Bound(g.room, socket', identity', queue, Idle)
    <3>1. Fine(a)
      BY <1>5 DEF Sound
    <3> QED  BY <1>2, <1>6, <2>2, <3>1, PayloadBound
  <2>4. Sockets(socket', identity', queue, Idle)
    BY <1>1, <1>2, <1>3, <1>4, <1>9, <2>2, TakenSockets
  <2>5. flight'.kind # "attach"
    BY <1>7, <1>9, <2>1, PublishIs
  <2> QED  BY <1>1, <1>3, <1>6, <1>7, <1>9, <2>1, <2>3, <2>4, <2>5, LandedStrong
<1>10. CASE /\ game' = back
            /\ socket' = [socket EXCEPT ![c] = "closing"]
            /\ flight' = Idle /\ UNCHANGED identity
  <2> DEFINE v == Serialized(r)
             x == WithLive(Hydrated(v), LiveSeats(r))
             sockets2 == ClosedByServer(socket, c)
  <2>0. /\ Sound(x) /\ Sound(v) /\ Agrees(x, v, now)
        /\ Bound(x, sockets2, identity, queue, Idle) /\ Sockets(sockets2, identity, queue, Idle)
    BY <1>1, <1>2, <1>3, <1>4, <1>5, UndoneStrong
  <2>1. /\ Sound(back.room) /\ Sound(back.saved) /\ Agrees(back.room, back.saved, now)
        /\ Bound(back.room, socket', identity, queue, Idle)
        /\ Sockets(socket', identity, queue, Idle)
    BY <1>8, <1>10, <2>0 DEF ClosedByServer
  <2>2. flight'.kind # "attach"
    BY <1>10, FlightsAre
  <2> QED  BY <1>1, <1>3, <1>6, <1>8, <1>10, <2>1, <2>2, LandedStrong
<1> QED  BY <1>1, <1>9, <1>10

-----------------------------------------------------------------------------
(* Events.                                                                  *)

\* Any event finds the adapter as it was, or as it is loaded without sockets.
LEMMA AwakeStrong ==
  ASSUME Typed, Strong, NEW sockets, ~game.wiped
  PROVE  LET h == Awake(sockets) IN
         /\ Sound(h.room) /\ Sound(h.saved)
         /\ ~h.down => /\ Agrees(h.room, h.saved, now)
                       /\ Bound(h.room, socket, identity, queue, flight)
<1> DEFINE live == LiveSockets(sockets, identity)
           h == Awake(sockets)
<1>1. Adapter(game) /\ now \in Nat /\ Sound(game.room) /\ Sound(game.saved)
  BY DEF Typed, Surroundings, Strong
<1>2. CASE game.loaded
  <2>1. h = game
    BY <1>2 DEF Awake
  <2> HIDE DEF h
  <2>2. ~game.down => /\ Agrees(game.room, game.saved, now)
                      /\ Bound(game.room, socket, identity, queue, flight)
    BY <1>2 DEF Strong, Fits
  <2> QED  BY <1>1, <2>1, <2>2 DEF h
<1>3. CASE ~game.loaded
  <2>1. \A c \in Conn : identity[c] = NoSeat
    BY <1>3 DEF Strong, Order
  <2>2. live = NoSockets
    <3>1. \A s \in Seats : ~\E c \in Conn : sockets[c] = "open" /\ identity[c] = s
      BY <2>1 DEF Seats, NoSeat
    <3> QED  BY <3>1 DEF LiveSockets, NoSockets
  <2>3. h = Loaded(game, NoSockets, now)
    BY <1>3, <2>2 DEF Awake
  <2>4. NoSockets \in [Seats -> Conn \cup {NoConn}]
    BY DEF NoSockets
  <2> HIDE DEF h, live
  <2>5. h.down <=> game.terminal # NoSeat
    BY <1>1, <2>3, <2>4, LoadedIs
  <2>6. /\ Sound(h.room) /\ Sound(h.saved) /\ Alone(h.room)
        /\ game.terminal = NoSeat => Agrees(h.room, h.saved, now)
    BY <1>1, <2>3, LoadedAlone
  <2>7. Bound(h.room, socket, identity, queue, flight)
    BY <2>1, <2>6, AloneBound
  <2> QED  BY <2>5, <2>6, <2>7 DEF h
<1> QED  BY <1>2, <1>3

LEMMA EventStrong ==
  ASSUME Strong, now' = now, flight' = flight,
         game'.loaded, ~game'.wiped, game'.terminal = game.terminal,
         game.loaded => game'.room = game.room,
         Sound(game'.room), Sound(game'.saved),
         ~game'.down => /\ Agrees(game'.room, game'.saved, now)
                        /\ Bound(game'.room, socket', identity', queue', flight),
         Sockets(socket', identity', queue', flight)
  PROVE  Strong'
<1>1. flight.kind = "attach" => flight # Idle
  BY FlightsAre
<1>2. Fits'
  BY DEF Fits
<1>3. Order'
  BY <1>1 DEF Strong, Order
<1> QED  BY <1>2, <1>3 DEF Strong

ConnectsTo(sockets, c) == [sockets EXCEPT ![c] = "open"]

LEMMA SendAttachStrong ==
  ASSUME Typed, Strong, NEW c \in Conn, NEW s \in Seats, SendAttach(c, s)
  PROVE  Strong'
<1> DEFINE h == Awake(socket)
           o == [op |-> "attach", conn |-> c, seat |-> s]
           sockets2 == ConnectsTo(socket, c)
<1>1. /\ ~game.wiped /\ socket[c] = "idle" /\ socket' = sockets2
      /\ queue' = Append(queue, o) /\ game' = h
      /\ UNCHANGED <<now, identity, flight>>
  BY DEF SendAttach, Enqueue, ConnectsTo
<1>2. /\ queue \in Seq(OperationType)
      /\ socket \in [Conn -> {"idle", "open", "closing", "closed"}]
  BY DEF Typed, Surroundings
<1>3. o \in OperationType /\ o.op = "attach" /\ o.conn = c
  BY OperationsAre
<1> HIDE DEF o
<1>4. sockets2[c] = "open" /\ \A d \in Conn : d # c => sockets2[d] = socket[d]
  BY <1>2 DEF ConnectsTo
<1>5. /\ Adapter(h) /\ h.loaded /\ h.wiped = game.wiped /\ h.terminal = game.terminal
      /\ game.loaded => h = game
  BY AwakeIs
<1>6. /\ Sound(h.room) /\ Sound(h.saved)
      /\ ~h.down => /\ Agrees(h.room, h.saved, now)
                    /\ Bound(h.room, socket, identity, queue, flight)
  BY <1>1, AwakeStrong
<1> HIDE DEF h, sockets2
<1>7. ~Waits(c, queue, flight) /\ ~Queued(queue, "close", c) /\ identity[c] = NoSeat
      /\ AttachesOnce(queue) /\ Sockets(socket, identity, queue, flight)
  BY <1>1 DEF Strong, Sockets
<1>8. /\ \A op, d : Queued(queue', op, d) <=> Queued(queue, op, d) \/ (op = "attach" /\ d = c)
      /\ AttachesOnce(queue')
  <2>1. ~Queued(queue, "attach", c)
    BY <1>7 DEF Waits
  <2> QED  BY <1>1, <1>2, <1>3, <1>7, <2>1, AppendIs
<1>9. \A d : Waits(d, queue', flight) <=> Waits(d, queue, flight) \/ d = c
  BY <1>8 DEF Waits
<1>10. Sockets(socket', identity, queue', flight)
  <2>1. flight.kind = "attach" => flight.conn # c /\ ~Queued(queue, "attach", flight.conn)
    BY <1>7 DEF Waits, Sockets
  <2>2. ASSUME NEW d \in Conn
        PROVE  /\ identity[d] # NoSeat => socket'[d] = "open"
               /\ Queued(queue', "close", d) => socket'[d] = "closed"
               /\ Waits(d, queue', flight) => socket'[d] # "idle" /\ identity[d] = NoSeat
    <3>1. Queued(queue', "close", d) => Queued(queue, "close", d)
      BY <1>8
    <3>2. CASE d = c
      BY <1>1, <1>4, <1>7, <3>1, <3>2
    <3>3. CASE d # c
      BY <1>1, <1>4, <1>7, <1>9, <3>1, <3>3 DEF Sockets
    <3> QED  BY <3>2, <3>3
  <2> QED  BY <1>8, <2>1, <2>2 DEF Sockets
<1>11. ASSUME ~h.down  PROVE Bound(h.room, socket', identity, queue', flight)
  <2>1. Bound(h.room, socket, identity, queue, flight)
    BY <1>6, <1>11
  <2>2. \A d \in Conn : Queued(queue, "close", d) => Queued(queue', "close", d)
    BY <1>8
  <2>3. \A d \in Conn : socket'[d] = "idle" \/ Waits(d, queue', flight)
                          => socket[d] = "idle" \/ Waits(d, queue, flight)
    BY <1>1, <1>4, <1>9
  <2> QED  BY <2>1, <2>2, <2>3 DEF Bound
<1> QED  BY <1>1, <1>5, <1>6, <1>10, <1>11, EventStrong

\* An event that only queues an operation that attaches nobody.
LEMMA QueuedStrong ==
  ASSUME Typed, Strong, UNCHANGED <<now, socket, identity, flight>>, ~game.wiped,
         NEW o \in OperationType, o.op \notin {"attach", "close"}, queue' = Append(queue, o),
         game'.loaded, game'.wiped = game.wiped, game'.terminal = game.terminal,
         game'.room = Awake(socket).room, game'.saved = Awake(socket).saved,
         game'.down = Awake(socket).down
  PROVE  Strong'
<1> DEFINE h == Awake(socket)
<1>1. queue \in Seq(OperationType)
  BY DEF Typed, Surroundings
<1>2. game.loaded => h = game
  BY AwakeIs
<1>3. /\ Sound(h.room) /\ Sound(h.saved)
      /\ ~h.down => /\ Agrees(h.room, h.saved, now)
                    /\ Bound(h.room, socket, identity, queue, flight)
  BY AwakeStrong
<1>4. game'.room = h.room /\ game'.saved = h.saved /\ game'.down = h.down
  OBVIOUS
<1> HIDE DEF h
<1>5. AttachesOnce(queue) /\ Sockets(socket, identity, queue, flight)
  BY DEF Strong, Sockets
<1>6. /\ \A op, d : Queued(queue', op, d) <=> Queued(queue, op, d) \/ (o.op = op /\ o.conn = d)
      /\ AttachesOnce(queue')
  BY <1>1, <1>5, AppendIs
<1>7. \A d : /\ Queued(queue', "close", d) <=> Queued(queue, "close", d)
             /\ Queued(queue', "attach", d) <=> Queued(queue, "attach", d)
             /\ Waits(d, queue', flight) <=> Waits(d, queue, flight)
  BY <1>6 DEF Waits
<1>8. Sockets(socket, identity, queue', flight)
  BY <1>5, <1>6, <1>7 DEF Sockets
<1>9. ~h.down => Bound(h.room, socket, identity, queue', flight)
  BY <1>3, <1>7, QueueBound
<1> QED  BY <1>2, <1>3, <1>4, <1>8, <1>9, EventStrong

LEMMA SendCommandStrong ==
  ASSUME Typed, Strong, NEW c \in Conn, NEW op \in {"move", "leave"}, SendCommand(c, op)
  PROVE  Strong'
<1> DEFINE h == Awake(socket)
           o == [op |-> op, conn |-> c]
<1>1. /\ ~game.wiped /\ queue' = Append(queue, o) /\ game' = h
      /\ UNCHANGED <<now, socket, identity, flight>>
  BY DEF SendCommand, Enqueue
<1>2. o \in OperationType /\ o.op \notin {"attach", "close"}
  BY OperationsAre
<1> HIDE DEF o
<1>3. /\ h.loaded /\ h.wiped = game.wiped /\ h.terminal = game.terminal
  BY AwakeIs
<1>4. game'.room = h.room /\ game'.saved = h.saved /\ game'.down = h.down
  BY <1>1
<1> QED  BY <1>1, <1>2, <1>3, <1>4, QueuedStrong

ClosedByClient(sockets, c) == [sockets EXCEPT ![c] = "closed"]
LeavesSeat(ids, c) == [ids EXCEPT ![c] = NoSeat]

LEMMA CloseStrong ==
  ASSUME Typed, Strong, Steady, NEW c \in Conn, Close(c)
  PROVE  Strong'
<1> DEFINE sockets2 == ClosedByClient(socket, c)
           ids2 == LeavesSeat(identity, c)
           h == Awake(sockets2)
           o == [op |-> "close", conn |-> c]
<1>1. /\ socket[c] \in {"open", "closing"} /\ socket' = sockets2 /\ identity' = ids2
      /\ ~(flight.kind = "attach" /\ flight.conn = c)
      /\ queue' = Append(queue, o) /\ game' = IF game.wiped THEN game ELSE h
      /\ UNCHANGED <<now, flight>>
  <2>1. ~Fault("interrupt")
    BY FaultIs DEF Steady, Typed
  <2> QED  BY <2>1 DEF Close, Enqueue, ClosedByClient, LeavesSeat
<1>2. /\ queue \in Seq(OperationType)
      /\ socket \in [Conn -> {"idle", "open", "closing", "closed"}]
      /\ identity \in [Conn -> Seats \cup {NoSeat}]
  BY DEF Typed, Surroundings
<1>3. o \in OperationType /\ o.op = "close" /\ o.conn = c
  BY OperationsAre
<1> HIDE DEF o
<1>4. /\ sockets2[c] = "closed" /\ ids2[c] = NoSeat
      /\ \A d \in Conn : d # c => sockets2[d] = socket[d] /\ ids2[d] = identity[d]
  BY <1>2 DEF ClosedByClient, LeavesSeat
<1> HIDE DEF sockets2, ids2
<1>5. AttachesOnce(queue) /\ Sockets(socket, identity, queue, flight)
  BY DEF Strong, Sockets
<1>6. /\ \A op, d : Queued(queue', op, d) <=> Queued(queue, op, d) \/ (op = "close" /\ d = c)
      /\ AttachesOnce(queue')
  BY <1>1, <1>2, <1>3, <1>5, AppendIs
<1>7. \A d : /\ Queued(queue', "attach", d) <=> Queued(queue, "attach", d)
             /\ Waits(d, queue', flight) <=> Waits(d, queue, flight)
             /\ Queued(queue', "close", d) <=> Queued(queue, "close", d) \/ d = c
  BY <1>6 DEF Waits
<1>8. Sockets(socket', identity', queue', flight)
  <2>1. ASSUME NEW d \in Conn
        PROVE  /\ ids2[d] # NoSeat => sockets2[d] = "open"
               /\ Queued(queue', "close", d) => sockets2[d] = "closed"
               /\ Waits(d, queue', flight) => sockets2[d] # "idle" /\ ids2[d] = NoSeat
    <3>1. CASE d = c
      BY <1>4, <3>1
    <3>2. CASE d # c
      BY <1>4, <1>5, <1>7, <3>2 DEF Sockets
    <3> QED  BY <3>1, <3>2
  <2> QED  BY <1>1, <1>5, <1>6, <1>7, <2>1 DEF Sockets
<1>9. CASE game.wiped
  <2>1. game' = game /\ ~game.loaded
    BY <1>1, <1>9 DEF Strong, Order
  <2>2. Fits'
    BY <2>1 DEF Fits
  <2>3. Order'
    BY <1>1, <1>9, <2>1 DEF Strong, Order
  <2> QED  BY <1>1, <1>8, <2>1, <2>2, <2>3 DEF Strong
<1>10. CASE ~game.wiped
  <2>1. /\ h.loaded /\ h.wiped = game.wiped /\ h.terminal = game.terminal
        /\ game.loaded => h = game
    BY AwakeIs
  <2>2. /\ Sound(h.room) /\ Sound(h.saved)
        /\ ~h.down => /\ Agrees(h.room, h.saved, now)
                      /\ Bound(h.room, socket, identity, queue, flight)
    BY <1>10, AwakeStrong
  <2>3. game' = h
    BY <1>1, <1>10
  <2> HIDE DEF h
  <2>4. ASSUME ~h.down  PROVE Bound(h.room, socket', identity', queue', flight)
    <3> DEFINE r == h.room
    <3>1. Bound(r, socket, identity, queue, flight)
      BY <2>2, <2>4
    <3> HIDE DEF r
    <3>2. SUFFICES ASSUME r.status # "done"
                   PROVE  Bound(r, sockets2, ids2, queue', flight)
      BY <1>1, DoneBound DEF r
    <3>3. ASSUME NEW s \in Seats, r.connected[s]
          PROVE  r.conn[s] \in Conn /\ (ids2[r.conn[s]] = s \/ Queued(queue', "close", r.conn[s]))
      <4>1. r.conn[s] \in Conn /\ (identity[r.conn[s]] = s \/ Queued(queue, "close", r.conn[s]))
        BY <3>1, <3>2, <3>3 DEF Bound
      <4> QED  BY <1>4, <1>7, <4>1
    <3>4. ASSUME NEW d \in Conn, NEW s \in Seats, ids2[d] = s
          PROVE  r.connected[s] /\ r.conn[s] = d
      <4>1. d # c
        BY <1>4, <3>4 DEF Seats, NoSeat
      <4>2. identity[d] = s
        BY <1>4, <3>4, <4>1
      <4> QED  BY <3>1, <3>2, <4>2 DEF Bound
    <3>5. \A d \in Conn : sockets2[d] = "idle" \/ Waits(d, queue', flight)
                            => socket[d] = "idle" \/ Waits(d, queue, flight)
      BY <1>4, <1>7
    <3> QED  BY <3>1, <3>3, <3>4, <3>5 DEF Bound
  <2> QED  BY <1>1, <1>8, <1>10, <2>1, <2>2, <2>3, <2>4, EventStrong
<1> QED  BY <1>9, <1>10

LEMMA AlarmFiresStrong ==
  ASSUME Typed, Strong, AlarmFires
  PROVE  Strong'
<1>1. /\ ~game.wiped
      /\ IF game.terminal # NoSeat /\ game.gcAt <= now
         THEN /\ game' = [Forgotten(game) EXCEPT !.wiped = TRUE, !.alarm = NoTime]
              /\ UNCHANGED queue
         ELSE LET g == Awake(socket)
                  spent == [g EXCEPT !.alarm = NoTime]
              IN  /\ game' = IF g.down THEN spent ELSE Scheduled(spent, now)
                  /\ queue' = Append(queue, [op |-> "alarm"])
      /\ UNCHANGED <<now, socket, identity, flight>>
  BY DEF AlarmFires
<1>2. Adapter(game) /\ now \in Nat /\ Sound(game.saved)
  BY DEF Typed, Surroundings, Strong
<1>3. CASE game.terminal # NoSeat /\ game.gcAt <= now
  <2> DEFINE h == [Forgotten(game) EXCEPT !.wiped = TRUE, !.alarm = NoTime]
  <2>1. game' = h /\ UNCHANGED queue
    BY <1>1, <1>3
  <2>2. /\ ~h.loaded /\ ~h.down /\ h.wiped /\ h.terminal = game.terminal
        /\ h.room = game.saved /\ h.saved = game.saved
    BY <1>2, WipedIs
  <2> HIDE DEF h
  <2>3. flight = Idle /\ Idle.kind # "attach"
    BY <1>3, FlightsAre DEF Strong, Order
  <2>4. Fits'
    BY <2>1, <2>2 DEF Fits
  <2>5. Order'
    BY <1>1, <1>3, <2>1, <2>2, <2>3 DEF Order
  <2>6. Sockets(socket, identity, queue, flight)'
    BY <1>1, <2>1 DEF Strong
  <2> QED  BY <1>2, <2>1, <2>2, <2>4, <2>5, <2>6 DEF Strong
<1>4. CASE ~(game.terminal # NoSeat /\ game.gcAt <= now)
  <2> DEFINE g == Awake(socket)
             spent == [g EXCEPT !.alarm = NoTime]
             o == [op |-> "alarm"]
  <2>1. game' = (IF g.down THEN spent ELSE Scheduled(spent, now)) /\ queue' = Append(queue, o)
    BY <1>1, <1>4
  <2>2. o \in OperationType /\ o.op \notin {"attach", "close"}
    BY OperationsAre
  <2> HIDE DEF o
  <2>3. Adapter(g) /\ g.loaded /\ g.wiped = game.wiped /\ g.terminal = game.terminal
    BY AwakeIs
  <2>4. g = Awake(socket)
    OBVIOUS
  <2> HIDE DEF g
  <2>5. /\ Adapter(spent) /\ SameState(g, spent)
        /\ spent.room = g.room /\ spent.saved = g.saved /\ spent.down = g.down
    BY <2>3, AlarmChanged
  <2> HIDE DEF spent
  <2>6. /\ SameState(g, game')
        /\ game'.room = g.room /\ game'.saved = g.saved /\ game'.down = g.down
    <3>1. CASE g.down
      <4>1. game' = spent
        BY <2>1, <3>1
      <4> QED  BY <2>5, <4>1
    <3>2. CASE ~g.down
      <4> DEFINE h == Scheduled(spent, now)
      <4>1. game' = h
        BY <2>1, <3>2
      <4>2. /\ SameState(spent, h)
            /\ h.room = spent.room /\ h.saved = spent.saved /\ h.down = spent.down
        BY <1>2, <2>5, ScheduledIs
      <4> HIDE DEF h
      <4> QED  BY <2>5, <4>1, <4>2 DEF SameState
    <3> QED  BY <3>1, <3>2
  <2>7. game'.loaded /\ game'.wiped = game.wiped /\ game'.terminal = game.terminal
    BY <2>3, <2>6 DEF SameState
  <2> QED  BY <1>1, <2>1, <2>2, <2>4, <2>6, <2>7, QueuedStrong
<1> QED  BY <1>3, <1>4

LEMMA EmptyQueue ==
  ASSUME NEW ids, \A c \in Conn : ids[c] = NoSeat, NEW sockets
  PROVE  Sockets(sockets, ids, <<>>, Idle)
<1>2. \A i \in 1 .. Len(<<>>) : FALSE
  OBVIOUS
<1>1. \A op, c : ~Queued(<<>>, op, c)
  BY <1>2 DEF Queued
<1>3. AttachesOnce(<<>>)
  BY <1>2 DEF AttachesOnce
<1> QED  BY <1>1, <1>3, FlightsAre DEF Sockets, Waits

LEMMA CrashStrong ==
  ASSUME Typed, Strong, Crash
  PROVE  Strong'
<1> DEFINE f == Forgotten(game)
           a == IF AlarmRuns THEN now ELSE f.alarm
           h == [f EXCEPT !.alarm = a]
<1>1. /\ ~game.wiped /\ game' = [f EXCEPT !.alarm = IF AlarmRuns THEN now ELSE @]
      /\ identity' = [c \in Conn |-> NoSeat]
      /\ queue' = <<>> /\ flight' = Idle
  BY DEF Crash
<1>2. Adapter(game) /\ now \in Nat /\ Sound(game.saved)
  BY DEF Typed, Surroundings, Strong
<1>3. /\ Adapter(f) /\ ~f.loaded /\ ~f.down /\ f.wiped = game.wiped
      /\ f.room = game.saved /\ f.saved = game.saved
  BY <1>2, ForgottenIs
<1> HIDE DEF f
<1>4. a \in Nat \cup {NoTime}
  BY <1>2, <1>3 DEF Adapter, GameType
<1>5. game' = h
  BY <1>1
<1> HIDE DEF a
<1>6. SameState(f, h) /\ h.saved = f.saved /\ h.room = f.room /\ h.down = f.down
  BY <1>3, <1>4, AlarmChanged
<1> HIDE DEF h
<1>7. \A c \in Conn : identity'[c] = NoSeat
  BY <1>1
<1>8. Sockets(socket, identity, queue, flight)'
  <2>1. Sockets(socket', identity', <<>>, Idle)
    BY <1>7, EmptyQueue
  <2> QED  BY <1>1, <2>1
<1>9. ~game'.loaded /\ ~game'.down /\ ~game'.wiped
      /\ game'.room = game.saved /\ game'.saved = game.saved
  BY <1>1, <1>3, <1>5, <1>6 DEF SameState
<1>10. Fits'
  BY <1>9 DEF Fits
<1>11. Order'
  BY <1>1, <1>7, <1>9, FlightsAre DEF Order
<1> QED  BY <1>2, <1>8, <1>9, <1>10, <1>11 DEF Strong

LEMMA TickStrong ==
  ASSUME Typed, Strong, Tick
  PROVE  Strong'
<1>1. now' = now + 1 /\ UNCHANGED <<game, socket, identity, queue, flight>>
  BY DEF Tick
<1>2. now \in Nat /\ now' \in Nat /\ now <= now' /\ Fine(game.saved)
  BY <1>1 DEF Typed, Surroundings, Adapter
<1>3. Agrees(game.room, game.saved, now) => Agrees(game.room, game.saved, now')
  BY <1>2, AgreesLater
<1>4. Fits'
  BY <1>1, <1>3 DEF Strong, Fits
<1>5. Order'
  BY <1>1 DEF Strong, Order
<1>6. Sockets(socket, identity, queue, flight)'
  BY <1>1 DEF Strong
<1> QED  BY <1>1, <1>4, <1>5, <1>6 DEF Strong

LEMMA InitStrong ==
  ASSUME Init
  PROVE  Strong
<1>1. /\ now = 0 /\ game.loaded /\ ~game.wiped /\ game.terminal = NoSeat
      /\ game.room = NewRoom(0) /\ game.saved = NewRoom(0)
      /\ identity = [c \in Conn |-> NoSeat] /\ queue = <<>> /\ flight = Idle
  BY DEF Init
<1>2. Sound(NewRoom(0)) /\ Agrees(NewRoom(0), NewRoom(0), 0)
  BY NewRoomSound, AgreesReflexive
<1>3. \A c \in Conn : identity[c] = NoSeat
  BY <1>1
<1>4. Alone(NewRoom(0))
  BY DEF Alone, NewRoom
<1>5. Sockets(socket, identity, queue, flight)
  BY <1>1, <1>3, EmptyQueue
<1>6. Bound(NewRoom(0), socket, identity, queue, flight)
  BY <1>3, <1>4, AloneBound
<1>7. Fits
  BY <1>1, <1>2, <1>6 DEF Fits
<1>8. Order
  BY <1>1, FlightsAre DEF Order
<1> QED  BY <1>1, <1>2, <1>5, <1>7, <1>8 DEF Strong

LEMMA NextStrong ==
  ASSUME Typed, Kept, Strong, Steady, [Next]_vars
  PROVE  Strong'
<1>1. CASE \E c \in Conn :
             \/ \E s \in Seats : SendAttach(c, s)
             \/ \E op \in {"move", "leave"} : SendCommand(c, op)
             \/ Close(c)
  BY <1>1, SendAttachStrong, SendCommandStrong, CloseStrong
<1>2. CASE AlarmFires
  BY <1>2, AlarmFiresStrong
<1>3. CASE RunMove \/ RunLeave \/ RunClose \/ RunAttach \/ RunAlarm
  BY <1>3, RunMoveStrong, RunLeaveStrong, RunCloseStrong, RunAttachStrong, RunAlarmStrong
<1>4. CASE AttachRejected \/ AttachAccepted \/ LobbyAnswers \/ LobbyFails
  BY <1>4, AttachRejectedStrong, AttachAcceptedStrong, LobbyAnswersStrong, LobbyFailsStrong
<1>5. CASE Hibernate
  BY <1>5, FaultIs DEF Hibernate, Steady, Typed
<1>6. CASE Crash \/ Tick
  BY <1>6, CrashStrong, TickStrong
<1>7. CASE UNCHANGED vars
  BY <1>7 DEF vars, Strong, Fits, Order
<1> QED  BY <1>1, <1>2, <1>3, <1>4, <1>5, <1>6, <1>7 DEF Next

LEMMA StrongIsSound ==
  ASSUME Typed, Strong
  PROVE  GameSound
<1>1. TypeOK
  BY TypedIsTypeOK
<1>2. Sound(game.room)
  BY DEF Strong
<1>3. AwayHasDeadline
  BY <1>2 DEF AwayHasDeadline, Sound
<1>4. ClockOnTurnRuns
  BY <1>2 DEF ClockOnTurnRuns, Sound, OnTurn
<1>5. NoGhostSeat
  <2>1. SUFFICES ASSUME Quiet, game.loaded, ~game.down, game.room.status # "done",
                        NEW s \in Seats, game.room.connected[s]
                 PROVE  LET c == game.room.conn[s] IN
                        c # NoConn /\ socket[c] = "open" /\ identity[c] = s
    BY DEF NoGhostSeat
  <2> DEFINE c == game.room.conn[s]
  <2>2. c \in Conn /\ (identity[c] = s \/ Queued(queue, "close", c))
    BY <2>1 DEF Strong, Fits, Bound
  <2> HIDE DEF c
  <2>3. ~Queued(queue, "close", c)
    <3>1. queue = <<>> /\ \A i \in 1 .. Len(<<>>) : FALSE
      BY <2>1 DEF Quiet
    <3> QED  BY <3>1 DEF Queued
  <2>4. identity[c] = s /\ socket[c] = "open" /\ c # NoConn
    BY <2>2, <2>3, SentinelAssumption DEF Strong, Sockets, Seats, NoSeat
  <2> QED  BY <2>4 DEF c
<1> QED  BY <1>1, <1>3, <1>4, <1>5 DEF GameSound

\* Over crashes, failed writes, failed requests of the Lobby and seats that cannot be
\* told of their attach: a player who is away has a deadline, a seat that counts as
\* connected has its open socket once operations are done, and the clock of a player
\* on turn runs (room.js, room-storage.ts, game-server.ts).
THEOREM GameAlwaysSound ==
  Faults \cap {"interrupt", "transaction", "hibernate"} = {} => (Safe => []GameSound)
<1> SUFFICES ASSUME Steady  PROVE Safe => []GameSound
  BY DEF Steady
<1>0. Calm
  BY DEF Steady, Calm
<1>1. Init => Typed /\ Kept /\ Strong
  BY InitKeeps, InitStrong
<1>2. Typed /\ Kept /\ Strong /\ [Next]_vars => (Typed /\ Kept /\ Strong)'
  BY <1>0, NextKeeps, NextStrong DEF Keeps
<1>3. Typed /\ Kept /\ Strong => GameSound
  BY StrongIsSound
<1> QED  BY <1>1, <1>2, <1>3, PTL DEF Safe

-----------------------------------------------------------------------------
(* The alarm is armed.  Nothing wakes the object after a write failed and a  *)
(* crash took the adapter that knew of it.                                   *)

\* The alarm of g wakes it for the deadline d.
Wakes(g, t, d) ==
  /\ g.alarm # NoTime
  /\ g.alarm <= NotBefore(t, d) + (IF g.loaded THEN 0 ELSE AlarmRetry)

\* An outcome that is not stored is known again soon after the next load.
Armed(g, t) ==
  IF g.room.status = "done"
  THEN g.alarm # NoTime /\ (g.saved.status # "done" => g.alarm <= t + AlarmRetry)
  ELSE \A d \in LifecycleDeadlines(g) : Wakes(g, t, d)

\* An outcome whose alarm could not be set is being told.
ArmedInv ==
  /\ game.down => game.terminal # NoSeat \/ "write" \in Faults
  /\ ~game.down /\ ~game.wiped /\ game.terminal = NoSeat =>
       Armed(game, now) \/ (flight.kind = "publish" /\ "write" \in Faults)

LEMMA AlarmIs ==
  ASSUME NEW g, Adapter(g)  PROVE g.alarm \in Nat \cup {NoTime} /\ AlarmRetry \in Nat
BY DurableAssumption DEF Adapter, GameType

LEMMA TimerArms ==
  ASSUME NEW g, Adapter(g), NEW t \in Nat, g.terminal = NoSeat, g.alarm = Timer(g, t)
  PROVE  Armed(g, t)
<1>1. AlarmRetry \in Nat
  BY AlarmIs
<1>2. CASE g.room.status = "done"
  BY <1>1, <1>2 DEF Timer, Armed, NoTime
<1>3. CASE g.room.status # "done"
  <2>1. SUFFICES ASSUME NEW d \in LifecycleDeadlines(g)  PROVE Wakes(g, t, d)
    BY <1>3 DEF Armed
  <2> DEFINE D == LifecycleDeadlines(g)
             e == Least(D)
  <2>2. D \subseteq Nat
    BY DeadlinesAreTimes
  <2>3. g.alarm = NotBefore(t, e)
    BY <1>3, <2>1 DEF Timer
  <2>4. d \in D
    BY <2>1
  <2> HIDE DEF D
  <2>5. e \in Nat /\ d \in Nat /\ e <= d
    BY <2>2, <2>4, SmallestOf
  <2> HIDE DEF e
  <2> QED  BY <1>1, <2>3, <2>5 DEF Wakes, NotBefore, NoTime
<1> QED  BY <1>2, <1>3

LEMMA ArmedLater ==
  ASSUME NEW g, Adapter(g), NEW t \in Nat, NEW u \in Nat, t <= u, Armed(g, t)
  PROVE  Armed(g, u)
<1>1. AlarmRetry \in Nat /\ g.alarm \in Nat \cup {NoTime} /\ LifecycleDeadlines(g) \subseteq Nat
  BY AlarmIs, DeadlinesAreTimes
<1>2. CASE g.room.status = "done"
  BY <1>1, <1>2 DEF Armed, NoTime
<1>3. CASE g.room.status # "done"
  <2>1. SUFFICES ASSUME NEW d \in LifecycleDeadlines(g)  PROVE Wakes(g, u, d)
    BY <1>3 DEF Armed
  <2>2. d \in Nat /\ Wakes(g, t, d)
    BY <1>1, <1>3, <2>1 DEF Armed
  <2> HIDE DEF Armed
  <2> QED  BY <1>1, <2>2 DEF Wakes, NotBefore, NoTime
<1> QED  BY <1>2, <1>3

\* The deadlines of a room that goes on are those of the room in storage.
LEMMA AgreedDeadlines ==
  ASSUME NEW g, NEW h, NEW v, NEW t, Agrees(g.room, v, t), Agrees(h.room, v, t),
         g.room.status # "done", h.room.status # "done", g.consumed = h.consumed
  PROVE  LifecycleDeadlines(h) = LifecycleDeadlines(g)
<1> DEFINE x == h.room
           r == g.room
<1>1. /\ x.status = r.status /\ x.seated = r.seated /\ x.deadline = r.deadline
      /\ x.running = r.running
  BY DEF Agrees
<1>2. ClockRuns(x) <=> ClockRuns(r)
  BY <1>1 DEF ClockRuns
<1>3. ClockRuns(r) => FlagTime(x) = FlagTime(r)
  BY <1>2 DEF Agrees
<1>4. AwaitsCreator(h) <=> AwaitsCreator(g)
  BY <1>1 DEF AwaitsCreator
<1>5. LifecycleDeadlines(g) =
        (IF ClockRuns(r) THEN {FlagTime(r)} ELSE {})
          \cup {r.deadline[s] : s \in {y \in Seats : r.deadline[y] # NoTime}}
          \cup (IF AwaitsCreator(g) THEN {CreatorDeadline} ELSE {})
  BY DEF LifecycleDeadlines, FlagTime
<1>6. LifecycleDeadlines(h) =
        (IF ClockRuns(x) THEN {FlagTime(x)} ELSE {})
          \cup {x.deadline[s] : s \in {y \in Seats : x.deadline[y] # NoTime}}
          \cup (IF AwaitsCreator(h) THEN {CreatorDeadline} ELSE {})
  BY DEF LifecycleDeadlines, FlagTime
<1> HIDE DEF x, r
<1> QED  BY <1>1, <1>2, <1>3, <1>4, <1>5, <1>6

\* A running clock is a deadline.
LEMMA FlagIsDeadline ==
  ASSUME NEW g, Adapter(g), ClockRuns(g.room), NEW t \in Nat, Armed(g, t)
  PROVE  /\ g.alarm \in Nat /\ FlagTime(g.room) \in Nat
         /\ g.alarm <= NotBefore(t, FlagTime(g.room)) + AlarmRetry
<1>1. FlagTime(g.room) \in LifecycleDeadlines(g) /\ g.room.status # "done"
  BY DEF LifecycleDeadlines, FlagTime, ClockRuns
<1>2. Wakes(g, t, FlagTime(g.room))
  BY <1>1 DEF Armed
<1>3. AlarmRetry \in Nat /\ g.alarm \in Nat \cup {NoTime} /\ FlagTime(g.room) \in Nat
  BY AlarmIs, FlagTimeIs DEF Adapter
<1> QED  BY <1>2, <1>3 DEF Wakes, NotBefore

\* The alarm of a room stays right for another view of the stored room.
LEMMA AgreedArmed ==
  ASSUME NEW g, Adapter(g), NEW h, Adapter(h), NEW t \in Nat, Armed(g, t),
         Agrees(g.room, g.saved, t), Agrees(h.room, g.saved, t),
         g.room.status = "done" => h.room.status = "done" \/ ~h.loaded,
         h.alarm = g.alarm, h.consumed = g.consumed, h.loaded => g.loaded,
         h.room.status = "done" => h.saved.status = g.saved.status
  PROVE  Armed(h, t)
<1>1. /\ AlarmRetry \in Nat /\ g.alarm \in Nat \cup {NoTime}
      /\ LifecycleDeadlines(h) \subseteq Nat
  BY AlarmIs, DeadlinesAreTimes
<1>2. CASE h.room.status = "done" /\ g.room.status = "done"
  BY <1>2 DEF Armed
<1>3. CASE h.room.status = "done" /\ g.room.status # "done"
  <2>1. ClockRuns(g.room) /\ FlagTime(g.room) <= t
    <3>1. g.saved.status # "done"
      BY <1>3 DEF Agrees
    <3>2. ClockRuns(g.saved) /\ FlagTime(g.saved) <= t
      BY <1>3, <3>1 DEF Agrees
    <3>3. ClockRuns(g.room)
      BY <1>3, <3>2 DEF Agrees, ClockRuns
    <3> QED  BY <1>3, <3>2, <3>3 DEF Agrees
  <2>2. /\ g.alarm \in Nat /\ FlagTime(g.room) \in Nat
        /\ g.alarm <= NotBefore(t, FlagTime(g.room)) + AlarmRetry
    BY <2>1, FlagIsDeadline
  <2>3. NotBefore(t, FlagTime(g.room)) = t
    BY <2>1, <2>2 DEF NotBefore
  <2> QED  BY <1>1, <1>3, <2>2, <2>3 DEF Armed, NoTime
<1>4. CASE h.room.status # "done" /\ g.room.status # "done"
  <2>1. LifecycleDeadlines(h) = LifecycleDeadlines(g)
    BY <1>4, AgreedDeadlines
  <2>2. ASSUME NEW d \in LifecycleDeadlines(h)  PROVE Wakes(h, t, d)
    <3>1. d \in Nat /\ Wakes(g, t, d)
      BY <1>1, <1>4, <2>1, <2>2 DEF Armed
    <3> QED  BY <1>1, <3>1 DEF Wakes, NotBefore
  <2> QED  BY <1>4, <2>2 DEF Armed
<1>5. CASE h.room.status # "done" /\ g.room.status = "done"
  <2>1. g.saved.status # "done" /\ ~h.loaded
    BY <1>5 DEF Agrees
  <2>2. g.alarm \in Nat /\ g.alarm <= t + AlarmRetry
    BY <1>1, <1>5, <2>1 DEF Armed
  <2>3. ASSUME NEW d \in LifecycleDeadlines(h)  PROVE Wakes(h, t, d)
    BY <1>1, <2>1, <2>2, <2>3 DEF Wakes, NotBefore, NoTime
  <2> QED  BY <1>5, <2>3 DEF Armed
<1> QED  BY <1>2, <1>3, <1>4, <1>5

LEMMA UnchangedArmed ==
  ASSUME ArmedInv, UNCHANGED <<game, now>>, flight' = flight \/ flight = Idle
  PROVE  ArmedInv'
<1>1. Idle.kind # "publish"
  BY DEF Idle
<1> QED  BY <1>1 DEF ArmedInv

\* An operation that sets the alarm.
LEMMA SetArmed ==
  ASSUME ArmedInv, UNCHANGED now, now \in Nat, Adapter(game'), game'.alarm = Timer(game', now),
         game'.down => game'.terminal # NoSeat \/ "write" \in Faults
  PROVE  ArmedInv'
<1>1. game'.terminal = NoSeat => Armed(game', now)
  BY TimerArms
<1> QED  BY <1>1 DEF ArmedInv

\* An outcome that was published is told.
LEMMA CommittedTells ==
  ASSUME NEW g, NEW after, Committed(g, after, TRUE), ~game'.down, game'.room.status = "done"
  PROVE  flight'.kind = "publish"
<1>1. PICK write \in Writes :
        LET g2 == Mutated(g, after, now, write)
        IN  /\ Spend(write)
            /\ game' = g2
            /\ IF TRUE /\ ~g2.down THEN Publish(g2, "client") ELSE flight' = Idle
  BY DEF Committed
<1>2. Publish(game', "client")
  BY <1>1
<1> QED  BY <1>2 DEF Publish

LEMMA CommandArmed ==
  ASSUME Typed, ArmedInv, UNCHANGED now, NEW g, Adapter(g), ~g.down,
         NEW after, Fine(after), Committed(g, after, TRUE)
  PROVE  ArmedInv'
<1>1. Surroundings /\ now \in Nat
  BY DEF Typed, Surroundings
<1>2. /\ Adapter(game')
      /\ \/ game'.saved = g.saved /\ game'.down /\ "write" \in Faults
         \/ /\ game'.saved = Serialized(game'.room)
            /\ \/ game'.alarm = Timer(game', now)
               \/ game'.alarm = g.alarm /\ "write" \in Faults
                    /\ (game'.down <=> game'.room.status # "done")
            /\ game'.down /\ ~g.down => "write" \in Faults
  BY <1>1, CommittedIs
<1>3. game'.down => game'.terminal # NoSeat \/ "write" \in Faults
  BY <1>2
<1>4. CASE game'.down
  BY <1>3, <1>4 DEF ArmedInv
<1>5. CASE game'.alarm = Timer(game', now)
  BY <1>1, <1>2, <1>3, <1>5, SetArmed
<1>6. CASE "write" \in Faults /\ ~game'.down /\ game'.room.status = "done"
  <2>1. flight'.kind = "publish"
    BY <1>6, CommittedTells
  <2> QED  BY <1>3, <1>6, <2>1 DEF ArmedInv
<1> QED  BY <1>2, <1>4, <1>5, <1>6

LEMMA RunMoveArmed ==
  ASSUME Typed, Kept, Strong, ArmedInv, RunMove
  PROVE  ArmedInv'
<1> DEFINE c == Head(queue).conn
           g == Rebound(game, Live, now)
           After(m, v) == IF SeatHeld(g.room, c)
                          THEN HandleMove(g.room, SeatOf(g.room, c), m, NoRevision, v, now)
                          ELSE g.room
<1>1. Dequeue("move") /\ UNCHANGED now /\ now \in Nat /\ flight = Idle
  BY DEF RunMove, Dequeue, Typed, Surroundings
<1>2. CASE socket[c] # "open" \/ game.down \/ game.wiped
  BY <1>1, <1>2, UnchangedArmed DEF RunMove, Ignored
<1>3. CASE ~(socket[c] # "open" \/ game.down \/ game.wiped)
  <2>1. PICK m \in Moves, v \in {"moved", "goal"} : Committed(g, After(m, v), TRUE)
    BY <1>3 DEF RunMove
  <2>2. Adapter(g) /\ ~g.down /\ Fine(g.room)
    BY <1>1, <1>3, BoundAgain DEF Sound
  <2> HIDE DEF g, c
  <2> DEFINE x == After(m, v)
  <2>3. Fine(x)
    <3>1. CASE SeatHeld(g.room, c)
      <4>1. SeatOf(g.room, c) \in Seats /\ v \in Verdicts /\ NoRevision \in Nat \cup {NoRevision}
        BY <3>1, SeatOfIs DEF Verdicts, BoardWins
      <4>2. Lasts(g.room, HandleMove(g.room, SeatOf(g.room, c), m, NoRevision, v, now))
        BY <1>1, <2>2, <4>1, HandleMoveIs
      <4> QED  BY <3>1, <4>2 DEF Lasts
    <3>2. CASE ~SeatHeld(g.room, c)
      BY <2>2, <3>2
    <3> QED  BY <3>1, <3>2
  <2>4. Committed(g, x, TRUE)
    BY <2>1
  <2> HIDE DEF x
  <2> QED  BY <1>1, <2>2, <2>3, <2>4, CommandArmed
<1> QED  BY <1>2, <1>3

LEMMA RunLeaveArmed ==
  ASSUME Typed, Kept, Strong, ArmedInv, RunLeave
  PROVE  ArmedInv'
<1> DEFINE c == Head(queue).conn
           g == Rebound(game, Live, now)
           x == IF SeatHeld(g.room, c) THEN LeavePlayer(g.room, SeatOf(g.room, c), now)
                ELSE g.room
<1>1. Dequeue("leave") /\ UNCHANGED now /\ now \in Nat /\ flight = Idle
  BY DEF RunLeave, Dequeue, Typed, Surroundings
<1>2. CASE socket[c] # "open" \/ game.down \/ game.wiped
  BY <1>1, <1>2, UnchangedArmed DEF RunLeave, Ignored
<1>3. CASE ~(socket[c] # "open" \/ game.down \/ game.wiped)
  <2>1. Committed(g, x, TRUE)
    BY <1>3 DEF RunLeave
  <2>2. Adapter(g) /\ ~g.down /\ Fine(g.room)
    BY <1>1, <1>3, BoundAgain DEF Sound
  <2> HIDE DEF g, c
  <2>3. Fine(x)
    <3>1. CASE SeatHeld(g.room, c)
      <4>1. SeatOf(g.room, c) \in Seats
        BY <3>1, SeatOfIs
      <4>2. Lasts(g.room, LeavePlayer(g.room, SeatOf(g.room, c), now))
        BY <1>1, <2>2, <4>1, LeavePlayerIs
      <4> QED  BY <3>1, <4>2 DEF Lasts
    <3>2. CASE ~SeatHeld(g.room, c)
      BY <2>2, <3>2
    <3> QED  BY <3>1, <3>2
  <2> HIDE DEF x
  <2> QED  BY <1>1, <2>1, <2>2, <2>3, CommandArmed
<1> QED  BY <1>2, <1>3

LEMMA RunCloseArmed ==
  ASSUME Typed, Kept, Strong, ArmedInv, RunClose
  PROVE  ArmedInv'
<1> DEFINE c == Head(queue).conn
           r == game.room
<1>1. /\ Dequeue("close") /\ UNCHANGED now /\ now \in Nat /\ flight = Idle /\ queue # <<>>
      /\ Adapter(game) /\ Fine(r) /\ Surroundings
  BY DEF RunClose, Dequeue, Typed, Surroundings, Adapter
<1>2. CASE game.down \/ game.wiped
  BY <1>1, <1>2, UnchangedArmed DEF RunClose, Ignored
<1>3. CASE ~(game.down \/ game.wiped)
  <2> DEFINE x == IF SeatHeld(r, c) THEN DisconnectPlayer(r, SeatOf(r, c), now) ELSE r
  <2>1. game.loaded /\ c \notin DOMAIN game.provisional /\ game.terminal = NoSeat
    BY <1>1, <1>3 DEF Kept, Held
  <2>2. Committed(game, x, SeatHeld(r, c))
    BY <1>3, <2>1 DEF RunClose
  <2>3. CASE SeatHeld(r, c)
    <3>1. SeatOf(r, c) \in Seats
      BY <2>3, SeatOfIs
    <3>2. Lasts(r, DisconnectPlayer(r, SeatOf(r, c), now))
      BY <1>1, <3>1, DisconnectPlayerIs
    <3>3. Fine(x)
      BY <2>3, <3>2 DEF Lasts
    <3>4. SeatHeld(r, c) = TRUE
      BY <2>3 DEF SeatHeld
    <3>5. Committed(game, x, TRUE)
      BY <2>2, <3>4
    <3> HIDE DEF x
    <3> QED  BY <1>1, <1>3, <3>3, <3>5, CommandArmed
  <2>4. CASE ~SeatHeld(r, c)
    <3>1. Committed(game, r, FALSE)
      <4>1. SeatHeld(r, c) = FALSE /\ x = r
        BY <2>4 DEF SeatHeld
      <4> HIDE DEF x, r
      <4> QED  BY <2>2, <4>1
    <3>2. /\ Adapter(game') /\ SameState(game, game') /\ game'.room = Payload(r, now)
          /\ \/ game'.saved = game.saved /\ game'.down /\ "write" \in Faults
             \/ /\ game'.saved = Serialized(game'.room)
                /\ \/ game'.alarm = Timer(game', now)
                   \/ game'.alarm = game.alarm /\ "write" \in Faults
                        /\ (game'.down <=> game'.room.status # "done")
                /\ game'.down /\ ~game.down => "write" \in Faults
      BY <1>1, <3>1, CommittedIs
    <3>3. game'.down => game'.terminal # NoSeat \/ "write" \in Faults
      BY <1>3, <3>2
    <3>4. CASE game'.down
      BY <3>3, <3>4 DEF ArmedInv
    <3>5. CASE game'.alarm = Timer(game', now)
      BY <1>1, <3>2, <3>3, <3>5, SetArmed
    <3>6. CASE /\ game'.alarm = game.alarm /\ ~game'.down /\ game'.room.status = "done"
               /\ game'.saved = Serialized(game'.room)
      <4>1. Armed(game, now)
        BY <1>1, <1>3, <2>1, FlightsAre DEF ArmedInv
      <4>2. game.alarm # NoTime
        <5>1. CASE r.status = "done"
          BY <4>1, <5>1 DEF Armed
        <5>2. CASE r.status # "done"
          <6> DEFINE y == Payload(r, now)
          <6>1. GoesOn(r, y, now) \/ RunsOut(r, y, now)
            BY <1>1, PayloadIs
          <6>2. y.status = "done"
            BY <3>2, <3>6
          <6> HIDE DEF y
          <6>3. ClockRuns(r)
            BY <5>2, <6>1, <6>2 DEF GoesOn, RunsOut
          <6> QED  BY <1>1, <4>1, <6>3, FlagIsDeadline DEF NoTime
        <5> QED  BY <5>1, <5>2
      <4>3. game'.saved.status = "done"
        <5>1. Fine(game'.room)
          BY <3>2 DEF Adapter
        <5>2. Serialized(game'.room).status = game'.room.status
          BY <5>1, SerializedIs DEF SamePlay
        <5> QED  BY <3>6, <5>2
      <4>4. Armed(game', now)
        BY <3>6, <4>2, <4>3 DEF Armed
      <4> QED  BY <1>1, <3>3, <4>4 DEF ArmedInv
    <3> QED  BY <3>2, <3>4, <3>5, <3>6
  <2> QED  BY <2>3, <2>4
<1> QED  BY <1>2, <1>3

LEMMA RunAttachArmed ==
  ASSUME Typed, Kept, Strong, ArmedInv, RunAttach
  PROVE  ArmedInv'
<1> DEFINE c == Head(queue).conn
           g == Rebound(game, Live, now)
<1>1. /\ Dequeue("attach") /\ UNCHANGED now /\ now \in Nat /\ flight = Idle /\ queue # <<>>
      /\ Adapter(game) /\ Idle.kind # "publish"
  BY FlightsAre DEF RunAttach, Dequeue, Typed, Surroundings
<1>2. CASE socket[c] # "open" \/ game.down \/ game.wiped
  BY <1>1, <1>2, UnchangedArmed DEF RunAttach, Ignored
<1>3. CASE ~(socket[c] # "open" \/ game.down \/ game.wiped)
  <2>1. game' = g
    BY <1>3 DEF RunAttach
  <2>2. Adapter(g) /\ SameState(game, g) /\ ~g.down /\ Agrees(g.room, g.saved, now)
    BY <1>1, <1>3, BoundAgain
  <2>3. /\ g.room.status = game.room.status
        /\ \/ g.saved = game.saved /\ g.alarm = game.alarm
           \/ g.alarm = Timer(g, now)
    <3>1. Live \in [Seats -> Conn \cup {NoConn}]
      BY LiveSocketsIs DEF Live
    <3> QED  BY <1>1, <3>1, ReboundIs
  <2> HIDE DEF g
  <2>4. game.loaded /\ game.terminal = NoSeat /\ Agrees(game.room, game.saved, now)
    BY <1>1, <1>3 DEF Kept, Held, Strong, Fits
  <2>5. CASE g.alarm = Timer(g, now)
    BY <1>1, <2>1, <2>2, <2>5, SetArmed
  <2>6. CASE g.saved = game.saved /\ g.alarm = game.alarm
    <3>1. Armed(game, now)
      BY <1>1, <1>3, <2>4 DEF ArmedInv
    <3>2. g.consumed = game.consumed /\ g.loaded = game.loaded
      BY <2>2 DEF SameState
    <3>3. Armed(g, now)
      BY <1>1, <2>2, <2>3, <2>4, <2>6, <3>1, <3>2, AgreedArmed
    <3> QED  BY <1>1, <2>1, <2>2, <3>3 DEF ArmedInv
  <2> QED  BY <2>3, <2>5, <2>6
<1> QED  BY <1>2, <1>3

LEMMA AttachRejectedArmed ==
  ASSUME Typed, Kept, Strong, Steady, ArmedInv, AttachRejected
  PROVE  ArmedInv'
<1>1. /\ flight.kind = "attach" /\ UNCHANGED now /\ now \in Nat /\ flight # Idle
      /\ Adapter(game)
  BY FlightsAre DEF AttachRejected, Typed, Surroundings
<1>2. Armed(game, now) /\ game.loaded /\ game.terminal = NoSeat
      /\ Agrees(game.room, game.saved, now)
  <2>1. game.loaded /\ ~game.down /\ game.terminal = NoSeat /\ ~game.wiped
    BY <1>1 DEF Kept, Strong, Order
  <2> QED  BY <1>1, <2>1 DEF ArmedInv, Strong, Fits
<1>3. /\ Adapter(game') /\ ~game'.down /\ game'.loaded = game.loaded
      /\ game'.consumed = game.consumed /\ game'.saved = game.saved /\ game'.alarm = game.alarm
      /\ Agrees(game'.room, game.saved, now)
      /\ game.room.status = "done" => game'.room.status = "done"
  BY AttachRejectedIs
<1>4. Armed(game', now)
  BY <1>1, <1>2, <1>3, AgreedArmed
<1> QED  BY <1>1, <1>3, <1>4 DEF ArmedInv

LEMMA AttachAcceptedArmed ==
  ASSUME Typed, Kept, Strong, ArmedInv, AttachAccepted
  PROVE  ArmedInv'
<1> DEFINE c == flight.conn
           s == flight.seat
           g == AttachCommitted(game, c, s, now)
           done == CommitAttach(g, c)
           back == RolledBack(g, c, now)
<1>1. /\ flight.kind = "attach" /\ Accepts(game, s, now) /\ socket[c] = "open" /\ UNCHANGED now
      /\ game' = done \/ game' = back
  BY DEF AttachAccepted, Kept
<1>2. c \in Conn /\ s \in Seats /\ Adapter(game) /\ now \in Nat /\ ~game.down
  BY <1>1, FlightIs DEF Typed, Surroundings, Kept
<1> HIDE DEF c, s
<1>3. /\ Adapter(g) /\ g.loaded = game.loaded /\ g.terminal = game.terminal /\ g.gcAt = game.gcAt
      /\ g.consumed = game.consumed /\ g.wiped = game.wiped /\ g.down = game.down
      /\ g.room = Payload(Attached(game, c, s, now), now) /\ Lasts(game.room, g.room)
      /\ g.saved = Serialized(g.room) /\ g.alarm = Timer(g, now)
      /\ DOMAIN g.provisional = DOMAIN game.provisional \cup {c}
      /\ g.provisional[c] = [room |-> Serialized(game.room), live |-> LiveSeats(game.room)]
  BY <1>1, <1>2, AttachCommittedIs
<1> HIDE DEF g
<1>4. Adapter(done) /\ done.alarm = Timer(done, now) /\ ~done.down
  <2>1. /\ Adapter(done) /\ done.terminal = g.terminal /\ done.gcAt = g.gcAt
        /\ done.consumed = g.consumed /\ done.down = g.down
        /\ done.room = g.room /\ done.alarm = g.alarm
    BY <1>3, CommitAttachIs
  <2> HIDE DEF done
  <2>2. Timer(done, now) = Timer(g, now)
    BY <2>1, SameTimer
  <2> QED  BY <1>2, <1>3, <2>1, <2>2
<1> HIDE DEF done
<1>5. Adapter(back) /\ back.alarm = Timer(back, now) /\ ~back.down
  <2>1. c \in DOMAIN g.provisional
    BY <1>3
  <2>2. Adapter(back) /\ back.down = g.down /\ back.alarm = Timer(back, now)
    BY <1>2, <1>3, <2>1, RolledBackIs
  <2> HIDE DEF back
  <2> QED  BY <1>2, <1>3, <2>2
<1> HIDE DEF back
<1> QED  BY <1>1, <1>2, <1>4, <1>5, SetArmed

LEMMA RunAlarmArmed ==
  ASSUME Typed, Kept, Strong, ArmedInv, RunAlarm
  PROVE  ArmedInv'
<1>1. /\ Dequeue("alarm") /\ UNCHANGED now /\ now \in Nat /\ flight = Idle /\ queue # <<>>
      /\ Adapter(game) /\ Idle.kind # "publish"
  BY FlightsAre DEF RunAlarm, Dequeue, Typed, Surroundings
<1>2. CASE game.down \/ game.wiped
  BY <1>1, <1>2, UnchangedArmed DEF RunAlarm
<1>3. CASE ~(game.down \/ game.wiped)
  <2>1. game.loaded /\ game.terminal = NoSeat /\ Agrees(game.room, game.saved, now)
    BY <1>1, <1>3 DEF Kept, Held, Strong, Fits
  <2>2. Armed(game, now)
    BY <1>1, <1>3, <2>1 DEF ArmedInv
  <2> DEFINE g == game
             h == game'
  <2>3. Alarmed(game, game', now)
    BY <1>3, RunAlarmIs
  <2>4. Adapter(h) /\ h.loaded = g.loaded /\ h.down = g.down
    BY <2>3 DEF Alarmed
  <2>5. CASE h = g
    BY <1>1, <1>3, <2>2, <2>5 DEF ArmedInv
  <2>6. CASE h.alarm = Timer(h, now)
    BY <1>1, <1>3, <2>4, <2>6, SetArmed
  <2>7. CASE /\ h.saved = g.saved /\ h.room = Payload(g.room, now) /\ h.consumed = g.consumed
             /\ h.alarm = g.alarm
    <3> DEFINE r == g.room
               x == Payload(r, now)
    <3>1. Fine(r)
      BY <1>1 DEF Adapter
    <3>2. Agrees(x, g.saved, now)
      BY <1>1, <2>1, <3>1, PayloadAgrees
    <3>3. GoesOn(r, x, now) \/ RunsOut(r, x, now)
      BY <1>1, <3>1, PayloadIs
    <3>4. r.status = "done" => x.status = "done"
      BY <3>3 DEF GoesOn, RunsOut
    <3>5. h.room = x
      BY <2>7
    <3> HIDE DEF x, r
    <3>6. /\ Agrees(h.room, g.saved, now) /\ h.saved.status = g.saved.status
          /\ g.room.status = "done" => h.room.status = "done"
      BY <2>7, <3>2, <3>4, <3>5 DEF r
    <3> HIDE DEF h
    <3>7. Armed(h, now)
      BY <1>1, <2>1, <2>2, <2>4, <2>7, <3>6, AgreedArmed
    <3> QED  BY <1>1, <1>3, <2>4, <3>7 DEF ArmedInv, h
  <2> QED  BY <2>3, <2>5, <2>6, <2>7 DEF Alarmed
<1> QED  BY <1>2, <1>3

LEMMA LobbyAnswersArmed ==
  ASSUME Typed, ArmedInv, LobbyAnswers
  PROVE  ArmedInv'
<1> DEFINE e == flight.reason
<1>1. game' = Terminalized(game, e, now) /\ e \in TerminalReasons /\ Adapter(game) /\ now \in Nat
  BY FlightIs DEF LobbyAnswers, Typed, Surroundings
<1> HIDE DEF e
<1>2. game'.terminal = e /\ game'.down
  BY <1>1, TerminalizedIs
<1>3. e # NoSeat
  BY <1>1 DEF TerminalReasons, Reasons, BoardWins, CreatorTimeout, NoSeat
<1> QED  BY <1>2, <1>3 DEF ArmedInv

LEMMA LobbyFailsArmed ==
  ASSUME Typed, ArmedInv, LobbyFails
  PROVE  ArmedInv'
<1> DEFINE e == flight.reason
           h == RetryScheduled(game, e, now)
<1>1. /\ game' = h /\ e \in TerminalReasons /\ UNCHANGED now
      /\ Adapter(game) /\ now \in Nat
  BY FlightIs DEF LobbyFails, Typed, Surroundings
<1> HIDE DEF e
<1>2. Adapter(h) /\ SameState(game, h) /\ h.down = game.down /\ h.alarm = Timer(h, now)
  BY <1>1, RetryScheduledIs
<1> HIDE DEF h
<1>3. h.down => h.terminal # NoSeat \/ "write" \in Faults
  BY <1>2 DEF SameState, ArmedInv
<1> QED  BY <1>1, <1>2, <1>3, SetArmed

\* Any event wakes the object with its alarm set, or finds it as it was.
LEMMA EventArmed ==
  ASSUME Typed, Strong, ArmedInv, UNCHANGED <<now, flight>>,
         NEW sockets, game' = Awake(sockets)
  PROVE  ArmedInv'
<1> DEFINE live == LiveSockets(sockets, identity)
           h == Loaded(game, live, now)
<1>1. Adapter(game) /\ now \in Nat /\ live \in [Seats -> Conn \cup {NoConn}]
  BY LiveSocketsIs DEF Typed, Surroundings
<1>2. CASE game.loaded
  <2>1. game' = game
    BY <1>2 DEF Awake
  <2> QED  BY <2>1, UnchangedArmed
<1>3. CASE ~game.loaded
  <2>1. game' = h
    BY <1>3 DEF Awake
  <2> HIDE DEF live
  <2>2. /\ Adapter(h) /\ (h.down <=> game.terminal # NoSeat) /\ h.terminal = game.terminal
        /\ game.terminal = NoSeat => h.alarm = Timer(h, now)
    BY <1>1, LoadedIs
  <2> HIDE DEF h
  <2>3. CASE game.terminal = NoSeat
    BY <1>1, <2>1, <2>2, <2>3, SetArmed
  <2>4. CASE game.terminal # NoSeat
    BY <2>1, <2>2, <2>4 DEF ArmedInv
  <2> QED  BY <2>3, <2>4
<1> QED  BY <1>2, <1>3

LEMMA AlarmFiresArmed ==
  ASSUME Typed, Strong, ArmedInv, AlarmFires
  PROVE  ArmedInv'
<1>1. /\ IF game.terminal # NoSeat /\ game.gcAt <= now
         THEN /\ game' = [Forgotten(game) EXCEPT !.wiped = TRUE, !.alarm = NoTime]
              /\ UNCHANGED queue
         ELSE LET g == Awake(socket)
                  spent == [g EXCEPT !.alarm = NoTime]
              IN  /\ game' = IF g.down THEN spent ELSE Scheduled(spent, now)
                  /\ queue' = Append(queue, [op |-> "alarm"])
      /\ UNCHANGED <<now, flight>>
  BY DEF AlarmFires
<1>2. Adapter(game) /\ now \in Nat
  BY DEF Typed, Surroundings
<1>3. CASE game.terminal # NoSeat /\ game.gcAt <= now
  <2> DEFINE h == [Forgotten(game) EXCEPT !.wiped = TRUE, !.alarm = NoTime]
  <2>1. game' = h
    BY <1>1, <1>3
  <2>2. h.wiped /\ ~h.down
    BY <1>2, WipedIs
  <2> HIDE DEF h
  <2> QED  BY <2>1, <2>2 DEF ArmedInv
<1>4. CASE ~(game.terminal # NoSeat /\ game.gcAt <= now)
  <2> DEFINE g == Awake(socket)
             spent == [g EXCEPT !.alarm = NoTime]
  <2>1. game' = IF g.down THEN spent ELSE Scheduled(spent, now)
    BY <1>1, <1>4
  <2>2. Adapter(g) /\ g.terminal = game.terminal
    BY AwakeIs
  <2>3. g.down => g.terminal # NoSeat \/ "write" \in Faults
    <3>1. CASE game.loaded
      BY <3>1 DEF Awake, ArmedInv
    <3>2. CASE ~game.loaded
      <4> DEFINE live == LiveSockets(socket, identity)
                 h == Loaded(game, live, now)
      <4>1. live \in [Seats -> Conn \cup {NoConn}]
        BY LiveSocketsIs
      <4> HIDE DEF live
      <4>2. h.down <=> game.terminal # NoSeat
        BY <1>2, <4>1, LoadedIs
      <4>3. g = h
        BY <3>2 DEF Awake, live
      <4> HIDE DEF g, h
      <4> QED  BY <2>2, <4>2, <4>3
    <3> QED  BY <3>1, <3>2
  <2> HIDE DEF g
  <2>4. /\ Adapter(spent) /\ SameState(g, spent) /\ spent.down = g.down
    BY <2>2, AlarmChanged
  <2> HIDE DEF spent
  <2>5. CASE g.down
    BY <2>1, <2>2, <2>3, <2>4, <2>5 DEF SameState, ArmedInv
  <2>6. CASE ~g.down
    <3> DEFINE h == Scheduled(spent, now)
    <3>1. game' = h
      BY <2>1, <2>6
    <3>2. Adapter(h) /\ h.down = spent.down /\ h.alarm = Timer(h, now)
      BY <1>2, <2>4, ScheduledIs
    <3> HIDE DEF h
    <3> QED  BY <1>1, <1>2, <2>4, <2>6, <3>1, <3>2, SetArmed
  <2> QED  BY <2>5, <2>6
<1> QED  BY <1>3, <1>4

\* Two faults that are not combined: see above.
Apart == ~({"crash", "write"} \subseteq Faults)

LEMMA CrashArmed ==
  ASSUME Typed, Strong, ArmedInv, Apart, Crash
  PROVE  ArmedInv'
<1> DEFINE f == Forgotten(game)
           a == IF AlarmRuns THEN now ELSE f.alarm
           h == [f EXCEPT !.alarm = a]
<1>1. /\ ~game.wiped /\ game' = [f EXCEPT !.alarm = IF AlarmRuns THEN now ELSE @]
      /\ UNCHANGED now /\ "write" \notin Faults
  BY FaultIs DEF Crash, Apart, Typed
<1>2. Adapter(game) /\ now \in Nat
  BY DEF Typed, Surroundings
<1>3. /\ Adapter(f) /\ ~f.loaded /\ ~f.down /\ f.terminal = game.terminal /\ f.alarm = game.alarm
      /\ f.room = game.saved /\ f.saved = game.saved /\ f.consumed = game.consumed
  BY <1>2, ForgottenIs
<1> HIDE DEF f
<1>4. a \in Nat \cup {NoTime}
  BY <1>2, <1>3 DEF Adapter, GameType
<1>5. game' = h
  BY <1>1
<1>6. a = now \/ a = game.alarm
  BY <1>3
<1> HIDE DEF a
<1>7. /\ Adapter(h) /\ SameState(f, h) /\ h.alarm = a
      /\ h.saved = f.saved /\ h.room = f.room /\ h.down = f.down
  BY <1>3, <1>4, AlarmChanged
<1> HIDE DEF h
<1>8. SUFFICES ASSUME game.terminal = NoSeat  PROVE Armed(h, now)
  BY <1>1, <1>3, <1>5, <1>7 DEF ArmedInv, SameState
<1>9. Armed(game, now)
  BY <1>1, <1>8 DEF ArmedInv
<1>10. Agrees(game.room, game.saved, now)
  <2>1. CASE game.loaded
    BY <1>1, <1>8, <2>1 DEF ArmedInv, Strong, Fits
  <2>2. CASE ~game.loaded
    BY <2>2, AgreesReflexive DEF Strong, Order
  <2> QED  BY <2>1, <2>2
<1>11. /\ h.room = game.saved /\ h.saved = game.saved /\ h.consumed = game.consumed
       /\ ~h.loaded /\ AlarmRetry \in Nat
  BY <1>2, <1>3, <1>7, AlarmIs DEF SameState
<1>12. CASE a = game.alarm
  <2>1. Agrees(h.room, game.saved, now)
    BY <1>11, AgreesReflexive
  <2> QED  BY <1>2, <1>7, <1>9, <1>10, <1>11, <1>12, <2>1, AgreedArmed
<1>13. CASE a = now
  <2>1. CASE h.room.status = "done"
    BY <1>2, <1>7, <1>11, <1>13, <2>1 DEF Armed, NoTime
  <2>2. CASE h.room.status # "done"
    <3>1. LifecycleDeadlines(h) \subseteq Nat
      BY <1>7, DeadlinesAreTimes
    <3>2. ASSUME NEW d \in LifecycleDeadlines(h)  PROVE Wakes(h, now, d)
      BY <1>2, <1>7, <1>11, <1>13, <3>1, <3>2 DEF Wakes, NotBefore, NoTime
    <3> QED  BY <2>2, <3>2 DEF Armed
  <2> QED  BY <2>1, <2>2
<1> QED  BY <1>6, <1>12, <1>13

LEMMA TickArmed ==
  ASSUME Typed, ArmedInv, Tick
  PROVE  ArmedInv'
<1>1. now' = now + 1 /\ UNCHANGED <<game, flight>>
  BY DEF Tick
<1>2. now \in Nat /\ now' \in Nat /\ now <= now' /\ Adapter(game)
  BY <1>1 DEF Typed, Surroundings
<1>3. Armed(game, now) => Armed(game, now')
  BY <1>2, ArmedLater
<1> QED  BY <1>1, <1>3 DEF ArmedInv

LEMMA InitArmed ==
  ASSUME Init
  PROVE  ArmedInv
<1>1. /\ now = 0 /\ game.loaded /\ ~game.down /\ game.room = NewRoom(0)
      /\ game.alarm = CreatorDeadline
  BY DEF Init
<1>2. CreatorDeadline \in Nat
  BY DurableAssumption
<1>3. LifecycleDeadlines(game) \subseteq {CreatorDeadline}
  BY <1>1 DEF LifecycleDeadlines, NewRoom, ClockRuns
<1>4. ASSUME NEW d \in LifecycleDeadlines(game)  PROVE Wakes(game, 0, d)
  BY <1>1, <1>2, <1>3, <1>4 DEF Wakes, NotBefore, NoTime
<1>5. Armed(game, 0)
  BY <1>1, <1>4 DEF Armed, NewRoom
<1> QED  BY <1>1, <1>5 DEF ArmedInv

LEMMA NextArmed ==
  ASSUME Typed, Kept, Strong, Steady, Apart, ArmedInv, [Next]_vars
  PROVE  ArmedInv'
<1>1. CASE \E c \in Conn, s \in Seats : SendAttach(c, s)
  BY <1>1, EventArmed DEF SendAttach
<1>2. CASE \E c \in Conn, op \in {"move", "leave"} : SendCommand(c, op)
  BY <1>2, EventArmed DEF SendCommand
<1>3. CASE \E c \in Conn : Close(c)
  <2>1. PICK c \in Conn : Close(c)
    BY <1>3
  <2> DEFINE sockets == [socket EXCEPT ![c] = "closed"]
  <2>2. game' = (IF game.wiped THEN game ELSE Awake(sockets)) /\ UNCHANGED <<now, flight>>
    BY <2>1 DEF Close
  <2> HIDE DEF sockets
  <2>3. CASE game.wiped
    BY <2>2, <2>3, UnchangedArmed
  <2>4. CASE ~game.wiped
    BY <2>2, <2>4, EventArmed
  <2> QED  BY <2>3, <2>4
<1>4. CASE AlarmFires
  BY <1>4, AlarmFiresArmed
<1>5. CASE RunMove \/ RunLeave \/ RunClose \/ RunAttach \/ RunAlarm
  BY <1>5, RunMoveArmed, RunLeaveArmed, RunCloseArmed, RunAttachArmed, RunAlarmArmed
<1>6. CASE AttachRejected \/ AttachAccepted \/ LobbyAnswers \/ LobbyFails
  BY <1>6, AttachRejectedArmed, AttachAcceptedArmed, LobbyAnswersArmed, LobbyFailsArmed
<1>7. CASE Hibernate
  BY <1>7, FaultIs DEF Hibernate, Steady, Typed
<1>8. CASE Crash \/ Tick
  BY <1>8, CrashArmed, TickArmed
<1>9. CASE UNCHANGED vars
  BY <1>9, UnchangedArmed DEF vars
<1> QED  BY <1>1, <1>2, <1>3, <1>4, <1>5, <1>6, <1>7, <1>8, <1>9 DEF Next

\* Under the conditions of GameAlwaysSound, and unless a failed write and a crash come
\* together, an object with nothing to do is armed for every deadline of its game:
\* the creator's, the grace periods' and the clock's (room-storage.ts).
THEOREM AlarmAlwaysArmed ==
  /\ Faults \cap {"interrupt", "transaction", "hibernate"} = {}
  /\ ~({"crash", "write"} \subseteq Faults)
  => (Safe => []AlarmArmed)
<1> SUFFICES ASSUME Steady, Apart  PROVE Safe => []AlarmArmed
  BY DEF Steady, Apart
<1>0. Calm
  BY DEF Steady, Calm
<1>1. Init => Typed /\ Kept /\ Strong /\ ArmedInv
  BY InitKeeps, InitStrong, InitArmed
<1>2. Typed /\ Kept /\ Strong /\ ArmedInv /\ [Next]_vars
        => (Typed /\ Kept /\ Strong /\ ArmedInv)'
  BY <1>0, NextKeeps, NextStrong, NextArmed DEF Keeps
<1>3. ArmedInv => AlarmArmed
  <2>1. Quiet => flight.kind # "publish"
    BY FlightsAre DEF Quiet
  <2>2. SUFFICES ASSUME ArmedInv, Quiet, ~game.down, ~game.wiped, game.terminal = NoSeat
                 PROVE  IF game.room.status = "done" THEN game.alarm # NoTime
                        ELSE \A d \in LifecycleDeadlines(game) : WakesBy(d)
    BY DEF AlarmArmed
  <2>3. Armed(game, now)
    BY <2>1, <2>2 DEF ArmedInv
  <2> QED  BY <2>3 DEF Armed, Wakes, WakesBy
<1> QED  BY <1>1, <1>2, <1>3, PTL DEF Safe
=============================================================================
