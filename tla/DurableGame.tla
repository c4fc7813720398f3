---------------------------- MODULE DurableGame ----------------------------
(***************************************************************************)
(* The Game Durable Object: OttGameServer (apps/worker/src/game) drives a  *)
(* DurableRoomAdapter (apps/worker/src/persistence/room-storage.ts), which *)
(* owns the Room of module GameRoom.  Commands, closes and alarms run one  *)
(* at a time (`queue'), but the object takes further events while one of   *)
(* them awaits something other than its storage (`flight'): the signature  *)
(* of an attach ticket, or the Lobby's answer.  The object may be evicted  *)
(* with its sockets kept (Hibernate) or lost (Crash).                      *)
(*                                                                         *)
(* Abstracted: the attach ticket and its nonce (the Lobby issues a fresh   *)
(* one for any seat), nonce expiry as a reason to wake, spectators, names, *)
(* the public summary, and the revision a move was sent for.               *)
(***************************************************************************)
EXTENDS GameRoom, Sequences, Functions

CONSTANTS
  CreatorDeadline,  \* creatorAttachDeadlineMs
  AlarmRetry,       \* alarmRetryMs
  Retention,        \* retentionMs
  Faults,           \* the faults of FaultKinds this instance has
  MaxTime, MaxRevision, MaxQueue, MaxFaults   \* bounds

\* interrupt: a socket closes while its ticket is verified.  transaction: the
\* attach transaction aborts.  lobby: a terminalize request fails.  write: a
\* put or a setAlarm fails.  install: serializeAttachment throws.
FaultKinds ==
  {"interrupt", "transaction", "lobby", "write", "install", "crash", "hibernate"}

ASSUME DurableAssumption ==
  /\ Faults \subseteq FaultKinds
  /\ {CreatorDeadline, AlarmRetry, Retention} \subseteq Nat \ {0}
  /\ {MaxTime, MaxRevision, MaxQueue, MaxFaults} \subseteq Nat

VARIABLES
  now,
  game,      \* the adapter in memory, and what is in storage
  socket,    \* of each connection; "closing" was closed by the server
  identity,  \* the seat in the attachment of each open socket
  queue,     \* roomOperationTail
  flight,    \* the operation at an await
  reported,  \* terminal-outcome of the Lobby
  faults     \* bound: faults so far

vars == <<now, game, socket, identity, queue, flight, reported, faults>>

CreatorTimeout == "creator_attach_timeout"
TerminalReasons == Reasons \cup {CreatorTimeout}
NoSnapshots == [c \in {} |-> c]   \* the empty map
Idle == [kind |-> "idle"]
NotReported == [reason |-> NoSeat, winner |-> NoSeat]

SnapshotType == [room : RoomType, live : [Seats -> Conn \cup {NoConn}]]

\* The adapter with snapshots for the attaches of the sockets of C.
GameType(C) ==
  [loaded : BOOLEAN,      \* the adapter is in memory
   down : BOOLEAN,        \* adapter.unavailable
   room : RoomType,
   emitted : SUBSET TerminalReasons,
   provisional : [C -> SnapshotType],
   saved : RoomType,
   retry : TerminalReasons \cup {NoSeat},
   terminal : TerminalReasons \cup {NoSeat},
   gcAt : Nat \cup {NoTime},
   consumed : BOOLEAN,    \* creatorAttachDeadlineConsumed
   alarm : Nat \cup {NoTime},
   wiped : BOOLEAN]

FlightType ==
  {Idle}
    \cup [kind : {"attach"}, conn : Conn, seat : Seats, previous : Conn \cup {NoConn}]
    \cup [kind : {"publish"}, by : {"client", "alarm"}, reason : TerminalReasons,
          winner : Seats \cup {NoSeat}]

OperationType ==
  [op : {"move", "leave", "close"}, conn : Conn]
    \cup [op : {"attach"}, conn : Conn, seat : Seats]
    \cup [op : {"alarm"}]

TypeOK ==
  /\ now \in Nat
  /\ \E C \in SUBSET Conn : game \in GameType(C)
  /\ socket \in [Conn -> {"idle", "open", "closing", "closed"}]
  /\ identity \in [Conn -> Seats \cup {NoSeat}]
  /\ queue \in Seq(OperationType)
  /\ flight \in FlightType
  /\ reported \in [reason : TerminalReasons \cup {NoSeat}, winner : Seats \cup {NoSeat}]
  /\ faults \in 0 .. MaxFaults

-----------------------------------------------------------------------------
(* The stored room.                                                        *)

\* serializeRoom: neither sockets nor the last move are stored.
Serialized(r) ==
  [r EXCEPT !.conn = [s \in Seats |-> NoConn], !.lastMove = NoLastMove]

\* hydrateRoom: nobody is connected until a live socket is bound again.
Hydrated(saved) == [saved EXCEPT !.connected = [s \in Seats |-> FALSE]]

Least(times) == CHOOSE t \in times : \A u \in times : t <= u
NotBefore(t, time) == IF time < t THEN t ELSE time

AwaitsCreator(g) == g.room.status = "waiting" /\ ~g.room.seated["A"] /\ ~g.consumed

LifecycleDeadlines(g) ==
  LET r == g.room
  IN  (IF ClockRuns(r) THEN {r.anchor + r.remaining[r.running]} ELSE {})
        \cup {r.deadline[s] : s \in {x \in Seats : r.deadline[x] # NoTime}}
        \cup (IF AwaitsCreator(g) THEN {CreatorDeadline} ELSE {})

\* Mutant: a grace period arms no alarm.
ScheduledClockOnly(g, t) ==
  LET deadlines == IF ClockRuns(g.room)
                   THEN {g.room.anchor + g.room.remaining[g.room.running]} ELSE {}
  IN  [g EXCEPT !.alarm =
        IF g.terminal # NoSeat THEN g.gcAt
        ELSE IF g.room.status = "done" THEN t + AlarmRetry
        ELSE IF deadlines = {} THEN NoTime
        ELSE NotBefore(t, Least(deadlines))]

Scheduled(g, t) ==
  [g EXCEPT !.alarm =
     IF g.terminal # NoSeat THEN g.gcAt
     ELSE IF g.room.status = "done" THEN t + AlarmRetry
     ELSE IF LifecycleDeadlines(g) = {} THEN NoTime
     ELSE NotBefore(t, Least(LifecycleDeadlines(g)))]

Persisted(g) == [g EXCEPT !.saved = Serialized(g.room)]

\* Mutant: seats keep their players although their sockets are gone.
LoadedUnreconciled(g, live, t) ==
  LET seats == {s \in Seats : g.saved.connected[s]}
      bound == [g.saved EXCEPT !.conn = [s \in Seats |->
                  IF s \in seats THEN live[s] ELSE NoConn]]
  IN  Scheduled([g EXCEPT !.loaded = TRUE, !.emitted = {},
                          !.down = g.terminal # NoSeat, !.room = Payload(bound, t)], t)

\* DurableRoomAdapter.load, with the seats whose sockets outlived the adapter.
Loaded(g, live, t) ==
  LET seats == {s \in Seats : g.saved.connected[s]}
      bound == [g.saved EXCEPT !.conn = [s \in Seats |->
                  IF s \in seats THEN live[s] ELSE NoConn]]
      shown == Payload(bound, t)
      room == ReconcileHydration(shown, t, {s \in seats : live[s] # NoConn})
      fresh == [g EXCEPT !.loaded = TRUE, !.emitted = {},
                         !.down = g.terminal # NoSeat,
                         !.room = Payload(room, t)]
  IN  IF g.terminal # NoSeat THEN fresh
      ELSE Scheduled(IF room # shown \/ room.status = "waiting"
                     THEN Persisted(fresh) ELSE fresh, t)

Forgotten(g) ==
  [g EXCEPT !.loaded = FALSE, !.down = FALSE, !.emitted = {}, !.room = g.saved,
            !.provisional = NoSnapshots]

\* rebindLiveConnections and restoreLiveConnection: the open sockets take their
\* seats again, and the clock of the seat on turn starts if none runs.
Rebound(g, live, t) ==
  LET r == g.room
      present == {s \in Seats : live[s] # NoConn /\ r.seated[s]}
      taken == [r EXCEPT
                  !.conn = [s \in Seats |-> IF s \in present THEN live[s] ELSE @[s]],
                  !.connected = [s \in Seats |-> s \in present \/ @[s]],
                  !.deadline = [s \in Seats |-> IF s \in present THEN NoTime ELSE @[s]]]
      restart == /\ present # {}
                 /\ taken.status = "playing" /\ taken.winner = NoSeat
                 /\ taken.running = NoSeat /\ taken.connected[taken.turn]
      room == IF restart THEN [taken EXCEPT !.running = taken.turn, !.anchor = t]
              ELSE taken
  IN  IF g.down THEN g
      ELSE IF taken = r THEN [g EXCEPT !.room = room]
      ELSE Scheduled(Persisted([g EXCEPT !.room = room]), t)

\* mutate(): the method's effect is settled, stored and the alarm set.  A failed
\* write makes the adapter unavailable, except for the alarm of a finished game.
Mutated(g, after, t, write) ==
  LET changed == [g EXCEPT !.room = Payload(after, t)]
  IN  IF write = "put_fails" THEN [changed EXCEPT !.down = TRUE]
      ELSE IF write = "alarm_fails"
      THEN [Persisted(changed) EXCEPT !.down = changed.room.status # "done"]
      ELSE Scheduled(Persisted(changed), t)

\* Mutant: the reason stays marked as told, so the alarm never tells it again.
RetryScheduledOnce(g, reason, t) == Scheduled([g EXCEPT !.retry = reason], t)

RetryScheduled(g, reason, t) ==
  Scheduled([g EXCEPT !.emitted = @ \ {reason}, !.retry = reason], t)

\* markTerminalized.
Terminalized(g, reason, t) ==
  [g EXCEPT !.terminal = reason, !.retry = NoSeat, !.down = TRUE,
            !.gcAt = t + Retention, !.alarm = t + Retention]

-----------------------------------------------------------------------------
(* Attaching.                                                              *)

Accepts(g, s, t) ==
  LET r == g.room
  IN  IF r.seated[s]
      THEN LET away == IF r.connected[s] THEN DisconnectPlayer(r, s, t) ELSE r
           IN  CanResume(away, s, t)
      ELSE CanAdd(r) /\ FreeSeat(r) = s

Attached(g, c, s, t) ==
  LET r == g.room
      away == IF r.connected[s] THEN DisconnectPlayer(r, s, t) ELSE r
  IN  IF r.seated[s] THEN ResumePlayer(away, c, s, t) ELSE AddPlayer(r, c, t)

LiveSeats(r) == [s \in Seats |-> IF r.seated[s] /\ r.connected[s] THEN r.conn[s] ELSE NoConn]

WithLive(r, live) ==
  [r EXCEPT !.connected = [s \in Seats |-> r.seated[s] /\ live[s] # NoConn],
            !.conn = live,
            !.deadline = [s \in Seats |->
               IF r.seated[s] /\ live[s] # NoConn THEN NoTime ELSE @[s]]]

\* attachWithCapabilityRecovery, when the transaction commits.
AttachCommitted(g, c, s, t) ==
  [Mutated(g, Attached(g, c, s, t), t, "ok") EXCEPT
     !.provisional = [x \in DOMAIN @ \cup {c} |->
        IF x = c THEN [room |-> Serialized(g.room), live |-> LiveSeats(g.room)]
        ELSE @[x]]]

\* Mutant: the snapshot of a finished attach is kept.
CommitAttachForgotten(g, c) == g

CommitAttach(g, c) ==
  [g EXCEPT !.provisional = Restrict(@, DOMAIN @ \ {c})]

\* reloadPersisted, when it does not: r is the room the attempt left in memory.
Reloaded(g, r, c, t) ==
  LET live == [s \in Seats |-> IF LiveSeats(r)[s] = c THEN NoConn ELSE LiveSeats(r)[s]]
  IN  [g EXCEPT !.room = Payload(WithLive(Hydrated(g.saved), live), t),
                !.provisional = NoSnapshots, !.down = FALSE]

\* rollbackAttach: back to the room as it was before c attached.
RolledBack(g, c, t) ==
  LET before == g.provisional[c]
  IN  Scheduled([CommitAttach(g, c) EXCEPT
                   !.room = WithLive(Hydrated(before.room), before.live),
                   !.saved = before.room], t)

-----------------------------------------------------------------------------
(* Events: what the object takes at any time.                              *)

LiveSockets(sockets, ids) ==
  [s \in Seats |->
     IF \E c \in Conn : sockets[c] = "open" /\ ids[c] = s
     THEN CHOOSE c \in Conn : sockets[c] = "open" /\ ids[c] = s ELSE NoConn]

Live == LiveSockets(socket, identity)

\* Any event wakes an evicted object, which loads the room first (onLoad).
Awake(sockets) ==
  IF game.loaded THEN game ELSE Loaded(game, LiveSockets(sockets, identity), now)

Pending(c) == \E i \in 1 .. Len(queue) : queue[i].op # "alarm" /\ queue[i].conn = c
Attaching(c) == \/ \E i \in 1 .. Len(queue) : queue[i].op = "attach" /\ queue[i].conn = c
                \/ flight.kind = "attach" /\ flight.conn = c
Enqueue(o) == Len(queue) < MaxQueue /\ queue' = Append(queue, o)
\* Bound: clients send nothing after MaxTime or from MaxRevision on.
Bounded == now <= MaxTime /\ game.room.revision < MaxRevision
Fault(kind) == kind \in Faults /\ faults < MaxFaults /\ faults' = faults + 1

SendAttach(c, s) ==
  /\ Bounded /\ ~game.wiped
  /\ socket[c] = "idle"
  /\ socket' = [socket EXCEPT ![c] = "open"]
  /\ Enqueue([op |-> "attach", conn |-> c, seat |-> s])
  /\ game' = Awake(socket)
  /\ UNCHANGED <<now, identity, flight, reported, faults>>

\* reserveRole: while its attach is pending a socket sends nothing else.
SendCommand(c, op) ==
  /\ Bounded /\ ~game.wiped
  /\ socket[c] = "open" /\ identity[c] # NoSeat /\ ~Attaching(c)
  /\ Enqueue([op |-> op, conn |-> c])
  /\ game' = Awake(socket)
  /\ UNCHANGED <<now, socket, identity, flight, reported, faults>>

\* onClose: the connection is invalid at once, its seat is given up in turn.
Close(c) ==
  /\ socket[c] \in {"open", "closing"}
  /\ socket' = [socket EXCEPT ![c] = "closed"]
  /\ identity' = [identity EXCEPT ![c] = NoSeat]
  /\ IF flight.kind = "attach" /\ flight.conn = c
     THEN Fault("interrupt") ELSE UNCHANGED faults
  /\ Enqueue([op |-> "close", conn |-> c])
  /\ game' = IF game.wiped THEN game ELSE Awake([socket EXCEPT ![c] = "closed"])
  /\ UNCHANGED <<now, flight, reported>>

AlarmRuns == \/ \E i \in 1 .. Len(queue) : queue[i].op = "alarm"
             \/ flight.kind = "publish" /\ flight.by = "alarm"

\* alarm(): a finished game past its retention is wiped; otherwise the alarm
\* is set again before the room handles this one.
AlarmFires ==
  /\ ~game.wiped /\ ~AlarmRuns
  /\ game.alarm # NoTime /\ game.alarm <= now
  /\ IF game.terminal # NoSeat /\ game.gcAt <= now
     THEN /\ game' = [Forgotten(game) EXCEPT !.wiped = TRUE, !.alarm = NoTime]
          /\ UNCHANGED queue
     ELSE LET g == Awake(socket)
              spent == [g EXCEPT !.alarm = NoTime]
          IN  /\ game' = IF g.down THEN spent ELSE Scheduled(spent, now)
              /\ queue' = Append(queue, [op |-> "alarm"])
  /\ UNCHANGED <<now, socket, identity, flight, reported, faults>>

-----------------------------------------------------------------------------
(* Operations: one at a time, in the order of the queue.                   *)

Dequeue(op) == flight = Idle /\ queue # <<>> /\ Head(queue).op = op /\ queue' = Tail(queue)

\* publishCommitted: an outcome is broadcast, then told to the Lobby.
Publish(g, by) ==
  flight' = IF g.room.status = "done"
            THEN [kind |-> "publish", by |-> by, reason |-> g.room.reason,
                  winner |-> g.room.winner]
            ELSE Idle

Writes == {"ok"} \cup (IF "write" \in Faults /\ faults < MaxFaults
                       THEN {"put_fails", "alarm_fails"} ELSE {})
Spend(write) == faults' = IF write = "ok" THEN faults ELSE faults + 1

\* A failed write is answered with an error and published to nobody.
Committed(g, after, published) ==
  \E write \in Writes :
    LET g2 == Mutated(g, after, now, write)
    IN  /\ Spend(write)
        /\ game' = g2
        /\ IF published /\ ~g2.down THEN Publish(g2, "client") ELSE flight' = Idle

Ignored == game' = game /\ flight' = Idle /\ UNCHANGED faults

SeatHeld(r, c) == \E s \in Seats : HoldsSeat(r, s, c)
SeatOf(r, c) == CHOOSE s \in Seats : HoldsSeat(r, s, c)

RunMove ==
  /\ Dequeue("move")
  /\ LET c == Head(queue).conn
         g == Rebound(game, Live, now)
     IN  IF socket[c] # "open" \/ game.down \/ game.wiped THEN Ignored
         ELSE \E m \in Moves, verdict \in {"moved", "goal"} :
                Committed(g, IF SeatHeld(g.room, c)
                           THEN HandleMove(g.room, SeatOf(g.room, c), m, NoRevision,
                                           verdict, now)
                           ELSE g.room, TRUE)
  /\ UNCHANGED <<now, socket, identity, reported>>

RunLeave ==
  /\ Dequeue("leave")
  /\ LET c == Head(queue).conn
         g == Rebound(game, Live, now)
     IN  IF socket[c] # "open" \/ game.down \/ game.wiped THEN Ignored
         ELSE Committed(g, IF SeatHeld(g.room, c)
                         THEN LeavePlayer(g.room, SeatOf(g.room, c), now) ELSE g.room,
                      TRUE)
  /\ UNCHANGED <<now, socket, identity, reported>>

\* handleClose: an attach that was not finished is undone, a seat starts its grace.
RunClose ==
  /\ Dequeue("close")
  /\ LET c == Head(queue).conn
     IN  IF game.down \/ game.wiped THEN Ignored
         ELSE IF c \in DOMAIN game.provisional
         THEN /\ game' = RolledBack(game, c, now)
              /\ Publish(RolledBack(game, c, now), "client")
              /\ UNCHANGED faults
         ELSE Committed(game, IF SeatHeld(game.room, c)
                            THEN DisconnectPlayer(game.room, SeatOf(game.room, c), now)
                            ELSE game.room, SeatHeld(game.room, c))
  /\ UNCHANGED <<now, socket, identity, reported>>

\* Up to the await of the ticket's signature.
RunAttach ==
  /\ Dequeue("attach")
  /\ LET c == Head(queue).conn
         s == Head(queue).seat
         g == Rebound(game, Live, now)
     IN  IF socket[c] # "open" \/ game.down \/ game.wiped THEN Ignored
         ELSE /\ game' = g
              /\ flight' = [kind |-> "attach", conn |-> c, seat |-> s,
                            previous |-> g.room.conn[s]]
              /\ UNCHANGED faults
  /\ UNCHANGED <<now, socket, identity, reported>>

\* The transaction aborts or the room refuses the attach.
AttachRejected ==
  /\ flight.kind = "attach"
  /\ LET c == flight.conn
         s == flight.seat
         tried == IF Accepts(game, s, now) THEN Attached(game, c, s, now)
                  ELSE IF game.room.seated[s] /\ game.room.connected[s]
                  THEN DisconnectPlayer(game.room, s, now) ELSE game.room
     IN  /\ IF Accepts(game, s, now) THEN Fault("transaction") ELSE UNCHANGED faults
         /\ game' = Reloaded(game, tried, c, now)
  /\ flight' = Idle
  /\ UNCHANGED <<now, socket, identity, queue, reported>>

\* The attach commits.  If the socket closed during the await, it is left
\* provisional for handleClose to undo.
AttachAccepted ==
  /\ flight.kind = "attach"
  /\ LET c == flight.conn
         s == flight.seat
         previous == flight.previous
         g == AttachCommitted(game, c, s, now)
         done == CommitAttach(g, c)
     IN  /\ Accepts(game, s, now)
         /\ \/ /\ socket[c] = "open"
               /\ identity' = [x \in Conn |-> IF x = c THEN s
                                              ELSE IF x = previous THEN NoSeat
                                              ELSE identity[x]]
               /\ socket' = [x \in Conn |->
                               IF x = previous /\ socket[x] = "open" THEN "closing"
                               ELSE socket[x]]
               /\ game' = done
               /\ Publish(done, "client")
               /\ UNCHANGED faults
            \/ /\ socket[c] = "open"
               /\ Fault("install")
               /\ game' = RolledBack(g, c, now)
               /\ socket' = [socket EXCEPT ![c] = "closing"]
               /\ flight' = Idle
               /\ UNCHANGED identity
            \/ /\ socket[c] # "open"
               /\ game' = g
               /\ flight' = Idle
               /\ UNCHANGED <<socket, identity, faults>>
  /\ UNCHANGED <<now, queue, reported>>

-----------------------------------------------------------------------------
(* processAlarm and DurableRoomAdapter.onAlarm, one action per branch.     *)

Report(reason, winner) ==
  flight' = [kind |-> "publish", by |-> "alarm", reason |-> reason, winner |-> winner]

\* A cleanup that failed is tried again, once for each failure.
RetryAlarm ==
  /\ game.retry # NoSeat
  /\ IF game.retry \in game.emitted
     THEN game' = game /\ flight' = Idle
     ELSE LET r == Payload(game.room, now)
          IN  /\ game' = [game EXCEPT !.room = r, !.emitted = @ \cup {game.retry}]
              /\ Report(game.retry, r.winner)

OutcomeAlarm ==
  /\ game.retry = NoSeat /\ game.room.status = "done"
  /\ LET reason == game.room.reason
     IN  IF reason \in game.emitted
         THEN game' = game /\ flight' = Idle
         ELSE /\ game' = [RetryScheduled(game, reason, now) EXCEPT
                            !.emitted = @ \cup {reason}]
              /\ Report(reason, game.room.winner)

CreatorAlarm ==
  /\ game.retry = NoSeat /\ AwaitsCreator(game) /\ CreatorDeadline <= now
  /\ LET g == Persisted([game EXCEPT !.consumed = TRUE, !.room = Payload(@, now)])
     IN  game' = [RetryScheduled(g, CreatorTimeout, now) EXCEPT
                    !.emitted = @ \cup {CreatorTimeout}]
  /\ Report(CreatorTimeout, NoSeat)

\* An outcome is stored; a clock that was only settled is not.
LifecycleAlarm ==
  /\ game.retry = NoSeat /\ game.room.status # "done"
  /\ ~(AwaitsCreator(game) /\ CreatorDeadline <= now)
  /\ LET settled == SettleClock(game.room, now, TRUE)
         r == Payload(ExpireReconnect(ExpireWaitingCreator(settled, now), now), now)
         g == [game EXCEPT !.room = r]
     IN  IF r.status = "done"
         THEN /\ game' = [RetryScheduled(Persisted(g), r.reason, now) EXCEPT
                            !.emitted = @ \cup {r.reason}]
              /\ Report(r.reason, r.winner)
         ELSE game' = Scheduled(g, now) /\ flight' = Idle

RunAlarm ==
  /\ Dequeue("alarm")
  /\ IF game.down \/ game.wiped THEN game' = game /\ flight' = Idle
     ELSE RetryAlarm \/ OutcomeAlarm \/ CreatorAlarm \/ LifecycleAlarm
  /\ UNCHANGED <<now, socket, identity, reported, faults>>

-----------------------------------------------------------------------------
(* The Lobby's answer, eviction and time.                                  *)

Outcome == [reason |-> flight.reason, winner |-> flight.winner]

LobbyAnswers ==
  /\ flight.kind = "publish"
  /\ game' = Terminalized(game, flight.reason, now)
  /\ reported' = Outcome
  /\ flight' = Idle
  /\ UNCHANGED <<now, socket, identity, queue, faults>>

\* The request, or only its answer, is lost.
LobbyFails ==
  /\ flight.kind = "publish"
  /\ Fault("lobby")
  /\ game' = RetryScheduled(game, flight.reason, now)
  /\ reported' \in {reported, Outcome}
  /\ flight' = Idle
  /\ UNCHANGED <<now, socket, identity, queue>>

Hibernate ==
  /\ game.loaded /\ queue = <<>> /\ flight = Idle
  /\ Fault("hibernate")
  /\ game' = Forgotten(game)
  /\ UNCHANGED <<now, socket, identity, queue, flight, reported>>

\* The runtime runs an interrupted alarm handler again.
Crash ==
  /\ ~game.wiped
  /\ Fault("crash")
  /\ game' = [Forgotten(game) EXCEPT !.alarm = IF AlarmRuns THEN now ELSE @]
  /\ socket' = [c \in Conn |-> IF socket[c] = "idle" THEN "idle" ELSE "closed"]
  /\ identity' = [c \in Conn |-> NoSeat]
  /\ queue' = <<>>
  /\ flight' = Idle
  /\ reported' \in {reported} \cup (IF flight.kind = "publish" THEN {Outcome} ELSE {})
  /\ UNCHANGED now

\* Bound: after MaxTime the clock only goes on to an armed alarm.
Tick ==
  /\ now < MaxTime \/ now < game.alarm
  /\ now' = now + 1
  /\ UNCHANGED <<game, socket, identity, queue, flight, reported, faults>>

\* DurableRoomAdapter.create, at the Lobby's initialization request.
Init ==
  /\ now = 0
  /\ game = [loaded |-> TRUE, down |-> FALSE, room |-> NewRoom(0), emitted |-> {},
             provisional |-> NoSnapshots, saved |-> NewRoom(0),
             retry |-> NoSeat, terminal |-> NoSeat, gcAt |-> NoTime,
             consumed |-> FALSE, alarm |-> CreatorDeadline, wiped |-> FALSE]
  /\ socket = [c \in Conn |-> "idle"]
  /\ identity = [c \in Conn |-> NoSeat]
  /\ queue = <<>>
  /\ flight = Idle
  /\ reported = NotReported
  /\ faults = 0

Operation ==
  RunMove \/ RunLeave \/ RunClose \/ RunAttach \/ RunAlarm
    \/ AttachRejected \/ AttachAccepted \/ LobbyAnswers

Next ==
  \/ \E c \in Conn :
       \/ \E s \in Seats : SendAttach(c, s)
       \/ \E op \in {"move", "leave"} : SendCommand(c, op)
       \/ Close(c)
  \/ AlarmFires
  \/ RunMove \/ RunLeave \/ RunClose \/ RunAttach \/ RunAlarm
  \/ AttachRejected \/ AttachAccepted \/ LobbyAnswers \/ LobbyFails
  \/ Hibernate \/ Crash \/ Tick

Safe == Init /\ [][Next]_vars

\* Operations complete, alarms run, time passes; a Lobby that fails finitely
\* often answers.  This is WF_vars(Operation) and WF_vars(AlarmFires) with ENABLED
\* spelled out: an operation can step whenever one is queued or in flight.
Runnable == flight # Idle \/ queue # <<>>
Due == ~game.wiped /\ ~AlarmRuns /\ game.alarm # NoTime /\ game.alarm <= now

Fairness ==
  /\ []<>~Runnable \/ []<><<Operation>>_vars
  /\ []<>~Due \/ []<><<AlarmFires>>_vars
  /\ WF_vars(Tick)

Spec == Safe /\ Fairness

-----------------------------------------------------------------------------
(* Properties.                                                             *)

Quiet == queue = <<>> /\ flight = Idle

\* A game with a winner keeps it: in storage, whatever is lost or retried.
WinnerFinal ==
  [][game.saved.winner # NoSeat => game'.saved.winner = game.saved.winner
                                   /\ game'.saved.reason = game.saved.reason]_vars

\* A stored move is never undone.
MovesKept == [][game'.saved.ply >= game.saved.ply]_vars

\* A player who is away has a deadline: the seat is either resumed or lost.
AwayHasDeadline ==
  \A s \in Seats :
    game.loaded /\ ~game.down /\ game.room.status # "done"
      /\ game.room.seated[s] /\ ~game.room.connected[s]
    => game.room.deadline[s] # NoTime

\* Once its operations are done a seat that counts as connected has an open
\* socket that is bound to it, so no player is waited for who is gone.
NoGhostSeat ==
  Quiet /\ game.loaded /\ ~game.down /\ game.room.status # "done" =>
    \A s \in Seats : game.room.connected[s] =>
      /\ game.room.conn[s] # NoConn
      /\ socket[game.room.conn[s]] = "open"
      /\ identity[game.room.conn[s]] = s

\* The game ends in time: by d, unless its object was evicted before it stored an
\* outcome that was only read.  Then the alarm is that of the outcome.
WakesBy(d) ==
  /\ game.alarm # NoTime
  /\ game.alarm <= NotBefore(now, d) + (IF game.loaded THEN 0 ELSE AlarmRetry)

\* An object with nothing to do is armed for every deadline of its game, so that
\* it wakes even if everyone left.
AlarmArmed ==
  Quiet /\ ~game.down /\ ~game.wiped /\ game.terminal = NoSeat =>
    IF game.room.status = "done" THEN game.alarm # NoTime
    ELSE \A d \in LifecycleDeadlines(game) : WakesBy(d)

\* A game that started ends and is reported to the Lobby, over failures of the
\* Lobby and evictions of the object, even if every player stays away.
Reported == game.saved.status = "playing" ~> reported.reason # NoSeat

\* The clock of a connected player on turn runs, whoever else went away.
ClockOnTurnRuns ==
  Quiet /\ game.loaded /\ ~game.down /\ game.room.status = "playing"
    /\ game.room.connected[game.room.turn]
    => game.room.running = game.room.turn

\* What storage, sockets, deadlines and clocks have to agree on between operations.
GameSound == TypeOK /\ AwayHasDeadline /\ NoGhostSeat /\ ClockOnTurnRuns
=============================================================================
