# OTTv2: TLA+ models, model checking and proofs

OTTv2 is an online board game for two players, played in a web client against a friend, a computer or in tournaments, and
two systems in which uploaded bots play each other (the arena and the Bot Cup). This directory models the parts of it
that keep state while several actors act on it, checks them with TLC on small instances and proves the most important
of their invariants with TLAPS for every instance.

## 1. The system: components, state, interactions

| component | state it keeps | operations | talks to |
|---|---|---|---|
| Room (`packages/game-core/src/room.js`) | status, seats, sockets, clocks, grace periods, revision, last move | addPlayer, handleMove, leavePlayer, disconnectPlayer, resumePlayer, expireReconnect, expireWaitingCreator, reconcileHydration, payload | called by its host only |
| Rules (`packages/game-core/src/rules.js`) | none: functions of a position | applyMove, legalMoves, elapseClock | Room, bots |
| Game Durable Object (`apps/worker/src/game`, `persistence/room-storage.ts`) | the Room in memory and in storage, attached sockets, pending attaches, alarm, cleanup retry | attach, move, leave, close, alarm, terminalize, wipe | sockets; Lobby over HTTP |
| Capabilities (`apps/worker/src/auth/internal-auth.ts`) | nonces, receipts, invites, seat names | initialize, issue and verify tickets, seat updates, invites | Lobby and Game |
| Lobby Durable Object (`apps/worker/src/lobby/ott-lobby-server.ts`) | waiting rooms, reservations, active set, terminal outcomes, catalog outbox | create, join, invite, resume, spectate, terminalize, collect garbage | Game, lobby stream |
| Catalog outbox, lobby stream (`ott-lobby-stream-server.ts`) | outbox rows with leases, cached catalog, subscribers | enqueue, deliver, resend | Lobby to stream to clients |
| Human tournaments (`tournament-coordinator.ts`, `packages/arena/src/domain/human-tournaments`) | bracket, fence token, provisioned matches | start, advance, provision, sync | Lobby, Games |
| Arena jobs (`packages/arena-node/src/persistence`, `worker`) | jobs, attempts, leases, matches, results, ratings, standings, live frames | enqueue, claim, heartbeat, release, recover, finalize, retry | workers over one SQLite file |
| Arena match (`packages/arena/src/application/match-controller.mjs`, `packages/arena-node/src/execution`) | one run's turn, banks, journal; each bot's process and channel | start, request, judge, abort, stop | bot processes over their standard streams |
| Formats (`packages/arena/src/domain/formats`) | none: functions of earlier rounds | round robin, Swiss, byes, seats | competitions, human tournaments |
| Bot Cup queue (`apps/bot-cup-api/src/runner`, `apps/bot-cup-runner`) | jobs, leases, matches, submissions in D1 | claim, report, verdict, expire, requeue, rerun | runner machines over HTTP |
| Bot Cup tournament (`apps/bot-cup-api/src/tournament`, `apps/bot-cup-admin`) | phase, entrants, pairings, bracket, documents | plan of a step from what was read, batch that commits it | organisers over HTTP; the queue plays its games |
| Web client sessions (`apps/web/src/sessions`) | pending move, revision, reconnection | send, apply, resume | Game, Lobby stream |

What is hard, and where. A Durable Object runs one event at a time, but only between awaits: an attach awaits
`crypto.subtle`, a terminalization awaits the Lobby, and other events run meanwhile. It may be evicted at any time, with its
hibernated sockets or without them. Alarms run at their time or later, and again after a failure. Each side of a request may
lose the answer. Arena and Bot Cup workers hold leases that may expire while they still work. Clocks are charged
lazily: whoever touches a room first must settle the time that passed.

What must hold, per component:

* Room: a finished game keeps its outcome; the clocks charge exactly the time a player was on turn and present; a move is
  applied to the position it was sent for and never after the flag; a seat is lost only after a full grace period; every
  reachable room can be stored and loaded.
* Game object: what was stored is not undone; a seat that counts as connected has a socket; an object that has something left
  to do has an alarm for it; each game ends and the Lobby learns of it.
* Lobby: one guest per room, and Lobby and Game agree on who it is; a reservation is confirmed or given back; an outcome is
  recorded once; the catalog that readers see only moves forward and reaches the last one.
* Human tournaments: a match has one room, its own; a result that was taken over stays; a tournament comes to its end over
  failed and overtaken provisioning.
* Arena and Bot Cup jobs: a match is settled once whatever expires, crashes or is retried; only the holder of the lease
  settles; each job ends or is retried; a tournament is complete exactly when its matches are.
* Arena match: the loser of a forfeit did what it is blamed for, whatever order answers, timers and exits come in; an
  interrupted run never counts; every run ends with no process left.
* Formats: everybody is seated once per round, pairs meet as often as the format says, a Swiss rematch is forced or does not
  happen, byes and seats are fair.
* Bot Cup tournament: the bracket follows from the winners that were stored, the ranking is a ranking, and the organisers
  always have a next step.

## 2. Plan

Done, in this order:

1. `GameRoom`, `RoomLifecycle`, `RoomProofs`: the Room as operators, one game without faults, and its proofs. The most
   important behaviour of the system: every other component only creates, hosts or reads Rooms.
2. `DurableGame` and `DurableGameProofs`: the object around the Room, with evictions, failed writes, failed requests and awaits.
   It drives the same operators of `GameRoom` that `RoomLifecycle` drives.
3. `ArenaJobs`, `ArenaCompetition`, `ArenaProofs`: queue, worker, finalizer and tournament retry over one database, and the
   rounds of a competition over them.
4. `Lobby` with `RoomDirectory`, the specification it implements, and `LobbyProofs`.
5. `CatalogOutbox` with `CatalogFeed`, the specification it implements, and `CatalogProofs`.
6. `HumanTournament`, `Pairing` for who meets whom, and `TournamentProofs` about both.
7. `ArenaMatch` and `ArenaMatchProofs`: one match between two bots.
8. `BotCupQueue`, `BotCupEvent`, and `BotCupProofs` about both.

Left, in the order of what it would add:

* a bound on how often a Swiss player gets the same seat (section 7), which would be a theorem about the search and the
  results together;
* a specification of a match's outcome (waiting, playing, decided once) that `RoomLifecycle` and `DurableGame` both implement;
* the web client's session (pending move, resume, the stream's gap recovery) composed with `DurableGame`;
* the read-only answers of the Lobby, its rate limiter, alias collisions between rooms;
* the bracket of sixteen and the appeals of the Bot Cup.

## 3. Modules and the code they model

| module | models | uses |
|---|---|---|
| `GameRoom` | `packages/game-core/src/room.js` and the parts of `rules.js` it calls, as operators on a record | |
| `RoomLifecycle` | one game without faults: a host runs one Room method at a time and broadcasts | `GameRoom` |
| `RoomProofs` | proofs | `RoomLifecycle` |
| `DurableGame` | `ott-game-server.ts` and `room-storage.ts` (worker and partykit) around the same Room | `GameRoom` |
| `DurableGameProofs` | proofs | `DurableGame` |
| `Lobby` | one room of `ott-lobby-server.ts`, with the credentials and invites of `internal-auth.ts` | `RoomDirectory` |
| `RoomDirectory` | what the Lobby promises about one room | |
| `LobbyProofs` | proofs, the refinement among them | `Lobby` |
| `CatalogOutbox` | the Lobby's outbox, `ott-lobby-stream-server.ts`, the browser's `OnlineLobbyStream.ts` | `CatalogFeed` |
| `CatalogFeed` | what the catalog promises its readers | |
| `CatalogProofs` | proofs, the refinement among them | `CatalogOutbox` |
| `HumanTournament` | `tournament-coordinator.ts` over `human-tournament.mjs` | |
| `Pairing` | `packages/arena/src/domain/formats` and the standings its two callers hand it | |
| `TournamentProofs` | proofs about both | `HumanTournament`, `Pairing` |
| `ArenaJobs` | queue, workers, finalizer, live frames, builds, matches and tournaments of the arena | |
| `ArenaCompetition` | the rounds of a competition over those jobs | `ArenaJobs` |
| `ArenaProofs` | proofs about both | `ArenaCompetition` |
| `ArenaMatch` | `match-controller.mjs`, `process-bot.mjs`, `ndjson-channel.mjs` | |
| `ArenaMatchProofs` | proofs | `ArenaMatch` |
| `BotCupQueue` | the runner API, the queue and the runner, for one submission | |
| `BotCupEvent` | `tournament/engine.mjs` and the organisers' steps in `bot-cup-admin` | |
| `BotCupProofs` | proofs about both | `BotCupQueue`, `BotCupEvent` |
| `MCGame`, `MCArena`, `MCPairing`, `MCBotCup` | the values TLC uses | |

**GameRoom.** A Room is one record; each of its fields is a field of the class, `Payload` is `payload()`, and one operator per
method returns the Room the method leaves. `conn[s]` is the socket of seat `s`, `remaining`, `running` and `anchor` the clock,
`deadline` the grace periods, `revision` and `structural` the two counters a move is compared with, `lastMove` the duplicate
check. `NoTime`, `NoSeat`, `NoConn` stand for null. The board is left out: whether the rules accept a move and whether it wins
is a nondeterministic verdict. The Room's own timers are left out because the worker injects a scheduler that never fires.

**RoomLifecycle.** One action per call a host makes: `Join`, `Move`, `Leave`, `Disconnect`, `Resume`, `Alarm`, and `Tick`. `Mutate`
is `DurableRoomAdapter.mutate`: the method, then `payload()`, then the broadcast. `published`, `thinking` and `lostAt` are history
variables: what was broadcast, how long each seat was on turn and present, when it last went away.

**DurableGame.** `game` is the adapter in memory (`loaded`, `down` = unavailable, `room`, `emitted`, `provisional` = snapshots of
pending attaches) and its storage (`saved`, `retry`, `terminal`, `gcAt`, `consumed`, `alarm`, `wiped`). `queue` is the promise chain
`roomOperationTail`; `Send*`, `Close` and `AlarmFires` put an operation on it, `Run*` takes the first one and runs it up to its
first await on something other than storage. Two awaits leave the object open to other events, and `flight` is the operation
that waits there: the verification of an attach ticket (`AttachRejected`, `AttachAccepted`) and the report to the Lobby
(`LobbyAnswers`, `LobbyFails`). `Faults` says which faults an instance has, each bounded by `MaxFaults`.

**Lobby.** `room`, `listed`, `alias`, `cred` and `invites` are the storage keys of one allocation, `game` what the Game object has
recorded for it, and `reqs` the requests that have passed their first transaction and await the Game. A request is two or
three actions: the reservation (`ReserveJoin`, `ReserveClaim`), the Game's seat receipt (`SeatUpdate`, whose answer may be lost) and the
second transaction (`FinalizeJoin`, `FinalizeClaim`) with its rollback. `Create`, `InitializeGame`, `PublishRoom` and `RollbackCreate`
are the create request, `CheckInvite` and `StoreInvite` a create-invite, `InviteAges` and `Alarm` the sweep of old invites and of
claims older than sixty seconds, `Terminalize` and `CollectTerminal` the end of a room, `Restart` an eviction with requests in
flight. A credential is named by the one who knows it, `Lost` if nobody does. A request's retry with the same proof is the
`proof` parameter of `ReserveClaim`. `told`, `raced` and `restarted` are history.

**CatalogOutbox.** A catalog is its revision. `Commit` is any transaction that changes it; `Work(t)` takes a delivery one await
further (claim, call, answer, completion or restore), `CallFails` and `LeaseEnds` are its failures, `FallsDue` the Lobby's alarm.
`memory` and `disk` are the stream's two caches, `ask` the snapshot a subscription waits for, `reader` the browser with its own
revision check and reconnections. `Hibernate` and `StreamCrashes` lose the memory, `LobbyCrashes` the handlers.

**HumanTournament.** `Register`, `Start`, `Advance`, `Sync` are the requests; `Start` and `Advance` commit the round and then leave a
request in `reqs` that provisions room after room (`Work`), each with a call to a Game that may fail; `fence` is the
provisioning fence with its lease, and a request that outlives it is overtaken. Of the Game behind a room the model knows how
far it came: its invites run out (`InvitesEnd`) with both players, the first one or not even that one attached. A game that is
played ends and is reported (`GameOver`); a first player who waits may go (`CreatorGoes`), which ends the room, but need not; a
room without its first player is given up after an hour (`CreatorDeadline`), and that report is sent once and may be lost. A
report may also arrive twice (`GameReportsAgain`).

**Pairing.** One step pairs a round by the code's algorithm and plays it with some results. The operators are those of
`round-robin.mjs`, `swiss.mjs` and `formats/index.mjs`; the properties are stated over all matchings and all games and do not know
the algorithm. `setup.caller` tells the arena from the human tournaments, which hand over different standings. The circle, the
search (`RematchFree`) and the fallback (`GreedyFallback`) are recursive functions, the last two over the sets of players that are
left. The search's limit of 5000 steps is modelled by who it can concern: a pool of ten takes at most 1333 steps, so only
in a larger one (`PoolSearchedThrough`) may the search give up, and then the model leaves open whether it does.

**ArenaJobs.** The variables are the tables: `job` (jobs), `attempts` (job_attempts), `target` (matches.status and
bot_versions.build_status), `result`, `seq`, `rated`, `standing`, `tournament`, `frames`; and `worker`, the processes. Each
`BEGIN IMMEDIATE` transaction is one action; between two of them every other process may act. `Poll` is the recovery at the
beginning of `runOnce`, the `Claim*` actions are `claimNextJob`, `Heartbeat`, `Play` (one live frame), `Settle` (`finalizeMatch`),
`Built` (`completeBuildJob`), `RunEnds` (a run that throws or was aborted), `Stop` (`releaseJob`), `Crash` and `Start`. `left` counts the
ticks until `datetime('now') > lease_until`. The lease token is the number of the attempt, since each claim draws a fresh one.
Which queued job is the oldest is left open.

**ArenaCompetition.** The administrator's requests over those jobs: `Launch`, `NextRound(expected)`, `Complete`, `RetryMatch`.

**ArenaMatch.** `ref` is the controller's run (`bank` is `remainingMs`, `elapsed` the time of the turn that is out, `moves` and
`finished` the replay journal), `bot` each bot's process and channel (`eof`, `exited`, `pending` request, `partial` line, first
`fault`). Every callback of the event loop is one action together with all it resolves: `Settle` judges the turn in the
order the code looks at the evidence (`Judged`), plays the move and asks for the next one. `guilty` and `spent` are history: who
broke a rule or used up its time, and how much time each bot took. `KillTree` and `StopEnds` are `stop()`.

**BotCupQueue.** A D1 statement or batch is one step: `Run(r)` is the runner machine, `Serve(r, k)` one statement of the handler of
its call, `AnswerLost`, `HandlerDies`, `RunnerDies`, `LeaseEnds` the faults, `RequeueJob` and `RerunMatch` the admin. A runner has up to
two calls open, because a call whose answer is lost goes on beside its repetition. `clean` (the games recorded without a fault), `requeued` (the
jobs an admin put back) and `cut` (a handler died) are history.

**BotCupEvent.** `Plan(o)` reads the database and works out an organiser's step, `Commit(o)` runs its statements with the guards they
have, `Abort(o)` drops it; between the two games end or are played again, results are set by hand, teams disqualified, and other
organisers' steps planned and run. `audited` retries a batch that lost the race for the chain head with the statements it has, so
a batch is one atomic `Commit`, refused only when another already wrote the document it publishes (`Refused`). `stale` and `overtaken` are history:
whose plan was read before another's batch moved what it may have read (`Overtakes`), and whether the batch of such a plan was run.
A team's games are reduced to what the step reads of them: played or not, the points that open the gate, an order of the table.

## 4. The runs

| run | instance | shows |
|---|---|---|
| `room` | `RoomLifecycle`: 2 sockets, 2 moves, clock 2, grace 1, 9 ticks, 4 revisions | the inductive invariant with types, validation and exact clocks; no move after the flag, fresh moves only, grace periods kept, a final outcome; a game that started ends |
| `game` | `DurableGame`: 3 sockets, one fault of: identity not attached, write failed, evicted | the stored game, its seats, clock and alarm stay consistent; nothing stored is undone |
| `game_reported` | `DurableGame`: 2 sockets, one fault of: Lobby failed, evicted, hibernated | every started game is reported in the end |
| `lobby` | 2 guests, 2 invites, 2 requests in flight | the inductive invariant, one guest per seat who can resume, reservations end, refinement of `RoomDirectory` |
| `catalog` | 1 browser, 2 handlers, 2 revisions, 2 attempts, 2 reconnections, 2 faults | the outbox keeps its books, refinement of `CatalogFeed`, readers catch up |
| `human_tournament` | 2 requests, 4 players, 2 rounds, 5 rooms, 3 troubles | rooms and results fit, results stay, a tournament without forsaken matches ends |
| `pairing` | round-robins of 2 to 8, Swiss of 2 to 6, 8 and 12 players | schedules complete, no needless rematch, byes in turn, seat A to the one who had it less |
| `arena_jobs` | 2 workers, a build, a match, 3 attempts each | one attempt counts, the tables agree, each job ends |
| `arena_rounds` | 1 worker, 2 bots, 3 matches in 2 rounds, 1 attempt and a retry | the inductive invariant, the standings, rounds one after another, results for good |
| `arena_match` | bank 3, turn limit 2, first-move grace 0 or 4, 4 plies, timer at most 1 tick late | deserved blame, a sound run, an end without processes |
| `botcup_queue` | 2 runners, 1 check, 4 games, 2 attempts, 1 fault, 1 requeue | done means played, verdicts given and earned, each job ends |
| `botcup_event` | 5 teams, 2 tables, 2 organisers, 1 team that may be disqualified, 4 knockout pairings, 1 change | bracket, ranking, a next step, what is published stands |

*Why the bounds are enough.* In `room` the clock of two ticks allows a seat to be charged before, at and beyond its end, the
grace period of one to end before, with and after the other one, and nine ticks let a game that starts at time 0 or 1 come to
its end by the clocks. Seats and sockets play symmetric roles, and the theorems remove the bounds. In `game` a third socket
takes a seat over while the first one's close is queued; the run has
one fault of three classes; the theorems hold for any number of faults, and section 6 says for which classes together. `MaxTime` bounds ticks, but the clock always goes on to
an armed alarm. In `lobby` two guests contest the seat and two invites let a claim of the second one meet the first's
reservation; the theorems hold for any number of each. In `catalog` two revisions allow one delivery to overtake the other,
two attempts allow a retry and a surrender, and two faults a slow call whose lease ends before the next crash; three
deliveries can do more than two (section 7), and what is proved holds for any number. In `human_tournament` two tables leave a round provisioned by half, a fifth room is the orphan of a failed attempt. In
`pairing`, Swiss
tournaments are played with every result up to four players, with wins and losses at five (an odd field) and six, and with seat A
always winning at eight and at twelve, where the search may give up; the theorems have any number. In
`arena_jobs` two workers are enough to overtake each other, three attempts are the code's default, and a lease of one tick is good,
in its last second or expired. `arena_rounds` keeps one worker, because its questions are about what is counted when; a
stalled run followed by a second claim of the same worker still happens. In `arena_match` a bank of three with a turn limit
of two lets a turn end by either, and four plies each bot move twice, with and without its grace. In `botcup_queue` two runners
overtake each other after a lease, and a repeated call meets its original; the theorems hold for any number of faults. In `botcup_event` four
teams fill the bracket and play a round robin, five a Swiss tournament, a disqualification or failed interviews leave three or
fewer; the two tables differ in two places. The gate lets the first so many teams through (`GateResults`), and the team that may be
disqualified (`Suspects`) is one of those the tables swap; the two organisers are symmetric, and no property tells one from the
other. The one change (`MaxChanges`) is a game played again, a result set by hand, an interview decided again or a step begun
while the other organiser's is under way: the same step twice, or two that exclude each other. `MaxPairings` stops the model
before a bracket is entered a second time: an overtaken knockout-start that would double the bracket is beyond it, and with
six pairings, where it is not, `BracketSound` fails without its exception for overtaken plans. `RankingSound` needs its exception within
these bounds already. The theorems hold for any values.

CHECK_DEADLOCK is FALSE everywhere: a finished game, an idle queue and a bound that is reached are states in which a system
may really rest.

## 5. Fairness

* `RoomLifecycle`: time passes, and an alarm that is due is handled. Players owe nothing. Cloudflare promises that an armed alarm
  runs at least once; `scheduleAlarm` arms it after every operation.
* `DurableGame`: an operation that is queued or waiting completes, a due alarm runs, time passes. These are weak fairness of
  `Operation` and of `AlarmFires` with ENABLED written out. The Lobby fails at most `MaxFaults` times; with a Lobby that never
  answers nothing can be reported.
* `Lobby`: the alarm runs, invites age, and an awaited call returns or throws. Guests, owner and claimants owe nothing: a claimant
  who never comes back is exactly the case of `ReservationEnds`.
* `CatalogOutbox`: a handler at work goes on, leases and retry times pass, the alarm runs, a browser that waits for a snapshot or
  a reconnection gets on with it. Faults are bounded by `MaxFaults`.
* `HumanTournament`: a request goes on, leases and invites run out, a game that both players entered ends (`GameEnds` of `room`) and
  is reported (`Reported` of `game_reported`), the alarm of a room without its first player fires, and the organiser presses
  "advance" again and again: an assumption about a person, without which a tournament stands still by design. Nothing is assumed
  of a first player who waits for a second one that never comes: no deadline is armed for that room (`room-storage.ts:243`). Nor is
  a report assumed that was lost with nothing left to retry it (`:328`). `TournamentEnds` therefore excepts tournaments in which,
  from some time on, always some match of the round is one of these two (`Forsaken`); section 7.
* `ArenaJobs`: each worker polls, decides on a claim and ends its runs, a stopped worker is started again (the process supervisor),
  and time passes. A run ends because every match has clocks (`RunEnds`) and every build a time limit. Nothing is assumed of
  heartbeats.
* `ArenaMatch`: time passes, the event loop runs its timers, spawning succeeds or fails, and a stop goes through. Nothing is assumed
  of a bot: not that it answers, reads its input or ends.
* `BotCupQueue`: runners poll, handlers go on, leases end.
* `Pairing` and `BotCupEvent` have no fairness and no liveness property: what happens next is up to people. That they can go on is
  the invariant `NotStuck`.

The safety properties are checked and proved without any fairness.

## 6. What is proved

Eight modules prove their facts for every value of the constants that satisfies the named assumptions. No proof uses fairness:
the theorems are stated of `Spec`, of `Safe`, which is `Spec` without its fairness, or of `EventSpec` and `PairingSpec`, which have
none.

**RoomProofs.** Assumptions: null values differ from sockets and moves (`SentinelAssumption`), the clock is positive and
the grace period a number (`ClockAssumption`), bounds are numbers (`BoundAssumption`); no set is assumed finite and no value small. The
properties are not inductive: that a move is fresh depends on what was broadcast, that the clock is exact depends on which
clock was left running. `RoomInv` adds what connects them: every revision broadcast since the last structural one shows the
present position (`Broadcast`), the clock that runs is that of the seat on turn if it is connected (`ClockSound`), the time
charged so far is the history variable `thinking` (`Charged`), and a grace period that runs began at `lostAt` (`GraceSound`).
`RoomAlwaysSound` is `Spec => []RoomInv`, one step per method; `TypeCorrect`, `AlwaysHydratable`, `ClockIsExact`, and the action
properties `OutcomeIsFinal`, `NoMoveOnZero`, `MovesAreFresh` and `GraceIsHeld` follow from it.

**ArenaProofs.** Assumptions: matches and bots are different jobs, finitely many matches (their settlements are counted),
sentinels are not members (`TargetsAssumption`), pairings are typed (`PairingAssumption`), limits are positive
(`LimitAssumption`). The invariant `JobsInv` joins what must hold with three facts: a worker that runs has a job
(`WorkersSound`), a job that was never queued has no attempts (`NotQueued`), and the matches of a round that was not launched
have no jobs (`NotLaunched`). The argument goes row by row. `Sound` relates one job's row, its attempts and its target;
`RowAt` and `RowsTogether` translate between the rows and the invariants; one lemma per change of a row (`ClaimRow`,
`FencedRow`, `EndedRow`, `RegrantedRow`, ...) shows that it stays sound; `OneStep`, `QueueStep` and `TablesKept` lift a change
of one row, of many and of none to the whole database. Settlement is the only step that touches everything: `NextSeqIs` shows
that the highest number so far is the number of settled matches, which makes the new number the next one. `SettledSafe` is an
action property: a completed job is never claimed, expired, released, retried or created again, so no step reaches the row of
a settled match. `Ledger` speaks of cardinalities: a settlement adds one match to the sets that ratings and standings are compared with
(`FinalizeLedger`), every other step leaves them alone (`QuietLedger`). The competition's invariant is `CompInv`, that is `JobsInv`,
`Ledger` and `CompSound` (a round has a tournament exactly when it is not after the current one, the earlier ones are over).
`CompStep` shows that every step of a competition is a step of its jobs, so only `CompSound` has to be proved again, and
`RoundsGated` follows.

**LobbyProofs.** Assumption: owner, nobody, a lost credential and the guests differ, and no invite is "no invite"
(`DistinctConstants`); guests, invites and requests may be any number. That one guest is told the seat is theirs depends on
what every request in flight still believes, so `LobbyInv` adds it: what a request has checked is still true or its second
transaction will notice (`RequestsSound`, `JoinsSound`), a reservation belongs to one invite and one name (`ReservationSound`), a
room that is not published has no guest (`Unpublished`), the seat is free while nobody holds it (`SeatFree`), and the
Game's receipt, the Lobby's record and the guest's credential are of one guest once the room plays (`Seated`). One lemma per
operation. `SeatAlwaysTheGuests` follows from the invariant, and `LobbyImplementsDirectory` is the refinement: creation and
publication, the last step of a join or claim, and the end of a room are the three steps of `RoomDirectory`, all others
stutter.

**ArenaMatchProofs.** Assumption: bank, turn limit and number of plies are positive, graces and lateness are numbers
(`MatchAssumption`). Blame is deserved because of what each fault seen by the controller says about the bot's past
(`FaultsDeserved`), because only the bot on turn has a request (`OneRequest`), and because a bank is what is left of the time the
bot took (`PhasesSound`): a turn over its budget then means that the bot had all its time (`BudgetMeansOverdue`). Inside a step the
run goes through states no other callback sees; `On` and `Off` describe them, and `JudgedSound`, `PlayedSound`, `AskedSound`
follow the code through them. `RunAlwaysSound` and `BlameAlwaysDeserved` are the theorems.

**DurableGameProofs.** Assumptions: those of `GameRoom`, deadlines and retries positive, bounds numbers (`DurableAssumption`). The
proof goes up the layers of the code: what each Room method leaves (`Fine`, the seats, the clock), then what the adapter's
load, write, attach, rollback and alarm make of it, then one lemma per action. Four invariants are built on one another:

* `Typed`, under every fault: types, and every room in memory, storage or snapshot is `Fine`. `GameTyped` follows.
* `Kept`, without "interrupt": memory has every move and the winner of storage (`Lasts`), there is no snapshot left to roll back
  to, and an attach in flight still has its socket. `WinnerAlwaysFinal` and `MovesAlwaysKept` follow. The condition is needed: an
  attach whose socket closes is rolled back over later moves (section 7).
* `Strong`, also without "transaction" and "hibernate" (`Steady`): the rooms in memory and storage are `Sound` (away means a grace
  period, the player on turn has a running clock that has not ended); they agree but for reads of the clock that were not stored
  (`Agrees`); and each seat has one open socket with its identity, or a close or an attach of it is still queued (`Bound`,
  `Sockets`). `GameAlwaysSound` follows. The condition is needed, because an interrupted or aborted attach and a hibernated socket
  may leave a seat without socket or grace period.
* `ArmedInv`: the alarm covers every deadline, or an outcome whose alarm could not be written is being told to the Lobby.
  `AlarmAlwaysArmed` follows unless writes fail and the object crashes too (section 7). The run `game` has either, but once; the
  theorem has any number of either.

**CatalogProofs.** Assumption: attempts positive, no record equals "none" (`OutboxAssumption`); handlers, browsers, revisions and
faults may be any number. `OutboxStrong` adds to `OutboxInv` what each delivery carries (`Deliveries`), that its attempt is at
most that of the claim and spent when the notification waits again (`Attempts`), that a revision waits or is claimed and never both
(`Records`), and that memory, answers and screens follow what is stored (`Loaded`, `Answers`, `Shown`).
`OutboxImplementsFeed` is the refinement of `CatalogFeed`: a commit, a stored delivery and a shown catalog are its three steps.

**TournamentProofs, the tournament of people.** Assumption: limits are numbers, null is none of the values, finitely many requests (they are counted;
`TournamentAssumption`). `NoOrphans` is not inductive, because a lost lease makes a request that may leave an orphan later.
`Charged` counts both: orphans and overtaken requests together are at most the faults so far. The rest of `TournamentStrong` is
what a request knows of its room in each phase (`RequestsSound`), that no two requests work on the same room (`RoomsApart`), and
that rounds and status go together. `TournamentAlwaysSound` and `MatchesAreFinal` follow.

**TournamentProofs, the pairing.** Assumption: a tournament has a known format, at least two players and a number of rounds
(`SetupsAssumption`); how many players and rounds is left open. What the recursive functions compute is not taken
from their definition: `SearchExists` and `GreedyExists` construct a function that satisfies it, pools of one size from the smaller
ones, and only then is it unfolded. A pairing is `Perfect` when it gives everybody one opponent. `GreedySound` has the fallback
perfect, `SearchSound` has what the search returns perfect and without a rematch, and `SearchComplete` shows that it
returns something whenever any way to find partners exists: the strongest player's partner in that way is a candidate,
and the others have a way among themselves. For the round-robins `CircleIs` says where everybody sits after r turns, so two
players meet in the round in which their places add up to the size of the circle plus one; `MeetOnce` is the
arithmetic that this happens exactly once in a leg, and `KeptSeats` lets the empty place of an odd field be the bye. The inductive
invariant `PairingFits` lifts this to tournaments: every round played seats everybody (`RoundsSeated`), there is one game for
each of its pairs (`OneGamePerPair`), and a round-robin follows the circle (`RoundRobinFollowed`). `SchedulesSound` follows from it.
`RematchesForced` and `SwissStaysFair` are inductive beside it: games of the past stay and keep their past, and the new round
is what the lemmas say of it, read from games and byes that `PairingFits` knows to be sound.

**BotCupProofs, the queue.** Assumption: jobs are numbered, checks and games differ, there is a check, attempts are positive
(`QueueAssumption`). Runners, repeated calls and faults may be any number. `Fenced` says why a job that is done was played: no
report carries an attempt beyond the job's, a claim that has not marked its match yet belongs to a job that is not done, and
every report on its way is of an earlier attempt. It excludes jobs an admin put back, for the reason in section 7. `Decided` says
that a verdict is there once every game ended, or a handler that will write it is at work (`WillDecide`), or one died there;
`Recordings` that who is about to write "ready" saw two clean games. `ResultsAreKept` and `VerdictAlwaysSound` follow.

**BotCupProofs, the event.** Assumption: teams and tables are what `BotCupEvent` takes them for (`EventAssumption`); teams,
overlapping organisers and bounds are any. Lists of teams are filtered and sorted; `FilterIs`, `NthIs` and `ConcatApart` say once who
remains, in which order, and that nobody is named twice. All four theorems hold of any number of organisers.
`EventNotStuck`: the conditions of the steps leave no gap between them. For bracket and ranking the invariant is `EventFits`. It
describes the bracket per phase (no rows, two semi-finals, then third place match and final of their losers and winners) and adds
that a plan no other batch has overtaken still fits the state its own batch will find: games may end, be played again or be given a
result, and teams be disqualified in between, but nothing of that changes which rows there are or a winner that is set. A batch
that moves phase, bracket or interviews puts every other plan that may have read them into `stale`, and the invariant asks
nothing of those; it ends when the batch of one of them is run (`overtaken`), which `audited()` allows (section 7).
`EventBracket` and `EventRanking` follow, with that exception and no other. `EventPublished` has no exception: what a published
document stands on is written only together with that document, and the document's primary key refuses a second one, whoever
wrote what in between.

**Only model-checked.** Liveness (`GameEnds`, `Reported`, `ReservationEnds`, `ReadersCatchUp`, `TournamentEnds`, `RunEnds`, both
`JobsEnd`), which is beyond the prover, and what only liveness needs. Every invariant, action property and
refinement the runs check is the subject of a theorem, in part under conditions that the theorem names (which faults). Of a game whose attach was interrupted, aborted or followed by hibernation the theorems say less (`GameTyped`; what
is stored stays, unless interrupted), and no run says more but `game_reported`, which has hibernation.

## 7. Observations

What the modelling showed of the code, or against what a document or comment says. No run depends on them.

*Rooms and Games.*
* When the alarm is handled after both grace periods ended at different times, seat A loses, whichever ended first
  (`room.js:383`; `Rule.md:397`).
* A leave that closed a waiting room, followed by a failed request to the Lobby, marks the seat connected again; a second leave
  of the same socket makes the empty seat the winner (`room-storage.ts:146`, `room.js:332`).
* A waiting room whose creator never attached is closed; if the Lobby request fails, its alarm is deleted and nothing retries
  the cleanup (`room-storage.ts:328`, `ott-game-server.ts:843`).
* A socket that closes while its attach awaits can be rolled back later than a move of the opponent that was stored and
  broadcast in between (`ott-game-server.ts:374`, `room-storage.ts:170`). `MovesKept` holds in `game` under the faults listed there.
* With hibernation, a seat whose replacing attach was rejected stays disconnected without a grace period, and a close that
  wakes a hibernated object stops the clock of the opponent, who is connected, until the next message. `game_reported` therefore
  checks what is reported and not the seats; `Rule.md:394-397` expects both.
* After a failed write the adapter is unavailable and no alarm runs until the object is evicted. If the write that failed was the
  alarm of a game that has just ended, and the object is evicted before the Lobby was told, the stored game is over and
  nothing wakes the object to report it. So a failed write followed by a crash breaks `AlarmArmed`.
* A load that finds the clock expired ends the game in memory only. If the object is evicted before the outcome is stored, its
  alarm is the one set for the outcome, up to `alarmRetryMs` after the deadline that storage shows. `AlarmArmed` allows an
  evicted object that much; without it, it held in the run only because of its bounds.

*Lobby.*
* The alarm releases a claim older than sixty seconds counted from the invite's creation, so a claim of an old invite may be
  released while its call is in flight (`ott-lobby-server.ts:537-540`): `GuestCanResume` makes an exception for it (`raced`).
* Names are compared as display names: two guests with the same name could both be seated. Names differ in the model.
* A join interrupted by an eviction leaves the room "joining". The last answer of a claim cannot be repeated once it was
  stored; the lost answer of a resume locks the holder out. An invite that is being minted can outlive its room.
* A catalog change can be forgotten, although a "durable outbox" is to guarantee its delivery
  (`docs/superpowers/specs/2026-09-29-public-match-stream-design.md:75`). Three deliveries of revisions 1, 2 and 3 overlap; 1 fails
  and is put back; 3 fails while that record waits, and its claim is deleted without a record (`ott-lobby-server.ts:428-437`);
  2 succeeds and deletes the waiting record as older (`:471-473`). Nothing is left that would send revision 3 until the next
  change. The attempt to prove the contrary showed it; two revisions, as in `catalog`, are not enough for it.
* The Lobby's revision checks are redundant with its delivery order, and a claim's random token with revision and attempt.

*Human tournaments.*
* The first participant always gets the bye: `advanceRound` hands over records keyed `participantId`, and `assembleParticipants`
  reads `botId` (`human-tournament.mjs:405`, `swiss.mjs:131-139`; `swiss.mjs:9` says otherwise). `SwissFair` therefore asks
  fair byes of the arena only.
* Seat invites expire after ten minutes while the creator has an hour, and are not issued again. A first player who came in
  time then waits for a second one who cannot come any more, in a room without a deadline (`room-storage.ts:243`), and the round stands
  still until that player goes. So it does, for good, when the one report of a room nobody entered is lost (`:328`).
* The fence check and the check whether a match is already provisioned cover for each other.

*Arena.*
* Three graceful stops of workers use up a job's attempts: the match ends in error without having been played.
* A match whose request failed between `createMatch` and `enqueueJob` stays pending without a job until the request is repeated.
* `retryMatch` of the repository checks nothing itself; its callers do, and `SettledForGood` depends on that.
* A refused build completion marks its attempt as fenced in a transaction that is rolled back (`bot-version-service.mjs:457`).
* If both bots are at fault in a turn, the one that is not on turn loses; a fault of the bot that waits is noticed when the turn
  ends, and the supervisor's abort not before both bots have started.
* The alternation of seats "for fair balance" (`domain/round-robin.mjs:144`) gives a player the same seat several rounds in a
  row.
* A Swiss round gives seat A to the one of the two who had it less, and that is all that can be said of seats (`SwissFair`): the
  pairing looks at seats only after points and wins, so the difference between a player's seats is not bounded. With eight
  players and seat A always winning, one player has seat A in all of three rounds; with twelve one reaches a difference of
  four. The bounds in `tests/arena-formats.test.js` (at most one after three rounds with eight players, `:544-553`; below three with
  sixteen, `:556-561`) hold for the results those tests play.

*Bot Cup.*
* `audited()` retries its statements on the new head of the audit chain, so two organisers who press a step together can run
  it twice (a second set of gate games, a second bracket, a phase that moves back), although `tournament-routes.mjs:4` excludes it. A
  final document may so be planned from an interview that was changed before its batch. Only the steps that publish a document are safe:
  its primary key refuses the second one (`PublishedStands`).
* `planKnockoutAdvance` and `finalDocument` do not look at `disqualified_at` (`docs/bot-cup/runbook.vi.md:27`,
  `docs/evidence/2026-10-24-bot-cup-p7.md:21`). Fewer than two teams to pair leave the phase "qualifying" for good (`Stranded` in
  `BotCupEvent`). A pairing's stored winner is not decided again when its game is played again or given another result later
  (`engine.mjs:370`), although `engine.mjs:4-5` has "a rerun or an approved result change ... picked up everywhere". `BracketSound` asks
  that the bracket follow the winners that are stored, and no property says that these are still the winners of the games.
* `requeueJob` sets a job's attempts back to 0 (`bot-cup-admin/src/app.mjs:416-427`), so a claim may get the number of an earlier one
  whose report is still on its way: that report finishes the job, and the claim then marks the finished match as running, for
  good. `DoneMeansPlayed` is therefore not said of requeued jobs.
* `completeMatch` updates the match without a guard on the attempt, so a late report can overwrite a result; a late `fail` puts
  the job back by its own attempt, so a job may be handed out more often than three times (`bot-cup-runner/README.md:12`); a
  handler that dies between result and verdict leaves the submission "checking"; `rerunMatch` does not cancel a game that
  runs (the runbook says it does).

*Web client* (not modelled). While the first attach waits, a socket that closes makes the client resume and rotate its credential;
if the attach watchdog fires then, `retryUnansweredAttach` uses the old credential, gets a 401 and clears the valid one.

## 8. What is not modelled

* Abstracted everywhere: boards and legal moves, where a nondeterministic verdict stands for them; signatures, which are
  assumed to verify; parsing, presentation, transport.
* The web client: its sessions (the pending move, reconnection, stored credentials) would be the next module; its screens and
  gateways are presentation and request code without shared state, and the largest part of the sources.
* HTTP APIs, contracts and validation of the arena, the Bot Cup API's CRUD, static checks of uploads: functions of one request.
* Containers, profiles and builds, the Bot Cup executor, process trees: what the operating system does; their outcomes are
  inputs of `ArenaJobs`, `ArenaMatch` and `BotCupQueue`.
* Replays and their validation, rating formulas, the computer opponent, the earlier PartyKit server except for its
  `room-storage.js`.
* Inside modelled components: spectators, public summary and nonce purging of the Game; rate limits, alias collisions and
  read-only answers of the Lobby; the stream's resend outbox; access secrets of human tournaments; heartbeats, probes,
  priorities, practice games and rechecks of the Bot Cup queue; its bracket of sixteen, appeals and tie-break arithmetic; how
  many steps a Swiss search takes (whether it gives up is left open where it may).

The mapped definitions stand for about an eighth of the implementation's lines: most of the rest is of the kinds above, and a
map that claimed it would name lines no definition translates. `PROJECT.json` lists every component with its status and its
hazards.
