--------------------------- MODULE CatalogOutbox ---------------------------
(* The list of running matches on its way from the Lobby Durable Object through the     *)
(* stream object "ott-lobby-public" to the browsers: the Lobby's durable outbox          *)
(* (ott-lobby-server.ts), the stream's cache (ott-lobby-stream-server.ts) and the        *)
(* reader (OnlineLobbyStream.ts).  A catalog is its revision.  A handler runs without    *)
(* interruption between its calls to other objects, as a Durable Object's gates make it. *)
(* Deadlines are flags that time sets: a claim's lease, a retry's next attempt.  The     *)
(* claim's random token is left out: revision and attempt already tell claims apart.     *)
EXTENDS Integers, FiniteSets, FiniteSetsExt

CONSTANTS
    Readers,        \* browsers
    Tasks,          \* handlers of the Lobby that may be at work at once
    None,           \* no record under this key
    MaxAttempts,    \* PUBLIC_CATALOG_MAX_ATTEMPTS
    MaxReconnects,  \* maxReconnectAttempts of a browser
    MaxRevision,    \* bound: changes of the catalog
    MaxFaults       \* bound: lost calls, slow calls, crashes and broken connections

Revisions == 1..MaxRevision
Attempting == [rev : Revisions, attempt : Nat, due : BOOLEAN]    \* a notification
Claiming == [attempt : Nat, live : BOOLEAN]                      \* a claim
Asking == [stage : {"asked"}] \cup [stage : {"answered"}, rev : Nat]

ASSUME OutboxAssumption ==
    /\ MaxAttempts \in Nat \ {0}
    /\ {MaxReconnects, MaxRevision, MaxFaults} \subseteq Nat
    /\ None \notin Attempting \cup Claiming \cup Asking

VARIABLES
    revision,    \* public-catalog-revision
    notify,      \* public-catalog-notify: [rev, attempt, due]
    claims,      \* public-catalog-notify-claim:<rev>: [attempt, live]
    exhausted,   \* revision of public-catalog-notify-exhausted, 0 without
    delivered,   \* public-catalog-delivered-revision
    alarm,       \* is the Lobby's alarm set?
    task,        \* the deliverCatalogNotification calls at work
    memory,      \* the stream's cachedCatalogRevision
    disk,        \* the stream's public-catalog-cache
    ask,         \* the subscription the stream works on: [stage, rev], or None
    reader,      \* the browser: [up, status, shown, tries]
    faults

lobby == <<revision, notify, claims, exhausted, delivered, alarm, task>>
stream == <<memory, disk>>
vars == <<lobby, stream, ask, reader, faults>>

Idle == [stage |-> "idle"]
ByAlarm(t) == task[t].stage # "idle" /\ task[t].alarm
Holds(t, r) == /\ task[t].stage \in {"claimed", "sent", "ok", "failed"}
               /\ task[t].rev = r
               /\ claims[r] # None
               /\ claims[r].attempt = task[t].attempt

Fault == faults < MaxFaults /\ faults' = faults + 1

-----------------------------------------------------------------------------
(* The Lobby *)

(* scheduleAlarm, as far as the outbox goes. *)
ArmedForRetry(n, c) == n # None      \* forgets the leases
Armed(n, c) == n # None \/ \E r \in Revisions : c[r] # None

Due == notify # None /\ notify.due

(* enqueueCatalogNotification: the newest revision takes the place of what was waiting. *)
Enqueue(r) ==
    /\ notify' = [rev |-> r, attempt |-> 0, due |-> TRUE]
    /\ exhausted' = 0

(* handleActiveUpdate or terminalize commits a change. *)
Commit(t) ==
    /\ task[t] = Idle
    /\ revision < MaxRevision
    /\ revision' = revision + 1
    /\ Enqueue(revision + 1)
    /\ alarm' = TRUE
    /\ task' = [task EXCEPT ![t] = [stage |-> "claiming", alarm |-> FALSE]]
    /\ UNCHANGED <<claims, delivered, stream, ask, reader, faults>>

Alarm(t) ==
    /\ alarm
    /\ task[t] = Idle
    /\ \A u \in Tasks : ~ByAlarm(u)
    /\ \/ Due
       \/ \E r \in Revisions : claims[r] # None /\ ~claims[r].live
    /\ task' = [task EXCEPT ![t] = [stage |-> "claiming", alarm |-> TRUE]]
    /\ UNCHANGED <<revision, notify, claims, exhausted, delivered, alarm, stream, ask, reader, faults>>

(* claimCatalogNotification.  A claim older than the notification is superseded and      *)
(* dropped once its lease is over; another one blocks, or is recovered after its lease.  *)
Superseded(r) == notify # None /\ notify.rev > r
Blocking == {r \in Revisions : claims[r] # None /\ ~Superseded(r)}
Kept == [r \in Revisions |-> IF claims[r] # None /\ Superseded(r) /\ ~claims[r].live
                             THEN None ELSE claims[r]]

GoOn(t, r, attempt) ==
    task' = [task EXCEPT ![t] = [stage |-> "claimed", alarm |-> task[t].alarm,
                                 rev |-> r, attempt |-> attempt]]
Stop(t) ==
    /\ task' = [task EXCEPT ![t] = Idle]
    /\ alarm' = Armed(notify', claims')

\* Mutant: a claim that is recovered keeps its attempt.
RecoverSameAttempt(t, r) ==
    /\ ~claims[r].live
    /\ notify' = None
    /\ claims' = [Kept EXCEPT ![r].live = TRUE]
    /\ GoOn(t, r, claims[r].attempt)
    /\ UNCHANGED <<exhausted, alarm>>

Recover(t, r) ==
    /\ ~claims[r].live
    /\ notify' = None
    /\ IF claims[r].attempt + 1 >= MaxAttempts
       THEN /\ exhausted' = r
            /\ claims' = [Kept EXCEPT ![r] = None]
            /\ Stop(t)
       ELSE /\ claims' = [Kept EXCEPT ![r] = [attempt |-> claims[r].attempt + 1, live |-> TRUE]]
            /\ GoOn(t, r, claims[r].attempt + 1)
            /\ UNCHANGED <<exhausted, alarm>>

Take(t) ==
    /\ Blocking = {}
    /\ Due
    /\ claims' = [Kept EXCEPT ![notify.rev] = [attempt |-> notify.attempt, live |-> TRUE]]
    /\ notify' = None
    /\ GoOn(t, notify.rev, notify.attempt)
    /\ UNCHANGED <<exhausted, alarm>>

NothingToClaim(t) ==
    /\ IF Blocking = {} THEN ~Due ELSE claims[Min(Blocking)].live
    /\ claims' = Kept
    /\ UNCHANGED <<notify, exhausted>>
    /\ Stop(t)

Claim(t) ==
    /\ task[t].stage = "claiming"
    /\ \/ Blocking # {} /\ Recover(t, Min(Blocking))
       \/ Take(t)
       \/ NothingToClaim(t)
    /\ UNCHANGED <<revision, delivered, stream, ask, reader, faults>>

(* currentPublicCatalog, then the call of the stream. *)
Send(t) ==
    /\ task[t].stage = "claimed"
    /\ task' = [task EXCEPT ![t] = [stage |-> "sent", alarm |-> task[t].alarm, rev |-> task[t].rev,
                                    attempt |-> task[t].attempt, carries |-> revision]]
    /\ UNCHANGED <<revision, notify, claims, exhausted, delivered, alarm, stream, ask, reader, faults>>

(* The call fails, before the stream saw it or on the way back. *)
CallFails(t) ==
    /\ task[t].stage \in {"sent", "ok"}
    /\ Fault
    /\ task' = [task EXCEPT ![t].stage = "failed"]
    /\ UNCHANGED <<revision, notify, claims, exhausted, delivered, alarm, stream, ask, reader>>

DropClaim(r) == claims' = [claims EXCEPT ![r] = None]

(* completeCatalogNotification. *)
Completed(r) == IF notify # None /\ notify.rev <= r THEN None ELSE notify
Complete(t) ==
    /\ task[t].stage = "ok"
    /\ IF Holds(t, task[t].rev)
       THEN /\ DropClaim(task[t].rev)
            /\ delivered' = Max({delivered, task[t].carries})
            /\ notify' = Completed(task[t].rev)
            /\ exhausted' = IF exhausted <= task[t].carries THEN 0 ELSE exhausted
       ELSE UNCHANGED <<claims, delivered, notify, exhausted>>
    /\ Stop(t)
    /\ UNCHANGED <<revision, stream, ask, reader, faults>>

(* restoreCatalogNotification. *)
Retry(t) ==
    LET r == task[t].rev  next == task[t].attempt + 1
    IN  IF delivered >= r \/ notify # None
        THEN UNCHANGED <<notify, exhausted>>
        ELSE IF next >= MaxAttempts
        THEN exhausted' = r /\ UNCHANGED notify
        ELSE notify' = [rev |-> r, attempt |-> next, due |-> FALSE] /\ UNCHANGED exhausted
Restore(t) ==
    /\ task[t].stage = "failed"
    /\ IF Holds(t, task[t].rev)
       THEN DropClaim(task[t].rev) /\ Retry(t)
       ELSE UNCHANGED <<claims, notify, exhausted>>
    /\ Stop(t)
    /\ UNCHANGED <<revision, delivered, stream, ask, reader, faults>>

(* Time: a retry falls due, a lease ends; under a call still at work that takes a fault. *)
FallsDue ==
    /\ notify # None /\ ~notify.due
    /\ notify' = [notify EXCEPT !.due = TRUE]
    /\ UNCHANGED <<revision, claims, exhausted, delivered, alarm, task, stream, ask, reader, faults>>

LeaseEnds(r) ==
    /\ claims[r] # None /\ claims[r].live
    /\ IF \E t \in Tasks : Holds(t, r) THEN Fault ELSE UNCHANGED faults
    /\ claims' = [claims EXCEPT ![r].live = FALSE]
    /\ UNCHANGED <<revision, notify, exhausted, delivered, alarm, task, stream, ask, reader>>

(* The Lobby is restarted: what was at work is gone, an alarm it was handling is repeated. *)
LobbyCrashes ==
    /\ \E t \in Tasks : task[t] # Idle
    /\ Fault
    /\ task' = [t \in Tasks |-> Idle]
    /\ UNCHANGED <<revision, notify, claims, exhausted, delivered, alarm, stream, ask, reader>>

-----------------------------------------------------------------------------
(* The stream and the browsers *)

(* OnlineLobbyStream.handleMessage *)
Shows(c, rev) == IF rev > reader[c].shown
                 THEN [reader[c] EXCEPT !.shown = rev, !.status = "ready"] ELSE reader[c]

(* POST /internal/active-update: the cache is loaded, and a newer catalog goes to all. *)
AlwaysNews(rev, cached) == TRUE
IsNews(rev, cached) == rev > cached
TakesUpdate(t) ==
    /\ task[t].stage = "sent"
    /\ LET cached == Max({memory, disk})  rev == task[t].carries
       IN  IF IsNews(rev, cached)
           THEN /\ memory' = rev /\ disk' = rev
                /\ reader' = [c \in Readers |-> IF reader[c].up THEN Shows(c, rev) ELSE reader[c]]
           ELSE memory' = cached /\ UNCHANGED <<disk, reader>>
    /\ task' = [task EXCEPT ![t].stage = "ok"]
    /\ UNCHANGED <<revision, notify, claims, exhausted, delivered, alarm, ask, faults>>

(* handleOpen, sendSubscribe: the subscription reaches the stream. *)
Subscribe(c) ==
    /\ ~reader[c].up
    /\ reader[c].status \in {"loading", "reconnecting"}
    /\ reader' = [reader EXCEPT ![c].up = TRUE, ![c].status = "ready", ![c].tries = 0]
    /\ ask' = [ask EXCEPT ![c] = [stage |-> "asked"]]
    /\ UNCHANGED <<lobby, stream, faults>>

(* The Lobby answers /internal/public-active-snapshot. *)
Snapshot(c) ==
    /\ ask[c] # None /\ ask[c].stage = "asked"
    /\ ask' = [ask EXCEPT ![c] = [stage |-> "answered", rev |-> revision]]
    /\ UNCHANGED <<lobby, stream, reader, faults>>

(* The stream goes on with the answer: it takes over a newer one, and sends what it has. *)
TakesSnapshot(c) ==
    /\ ask[c] # None /\ ask[c].stage = "answered"
    /\ LET newer == IsNews(ask[c].rev, memory)
           now == IF newer THEN ask[c].rev ELSE memory
       IN  /\ memory' = now
           /\ disk' = IF newer THEN now ELSE disk
           /\ reader' = [reader EXCEPT ![c] = IF reader[c].up THEN Shows(c, now) ELSE reader[c]]
    /\ ask' = [ask EXCEPT ![c] = None]
    /\ UNCHANGED <<lobby, faults>>

(* No snapshot: the browser is told "active_matches_unavailable". *)
SnapshotFails(c) ==
    /\ ask[c] # None
    /\ Fault
    /\ ask' = [ask EXCEPT ![c] = None]
    /\ reader' = [reader EXCEPT ![c].status = IF reader[c].up THEN "unavailable" ELSE @]
    /\ UNCHANGED <<lobby, stream>>

(* The browser loses its connection: it shows what it has and tries again a few times. *)
LosesLink(c) == IF reader[c].up THEN [reader[c] EXCEPT !.up = FALSE, !.status = "reconnecting"]
                                ELSE reader[c]
Disconnect(c) ==
    /\ reader[c].up
    /\ Fault
    /\ reader' = [reader EXCEPT ![c] = LosesLink(c)]
    /\ UNCHANGED <<lobby, stream, ask>>

ReconnectFails(c) ==
    /\ ~reader[c].up /\ reader[c].status = "reconnecting"
    /\ Fault
    /\ reader' = [reader EXCEPT ![c].tries = @ + 1,
                                ![c].status = IF reader[c].tries + 1 >= MaxReconnects THEN "error" ELSE @]
    /\ UNCHANGED <<lobby, stream, ask>>

(* An idle stream hibernates: its memory is lost, its connections stay. *)
Hibernate ==
    /\ memory # 0
    /\ \A c \in Readers : ask[c] = None
    /\ memory' = 0
    /\ UNCHANGED <<lobby, disk, ask, reader, faults>>

(* A stream that crashes loses its memory, its connections and what it was doing. *)
StreamCrashes ==
    /\ Fault
    /\ memory' = 0
    /\ ask' = [c \in Readers |-> None]
    /\ reader' = [c \in Readers |-> LosesLink(c)]
    /\ UNCHANGED <<lobby, disk>>

-----------------------------------------------------------------------------
Init ==
    /\ revision = 0 /\ notify = None /\ exhausted = 0 /\ delivered = 0 /\ alarm = FALSE
    /\ claims = [r \in Revisions |-> None]
    /\ task = [t \in Tasks |-> Idle]
    /\ memory = 0 /\ disk = 0
    /\ ask = [c \in Readers |-> None]
    /\ reader = [c \in Readers |-> [up |-> FALSE, status |-> "loading", shown |-> -1, tries |-> 0]]
    /\ faults = 0

Work(t) == Alarm(t) \/ Claim(t) \/ Send(t) \/ TakesUpdate(t) \/ Complete(t) \/ Restore(t)
Reads(c) == Subscribe(c) \/ Snapshot(c) \/ TakesSnapshot(c)

Next ==
    \/ \E t \in Tasks : Commit(t) \/ Work(t) \/ CallFails(t)
    \/ \E r \in Revisions : LeaseEnds(r)
    \/ \E c \in Readers : Reads(c) \/ SnapshotFails(c) \/ Disconnect(c) \/ ReconnectFails(c)
    \/ FallsDue \/ LobbyCrashes \/ Hibernate \/ StreamCrashes

(* Handlers at work go on, deadlines pass, alarms fire, browsers try again. *)
Fairness ==
    /\ \A t \in Tasks : WF_vars(Work(t))
    /\ \A r \in Revisions : WF_vars(LeaseEnds(r))
    /\ \A c \in Readers : WF_vars(Reads(c))
    /\ WF_vars(FallsDue)

Spec == Init /\ [][Next]_vars /\ Fairness

-----------------------------------------------------------------------------
(* Properties *)

TaskType ==
    {Idle} \cup [stage : {"claiming"}, alarm : BOOLEAN]
    \cup [stage : {"claimed"}, alarm : BOOLEAN, rev : Revisions, attempt : Nat]
    \cup [stage : {"sent", "ok", "failed"}, alarm : BOOLEAN, rev : Revisions, attempt : Nat,
          carries : Nat]

ReaderType ==
    [up : BOOLEAN, status : {"loading", "ready", "unavailable", "reconnecting", "error"},
     shown : Nat \cup {-1}, tries : Nat]

TypeOK ==
    /\ revision \in Nat /\ delivered \in Nat /\ exhausted \in Nat /\ faults \in Nat
    /\ notify \in Attempting \cup {None}
    /\ claims \in [Revisions -> Claiming \cup {None}]
    /\ alarm \in BOOLEAN
    /\ task \in [Tasks -> TaskType]
    /\ memory \in Nat /\ disk \in Nat
    /\ ask \in [Readers -> Asking \cup {None}]
    /\ reader \in [Readers -> ReaderType]

Waiting == notify # None \/ \E r \in Revisions : claims[r] # None

\* What the Lobby noted as delivered the stream has stored, and memory never runs ahead
\* of the disk it is loaded from.
Confirmed == delivered <= disk /\ memory <= disk /\ disk <= revision

\* While anything waits or is claimed the alarm comes back for it, and until a first
\* delivery is confirmed a change waits, is claimed or was given up on record.
Guarded ==
    /\ Waiting => alarm
    /\ revision > 0 /\ delivered = 0 => Waiting \/ exhausted # 0

\* A claim has one holder: of the handlers that took it, one after the other as leases
\* ended, only the last may complete or restore it.
OneHolder == \A t, u \in Tasks, r \in Revisions : Holds(t, r) /\ Holds(u, r) => t = u

(* The outbox over lost and late answers, ended leases, retries and restarts               *)
(* (claim, restore and completeCatalogNotification with scheduleAlarm).  It does not say    *)
(* that no change is ever forgotten: three deliveries that overlap can do that.             *)
OutboxInv == TypeOK /\ Confirmed /\ Guarded /\ OneHolder

(* The stream and every browser move from a catalog to a later one, across slow and failed  *)
(* deliveries, snapshots overtaken by deliveries, hibernation, crashes and reconnections.    *)
Feed == INSTANCE CatalogFeed WITH
            committed <- revision, published <- disk, seen <- [c \in Readers |-> reader[c].shown]
ImplementsFeed == Feed!FeedSpec

(* Unless the Lobby gave the last change up, or forgot it, a browser that says it is ready   *)
(* comes to show the last catalog (deliverCatalogNotification, alarm, dispatchCustomMessage). *)
ReadersCatchUp ==
    \A c \in Readers :
        <>[](reader[c].status = "ready" /\ exhausted = 0 /\ (Waiting \/ delivered = revision)
                => reader[c].shown = revision)
=============================================================================
