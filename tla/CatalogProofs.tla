--------------------------- MODULE CatalogProofs ---------------------------
(***************************************************************************)
(* Proofs about the catalog's way to its readers, for any number of them,  *)
(* of handlers, revisions, attempts and faults: the outbox keeps its       *)
(* books, and what stream and readers show implements CatalogFeed.  The    *)
(* inductive invariant is OutboxStrong.  Fairness is not used.             *)
(***************************************************************************)
EXTENDS CatalogOutbox, WellFoundedInduction, TLAPS

-----------------------------------------------------------------------------
(* The inductive invariant.                                                 *)

Carrying == {"sent", "ok", "failed"}
AtWork == Carrying \cup {"claimed"}

\* A delivery carries its own revision or a later one, and what the stream took it stored.
DeliveryFits(k, newest, stored) ==
  /\ k.stage \in AtWork => k.rev <= newest
  /\ k.stage \in Carrying => k.rev <= k.carries /\ k.carries <= newest
  /\ k.stage = "ok" => k.carries <= stored

\* Its attempt is at most the one the claim is at, and spent when the notification waits.
AttemptSpent(k, c, n) ==
  k.stage \in AtWork =>
    /\ c[k.rev] # None => k.attempt <= c[k.rev].attempt
    /\ n # None /\ n.rev = k.rev => k.attempt < n.attempt

\* A revision waits or is claimed, never both, and not before it was committed.
RecordsApart(n, c, newest) ==
  /\ n # None => n.rev <= newest /\ c[n.rev] = None
  /\ \A r \in Revisions : c[r] # None => r <= newest

\* An answer is current for a stream that has lost its memory.
AnswerFits(a, m, d, newest) ==
  a # None /\ a.stage = "answered" => a.rev <= newest /\ (a.rev >= d \/ m = d)

Deliveries == \A t \in Tasks : DeliveryFits(task[t], revision, disk)
Attempts == \A t \in Tasks : AttemptSpent(task[t], claims, notify)
Records == RecordsApart(notify, claims, revision)
Answers == \A c \in Readers : AnswerFits(ask[c], memory, disk, revision)
Loaded == memory \in {0, disk}
Shown == \A c \in Readers : reader[c].shown <= disk

OutboxStrong ==
  /\ OutboxInv
  /\ Deliveries /\ Attempts /\ Records
  /\ Answers /\ Loaded /\ Shown

-----------------------------------------------------------------------------
(* Numbers, and the records of the outbox.                                  *)

LEMMA LargerOfTwo ==
  ASSUME NEW m \in Nat, NEW n \in Nat
  PROVE  /\ Max({m, n}) \in Nat /\ Max({m, n}) \in {m, n}
         /\ Max({m, n}) >= m /\ Max({m, n}) >= n
<1>1. \E x \in {m, n} : \A y \in {m, n} : x >= y
  <2>1. CASE m >= n  BY <2>1
  <2>2. CASE n >= m  BY <2>2
  <2> QED  BY <2>1, <2>2
<1> QED  BY <1>1 DEF Max

(* A nonempty set of natural numbers has a smallest element. *)
LEMMA SmallestOf ==
  ASSUME NEW S \in SUBSET Nat, S # {}
  PROVE  Min(S) \in S
<1> DEFINE Less == OpToRel(<, Nat)
<1>1. IsWellFoundedOn(Less, Nat)
  BY NatLessThanWellFounded
<1>2. \A x, y \in Nat : <<y, x>> \in Less <=> y < x
  BY DEF OpToRel
<1> HIDE DEF Less
<1>3. PICK x \in S : \A y \in S : ~ (<<y, x>> \in Less)
  BY <1>1, WFMin
<1>4. ASSUME NEW y \in S  PROVE x <= y
  <2>1. x \in Nat /\ y \in Nat
    OBVIOUS
  <2>2. ~(y < x)
    BY <1>2, <1>3, <2>1
  <2> QED  BY <2>1, <2>2
<1> QED  BY <1>4 DEF Min

LEMMA TaskKinds ==
  ASSUME NEW k \in TaskType
  PROVE  /\ k.stage = "idle" \/ k.stage = "claiming" \/ k.stage = "claimed" \/ k.stage = "sent"
            \/ k.stage = "ok" \/ k.stage = "failed"
         /\ k.stage = "idle" => k = Idle
         /\ k.stage # "idle" => k.alarm \in BOOLEAN
         /\ k.stage \in AtWork => k.rev \in Revisions /\ k.rev \in Nat /\ k.rev >= 1
                                  /\ k.attempt \in Nat
         /\ k.stage \in Carrying => k.carries \in Nat
<1> QED  BY DEF TaskType, Idle, AtWork, Carrying, Revisions

LEMMA NewTasks ==
  /\ Idle \in TaskType /\ Idle.stage = "idle"
  /\ \A b \in BOOLEAN : [stage |-> "claiming", alarm |-> b] \in TaskType
  /\ \A b \in BOOLEAN, r \in Revisions, n \in Nat :
        [stage |-> "claimed", alarm |-> b, rev |-> r, attempt |-> n] \in TaskType
  /\ \A b \in BOOLEAN, r \in Revisions, n \in Nat, c \in Nat : \A st \in Carrying :
        [stage |-> st, alarm |-> b, rev |-> r, attempt |-> n, carries |-> c] \in TaskType
BY DEF TaskType, Idle, Carrying

(* A task that moves to another stage with what it carries. *)
LEMMA NextStage ==
  ASSUME NEW k \in TaskType, k.stage \in Carrying, NEW st \in Carrying
  PROVE  /\ [k EXCEPT !.stage = st] \in TaskType
         /\ [k EXCEPT !.stage = st].stage = st
         /\ [k EXCEPT !.stage = st].rev = k.rev
         /\ [k EXCEPT !.stage = st].attempt = k.attempt
         /\ [k EXCEPT !.stage = st].carries = k.carries
         /\ [k EXCEPT !.stage = st].alarm = k.alarm
<1>1. k \in [stage : {"sent", "ok", "failed"}, alarm : BOOLEAN, rev : Revisions, attempt : Nat,
             carries : Nat]
  BY DEF TaskType, Carrying, Idle
<1> QED  BY <1>1 DEF TaskType, Carrying

LEMMA RecordFields ==
  ASSUME TypeOK
  PROVE  /\ notify # None => /\ notify.rev \in Revisions /\ notify.rev \in Nat /\ notify.rev >= 1
                             /\ notify.attempt \in Nat /\ notify.due \in BOOLEAN
         /\ \A r \in Revisions : claims[r] # None =>
              claims[r] \in Claiming /\ claims[r].attempt \in Nat /\ claims[r].live \in BOOLEAN
BY DEF TypeOK, Attempting, Claiming, Revisions

LEMMA NewRecords ==
  /\ \A n \in Nat, b \in BOOLEAN : /\ [attempt |-> n, live |-> b] \in Claiming
                                  /\ [attempt |-> n, live |-> b] # None
  /\ \A r \in Revisions, n \in Nat, b \in BOOLEAN :
        /\ [rev |-> r, attempt |-> n, due |-> b] \in Attempting
        /\ [rev |-> r, attempt |-> n, due |-> b] # None
  /\ [stage |-> "asked"] \in Asking /\ [stage |-> "asked"] # None
  /\ \A n \in Nat : /\ [stage |-> "answered", rev |-> n] \in Asking
                    /\ [stage |-> "answered", rev |-> n] # None
BY OutboxAssumption DEF Claiming, Attempting, Asking

LEMMA RevisionsAreNumbers == Revisions \subseteq Nat /\ \A r \in Revisions : r >= 1 /\ r <= MaxRevision
BY OutboxAssumption DEF Revisions

LEMMA KeptClaims ==
  ASSUME TypeOK
  PROVE  /\ Kept \in [Revisions -> Claiming \cup {None}]
         /\ \A r \in Revisions : Kept[r] = None \/ Kept[r] = claims[r]
         /\ \A r \in Revisions : Kept[r] # claims[r] => Superseded(r)
BY DEF Kept, TypeOK

LEMMA OldestBlocking ==
  ASSUME TypeOK, Blocking # {}
  PROVE  /\ Min(Blocking) \in Revisions /\ claims[Min(Blocking)] # None
         /\ ~Superseded(Min(Blocking))
<1>1. Blocking \in SUBSET Nat
  BY RevisionsAreNumbers DEF Blocking
<1>2. Min(Blocking) \in Blocking
  BY <1>1, SmallestOf
<1> QED  BY <1>2 DEF Blocking

-----------------------------------------------------------------------------
(* Types.                                                                   *)

LEMMA InitTypes == Init => TypeOK
<1>1. [up |-> FALSE, status |-> "loading", shown |-> -1, tries |-> 0] \in ReaderType
  BY DEF ReaderType
<1>2. ASSUME Init  PROVE TypeOK
  <2>1. reader \in [Readers -> ReaderType] /\ ask \in [Readers -> Asking \cup {None}]
    BY <1>1, <1>2 DEF Init
  <2>2. task \in [Tasks -> TaskType] /\ claims \in [Revisions -> Claiming \cup {None}]
    BY <1>2, NewTasks DEF Init
  <2> QED  BY <1>2, <2>1, <2>2 DEF Init, TypeOK
<1> QED  BY <1>2

\* Recover, once its claim is known.
LEMMA RecoverTypes ==
  ASSUME TypeOK, NEW t \in Tasks, task[t].stage = "claiming",
         NEW r \in Revisions, claims[r] # None, Recover(t, r),
         UNCHANGED <<revision, delivered, stream, ask, reader, faults>>
  PROVE  TypeOK'
<1>1. claims[r].attempt \in Nat /\ claims[r].attempt + 1 \in Nat /\ r \in Nat
  BY RecordFields, RevisionsAreNumbers
<1>2. Kept \in [Revisions -> Claiming \cup {None}]
  BY KeptClaims
<1>3. task[t] \in TaskType /\ task[t].alarm \in BOOLEAN
  BY TaskKinds DEF TypeOK
<1>4. CASE claims[r].attempt + 1 >= MaxAttempts
  BY <1>1, <1>2, <1>4, NewTasks DEF Recover, Stop, Armed, TypeOK, stream
<1>5. CASE ~(claims[r].attempt + 1 >= MaxAttempts)
  <2>1. [attempt |-> claims[r].attempt + 1, live |-> TRUE] \in Claiming
    BY <1>1, NewRecords
  <2>2. [stage |-> "claimed", alarm |-> task[t].alarm, rev |-> r,
         attempt |-> claims[r].attempt + 1] \in TaskType
    BY <1>1, <1>3, NewTasks
  <2> QED  BY <1>2, <1>5, <2>1, <2>2 DEF Recover, GoOn, TypeOK, stream
<1> QED  BY <1>4, <1>5

LEMMA TakeTypes ==
  ASSUME TypeOK, NEW t \in Tasks, task[t].stage = "claiming", Take(t),
         UNCHANGED <<revision, delivered, stream, ask, reader, faults>>
  PROVE  TypeOK'
<1>1. notify.attempt \in Nat /\ notify.rev \in Revisions
  BY RecordFields DEF Take, Due
<1>2. Kept \in [Revisions -> Claiming \cup {None}]
  BY KeptClaims
<1>3. task[t] \in TaskType /\ task[t].alarm \in BOOLEAN
  BY TaskKinds DEF TypeOK
<1>4. [attempt |-> notify.attempt, live |-> TRUE] \in Claiming
  BY <1>1, NewRecords
<1>5. [stage |-> "claimed", alarm |-> task[t].alarm, rev |-> notify.rev,
       attempt |-> notify.attempt] \in TaskType
  BY <1>1, <1>3, NewTasks
<1> QED  BY <1>1, <1>2, <1>4, <1>5 DEF Take, GoOn, TypeOK, stream

LEMMA ClaimTypes ==
  ASSUME TypeOK, NEW t \in Tasks, Claim(t)
  PROVE  TypeOK'
<1>1. CASE Blocking # {} /\ Recover(t, Min(Blocking))
  BY <1>1, OldestBlocking, RecoverTypes DEF Claim
<1>2. CASE Take(t)
  BY <1>2, TakeTypes DEF Claim
<1>3. CASE NothingToClaim(t)
  BY <1>3, KeptClaims, NewTasks DEF Claim, NothingToClaim, Stop, Armed, TypeOK, stream
<1> QED  BY <1>1, <1>2, <1>3 DEF Claim

LEMMA CompleteTypes ==
  ASSUME TypeOK, NEW t \in Tasks, Complete(t)
  PROVE  TypeOK'
<1>1. task[t].rev \in Revisions /\ task[t].carries \in Nat
  BY TaskKinds DEF TypeOK, Complete, AtWork, Carrying
<1>2. Max({delivered, task[t].carries}) \in Nat
  BY <1>1, LargerOfTwo DEF TypeOK
<1>3. /\ claims' \in [Revisions -> Claiming \cup {None}] /\ delivered' \in Nat
      /\ notify' \in Attempting \cup {None} /\ exhausted' \in Nat
  <2>1. CASE Holds(t, task[t].rev)
    <3>1. exhausted' \in Nat
      BY <2>1 DEF Complete, TypeOK
    <3>2. claims' \in [Revisions -> Claiming \cup {None}]
      BY <1>1, <2>1 DEF Complete, DropClaim, TypeOK
    <3> QED  BY <1>2, <2>1, <3>1, <3>2 DEF Complete, Completed, TypeOK
  <2>2. CASE ~Holds(t, task[t].rev)
    BY <2>2 DEF Complete, TypeOK
  <2> QED  BY <2>1, <2>2
<1> QED  BY <1>3, NewTasks DEF Complete, Stop, Armed, TypeOK, stream

LEMMA RestoreTypes ==
  ASSUME TypeOK, NEW t \in Tasks, Restore(t)
  PROVE  TypeOK'
<1>1. task[t].rev \in Revisions /\ task[t].rev \in Nat /\ task[t].attempt + 1 \in Nat
  BY TaskKinds, RevisionsAreNumbers DEF TypeOK, Restore, AtWork, Carrying
<1>2. [rev |-> task[t].rev, attempt |-> task[t].attempt + 1, due |-> FALSE] \in Attempting
  BY <1>1, NewRecords
<1>3. /\ claims' \in [Revisions -> Claiming \cup {None}]
      /\ notify' \in Attempting \cup {None} /\ exhausted' \in Nat
  <2>1. CASE Holds(t, task[t].rev)
    <3>1. DropClaim(task[t].rev) /\ Retry(t)
      BY <2>1 DEF Restore
    <3>2. notify' \in Attempting \cup {None} /\ exhausted' \in Nat
      BY <1>1, <1>2, <3>1 DEF Retry, TypeOK
    <3> QED  BY <1>1, <3>1, <3>2 DEF DropClaim, TypeOK
  <2>2. CASE ~Holds(t, task[t].rev)
    BY <2>2 DEF Restore, TypeOK
  <2> QED  BY <2>1, <2>2
<1> QED  BY <1>3, NewTasks DEF Restore, Stop, Armed, TypeOK, stream

\* The steps that leave the outbox's records alone, or only change their deadlines.
LEMMA LobbyTypes ==
  ASSUME TypeOK, NEW t \in Tasks,
         Commit(t) \/ Alarm(t) \/ Send(t) \/ CallFails(t) \/ TakesUpdate(t)
  PROVE  TypeOK'
<1>1. task[t] \in TaskType
  BY DEF TypeOK
<1>2. CASE Commit(t)
  <2>1. revision + 1 \in Revisions /\ revision + 1 \in Nat
    BY <1>2, OutboxAssumption DEF Commit, Revisions, TypeOK
  <2>2. [rev |-> revision + 1, attempt |-> 0, due |-> TRUE] \in Attempting
    BY <2>1, NewRecords
  <2>3. [stage |-> "claiming", alarm |-> FALSE] \in TaskType
    BY NewTasks
  <2> QED  BY <1>2, <2>1, <2>2, <2>3 DEF Commit, Enqueue, TypeOK, stream
<1>3. CASE Alarm(t)
  <2>1. [stage |-> "claiming", alarm |-> TRUE] \in TaskType
    BY NewTasks
  <2> QED  BY <1>3, <2>1 DEF Alarm, TypeOK, stream
<1>4. CASE Send(t)
  <2>1. /\ task[t].alarm \in BOOLEAN /\ task[t].rev \in Revisions /\ task[t].attempt \in Nat
        /\ revision \in Nat
    BY <1>1, <1>4, TaskKinds DEF Send, AtWork, TypeOK
  <2>2. [stage |-> "sent", alarm |-> task[t].alarm, rev |-> task[t].rev,
         attempt |-> task[t].attempt, carries |-> revision] \in TaskType
    BY <2>1, NewTasks DEF Carrying
  <2> QED  BY <1>4, <2>2 DEF Send, TypeOK, stream
<1>5. CASE CallFails(t)
  <2>1. [task[t] EXCEPT !.stage = "failed"] \in TaskType
    BY <1>1, <1>5, NextStage DEF CallFails, Carrying
  <2> QED  BY <1>5, <2>1 DEF CallFails, Fault, TypeOK, stream
<1>6. CASE TakesUpdate(t)
  <2>1. [task[t] EXCEPT !.stage = "ok"] \in TaskType
    BY <1>1, <1>6, NextStage DEF TakesUpdate, Carrying
  <2>2. task[t].carries \in Nat
    BY <1>1, <1>6, TaskKinds DEF TakesUpdate, Carrying
  <2>3. Max({memory, disk}) \in Nat
    BY LargerOfTwo DEF TypeOK
  <2>4. \A c \in Readers : /\ reader[c] \in ReaderType
                           /\ Shows(c, task[t].carries) \in ReaderType
    BY <2>2 DEF Shows, TypeOK, ReaderType
  <2>5. memory' \in Nat /\ disk' \in Nat /\ reader' \in [Readers -> ReaderType]
    <3>1. CASE IsNews(task[t].carries, Max({memory, disk}))
      BY <1>6, <2>2, <2>4, <3>1 DEF TakesUpdate
    <3>2. CASE ~IsNews(task[t].carries, Max({memory, disk}))
      BY <1>6, <2>3, <3>2 DEF TakesUpdate, TypeOK
    <3> QED  BY <3>1, <3>2
  <2> QED  BY <1>6, <2>1, <2>5 DEF TakesUpdate, TypeOK
<1> QED  BY <1>2, <1>3, <1>4, <1>5, <1>6

LEMMA TimeTypes ==
  ASSUME TypeOK, FallsDue \/ LobbyCrashes \/ \E r \in Revisions : LeaseEnds(r)
  PROVE  TypeOK'
<1>1. CASE FallsDue
  <2>1. [notify EXCEPT !.due = TRUE] \in Attempting
    BY <1>1 DEF FallsDue, TypeOK, Attempting
  <2> QED  BY <1>1, <2>1 DEF FallsDue, TypeOK, stream
<1>2. CASE LobbyCrashes
  BY <1>2, NewTasks DEF LobbyCrashes, Fault, TypeOK, stream
<1>3. ASSUME NEW r \in Revisions, LeaseEnds(r)  PROVE TypeOK'
  <2>1. [claims[r] EXCEPT !.live = FALSE] \in Claiming
    BY <1>3 DEF LeaseEnds, TypeOK, Claiming
  <2>2. faults' \in Nat
    BY <1>3 DEF LeaseEnds, Fault, TypeOK
  <2> QED  BY <1>3, <2>1, <2>2 DEF LeaseEnds, TypeOK, stream
<1> QED  BY <1>1, <1>2, <1>3

LEMMA ReaderTypes ==
  ASSUME TypeOK, NEW c \in Readers,
         Reads(c) \/ SnapshotFails(c) \/ Disconnect(c) \/ ReconnectFails(c)
  PROVE  TypeOK'
<1>1. reader[c] \in ReaderType /\ ask[c] \in Asking \cup {None}
  BY DEF TypeOK
<1>2. CASE Subscribe(c)
  <2>1. [reader[c] EXCEPT !.up = TRUE, !.status = "ready", !.tries = 0] \in ReaderType
    BY <1>1 DEF ReaderType
  <2>2. reader' \in [Readers -> ReaderType]
    BY <1>2, <2>1 DEF Subscribe, TypeOK
  <2>3. ask' \in [Readers -> Asking \cup {None}]
    BY <1>2, NewRecords DEF Subscribe, TypeOK
  <2> QED  BY <1>2, <2>2, <2>3 DEF Subscribe, TypeOK, lobby, stream
<1>3. CASE Snapshot(c)
  <2>1. [stage |-> "answered", rev |-> revision] \in Asking
    BY NewRecords DEF TypeOK
  <2> QED  BY <1>3, <2>1 DEF Snapshot, TypeOK, lobby, stream
<1>4. CASE TakesSnapshot(c)
  <2>1. ask[c].rev \in Nat
    BY <1>1, <1>4 DEF TakesSnapshot, Asking
  <2> DEFINE now == IF IsNews(ask[c].rev, memory) THEN ask[c].rev ELSE memory
  <2>2. now \in Nat
    BY <2>1 DEF TypeOK
  <2>3. Shows(c, now) \in ReaderType
    BY <1>1, <2>2 DEF Shows, ReaderType
  <2>4. /\ memory' = now /\ disk' = (IF IsNews(ask[c].rev, memory) THEN now ELSE disk)
        /\ reader' = [reader EXCEPT ![c] = IF reader[c].up THEN Shows(c, now) ELSE reader[c]]
    BY <1>4 DEF TakesSnapshot
  <2> HIDE DEF now
  <2>5. memory' \in Nat /\ disk' \in Nat /\ reader' \in [Readers -> ReaderType]
    BY <1>1, <2>2, <2>3, <2>4 DEF TypeOK
  <2> QED  BY <1>4, <2>5 DEF TakesSnapshot, TypeOK, lobby
<1>5. CASE SnapshotFails(c)
  <2>1. reader' \in [Readers -> ReaderType]
    BY <1>1, <1>5 DEF SnapshotFails, TypeOK, ReaderType
  <2> QED  BY <1>5, <2>1 DEF SnapshotFails, Fault, TypeOK, lobby, stream
<1>6. CASE Disconnect(c)
  <2>1. LosesLink(c) \in ReaderType
    BY <1>1 DEF LosesLink, ReaderType
  <2> QED  BY <1>6, <2>1 DEF Disconnect, Fault, TypeOK, lobby, stream
<1>7. CASE ReconnectFails(c)
  <2> DEFINE now == [reader[c] EXCEPT
                       !.tries = @ + 1,
                       !.status = IF reader[c].tries + 1 >= MaxReconnects THEN "error" ELSE @]
  <2>1. now \in ReaderType
    <3> DEFINE n == reader[c].tries + 1
               st == IF n >= MaxReconnects THEN "error" ELSE reader[c].status
    <3>1. n \in Nat /\ st \in {"loading", "ready", "unavailable", "reconnecting", "error"}
      BY <1>1 DEF ReaderType
    <3>2. now = [[reader[c] EXCEPT !.tries = n] EXCEPT !.status = st]
      BY <1>1 DEF ReaderType
    <3> HIDE DEF n, st, now
    <3> QED  BY <1>1, <3>1, <3>2 DEF ReaderType
  <2>2. reader' = [reader EXCEPT ![c] = now]
    BY <1>7 DEF ReconnectFails
  <2> HIDE DEF now
  <2>3. reader' \in [Readers -> ReaderType]
    BY <2>1, <2>2 DEF TypeOK
  <2> QED  BY <1>7, <2>3 DEF ReconnectFails, Fault, TypeOK, lobby, stream
<1> QED  BY <1>2, <1>3, <1>4, <1>5, <1>6, <1>7 DEF Reads

LEMMA StreamTypes ==
  ASSUME TypeOK, Hibernate \/ StreamCrashes
  PROVE  TypeOK'
<1>1. \A c \in Readers : LosesLink(c) \in ReaderType
  BY DEF LosesLink, TypeOK, ReaderType
<1>2. CASE Hibernate
  BY <1>2 DEF Hibernate, TypeOK, lobby
<1>3. CASE StreamCrashes
  BY <1>1, <1>3 DEF StreamCrashes, Fault, TypeOK, lobby
<1> QED  BY <1>2, <1>3

LEMMA StepTypes ==
  ASSUME TypeOK, [Next]_vars
  PROVE  TypeOK'
<1>1. CASE UNCHANGED vars
  BY <1>1 DEF vars, lobby, stream, TypeOK
<1>2. ASSUME NEW t \in Tasks, Commit(t) \/ Work(t) \/ CallFails(t)  PROVE TypeOK'
  BY <1>2, LobbyTypes, ClaimTypes, CompleteTypes, RestoreTypes DEF Work
<1> QED  BY <1>1, <1>2, TimeTypes, ReaderTypes, StreamTypes DEF Next

-----------------------------------------------------------------------------
(* Claims, their holders and their attempts.                                *)

HoldersSound == OneHolder /\ Attempts /\ Records

LEMMA HoldsIs ==
  ASSUME NEW t \in Tasks, NEW r \in Revisions
  PROVE  Holds(t, r) <=> /\ task[t].stage \in AtWork /\ task[t].rev = r
                         /\ claims[r] # None /\ claims[r].attempt = task[t].attempt
BY DEF Holds, AtWork, Carrying

LEMMA HoldsIsNext ==
  ASSUME NEW t \in Tasks, NEW r \in Revisions
  PROVE  Holds(t, r)' <=> /\ task'[t].stage \in AtWork /\ task'[t].rev = r
                          /\ claims'[r] # None /\ claims'[r].attempt = task'[t].attempt
BY DEF Holds, AtWork, Carrying

(* Records that only go, under handlers that only go on or end. *)
LEMMA RecordsGo ==
  ASSUME TypeOK, TypeOK', HoldersSound, revision' >= revision,
         \A r \in Revisions : claims'[r] # None =>
            claims[r] # None /\ claims'[r].attempt = claims[r].attempt,
         notify' # None => /\ notify # None /\ notify'.rev = notify.rev
                           /\ notify'.attempt = notify.attempt,
         \A t \in Tasks : task'[t].stage \in AtWork =>
            /\ task[t].stage \in AtWork /\ task'[t].rev = task[t].rev
            /\ task'[t].attempt = task[t].attempt
  PROVE  HoldersSound'
<1>1. \A t \in Tasks, r \in Revisions : Holds(t, r)' => Holds(t, r)
  BY HoldsIs, HoldsIsNext
<1>2. OneHolder'
  BY <1>1 DEF OneHolder, HoldersSound
<1>3. Attempts'
  <2>1. ASSUME NEW t \in Tasks  PROVE AttemptSpent(task'[t], claims', notify')
    <3>1. AttemptSpent(task[t], claims, notify)
      BY DEF HoldersSound, Attempts
    <3>2. task'[t].stage \in AtWork => task'[t].rev \in Revisions
      BY TaskKinds DEF TypeOK
    <3> QED  BY <3>1, <3>2 DEF AttemptSpent
  <2> QED  BY <2>1 DEF Attempts, AttemptSpent
<1>4. Records'
  <2>1. RecordsApart(notify, claims, revision)
    BY DEF HoldersSound, Records
  <2>2. RecordsApart(notify', claims', revision')
    BY <2>1, RecordFields, RevisionsAreNumbers DEF RecordsApart, TypeOK
  <2> QED  BY <2>2 DEF Records, RecordsApart
<1> QED  BY <1>2, <1>3, <1>4 DEF HoldersSound

(* A revision just committed has no claim and no handler yet. *)
LEMMA CommitHolders ==
  ASSUME TypeOK, TypeOK', HoldersSound, Deliveries, NEW t \in Tasks, Commit(t)
  PROVE  HoldersSound'
<1>1. /\ claims' = claims /\ revision' = revision + 1 /\ revision \in Nat
      /\ notify' = [rev |-> revision + 1, attempt |-> 0, due |-> TRUE]
      /\ revision + 1 \in Revisions
  BY OutboxAssumption DEF Commit, Enqueue, TypeOK, Revisions
<1>2. ASSUME NEW u \in Tasks, task'[u].stage \in AtWork
      PROVE  task'[u] = task[u] /\ task[u].rev <= revision /\ task[u].rev \in Revisions
  <2>1. u # t
    BY <1>2 DEF Commit, TypeOK, AtWork, Carrying
  <2>2. task'[u] = task[u]
    BY <2>1 DEF Commit, TypeOK
  <2> QED  BY <1>2, <2>2, TaskKinds DEF Deliveries, DeliveryFits, TypeOK
<1>3. OneHolder'
  BY <1>1, <1>2, HoldsIs, HoldsIsNext DEF OneHolder, HoldersSound
<1>4. Attempts'
  <2>1. ASSUME NEW u \in Tasks  PROVE AttemptSpent(task'[u], claims', notify')
    <3>1. AttemptSpent(task[u], claims, notify)
      BY DEF HoldersSound, Attempts
    <3>2. CASE task'[u].stage \in AtWork
      <4>1. task'[u].rev # notify'.rev
        BY <1>1, <1>2, <3>2, RevisionsAreNumbers
      <4> QED  BY <1>1, <1>2, <3>1, <3>2, <4>1 DEF AttemptSpent
    <3> QED  BY <3>2 DEF AttemptSpent
  <2> QED  BY <2>1 DEF Attempts, AttemptSpent
<1>5. Records'
  <2>1. RecordsApart(notify, claims, revision)
    BY DEF HoldersSound, Records
  <2>2. claims[revision + 1] = None
    BY <1>1, <2>1 DEF RecordsApart
  <2>3. RecordsApart(notify', claims', revision')
    BY <1>1, <2>1, <2>2, RevisionsAreNumbers DEF RecordsApart
  <2> QED  BY <2>3 DEF Records, RecordsApart
<1> QED  BY <1>3, <1>4, <1>5 DEF HoldersSound

(* A handler takes a claim of revision r at an attempt nobody had before. *)
LEMMA NewClaim ==
  ASSUME TypeOK, TypeOK', HoldersSound, NEW t \in Tasks, NEW r \in Revisions, NEW n \in Nat,
         r <= revision, revision' = revision, notify' = None,
         claims' = [Kept EXCEPT ![r] = [attempt |-> n, live |-> TRUE]],
         GoOn(t, r, n),
         \A u \in Tasks \ {t} : task[u].stage \in AtWork /\ task[u].rev = r => task[u].attempt < n
  PROVE  HoldersSound'
<1>1. /\ claims'[r] # None /\ claims'[r].attempt = n
      /\ \A q \in Revisions : q # r /\ claims'[q] # None => claims'[q] = claims[q]
  BY KeptClaims, NewRecords
<1>2. task'[t].stage = "claimed" /\ task'[t].rev = r /\ task'[t].attempt = n
  BY DEF GoOn, TypeOK
<1>3. \A u \in Tasks \ {t} : task'[u] = task[u]
  BY DEF GoOn, TypeOK
<1>4. \A u \in Tasks : /\ task[u].stage \in AtWork => task[u].rev \in Revisions /\ task[u].attempt \in Nat
                       /\ AttemptSpent(task[u], claims, notify)
  BY TaskKinds DEF TypeOK, HoldersSound, Attempts
<1>5. ASSUME NEW u \in Tasks \ {t}  PROVE ~Holds(u, r)'
  BY <1>1, <1>3, <1>4, HoldsIsNext
<1>6. ASSUME NEW u \in Tasks, NEW q \in Revisions, Holds(u, q)', q # r
      PROVE  Holds(u, q)
  <2>1. u # t
    BY <1>2, <1>6, HoldsIsNext
  <2> QED  BY <1>1, <1>3, <1>6, <2>1, HoldsIs, HoldsIsNext
<1>7. OneHolder'
  BY <1>5, <1>6 DEF OneHolder, HoldersSound
<1>8. Attempts'
  <2>1. ASSUME NEW u \in Tasks  PROVE AttemptSpent(task'[u], claims', notify')
    <3>1. CASE u = t
      BY <1>1, <1>2, <3>1 DEF AttemptSpent
    <3>2. CASE u # t
      BY <1>1, <1>3, <1>4, <3>2 DEF AttemptSpent
    <3> QED  BY <3>1, <3>2
  <2> QED  BY <2>1 DEF Attempts, AttemptSpent
<1>9. Records'
  <2>1. RecordsApart(notify, claims, revision)
    BY DEF HoldersSound, Records
  <2>2. RecordsApart(notify', claims', revision')
    BY <1>1, <2>1 DEF RecordsApart
  <2> QED  BY <2>2 DEF Records, RecordsApart
<1> QED  BY <1>7, <1>8, <1>9 DEF HoldersSound

LEMMA ClaimHolders ==
  ASSUME TypeOK, TypeOK', HoldersSound, NEW t \in Tasks, Claim(t)
  PROVE  HoldersSound'
<1>1. /\ revision' = revision /\ revision \in Nat /\ task[t].stage = "claiming"
      /\ \A u \in Tasks : task[u].stage \in AtWork => task[u].attempt \in Nat
      /\ \A u \in Tasks : AttemptSpent(task[u], claims, notify)
      /\ RecordsApart(notify, claims, revision)
  BY TaskKinds DEF Claim, TypeOK, HoldersSound, Attempts, Records
<1>2. ASSUME Stop(t), \A q \in Revisions : claims'[q] = None \/ claims'[q] = claims[q],
             notify' = notify \/ notify' = None
      PROVE  HoldersSound'
  <2>1. \A u \in Tasks : task'[u] = task[u] \/ ~(task'[u].stage \in AtWork)
    BY <1>2 DEF Stop, TypeOK, Idle, AtWork, Carrying
  <2> QED  BY <1>1, <1>2, <2>1, RecordsGo
<1>3. CASE Blocking # {} /\ Recover(t, Min(Blocking))
  <2> DEFINE r == Min(Blocking)
  <2>1. r \in Revisions /\ claims[r] # None
    BY <1>3, OldestBlocking
  <2>2. r <= revision /\ claims[r].attempt \in Nat
    BY <1>1, <2>1, RecordFields DEF RecordsApart
  <2> HIDE DEF r
  <2>3. Recover(t, r)
    BY <1>3 DEF r
  <2>4. CASE claims[r].attempt + 1 >= MaxAttempts
    <3>1. Stop(t) /\ notify' = None /\ claims' = [Kept EXCEPT ![r] = None]
      BY <2>3, <2>4 DEF Recover
    <3> QED  BY <1>2, <2>1, <3>1, KeptClaims
  <2>5. CASE ~(claims[r].attempt + 1 >= MaxAttempts)
    <3> DEFINE n == claims[r].attempt + 1
    <3>1. n \in Nat
      BY <2>2
    <3>2. /\ notify' = None /\ GoOn(t, r, n)
          /\ claims' = [Kept EXCEPT ![r] = [attempt |-> n, live |-> TRUE]]
      BY <2>3, <2>5 DEF Recover
    <3>3. \A u \in Tasks \ {t} : task[u].stage \in AtWork /\ task[u].rev = r => task[u].attempt < n
      BY <1>1, <2>1, <2>2 DEF AttemptSpent
    <3> HIDE DEF n
    <3> QED  BY <1>1, <2>1, <2>2, <3>1, <3>2, <3>3, NewClaim
  <2> QED  BY <2>4, <2>5
<1>4. CASE Take(t)
  <2>1. notify # None /\ notify.rev \in Revisions /\ notify.attempt \in Nat
    BY <1>4, RecordFields DEF Take, Due
  <2>2. notify.rev <= revision
    BY <1>1, <2>1 DEF RecordsApart
  <2>3. \A u \in Tasks \ {t} : task[u].stage \in AtWork /\ task[u].rev = notify.rev
                                 => task[u].attempt < notify.attempt
    BY <1>1, <2>1 DEF AttemptSpent
  <2> QED  BY <1>1, <1>4, <2>1, <2>2, <2>3, NewClaim DEF Take
<1>5. CASE NothingToClaim(t)
  BY <1>2, <1>5, KeptClaims DEF NothingToClaim
<1> QED  BY <1>3, <1>4, <1>5 DEF Claim

LEMMA CompleteHolders ==
  ASSUME TypeOK, TypeOK', HoldersSound, NEW t \in Tasks, Complete(t)
  PROVE  HoldersSound'
<1>1. /\ \A q \in Revisions : claims'[q] = None \/ claims'[q] = claims[q]
      /\ notify' = notify \/ notify' = None
  BY DEF Complete, DropClaim, Completed, TypeOK
<1>2. \A u \in Tasks : task'[u] = task[u] \/ ~(task'[u].stage \in AtWork)
  BY DEF Complete, Stop, TypeOK, Idle, AtWork, Carrying
<1>3. revision' = revision /\ revision \in Nat
  BY DEF Complete, TypeOK
<1> QED  BY <1>1, <1>2, <1>3, RecordsGo

(* What is put back waits at an attempt nobody had before. *)
LEMMA RestoreHolders ==
  ASSUME TypeOK, TypeOK', HoldersSound, NEW t \in Tasks, Restore(t)
  PROVE  HoldersSound'
<1> DEFINE r == task[t].rev
<1>1. /\ task[t].stage \in AtWork /\ r \in Revisions /\ r \in Nat /\ task[t].attempt \in Nat
      /\ \A u \in Tasks : /\ task[u].stage \in AtWork => task[u].attempt \in Nat
                          /\ AttemptSpent(task[u], claims, notify)
      /\ RecordsApart(notify, claims, revision)
      /\ revision' = revision /\ revision \in Nat
  BY TaskKinds, RevisionsAreNumbers
     DEF Restore, AtWork, Carrying, TypeOK, HoldersSound, Attempts, Records
<1>2. /\ \A u \in Tasks : task'[u] = task[u] \/ ~(task'[u].stage \in AtWork)
      /\ ~(task'[t].stage \in AtWork)
  BY DEF Restore, Stop, TypeOK, Idle, AtWork, Carrying
<1> HIDE DEF r
<1>3. /\ \A q \in Revisions : claims'[q] = None \/ claims'[q] = claims[q]
  BY <1>1 DEF r, Restore, DropClaim, TypeOK
<1>4. CASE notify' = notify
  BY <1>1, <1>2, <1>3, <1>4, RecordsGo
<1>5. CASE notify' # notify
  <2>1. /\ Holds(t, r) /\ claims' = [claims EXCEPT ![r] = None]
        /\ notify' = [rev |-> r, attempt |-> task[t].attempt + 1, due |-> FALSE]
    BY <1>5 DEF r, Restore, Retry, DropClaim
  <2>2. claims[r] # None /\ claims[r].attempt = task[t].attempt
    BY <1>1, <2>1, HoldsIs
  <2>3. OneHolder'
    <3>1. \A u \in Tasks, q \in Revisions : Holds(u, q)' => Holds(u, q)
      BY <1>2, <1>3, HoldsIs, HoldsIsNext
    <3> QED  BY <3>1 DEF OneHolder, HoldersSound
  <2>4. Attempts'
    <3>1. ASSUME NEW u \in Tasks  PROVE AttemptSpent(task'[u], claims', notify')
      <4>1. CASE ~(task'[u].stage \in AtWork)
        BY <4>1 DEF AttemptSpent
      <4>2. CASE task'[u].stage \in AtWork
        <5>1. task'[u] = task[u] /\ task[u].rev \in Revisions /\ task[u].attempt \in Nat
          BY <1>2, <4>2, TaskKinds DEF TypeOK
        <5>2. claims'[task[u].rev] # None => task[u].attempt <= claims'[task[u].rev].attempt
          BY <1>1, <1>3, <4>2, <5>1 DEF AttemptSpent
        <5>3. task[u].rev = r => task[u].attempt < task[t].attempt + 1
          BY <1>1, <2>2, <4>2, <5>1 DEF AttemptSpent
        <5> QED  BY <2>1, <4>2, <5>1, <5>2, <5>3 DEF AttemptSpent
      <4> QED  BY <4>1, <4>2
    <3> QED  BY <3>1 DEF Attempts, AttemptSpent
  <2>5. Records'
    <3>1. RecordsApart(notify', claims', revision')
      BY <1>1, <1>3, <2>1, <2>2 DEF RecordsApart, TypeOK
    <3> QED  BY <3>1 DEF Records, RecordsApart
  <2> QED  BY <2>3, <2>4, <2>5 DEF HoldersSound
<1> QED  BY <1>4, <1>5

-----------------------------------------------------------------------------
(* The alarm, and what is on record.                                        *)

LEMMA StoppedIsArmed ==
  ASSUME NEW t \in Tasks, Stop(t)
  PROVE  alarm' <=> Waiting'
BY DEF Stop, Armed, Waiting

LEMMA StillGuarded ==
  ASSUME Guarded, revision' = revision, delivered' = delivered, alarm' = alarm,
         Waiting' <=> Waiting, exhausted' = exhausted
  PROVE  Guarded'
BY DEF Guarded

LEMMA ClaimGuarded ==
  ASSUME TypeOK, Guarded, NEW t \in Tasks, Claim(t)
  PROVE  Guarded'
<1>1. revision' = revision /\ delivered' = delivered
  BY DEF Claim
<1>2. CASE Blocking # {} /\ Recover(t, Min(Blocking))
  <2> DEFINE r == Min(Blocking)
  <2>1. r \in Revisions /\ claims[r] # None /\ claims[r].attempt + 1 \in Nat
    BY <1>2, OldestBlocking, RecordFields
  <2> HIDE DEF r
  <2>2. Recover(t, r)
    BY <1>2 DEF r
  <2>3. CASE claims[r].attempt + 1 >= MaxAttempts
    <3>1. Stop(t) /\ exhausted' = r /\ r # 0
      BY <2>1, <2>2, <2>3, RevisionsAreNumbers DEF Recover
    <3> QED  BY <3>1, StoppedIsArmed DEF Guarded
  <2>4. CASE ~(claims[r].attempt + 1 >= MaxAttempts)
    <3>1. claims'[r] = [attempt |-> claims[r].attempt + 1, live |-> TRUE] /\ alarm' = alarm
      BY <2>1, <2>2, <2>4, KeptClaims DEF Recover
    <3>2. claims'[r] # None
      BY <2>1, <3>1, NewRecords
    <3> QED  BY <2>1, <3>1, <3>2 DEF Guarded, Waiting
  <2> QED  BY <2>3, <2>4
<1>3. CASE Take(t)
  <2>1. notify # None /\ notify.rev \in Revisions /\ notify.attempt \in Nat /\ alarm' = alarm
    BY <1>3, RecordFields DEF Take, Due
  <2>2. claims'[notify.rev] # None
    BY <1>3, <2>1, KeptClaims, NewRecords DEF Take
  <2> QED  BY <2>1, <2>2 DEF Guarded, Waiting
<1>4. CASE NothingToClaim(t)
  <2>1. notify' = notify /\ exhausted' = exhausted /\ claims' = Kept /\ Stop(t)
    BY <1>4 DEF NothingToClaim
  <2>2. Waiting => Waiting'
    BY <2>1, KeptClaims DEF Waiting, Superseded
  <2> QED  BY <1>1, <2>1, <2>2, StoppedIsArmed DEF Guarded
<1> QED  BY <1>2, <1>3, <1>4 DEF Claim

LEMMA CompleteGuarded ==
  ASSUME TypeOK, Guarded, Deliveries, NEW t \in Tasks, Complete(t)
  PROVE  Guarded'
<1>1. revision' = revision /\ Stop(t) /\ delivered \in Nat
  BY DEF Complete, TypeOK
<1>2. CASE Holds(t, task[t].rev)
  <2>1. /\ task[t].rev >= 1 /\ task[t].rev \in Nat /\ task[t].carries \in Nat
        /\ task[t].rev <= task[t].carries
    BY TaskKinds DEF Complete, TypeOK, Deliveries, DeliveryFits, AtWork, Carrying
  <2>2. delivered' = Max({delivered, task[t].carries})
    BY <1>2 DEF Complete
  <2>3. delivered' \in Nat /\ delivered' >= 1
    BY <1>1, <2>1, <2>2, LargerOfTwo
  <2> QED  BY <1>1, <2>3, StoppedIsArmed DEF Guarded
<1>3. CASE ~Holds(t, task[t].rev)
  BY <1>1, <1>3, StoppedIsArmed DEF Complete, Guarded, Waiting
<1> QED  BY <1>2, <1>3

LEMMA RestoreGuarded ==
  ASSUME TypeOK, Guarded, NEW t \in Tasks, Restore(t)
  PROVE  Guarded'
<1> DEFINE r == task[t].rev
<1>1. revision' = revision /\ delivered' = delivered /\ Stop(t) /\ delivered \in Nat
  BY DEF Restore, TypeOK
<1>2. r \in Revisions /\ r \in Nat /\ r >= 1 /\ task[t].attempt + 1 \in Nat
  BY TaskKinds DEF Restore, TypeOK, AtWork, Carrying
<1>3. CASE Holds(t, r)
  <2>1. Retry(t)
    BY <1>3 DEF Restore
  <2>2. CASE delivered >= r
    BY <1>1, <1>2, <2>2, StoppedIsArmed DEF Guarded
  <2>3. CASE ~(delivered >= r) /\ notify # None
    BY <1>1, <2>1, <2>3, StoppedIsArmed DEF Guarded, Retry, Waiting
  <2>4. CASE ~(delivered >= r) /\ notify = None
    <3>1. exhausted' = r \/ notify' = [rev |-> r, attempt |-> task[t].attempt + 1, due |-> FALSE]
      BY <2>1, <2>4 DEF Retry
    <3>2. [rev |-> r, attempt |-> task[t].attempt + 1, due |-> FALSE] # None
      BY <1>2, NewRecords
    <3>3. exhausted' # 0 \/ notify' # None
      BY <1>2, <3>1, <3>2
    <3> QED  BY <1>1, <3>3, StoppedIsArmed DEF Guarded, Waiting
  <2> QED  BY <2>2, <2>3, <2>4
<1>4. CASE ~Holds(t, r)
  BY <1>1, <1>4, StoppedIsArmed DEF Restore, Guarded, Waiting
<1> QED  BY <1>3, <1>4

(* Where the records only change their deadlines. *)
LEMMA DeadlineGuarded ==
  ASSUME TypeOK, Guarded,
         FallsDue \/ LobbyCrashes \/ \E r \in Revisions : LeaseEnds(r)
  PROVE  Guarded'
<1>1. CASE FallsDue
  <2>1. [notify EXCEPT !.due = TRUE] \in Attempting
    BY <1>1 DEF FallsDue, TypeOK, Attempting
  <2>2. notify' # None
    BY <1>1, <2>1, OutboxAssumption DEF FallsDue
  <2> QED  BY <1>1, <2>2 DEF FallsDue, Guarded, Waiting
<1>2. CASE LobbyCrashes
  BY <1>2, StillGuarded DEF LobbyCrashes, Waiting
<1>3. ASSUME NEW r \in Revisions, LeaseEnds(r)  PROVE Guarded'
  <2>1. [claims[r] EXCEPT !.live = FALSE] \in Claiming
    BY <1>3 DEF LeaseEnds, TypeOK, Claiming
  <2>2. claims'[r] # None
    BY <1>3, <2>1, OutboxAssumption DEF LeaseEnds, TypeOK
  <2> QED  BY <1>3, <2>2 DEF LeaseEnds, Guarded, Waiting
<1> QED  BY <1>1, <1>2, <1>3

LEMMA StepGuarded ==
  ASSUME TypeOK, Guarded, Deliveries, [Next]_vars
  PROVE  Guarded'
<1>1. CASE UNCHANGED vars
  BY <1>1, StillGuarded DEF vars, lobby, Waiting
<1>2. ASSUME NEW t \in Tasks, Commit(t)  PROVE Guarded'
  <2>1. revision + 1 \in Revisions
    BY <1>2, OutboxAssumption DEF Commit, Revisions, TypeOK
  <2>2. [rev |-> revision + 1, attempt |-> 0, due |-> TRUE] # None
    BY <2>1, NewRecords
  <2>3. notify' # None /\ alarm'
    BY <1>2, <2>2 DEF Commit, Enqueue
  <2> QED  BY <2>3 DEF Guarded, Waiting
<1>3. ASSUME NEW t \in Tasks, Alarm(t) \/ Send(t) \/ TakesUpdate(t) \/ CallFails(t)  PROVE Guarded'
  BY <1>3, StillGuarded DEF Alarm, Send, TakesUpdate, CallFails, Waiting
<1>4. ASSUME NEW c \in Readers, Reads(c) \/ SnapshotFails(c) \/ Disconnect(c) \/ ReconnectFails(c)
      PROVE  Guarded'
  BY <1>4, StillGuarded
     DEF Reads, Subscribe, Snapshot, TakesSnapshot, SnapshotFails, Disconnect, ReconnectFails,
         Waiting, lobby
<1>5. CASE Hibernate \/ StreamCrashes
  BY <1>5, StillGuarded DEF Hibernate, StreamCrashes, Waiting, lobby
<1> QED  BY <1>1, <1>2, <1>3, <1>4, <1>5, ClaimGuarded, CompleteGuarded, RestoreGuarded,
            DeadlineGuarded DEF Next, Work

LEMMA StepHolders ==
  ASSUME TypeOK, TypeOK', HoldersSound, Deliveries, [Next]_vars
  PROVE  HoldersSound'
<1>1. ASSUME UNCHANGED <<revision, notify, claims, task>>  PROVE HoldersSound'
  BY <1>1, RecordsGo DEF TypeOK
<1>2. CASE UNCHANGED vars
  BY <1>1, <1>2 DEF vars, lobby
<1>3. ASSUME NEW t \in Tasks, Alarm(t) \/ Send(t) \/ TakesUpdate(t) \/ CallFails(t)
      PROVE  HoldersSound'
  <2>1. UNCHANGED <<revision, notify, claims>>
    BY <1>3 DEF Alarm, Send, TakesUpdate, CallFails
  <2>2. \A u \in Tasks : u # t => task'[u] = task[u]
    BY <1>3 DEF Alarm, Send, TakesUpdate, CallFails, TypeOK
  <2>3. task'[t].stage \in AtWork => /\ task[t].stage \in AtWork /\ task'[t].rev = task[t].rev
                                     /\ task'[t].attempt = task[t].attempt
    <3>1. task[t] \in TaskType
      BY DEF TypeOK
    <3>2. CASE Alarm(t)
      BY <3>2 DEF Alarm, TypeOK, AtWork, Carrying
    <3>3. CASE Send(t)
      BY <3>3 DEF Send, TypeOK, AtWork, Carrying
    <3>4. CASE CallFails(t)
      BY <3>1, <3>4, NextStage DEF CallFails, TypeOK, AtWork, Carrying
    <3>5. CASE TakesUpdate(t)
      BY <3>1, <3>5, NextStage DEF TakesUpdate, TypeOK, AtWork, Carrying
    <3> QED  BY <1>3, <3>2, <3>3, <3>4, <3>5
  <2> QED  BY <2>1, <2>2, <2>3, RecordsGo DEF TypeOK
<1>4. CASE FallsDue
  <2>1. notify # None /\ notify'.rev = notify.rev /\ notify'.attempt = notify.attempt
    BY <1>4 DEF FallsDue, TypeOK, Attempting
  <2> QED  BY <1>4, <2>1, RecordsGo DEF FallsDue, TypeOK
<1>5. CASE LobbyCrashes
  <2>1. \A u \in Tasks : ~(task'[u].stage \in AtWork)
    BY <1>5 DEF LobbyCrashes, Idle, AtWork, Carrying
  <2> QED  BY <1>5, <2>1, RecordsGo DEF LobbyCrashes, TypeOK
<1>6. ASSUME NEW r \in Revisions, LeaseEnds(r)  PROVE HoldersSound'
  <2>1. \A q \in Revisions : claims'[q] # None =>
           claims[q] # None /\ claims'[q].attempt = claims[q].attempt
    BY <1>6 DEF LeaseEnds, TypeOK, Claiming
  <2> QED  BY <1>6, <2>1, RecordsGo DEF LeaseEnds, TypeOK
<1>7. ASSUME NEW c \in Readers, Reads(c) \/ SnapshotFails(c) \/ Disconnect(c) \/ ReconnectFails(c)
      PROVE  HoldersSound'
  BY <1>1, <1>7
     DEF Reads, Subscribe, Snapshot, TakesSnapshot, SnapshotFails, Disconnect, ReconnectFails, lobby
<1>8. CASE Hibernate \/ StreamCrashes
  BY <1>1, <1>8 DEF Hibernate, StreamCrashes, lobby
<1> QED  BY <1>2, <1>3, <1>4, <1>5, <1>6, <1>7, <1>8, CommitHolders, ClaimHolders,
            CompleteHolders, RestoreHolders DEF Next, Work

-----------------------------------------------------------------------------
(* The stream, its readers and what the Lobby knows of them.                *)

StreamSound == Confirmed /\ Deliveries /\ Answers /\ Loaded /\ Shown

LEMMA Numbers ==
  ASSUME TypeOK
  PROVE  /\ revision \in Nat /\ delivered \in Nat /\ memory \in Nat /\ disk \in Nat
         /\ \A c \in Readers : reader[c].shown \in Nat \cup {-1} /\ reader[c].shown \in Int
         /\ \A c \in Readers : ask[c] # None /\ ask[c].stage = "answered" => ask[c].rev \in Nat
         /\ \A t \in Tasks : task[t] \in TaskType
BY DEF TypeOK, ReaderType, Asking

LEMMA ShowsIs ==
  ASSUME TypeOK, NEW c \in Readers, NEW r \in Nat
  PROVE  /\ Shows(c, r).shown = IF r > reader[c].shown THEN r ELSE reader[c].shown
         /\ Shows(c, r).shown \in Int
<1>1. reader[c] \in ReaderType
  BY DEF TypeOK
<1> QED  BY <1>1 DEF Shows, ReaderType

(* Steps of the Lobby's handlers, which leave stream and readers alone. *)
LEMMA LobbySteps ==
  ASSUME TypeOK, TypeOK', StreamSound, revision' >= revision, UNCHANGED <<memory, disk, ask, reader>>,
         delivered' <= disk,
         \A t \in Tasks : task'[t] = task[t] \/ DeliveryFits(task'[t], revision', disk)
  PROVE  StreamSound'
<1>1. revision' \in Nat /\ delivered' \in Nat
  BY Numbers DEF TypeOK
<1>2. Confirmed'
  BY <1>1, Numbers DEF StreamSound, Confirmed
<1>3. Deliveries'
  <2>1. ASSUME NEW t \in Tasks  PROVE DeliveryFits(task'[t], revision', disk')
    <3>1. DeliveryFits(task[t], revision, disk) /\ task[t] \in TaskType
      BY Numbers DEF StreamSound, Deliveries
    <3>2. DeliveryFits(task[t], revision', disk)
      BY <1>1, <3>1, TaskKinds, Numbers DEF DeliveryFits
    <3> QED  BY <3>2
  <2> QED  BY <2>1 DEF Deliveries, DeliveryFits
<1>4. Answers'
  <2>1. ASSUME NEW c \in Readers  PROVE AnswerFits(ask'[c], memory', disk', revision')
    <3>1. AnswerFits(ask[c], memory, disk, revision)
      BY DEF StreamSound, Answers
    <3> QED  BY <1>1, <3>1, Numbers DEF AnswerFits
  <2> QED  BY <2>1 DEF Answers, AnswerFits
<1>5. Loaded' /\ Shown'
  BY DEF StreamSound, Loaded, Shown
<1> QED  BY <1>2, <1>3, <1>4, <1>5 DEF StreamSound

LEMMA IdleFits == \A n, d \in Nat : DeliveryFits(Idle, n, d)
BY DEF DeliveryFits, Idle, AtWork, Carrying

LEMMA CommitStream ==
  ASSUME TypeOK, TypeOK', StreamSound, NEW t \in Tasks, Commit(t) \/ Alarm(t)
  PROVE  StreamSound'
<1>1. \A u \in Tasks : u # t => task'[u] = task[u]
  BY DEF Commit, Alarm, TypeOK
<1>2. task'[t].stage = "claiming"
  BY DEF Commit, Alarm, TypeOK
<1>3. DeliveryFits(task'[t], revision', disk)
  BY <1>2 DEF DeliveryFits, AtWork, Carrying
<1>4. /\ revision' >= revision /\ delivered' <= disk
      /\ UNCHANGED <<memory, disk, ask, reader>>
  BY Numbers DEF Commit, Alarm, stream, StreamSound, Confirmed
<1> QED  BY <1>1, <1>3, <1>4, LobbySteps

LEMMA ClaimStream ==
  ASSUME TypeOK, TypeOK', StreamSound, Records, NEW t \in Tasks, Claim(t)
  PROVE  StreamSound'
<1>1. UNCHANGED <<revision, delivered, memory, disk, ask, reader>>
  BY DEF Claim, stream
<1>2. RecordsApart(notify, claims, revision)
  BY DEF Records
<1>3. ASSUME NEW r \in Revisions, NEW n, r <= revision, GoOn(t, r, n)
      PROVE  \A u \in Tasks : task'[u] = task[u] \/ DeliveryFits(task'[u], revision', disk)
  <2>1. /\ task'[t].stage = "claimed" /\ task'[t].rev = r
        /\ \A u \in Tasks : u # t => task'[u] = task[u]
    BY <1>3 DEF GoOn, TypeOK
  <2> QED  BY <1>1, <1>3, <2>1 DEF DeliveryFits, AtWork, Carrying
<1>4. ASSUME Stop(t)
      PROVE  \A u \in Tasks : task'[u] = task[u] \/ DeliveryFits(task'[u], revision', disk)
  <2>1. task'[t] = Idle /\ \A u \in Tasks : u # t => task'[u] = task[u]
    BY <1>4 DEF Stop, TypeOK
  <2> QED  BY <1>1, <2>1, IdleFits, Numbers
<1>5. \A u \in Tasks : task'[u] = task[u] \/ DeliveryFits(task'[u], revision', disk)
  <2>1. CASE Blocking # {} /\ Recover(t, Min(Blocking))
    <3> DEFINE r == Min(Blocking)
    <3>1. r \in Revisions /\ r <= revision
      BY <1>2, <2>1, OldestBlocking DEF RecordsApart
    <3> HIDE DEF r
    <3>2. Stop(t) \/ GoOn(t, r, claims[r].attempt + 1)
      BY <2>1 DEF Recover, r
    <3> QED  BY <1>3, <1>4, <3>1, <3>2
  <2>2. CASE Take(t)
    <3>1. notify.rev \in Revisions /\ notify.rev <= revision
      BY <1>2, <2>2, RecordFields DEF Take, Due, RecordsApart
    <3> QED  BY <1>3, <2>2, <3>1 DEF Take
  <2>3. CASE NothingToClaim(t)
    BY <1>4, <2>3 DEF NothingToClaim
  <2> QED  BY <2>1, <2>2, <2>3 DEF Claim
<1> QED  BY <1>1, <1>5, LobbySteps, Numbers DEF StreamSound, Confirmed

LEMMA EndStream ==
  ASSUME TypeOK, TypeOK', StreamSound, NEW t \in Tasks, Complete(t) \/ Restore(t)
  PROVE  StreamSound'
<1>1. UNCHANGED <<revision, memory, disk, ask, reader>> /\ Stop(t)
  BY DEF Complete, Restore, stream
<1>2. task'[t] = Idle /\ \A u \in Tasks : u # t => task'[u] = task[u]
  BY <1>1 DEF Stop, TypeOK
<1>3. \A u \in Tasks : task'[u] = task[u] \/ DeliveryFits(task'[u], revision', disk)
  BY <1>1, <1>2, IdleFits, Numbers
<1>4. delivered' <= disk
  <2>1. delivered <= disk
    BY DEF StreamSound, Confirmed
  <2>2. CASE delivered' # delivered
    <3>1. task[t].stage = "ok" /\ delivered' = Max({delivered, task[t].carries})
      BY <2>2 DEF Complete, Restore
    <3>2. task[t].carries <= disk /\ task[t].carries \in Nat
      BY <3>1, Numbers, TaskKinds DEF StreamSound, Deliveries, DeliveryFits, Carrying
    <3> QED  BY <2>1, <3>1, <3>2, LargerOfTwo, Numbers
  <2> QED  BY <2>1, <2>2
<1> QED  BY <1>1, <1>3, <1>4, LobbySteps, Numbers

LEMMA SendStream ==
  ASSUME TypeOK, TypeOK', StreamSound, NEW t \in Tasks, Send(t) \/ CallFails(t)
  PROVE  StreamSound'
<1>1. UNCHANGED <<revision, delivered, memory, disk, ask, reader>>
  BY DEF Send, CallFails, stream
<1>2. \A u \in Tasks : u # t => task'[u] = task[u]
  BY DEF Send, CallFails, TypeOK
<1>3. DeliveryFits(task[t], revision, disk) /\ task[t] \in TaskType
  BY Numbers DEF StreamSound, Deliveries
<1>4. DeliveryFits(task'[t], revision', disk)
  <2>1. CASE Send(t)
    <3>1. task[t].stage = "claimed" /\ task[t].rev <= revision
      BY <1>3, <2>1 DEF Send, DeliveryFits, AtWork
    <3>2. /\ task'[t].stage = "sent" /\ task'[t].rev = task[t].rev /\ task'[t].carries = revision
      BY <2>1 DEF Send, TypeOK
    <3> QED  BY <1>1, <3>1, <3>2, Numbers DEF DeliveryFits, Carrying
  <2>2. CASE CallFails(t)
    <3>1. task[t].stage \in Carrying /\ task'[t] = [task[t] EXCEPT !.stage = "failed"]
      BY <2>2 DEF CallFails, TypeOK, Carrying
    <3>2. /\ task'[t].stage = "failed" /\ task'[t].rev = task[t].rev
          /\ task'[t].carries = task[t].carries
      BY <1>3, <3>1, NextStage DEF Carrying
    <3> QED  BY <1>1, <1>3, <3>1, <3>2 DEF DeliveryFits, AtWork, Carrying
  <2> QED  BY <2>1, <2>2
<1> QED  BY <1>1, <1>2, <1>4, LobbySteps, Numbers DEF StreamSound, Confirmed

LEMMA TimeStream ==
  ASSUME TypeOK, TypeOK', StreamSound,
         FallsDue \/ LobbyCrashes \/ \E r \in Revisions : LeaseEnds(r)
  PROVE  StreamSound'
<1>1. UNCHANGED <<revision, delivered, memory, disk, ask, reader>>
  BY DEF FallsDue, LobbyCrashes, LeaseEnds, stream
<1>2. \A u \in Tasks : task'[u] = task[u] \/ task'[u] = Idle
  BY DEF FallsDue, LobbyCrashes, LeaseEnds
<1>3. \A u \in Tasks : task'[u] = task[u] \/ DeliveryFits(task'[u], revision', disk)
  BY <1>1, <1>2, IdleFits, Numbers
<1> QED  BY <1>1, <1>3, LobbySteps, Numbers DEF StreamSound, Confirmed

(* What the stream does with an update, seen from its cache: memory and disk agree. *)
LEMMA UpdateIs ==
  ASSUME TypeOK, StreamSound, NEW t \in Tasks, TakesUpdate(t)
  PROVE  LET rev == task[t].carries
         IN  /\ rev \in Nat /\ rev <= revision /\ memory' = disk' /\ disk' \in Nat
             /\ \/ /\ rev > disk /\ disk' = rev
                   /\ reader' = [c \in Readers |-> IF reader[c].up THEN Shows(c, rev) ELSE reader[c]]
                \/ /\ rev <= disk /\ disk' = disk /\ reader' = reader
<1> DEFINE rev == task[t].carries
<1>1. task[t].stage = "sent" /\ DeliveryFits(task[t], revision, disk) /\ task[t] \in TaskType
  BY Numbers DEF TakesUpdate, StreamSound, Deliveries
<1>2. rev \in Nat /\ rev <= revision
  BY <1>1, TaskKinds DEF DeliveryFits, Carrying
<1>3. memory <= disk /\ memory \in Nat /\ disk \in Nat
  BY Numbers DEF StreamSound, Confirmed
<1>4. Max({memory, disk}) = disk
  BY <1>3, LargerOfTwo
<1> HIDE DEF rev
<1>5. CASE rev > disk
  <2>1. IsNews(rev, Max({memory, disk}))
    BY <1>4, <1>5 DEF IsNews
  <2>2. memory' = rev /\ disk' = rev
        /\ reader' = [c \in Readers |-> IF reader[c].up THEN Shows(c, rev) ELSE reader[c]]
    BY <2>1 DEF TakesUpdate, rev
  <2> QED  BY <1>2, <1>5, <2>2 DEF rev
<1>6. CASE rev <= disk
  <2>1. ~IsNews(rev, Max({memory, disk}))
    BY <1>2, <1>3, <1>4, <1>6 DEF IsNews
  <2>2. memory' = disk /\ disk' = disk /\ reader' = reader
    BY <1>4, <2>1 DEF TakesUpdate, rev
  <2> QED  BY <1>2, <1>3, <1>6, <2>2 DEF rev
<1> QED  BY <1>2, <1>3, <1>5, <1>6

LEMMA UpdateStream ==
  ASSUME TypeOK, TypeOK', StreamSound, NEW t \in Tasks, TakesUpdate(t)
  PROVE  StreamSound'
<1> DEFINE rev == task[t].carries
<1>1. /\ rev \in Nat /\ rev <= revision /\ memory' = disk' /\ disk' \in Nat
      /\ \/ /\ rev > disk /\ disk' = rev
            /\ reader' = [c \in Readers |-> IF reader[c].up THEN Shows(c, rev) ELSE reader[c]]
         \/ /\ rev <= disk /\ disk' = disk /\ reader' = reader
  BY UpdateIs
<1>2. UNCHANGED <<revision, delivered, ask>>
  BY DEF TakesUpdate
<1>3. task[t].stage = "sent" /\ DeliveryFits(task[t], revision, disk) /\ task[t] \in TaskType
  BY Numbers DEF TakesUpdate, StreamSound, Deliveries
<1>4. /\ task'[t].stage = "ok" /\ task'[t].rev = task[t].rev /\ task'[t].carries = rev
      /\ \A u \in Tasks : u # t => task'[u] = task[u]
  <2>1. task' = [task EXCEPT ![t] = [task[t] EXCEPT !.stage = "ok"]]
    BY DEF TakesUpdate
  <2> QED  BY <1>3, <2>1, NextStage DEF Carrying, TypeOK
<1> HIDE DEF rev
<1>5. /\ disk <= disk' /\ disk' <= revision /\ rev <= disk' /\ disk \in Nat /\ delivered <= disk
      /\ revision \in Nat /\ delivered \in Nat
  BY <1>1, Numbers DEF StreamSound, Confirmed
<1>6. Confirmed' /\ Loaded'
  BY <1>1, <1>2, <1>5 DEF Confirmed, Loaded
<1>7. Deliveries'
  <2>1. ASSUME NEW u \in Tasks  PROVE DeliveryFits(task'[u], revision', disk')
    <3>1. CASE u = t
      <4>1. task[t].rev <= rev /\ task[t].rev <= revision
        BY <1>3 DEF DeliveryFits, AtWork, Carrying, rev
      <4> QED  BY <1>1, <1>2, <1>4, <1>5, <3>1, <4>1 DEF DeliveryFits
    <3>2. CASE u # t
      <4>1. DeliveryFits(task[u], revision, disk) /\ task[u] \in TaskType
        BY Numbers DEF StreamSound, Deliveries
      <4> QED  BY <1>1, <1>2, <1>4, <1>5, <3>2, <4>1, TaskKinds DEF DeliveryFits, Carrying
    <3> QED  BY <3>1, <3>2
  <2> QED  BY <2>1 DEF Deliveries, DeliveryFits
<1>8. Answers'
  <2>1. ASSUME NEW c \in Readers  PROVE AnswerFits(ask'[c], memory', disk', revision')
    BY <1>1, <1>2, Numbers DEF AnswerFits, StreamSound, Answers
  <2> QED  BY <2>1 DEF Answers, AnswerFits
<1>9. Shown'
  <2>1. ASSUME NEW c \in Readers  PROVE reader'[c].shown <= disk'
    <3>1. reader[c].shown <= disk /\ reader[c].shown \in Int
      BY Numbers DEF StreamSound, Shown
    <3>2. Shows(c, rev).shown = IF rev > reader[c].shown THEN rev ELSE reader[c].shown
      BY <1>1, ShowsIs
    <3>3. reader'[c] = reader[c] \/ reader'[c] = Shows(c, rev)
      BY <1>1
    <3> QED  BY <1>1, <1>5, <3>1, <3>2, <3>3
  <2> QED  BY <2>1 DEF Shown
<1> QED  BY <1>6, <1>7, <1>8, <1>9 DEF StreamSound

(* What a reader's answer does to the stream: it takes over what is newer than its disk, and *)
(* shows the reader what the disk has now.                                                   *)
LEMMA SnapshotIs ==
  ASSUME TypeOK, StreamSound, NEW c \in Readers, TakesSnapshot(c)
  PROVE  /\ memory' = disk' /\ disk' \in Nat /\ disk' >= disk /\ disk' <= revision
         /\ reader' = [reader EXCEPT ![c] = IF reader[c].up THEN Shows(c, disk') ELSE reader[c]]
<1>1. /\ ask[c] # None /\ ask[c].stage = "answered" /\ ask[c].rev \in Nat
      /\ memory \in Nat /\ disk \in Nat /\ revision \in Nat
      /\ memory <= disk /\ disk <= revision /\ memory \in {0, disk}
      /\ AnswerFits(ask[c], memory, disk, revision)
  BY Numbers DEF TakesSnapshot, StreamSound, Confirmed, Loaded, Answers
<1> DEFINE now == IF IsNews(ask[c].rev, memory) THEN ask[c].rev ELSE memory
<1>2. /\ memory' = now /\ disk' = (IF IsNews(ask[c].rev, memory) THEN now ELSE disk)
      /\ reader' = [reader EXCEPT ![c] = IF reader[c].up THEN Shows(c, now) ELSE reader[c]]
  BY DEF TakesSnapshot
<1>3. CASE ask[c].rev > memory
  <2>1. now = ask[c].rev /\ disk' = now
    BY <1>2, <1>3 DEF IsNews
  <2>2. reader' = [reader EXCEPT ![c] = IF reader[c].up THEN Shows(c, disk') ELSE reader[c]]
    BY <1>2, <2>1
  <2> HIDE DEF now
  <2>3. ask[c].rev <= revision /\ ask[c].rev >= disk
    BY <1>1, <1>3 DEF AnswerFits
  <2> QED  BY <1>1, <1>2, <2>1, <2>2, <2>3
<1>4. CASE ~(ask[c].rev > memory)
  <2>1. now = memory /\ disk' = disk
    BY <1>2, <1>4 DEF IsNews
  <2>2. memory = disk
    BY <1>1, <1>4 DEF AnswerFits
  <2> HIDE DEF now
  <2> QED  BY <1>1, <1>2, <2>1, <2>2
<1> QED  BY <1>3, <1>4

LEMMA ReaderStream ==
  ASSUME TypeOK, TypeOK', StreamSound, NEW c \in Readers,
         Reads(c) \/ SnapshotFails(c) \/ Disconnect(c) \/ ReconnectFails(c)
  PROVE  StreamSound'
<1>1. UNCHANGED <<revision, delivered, task>>
  BY DEF Reads, Subscribe, Snapshot, TakesSnapshot, SnapshotFails, Disconnect, ReconnectFails, lobby
<1>2. Deliveries'
  <2>1. /\ disk' \in Nat /\ disk' >= disk
    <3>1. CASE TakesSnapshot(c)
      BY <3>1, SnapshotIs
    <3>2. CASE ~TakesSnapshot(c)
      BY <3>2, Numbers
         DEF Reads, Subscribe, Snapshot, SnapshotFails, Disconnect, ReconnectFails, stream
    <3> QED  BY <3>1, <3>2
  <2>2. ASSUME NEW u \in Tasks  PROVE DeliveryFits(task'[u], revision', disk')
    <3>1. DeliveryFits(task[u], revision, disk) /\ task[u] \in TaskType /\ disk \in Nat
      BY Numbers DEF StreamSound, Deliveries
    <3> QED  BY <1>1, <2>1, <3>1, TaskKinds DEF DeliveryFits, Carrying
  <2> QED  BY <2>2 DEF Deliveries, DeliveryFits
<1>3. CASE TakesSnapshot(c)
  <2>1. /\ memory' = disk' /\ disk' \in Nat /\ disk' >= disk /\ disk' <= revision
        /\ reader' = [reader EXCEPT ![c] = IF reader[c].up THEN Shows(c, disk') ELSE reader[c]]
        /\ ask' = [ask EXCEPT ![c] = None]
    BY <1>3, SnapshotIs DEF TakesSnapshot
  <2>2. Confirmed' /\ Loaded'
    BY <1>1, <2>1, Numbers DEF StreamSound, Confirmed, Loaded
  <2>3. Answers'
    <3>1. ASSUME NEW b \in Readers  PROVE AnswerFits(ask'[b], memory', disk', revision')
      <4>1. ask'[b] = None \/ ask'[b] = ask[b]
        BY <2>1 DEF TypeOK
      <4> QED  BY <1>1, <2>1, <4>1 DEF AnswerFits, StreamSound, Answers
    <3> QED  BY <3>1 DEF Answers, AnswerFits
  <2>4. Shown'
    <3>1. ASSUME NEW b \in Readers  PROVE reader'[b].shown <= disk'
      <4>1. reader[b].shown <= disk /\ reader[b].shown \in Int /\ disk \in Nat
        BY Numbers DEF StreamSound, Shown
      <4>2. Shows(b, disk').shown = IF disk' > reader[b].shown THEN disk' ELSE reader[b].shown
        BY <2>1, ShowsIs
      <4>3. reader'[b] = reader[b] \/ reader'[b] = Shows(b, disk')
        BY <2>1 DEF TypeOK
      <4> QED  BY <2>1, <4>1, <4>2, <4>3
    <3> QED  BY <3>1 DEF Shown
  <2> QED  BY <1>2, <2>2, <2>3, <2>4 DEF StreamSound
<1>4. CASE ~TakesSnapshot(c)
  <2>1. UNCHANGED <<memory, disk>>
    BY <1>4 DEF Reads, Subscribe, Snapshot, SnapshotFails, Disconnect, ReconnectFails, stream
  <2>2. Confirmed' /\ Loaded'
    BY <1>1, <2>1 DEF StreamSound, Confirmed, Loaded
  <2>3. Answers'
    <3>1. ASSUME NEW b \in Readers  PROVE AnswerFits(ask'[b], memory', disk', revision')
      <4>1. \/ ask'[b] = ask[b] \/ ask'[b] = None \/ ask'[b] = [stage |-> "asked"]
            \/ ask'[b] = [stage |-> "answered", rev |-> revision]
        BY <1>4 DEF Reads, Subscribe, Snapshot, SnapshotFails, Disconnect, ReconnectFails, TypeOK
      <4>2. AnswerFits(ask[b], memory, disk, revision)
        BY DEF StreamSound, Answers
      <4>3. AnswerFits([stage |-> "answered", rev |-> revision], memory, disk, revision)
        BY Numbers DEF AnswerFits, StreamSound, Confirmed
      <4>4. AnswerFits([stage |-> "asked"], memory, disk, revision) /\ AnswerFits(None, memory, disk, revision)
        BY DEF AnswerFits
      <4> QED  BY <1>1, <2>1, <4>1, <4>2, <4>3, <4>4
    <3> QED  BY <3>1 DEF Answers, AnswerFits
  <2>4. Shown'
    <3>1. ASSUME NEW b \in Readers  PROVE reader'[b].shown = reader[b].shown
      <4>1. reader[b] \in ReaderType
        BY DEF TypeOK
      <4>2. CASE Subscribe(c)
        BY <4>1, <4>2 DEF Subscribe, TypeOK, ReaderType
      <4>3. CASE SnapshotFails(c)
        BY <4>1, <4>3 DEF SnapshotFails, TypeOK, ReaderType
      <4>4. CASE Disconnect(c)
        BY <4>1, <4>4 DEF Disconnect, LosesLink, TypeOK, ReaderType
      <4>5. CASE ReconnectFails(c)
        BY <4>1, <4>5 DEF ReconnectFails, TypeOK, ReaderType
      <4> QED  BY <1>4, <4>2, <4>3, <4>4, <4>5 DEF Reads, Snapshot
    <3> QED  BY <2>1, <3>1 DEF StreamSound, Shown
  <2> QED  BY <1>2, <2>2, <2>3, <2>4 DEF StreamSound
<1> QED  BY <1>3, <1>4

LEMMA CrashStream ==
  ASSUME TypeOK, TypeOK', StreamSound, Hibernate \/ StreamCrashes
  PROVE  StreamSound'
<1>1. UNCHANGED <<revision, delivered, task, disk>> /\ memory' = 0
  BY DEF Hibernate, StreamCrashes, lobby
<1>2. \A c \in Readers : ask'[c] = None
  BY DEF Hibernate, StreamCrashes
<1>3. \A c \in Readers : reader'[c].shown = reader[c].shown
  <2>1. ASSUME NEW c \in Readers  PROVE LosesLink(c).shown = reader[c].shown
    BY DEF LosesLink, TypeOK, ReaderType
  <2> QED  BY <2>1 DEF Hibernate, StreamCrashes
<1>4. Confirmed' /\ Loaded'
  BY <1>1, Numbers DEF StreamSound, Confirmed, Loaded
<1>5. Deliveries'
  BY <1>1 DEF StreamSound, Deliveries, DeliveryFits
<1>6. Answers'
  BY <1>2 DEF Answers, AnswerFits
<1>7. Shown'
  BY <1>1, <1>3 DEF StreamSound, Shown
<1> QED  BY <1>4, <1>5, <1>6, <1>7 DEF StreamSound

LEMMA StepStream ==
  ASSUME TypeOK, TypeOK', StreamSound, Records, [Next]_vars
  PROVE  StreamSound'
<1>1. CASE UNCHANGED vars
  <2>1. UNCHANGED <<revision, delivered, memory, disk, ask, reader, task>>
    BY <1>1 DEF vars, lobby, stream
  <2> QED  BY <2>1, LobbySteps, Numbers DEF StreamSound, Confirmed
<1> QED  BY <1>1, CommitStream, ClaimStream, EndStream, SendStream, UpdateStream, TimeStream,
            ReaderStream, CrashStream DEF Next, Work

-----------------------------------------------------------------------------
(* The outbox, and what readers see of it.                                  *)

LEMMA InitStrong == Init => OutboxStrong
<1>1. ASSUME Init  PROVE OutboxStrong
  <2>1. TypeOK
    BY <1>1, InitTypes
  <2>2. \A t \in Tasks : task[t] = Idle
    BY <1>1 DEF Init
  <2>3. \A t \in Tasks : ~(task[t].stage \in AtWork)
    BY <2>2 DEF Idle, AtWork, Carrying
  <2>4. Deliveries /\ Attempts
    BY <2>3 DEF Deliveries, DeliveryFits, Attempts, AttemptSpent, AtWork, Carrying
  <2>5. OneHolder
    BY <2>3, HoldsIs DEF OneHolder
  <2>6. Records /\ Answers /\ Loaded /\ Shown /\ Confirmed /\ Guarded
    BY <1>1 DEF Init, Records, RecordsApart, Answers, AnswerFits, Loaded, Shown, Confirmed,
                Guarded, Waiting
  <2> QED  BY <2>1, <2>4, <2>5, <2>6 DEF OutboxStrong, OutboxInv
<1> QED  BY <1>1

LEMMA StepStrong ==
  ASSUME OutboxStrong, [Next]_vars
  PROVE  OutboxStrong'
<1>1. TypeOK /\ HoldersSound /\ StreamSound /\ Guarded /\ Deliveries /\ Records
  BY DEF OutboxStrong, OutboxInv, HoldersSound, StreamSound
<1>2. TypeOK'
  BY <1>1, StepTypes
<1>3. HoldersSound'
  BY <1>1, <1>2, StepHolders
<1>4. StreamSound'
  BY <1>1, <1>2, StepStream
<1>5. Guarded'
  BY <1>1, StepGuarded
<1> QED  BY <1>2, <1>3, <1>4, <1>5 DEF OutboxStrong, OutboxInv, HoldersSound, StreamSound

LEMMA OutboxAlwaysStrong == Spec => []OutboxStrong
BY InitStrong, StepStrong, PTL DEF Spec

\* However deliveries, leases, lost answers, crashes and hibernation mix, the Lobby notes
\* nothing as delivered that the stream has not stored, an alarm watches what waits, and a
\* claim is completed or restored by one handler only (claimCatalogNotification,
\* completeCatalogNotification, restoreCatalogNotification).
THEOREM OutboxAlwaysSound == Spec => []OutboxInv
<1>1. OutboxStrong => OutboxInv
  BY DEF OutboxStrong
<1> QED  BY <1>1, OutboxAlwaysStrong, PTL

-----------------------------------------------------------------------------
(* The outbox, the stream and its readers implement CatalogFeed.            *)

Seen == [c \in Readers |-> reader[c].shown]

LEMMA FeedRests ==
  ASSUME UNCHANGED <<revision, disk>>, \A c \in Readers : reader'[c].shown = reader[c].shown
  PROVE  UNCHANGED Feed!feedVars
BY DEF Feed!feedVars

LEMMA FeedTakesOver ==
  ASSUME TypeOK, disk' \in Nat, revision' = revision, disk' > disk, disk' <= revision,
         \A c \in Readers : reader'[c].shown \in {reader[c].shown, disk'}
  PROVE  Feed!FeedNext
<1>1. disk' \in (disk + 1)..revision
  BY Numbers
<1> QED  BY <1>1 DEF Feed!FeedNext, Feed!TakeOver

(* Only what the stream sends changes what a browser shows. *)
LEMMA ShownStays ==
  ASSUME TypeOK, NEW c \in Readers,
         Subscribe(c) \/ Snapshot(c) \/ SnapshotFails(c) \/ Disconnect(c) \/ ReconnectFails(c)
  PROVE  \A b \in Readers : reader'[b].shown = reader[b].shown
<1> SUFFICES ASSUME NEW b \in Readers  PROVE reader'[b].shown = reader[b].shown
  OBVIOUS
<1>1. reader[b] \in ReaderType
  BY DEF TypeOK
<1>2. CASE Subscribe(c)
  BY <1>1, <1>2 DEF Subscribe, TypeOK, ReaderType
<1>3. CASE SnapshotFails(c)
  BY <1>1, <1>3 DEF SnapshotFails, TypeOK, ReaderType
<1>4. CASE Disconnect(c)
  BY <1>1, <1>4 DEF Disconnect, LosesLink, TypeOK, ReaderType
<1>5. CASE ReconnectFails(c)
  BY <1>1, <1>5 DEF ReconnectFails, TypeOK, ReaderType
<1> QED  BY <1>2, <1>3, <1>4, <1>5 DEF Snapshot

LEMMA UpdateFeeds ==
  ASSUME TypeOK, StreamSound, NEW t \in Tasks, TakesUpdate(t)
  PROVE  [Feed!FeedNext]_(Feed!feedVars)
<1> DEFINE rev == task[t].carries
<1>1. /\ rev \in Nat /\ rev <= revision /\ disk' \in Nat
      /\ \/ /\ rev > disk /\ disk' = rev
            /\ reader' = [c \in Readers |-> IF reader[c].up THEN Shows(c, rev) ELSE reader[c]]
         \/ /\ rev <= disk /\ disk' = disk /\ reader' = reader
  BY UpdateIs
<1>2. revision' = revision
  BY DEF TakesUpdate
<1> HIDE DEF rev
<1>3. CASE rev > disk
  <2>1. disk' = rev /\ reader' = [c \in Readers |-> IF reader[c].up THEN Shows(c, rev) ELSE reader[c]]
    BY <1>1, <1>3, Numbers
  <2>2. \A c \in Readers : reader'[c].shown \in {reader[c].shown, disk'}
    BY <1>1, <2>1, ShowsIs
  <2> QED  BY <1>1, <1>2, <1>3, <2>1, <2>2, FeedTakesOver
<1>4. CASE ~(rev > disk)
  BY <1>1, <1>2, <1>4, FeedRests
<1> QED  BY <1>3, <1>4

LEMMA SnapshotFeeds ==
  ASSUME TypeOK, TypeOK', StreamSound, NEW c \in Readers, TakesSnapshot(c)
  PROVE  [Feed!FeedNext]_(Feed!feedVars)
<1> DEFINE r == disk'
<1>1. /\ r \in Nat /\ disk \in Nat /\ r >= disk /\ r <= revision /\ revision' = revision
      /\ reader' = [reader EXCEPT ![c] = IF reader[c].up THEN Shows(c, r) ELSE reader[c]]
      /\ r = disk'
  BY SnapshotIs, Numbers DEF TakesSnapshot, lobby
<1> HIDE DEF r
<1>2. Shows(c, r).shown = IF r > reader[c].shown THEN r ELSE reader[c].shown
  BY <1>1, ShowsIs
<1>3. \A b \in Readers : b # c => reader'[b] = reader[b]
  BY <1>1 DEF TypeOK
<1>4. reader'[c] = IF reader[c].up THEN Shows(c, r) ELSE reader[c]
  BY <1>1 DEF TypeOK
<1>5. CASE r > disk
  <2>1. \A b \in Readers : reader'[b].shown \in {reader[b].shown, disk'}
    BY <1>1, <1>2, <1>3, <1>4
  <2> QED  BY <1>1, <1>5, <2>1, FeedTakesOver
<1>6. CASE r = disk /\ reader[c].up /\ r > reader[c].shown
  <2>1. reader'[c].shown = disk
    BY <1>2, <1>4, <1>6
  <2>2. Seen' = [Seen EXCEPT ![c] = disk]
    BY <1>3, <2>1 DEF Seen
  <2>3. Feed!See(c)
    BY <1>1, <1>6, <2>2 DEF Feed!See, Seen
  <2> QED  BY <2>3 DEF Feed!FeedNext
<1>7. CASE r = disk /\ ~(reader[c].up /\ r > reader[c].shown)
  <2>1. \A b \in Readers : reader'[b].shown = reader[b].shown
    BY <1>2, <1>3, <1>4, <1>7
  <2> QED  BY <1>1, <1>7, <2>1, FeedRests
<1> QED  BY <1>1, <1>5, <1>6, <1>7

LEMMA FeedStep ==
  ASSUME OutboxStrong, OutboxStrong', [Next]_vars
  PROVE  [Feed!FeedNext]_(Feed!feedVars)
<1> DEFINE Step == [Feed!FeedNext]_(Feed!feedVars)
<1>1. TypeOK /\ TypeOK' /\ StreamSound
  BY DEF OutboxStrong, OutboxInv, StreamSound
<1>2. ASSUME UNCHANGED <<revision, disk, reader>>  PROVE Step
  BY <1>2, FeedRests
<1>3. CASE UNCHANGED vars
  BY <1>2, <1>3 DEF vars, lobby, stream
<1>4. ASSUME NEW t \in Tasks, Commit(t)  PROVE Step
  BY <1>4 DEF Commit, stream, Feed!FeedNext, Feed!CommitOne
<1>5. ASSUME NEW t \in Tasks,
             Alarm(t) \/ Claim(t) \/ Send(t) \/ Complete(t) \/ Restore(t) \/ CallFails(t)
      PROVE  Step
  BY <1>2, <1>5 DEF Alarm, Claim, Send, Complete, Restore, CallFails, stream
<1>6. CASE FallsDue \/ LobbyCrashes \/ \E r \in Revisions : LeaseEnds(r)
  BY <1>2, <1>6 DEF FallsDue, LobbyCrashes, LeaseEnds, stream
<1>7. ASSUME NEW c \in Readers,
             Subscribe(c) \/ Snapshot(c) \/ SnapshotFails(c) \/ Disconnect(c) \/ ReconnectFails(c)
      PROVE  Step
  <2>1. UNCHANGED <<revision, disk>>
    BY <1>7 DEF Subscribe, Snapshot, SnapshotFails, Disconnect, ReconnectFails, lobby, stream
  <2> QED  BY <1>1, <1>7, <2>1, ShownStays, FeedRests
<1>8. CASE Hibernate \/ StreamCrashes
  <2>1. \A c \in Readers : LosesLink(c).shown = reader[c].shown
    BY <1>1 DEF LosesLink, TypeOK, ReaderType
  <2>2. \A c \in Readers : reader'[c].shown = reader[c].shown
    BY <1>8, <2>1 DEF Hibernate, StreamCrashes
  <2>3. UNCHANGED <<revision, disk>>
    BY <1>8 DEF Hibernate, StreamCrashes, lobby
  <2> QED  BY <2>2, <2>3, FeedRests
<1> QED  BY <1>1, <1>3, <1>4, <1>5, <1>6, <1>7, <1>8, UpdateFeeds, SnapshotFeeds
         DEF Next, Work, Reads

\* Every behaviour of outbox, stream and browsers is one of CatalogFeed: no browser goes back
\* to an older catalog or sees one the stream had not stored, although deliveries overtake
\* snapshots and the stream forgets its memory (POST /internal/active-update,
\* dispatchCustomMessage, OnlineLobbyStream.handleMessage).
THEOREM OutboxImplementsFeed == Spec => ImplementsFeed
<1>1. Init => Feed!FeedInit
  BY DEF Init, Feed!FeedInit
<1>2. OutboxStrong /\ OutboxStrong' /\ [Next]_vars => [Feed!FeedNext]_(Feed!feedVars)
  BY FeedStep
<1> QED
  BY <1>1, <1>2, OutboxAlwaysStrong, PTL DEF Spec, ImplementsFeed, Feed!FeedSpec
=============================================================================
