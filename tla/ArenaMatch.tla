----------------------------- MODULE ArenaMatch -----------------------------
(***************************************************************************)
(* One match between two bots: the headless referee                        *)
(* (match-controller.mjs), the process of each bot (process-bot.mjs) and   *)
(* the channel over its standard streams (ndjson-channel.mjs).             *)
(*                                                                         *)
(* Every callback of the event loop is one action, together with all that  *)
(* its promises resolve before the next callback: an answer that settles a *)
(* turn is judged, played and followed by the next request in one step.    *)
(* Time passes in ticks while a turn is out; a callback may be late.       *)
(***************************************************************************)
EXTENDS Naturals

CONSTANTS
    Bank,       \* policy.initialTimeMs
    TurnLimit,  \* policy.turnTimeLimitMs
    Graces,     \* policy.firstMoveGraceMs of the policies, 0 if it has none
    MaxPlies,   \* policy.maxPlies
    MaxLate     \* bound: ticks the timer's callback may be late

ASSUME MatchAssumption ==
    /\ {Bank, TurnLimit, MaxPlies} \subseteq Nat \ {0}
    /\ Graces \subseteq Nat /\ MaxLate \in Nat

Seats == {"A", "B"}
Other(s) == IF s = "A" THEN "B" ELSE "A"

VARIABLES
    ref,      \* the run of the controller
    bot,      \* each bot's process and channel
    aborted,  \* supervisorSignal.aborted
    guilty,   \* history: bots that broke the rules of the match
    spent     \* history: time each bot took for the moves it pays for

vars == <<ref, bot, aborted, guilty, spent>>

Codes == {"protocol_error", "output_limit", "crash"}
Timeouts == {"turn_timeout", "total_timeout"}

NoResult == [kind |-> "none"]
Interrupted == [kind |-> "infrastructure_error"]
Draw == [kind |-> "draw"]
Win(s) == [kind |-> "win", winner |-> s]
Forfeit(s, reason) == [kind |-> "forfeit", loser |-> s, reason |-> reason]

Results == {NoResult, Interrupted, Draw} \cup {Win(s) : s \in Seats}
             \cup {Forfeit(s, c) : s \in Seats, c \in Codes \cup Timeouts \cup {"illegal_move"}}

Refs == [phase : {"start A", "start B", "playing", "stopping", "over"},
         turn : Seats, plies : 0 .. MaxPlies, bank : [Seats -> 0 .. Bank],
         grace : Graces, moved : [Seats -> BOOLEAN],
         elapsed : Nat, result : Results,
         moves : 0 .. MaxPlies, finished : BOOLEAN]     \* the replay journal
Bots == [proc : {"none", "spawning", "running", "ended"},
         eof : BOOLEAN, exited : BOOLEAN,
         stop : {"no", "asked", "killed", "done"},
         pending : BOOLEAN, partial : BOOLEAN,
         fault : Codes \cup {"none"}]

TypeOK ==
    /\ ref \in Refs
    /\ bot \in [Seats -> Bots]
    /\ aborted \in BOOLEAN /\ guilty \subseteq Seats /\ spent \in [Seats -> Nat]

----------------------------------------------------------------------------
(* Judging a turn.  r is a run, b the state of the bots.                   *)

GraceTurn(r) == r.grace > 0 /\ ~r.moved[r.turn]

Budget(r) ==
    IF GraceTurn(r) THEN r.grace
    ELSE IF r.bank[r.turn] < TurnLimit THEN r.bank[r.turn] ELSE TurnLimit

Charged(r, ms) ==
    IF GraceTurn(r) THEN r
    ELSE [r EXCEPT !.bank[r.turn] = IF @ > ms THEN @ - ms ELSE 0]

\* A plausible slip: the journal of a run that does not count is closed too.
ConcludedAnyhow(r, verdict) ==
    [r EXCEPT !.phase = "stopping", !.result = verdict, !.elapsed = 0, !.finished = TRUE]

\* The loop ends: the journal is finished if the match counts.
Concluded(r, verdict) ==
    [r EXCEPT !.phase = "stopping", !.result = verdict, !.elapsed = 0,
              !.finished = verdict # Interrupted]

\* consumeFault and getFault of a bot that nobody has stopped.
FaultOf(x) ==
    IF x.fault # "none" THEN x.fault ELSE IF x.exited THEN "crash" ELSE "none"

TimeoutReason(r) ==
    IF ~GraceTurn(r) /\ r.bank[r.turn] <= TurnLimit THEN "total_timeout" ELSE "turn_timeout"

\* The engine plays the move; w is the winner it then has, if any.
Played(r, w) ==
    LET next == [r EXCEPT !.plies = @ + 1, !.moves = @ + 1, !.moved[r.turn] = TRUE,
                          !.turn = Other(r.turn), !.elapsed = 0]
    IN  IF w # "none" THEN Concluded(next, Win(w))
        ELSE IF next.plies >= MaxPlies THEN Concluded(next, Draw)
        ELSE next

\* A plausible slip: the acting bot is looked at first and pays for both.
JudgedActingFirst(r, b, outcome) ==
    LET s == r.turn
        o == Other(s)
        inTime == Charged(r, r.elapsed)
    IN  IF outcome.kind = "supervisor" THEN Concluded(r, Interrupted)
        ELSE IF FaultOf(b[s]) # "none" \/ FaultOf(b[o]) # "none"
          THEN Concluded(inTime, Forfeit(s, "protocol_error"))
        ELSE IF outcome.kind = "timeout" \/ r.elapsed >= Budget(r)
          THEN Concluded(Charged(r, Budget(r)), Forfeit(s, TimeoutReason(r)))
        ELSE IF outcome.kind \in Codes \cup {"illegal_move"}
          THEN Concluded(inTime, Forfeit(s, outcome.kind))
        ELSE Played(inTime, outcome.winner)

\* What the race of answer, timer and supervisor came to, in the order the
\* controller looks at it: a fault of the other bot, one of the bot on turn,
\* the time, an error, the answer.
Judged(r, b, outcome) ==
    LET s == r.turn
        o == Other(s)
        inTime == Charged(r, r.elapsed)
    IN  IF outcome.kind = "supervisor" THEN Concluded(r, Interrupted)
        ELSE IF FaultOf(b[o]) # "none" THEN Concluded(inTime, Forfeit(o, FaultOf(b[o])))
        ELSE IF FaultOf(b[s]) # "none" THEN Concluded(inTime, Forfeit(s, FaultOf(b[s])))
        ELSE IF outcome.kind = "timeout" \/ r.elapsed >= Budget(r)
          THEN Concluded(Charged(r, Budget(r)), Forfeit(s, TimeoutReason(r)))
        ELSE IF outcome.kind \in Codes \cup {"illegal_move"}
          THEN Concluded(inTime, Forfeit(s, outcome.kind))
        ELSE Played(inTime, outcome.winner)

\* The loop's next turn: a bot that has exited or whose channel has a fault
\* refuses the request at once.
Asked(r, b) ==
    IF r.phase # "playing" THEN r
    ELSE IF aborted THEN Concluded(r, Interrupted)
    ELSE IF FaultOf(b[r.turn]) # "none" THEN Judged(r, b, [kind |-> "crash"])
    ELSE r

\* The bots afterwards: asked for a move, or to stop.
Follow(r, b) ==
    CASE r.phase = "playing" -> [b EXCEPT ![r.turn].pending = TRUE]
      [] r.phase = "stopping" -> [s \in Seats |-> [b[s] EXCEPT !.stop = "asked"]]
      [] OTHER -> b

Proceed(r, b) == ref' = r /\ bot' = Follow(r, b)

\* The turn that is out ends with this outcome, its bots being b.
Settle(b, outcome) ==
    LET closed == [b EXCEPT ![ref.turn].pending = FALSE]
    IN  Proceed(Asked(Judged(ref, closed, outcome), closed), closed)

\* A callback that leaves the turn as it is, or rejects its request.
Disturb(s, b) ==
    IF ref.phase = "playing" /\ ref.turn = s /\ bot[s].pending
    THEN Settle(b, [kind |-> b[s].fault])
    ELSE ref' = ref /\ bot' = b

----------------------------------------------------------------------------
(* History: what the bots really did.                                      *)

\* The bot on turn has had all the time the policy gives it.
Overdue ==
    IF GraceTurn(ref) THEN ref.elapsed >= ref.grace
    ELSE ref.elapsed >= TurnLimit \/ spent[ref.turn] + ref.elapsed >= Bank

Late == IF Overdue THEN {ref.turn} ELSE {}

Spend ==
    spent' = IF GraceTurn(ref) THEN spent ELSE [spent EXCEPT ![ref.turn] = @ + ref.elapsed]

----------------------------------------------------------------------------
(* Starting the bots, one after the other.                                 *)

Running == ref.phase \in {"start A", "start B", "playing"}
Starting(s) == /\ ref.phase = IF s = "A" THEN "start A" ELSE "start B"
               /\ bot[s].proc = "spawning"

Spawned(s) ==
    /\ Starting(s)
    /\ LET b == [bot EXCEPT ![s].proc = "running"]
           r == [ref EXCEPT !.phase = "playing"]
       IN  IF s = "A"
           THEN ref' = [ref EXCEPT !.phase = "start B"]
                /\ bot' = [b EXCEPT !["B"].proc = "spawning"]
           ELSE Proceed(Asked(r, b), b)
    /\ UNCHANGED <<aborted, guilty, spent>>

\* The program cannot be spawned, or does not start within five seconds and
\* is killed.
StartFails(s) ==
    /\ Starting(s)
    /\ \E p \in {"none", "ended"} :
        Proceed(Concluded(ref, Interrupted), [bot EXCEPT ![s].proc = p])
    /\ UNCHANGED <<aborted, guilty, spent>>

----------------------------------------------------------------------------
(* What a bot's process does, and the channel's callbacks.                 *)

Talks(s) == Running /\ bot[s].proc \in {"running", "ended"} /\ ~bot[s].eof

\* triggerFault: the first fault stays; the open request is rejected.
Faulty(s, code) == [bot EXCEPT ![s].fault = IF @ = "none" THEN code ELSE @,
                               ![s].partial = FALSE]

\* A whole line that answers the open request: a move the engine takes, an
\* illegal one, or one without the form of an action.
Answer(s) ==
    /\ Talks(s) /\ bot[s].pending /\ bot[s].fault = "none"
    /\ LET b == [bot EXCEPT ![s].partial = FALSE]
       IN  \/ /\ \E w \in Seats \cup {"none"} : Settle(b, [kind |-> "move", winner |-> w])
              /\ guilty' = guilty \cup Late
              /\ Spend
           \/ /\ \E code \in {"illegal_move", "protocol_error"} : Settle(b, [kind |-> code])
              /\ guilty' = guilty \cup {s}
              /\ UNCHANGED spent
    /\ UNCHANGED aborted

\* Output the channel refuses: a line nobody asked for, two in one chunk, one
\* that is no JSON or answers another request, or more bytes than allowed.
Garbage(s) ==
    /\ Talks(s) /\ bot[s].fault = "none"
    /\ \E code \in {"protocol_error", "output_limit"} : Disturb(s, Faulty(s, code))
    /\ guilty' = guilty \cup {s}
    /\ UNCHANGED <<aborted, spent>>

\* The beginning of a line.
Partial(s) ==
    /\ Talks(s) /\ bot[s].fault = "none" /\ ~bot[s].partial
    /\ bot' = [bot EXCEPT ![s].partial = TRUE]
    /\ UNCHANGED <<ref, aborted, guilty, spent>>

\* The process ends by itself.
Dies(s) ==
    /\ bot[s].proc = "running"
    /\ bot' = [bot EXCEPT ![s].proc = "ended"]
    /\ guilty' = IF Running THEN guilty \cup {s} ELSE guilty
    /\ UNCHANGED <<ref, aborted, spent>>

\* handleStdoutEnd, because the process ended or closed its output.
StdoutEnds(s) ==
    /\ Talks(s)
    /\ LET b == [bot EXCEPT ![s].eof = TRUE]
           code == IF bot[s].partial THEN "protocol_error" ELSE "crash"
       IN  IF bot[s].partial \/ bot[s].pending
           THEN Disturb(s, [b EXCEPT ![s].fault = IF @ = "none" THEN code ELSE @])
           ELSE ref' = ref /\ bot' = b
    /\ guilty' = guilty \cup {s}
    /\ UNCHANGED <<aborted, spent>>

\* The child's close event, after the end of its streams.
Closes(s) ==
    /\ Running /\ bot[s].proc = "ended" /\ bot[s].eof /\ ~bot[s].exited
    /\ bot' = [bot EXCEPT ![s].exited = TRUE]
    /\ UNCHANGED <<ref, aborted, guilty, spent>>

\* Writing the request to a process that ended.
StdinFails(s) ==
    /\ Running /\ bot[s].proc = "ended" /\ bot[s].pending /\ bot[s].fault = "none"
    /\ Disturb(s, Faulty(s, "crash"))
    /\ UNCHANGED <<aborted, guilty, spent>>

----------------------------------------------------------------------------
(* The timer and the supervisor.                                           *)

TimerFires ==
    /\ ref.phase = "playing"
    /\ ref.elapsed >= Budget(ref)
    /\ Settle(bot, [kind |-> "timeout"])
    /\ guilty' = guilty \cup Late
    /\ UNCHANGED <<aborted, spent>>

Abort ==
    /\ Running /\ ~aborted
    /\ aborted' = TRUE
    /\ IF ref.phase = "playing"
       THEN Settle(bot, [kind |-> "supervisor"])
       ELSE UNCHANGED <<ref, bot>>
    /\ UNCHANGED <<guilty, spent>>

Tick ==
    /\ ref.phase = "playing"
    /\ ref.elapsed < Budget(ref) + MaxLate
    /\ ref' = [ref EXCEPT !.elapsed = @ + 1]
    /\ UNCHANGED <<bot, aborted, guilty, spent>>

----------------------------------------------------------------------------
(* stop(), of both bots side by side.                                      *)

\* A plausible slip: the stop waits for the bot to end by itself.
KillTreeIfEnded(s) ==
    /\ bot[s].stop = "asked" /\ bot[s].proc = "ended"
    /\ bot' = [bot EXCEPT ![s].stop = "killed"]
    /\ UNCHANGED <<ref, aborted, guilty, spent>>

\* After the grace period, or the process's own end: its tree is killed.
KillTree(s) ==
    /\ bot[s].stop = "asked" /\ bot[s].proc # "none"
    /\ bot' = [bot EXCEPT ![s].stop = "killed", ![s].proc = "ended"]
    /\ UNCHANGED <<ref, aborted, guilty, spent>>

\* The channel is closed; the run returns when both stops did.
StopEnds(s) ==
    /\ bot[s].stop = "killed" \/ (bot[s].stop = "asked" /\ bot[s].proc = "none")
    /\ bot' = [bot EXCEPT ![s].stop = "done"]
    /\ ref' = [ref EXCEPT !.phase = IF bot[Other(s)].stop = "done" THEN "over" ELSE @]
    /\ UNCHANGED <<aborted, guilty, spent>>

----------------------------------------------------------------------------

Init ==
    /\ \E g \in Graces, first \in Seats :
        ref = [phase |-> "start A", turn |-> first, plies |-> 0,
               bank |-> [s \in Seats |-> Bank], grace |-> g,
               moved |-> [s \in Seats |-> FALSE], elapsed |-> 0,
               result |-> NoResult, moves |-> 0, finished |-> FALSE]
    /\ bot = [s \in Seats |-> [proc |-> IF s = "A" THEN "spawning" ELSE "none",
                               eof |-> FALSE, exited |-> FALSE, stop |-> "no",
                               pending |-> FALSE, partial |-> FALSE, fault |-> "none"]]
    /\ aborted = FALSE /\ guilty = {} /\ spent = [s \in Seats |-> 0]

Next ==
    \/ \E s \in Seats :
        \/ Spawned(s) \/ StartFails(s)
        \/ Answer(s) \/ Garbage(s) \/ Partial(s)
        \/ Dies(s) \/ StdoutEnds(s) \/ Closes(s) \/ StdinFails(s)
        \/ KillTree(s) \/ StopEnds(s)
    \/ TimerFires \/ Abort \/ Tick

Safe == Init /\ [][Next]_vars

\* Spawning comes to an end, time passes, and the event loop runs its timers;
\* of the bots nothing is expected.
Fairness ==
    /\ WF_vars(Tick) /\ WF_vars(TimerFires)
    /\ \A s \in Seats :
        /\ WF_vars(Spawned(s) \/ StartFails(s))
        /\ WF_vars(KillTree(s)) /\ WF_vars(StopEnds(s))

Spec == Safe /\ Fairness

----------------------------------------------------------------------------
(* Properties.                                                             *)

\* A bot that keeps to the rules is never the loser of a forfeit, whatever the
\* other bot's process, the timer and the channels do, and in whatever order
\* their callbacks come; a forfeit for time goes to a bot that had all of it.
BlameDeserved == ref.result.kind = "forfeit" => ref.result.loser \in guilty

\* The state of a run that is still on, and of one that is not.
PhasesSound ==
    /\ Running =>
        /\ ref.result = NoResult /\ ~ref.finished /\ ref.plies < MaxPlies
        /\ \A s \in Seats : bot[s].stop = "no" /\ ref.bank[s] > 0
                            /\ ref.bank[s] + spent[s] = Bank
    /\ ~Running => ref.result # NoResult

\* What counts as a fault of a bot is the bot's doing.
FaultsDeserved ==
    \A s \in Seats :
        /\ bot[s].fault # "none" \/ bot[s].exited \/ bot[s].eof => s \in guilty
        /\ Running /\ bot[s].proc = "ended" => s \in guilty

\* One request is out, to the bot on turn.
OneRequest ==
    /\ ref.phase \in {"start A", "start B"} => \A s \in Seats : ~bot[s].pending
    /\ ref.phase = "playing" =>
        ~aborted /\ bot[ref.turn].pending /\ ~bot[Other(ref.turn)].pending

\* A run that was interrupted never counts, and neither does one whose bots did
\* not start: no result but an infrastructure error, and no finished journal.
\* One that counts has a finished journal of exactly the moves played; while it
\* is on, each bot pays for its moves out of its bank, without the grace, and
\* only what is its own doing can be held against it.
RunSound ==
    /\ TypeOK
    /\ aborted /\ ref.result # NoResult => ref.result = Interrupted
    /\ ref.finished <=> ref.result \notin {NoResult, Interrupted}
    /\ ref.moves = ref.plies
    /\ PhasesSound /\ FaultsDeserved /\ OneRequest

\* Every run ends with both processes gone, though bots hang, die, flood their
\* output or are never heard of.
RunEnds == <>[](ref.phase = "over" /\ \A s \in Seats : bot[s].proc \in {"none", "ended"})
=============================================================================
