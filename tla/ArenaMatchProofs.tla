-------------------------- MODULE ArenaMatchProofs --------------------------
(***************************************************************************)
(* Proofs about ArenaMatch, for every policy: the inductive invariant is   *)
(* Inv, RunSound together with BlameDeserved.  On and Off say what a run   *)
(* of the controller looks like inside a step, while the turn that ended   *)
(* is judged, played and followed by the next request; each callback then  *)
(* leaves the state in one of three shapes (OffKeepsInv, OnKeepsInv,       *)
(* QuietKeepsInv).                                                         *)
(***************************************************************************)
EXTENDS ArenaMatch, TLAPS

\* A run that is still on, and one that has just ended, with only bots of G to blame.
On(r) ==
    /\ r \in Refs /\ r.phase = "playing"
    /\ r.result = NoResult /\ ~r.finished /\ r.moves = r.plies /\ r.plies < MaxPlies
    /\ \A s \in Seats : r.bank[s] > 0
Off(r, G) ==
    /\ r \in Refs /\ r.phase = "stopping"
    /\ r.result # NoResult /\ (r.finished <=> r.result # Interrupted) /\ r.moves = r.plies
    /\ r.result.kind = "forfeit" => r.result.loser \in G

\* Only bots of G have faults.
Known(b, G) == \A s \in Seats : FaultOf(b[s]) # "none" => s \in G

LEMMA RefIs ==
  ASSUME NEW r \in Refs
  PROVE  /\ r.turn \in Seats /\ r.elapsed \in Nat /\ r.plies \in Nat /\ r.grace \in Nat
         /\ \A s \in Seats : r.bank[s] \in Nat
<1>1. Bank \in Nat /\ MaxPlies \in Nat /\ Graces \subseteq Nat
  BY MatchAssumption
<1>2. r.turn \in Seats /\ r.elapsed \in Nat /\ r.plies \in 0 .. MaxPlies /\ r.grace \in Graces
      /\ r.bank \in [Seats -> 0 .. Bank]
  BY DEF Refs
<1>3. r.plies \in Nat
  BY <1>1, <1>2
<1>4. r.grace \in Nat
  BY <1>1, <1>2
<1>5. \A s \in Seats : r.bank[s] \in Nat
  <2>1. \A s \in Seats : r.bank[s] \in 0 .. Bank
    BY <1>2
  <2> QED  BY <1>1, <2>1
<1> QED  BY <1>2, <1>3, <1>4, <1>5

LEMMA ResultsDiffer ==
    /\ Interrupted \in Results /\ Draw \in Results
    /\ Interrupted # NoResult /\ Draw # NoResult /\ Draw # Interrupted
    /\ Interrupted.kind # "forfeit" /\ Draw.kind # "forfeit"
    /\ \A s \in Seats : /\ Win(s) \in Results /\ Win(s) # NoResult /\ Win(s) # Interrupted
                        /\ Win(s).kind # "forfeit"
<1>1. Interrupted.kind = "infrastructure_error" /\ Draw.kind = "draw" /\ NoResult.kind = "none"
  BY DEF Interrupted, Draw, NoResult
<1>2. \A s \in Seats : Win(s).kind = "win"
  BY DEF Win
<1> QED  BY <1>1, <1>2 DEF Results

LEMMA ForfeitsDiffer ==
  ASSUME NEW s \in Seats, NEW c \in Codes \cup Timeouts \cup {"illegal_move"}
  PROVE  /\ Forfeit(s, c) \in Results
         /\ Forfeit(s, c) # NoResult /\ Forfeit(s, c) # Interrupted
         /\ Forfeit(s, c).loser = s
<1>1. Forfeit(s, c).kind = "forfeit" /\ Forfeit(s, c).loser = s
  BY DEF Forfeit
<1>2. Interrupted.kind = "infrastructure_error" /\ NoResult.kind = "none"
  BY DEF Interrupted, NoResult
<1> QED  BY <1>1, <1>2 DEF Results

LEMMA ConcludedIsOff ==
  ASSUME NEW r \in Refs, r.moves = r.plies, NEW G, NEW v \in Results, v # NoResult,
         v.kind = "forfeit" => v.loser \in G
  PROVE  Off(Concluded(r, v), G) /\ Concluded(r, v).result = v
<1>1. /\ Concluded(r, v) \in Refs /\ Concluded(r, v).phase = "stopping"
      /\ Concluded(r, v).result = v /\ (Concluded(r, v).finished <=> v # Interrupted)
      /\ Concluded(r, v).moves = Concluded(r, v).plies
  BY DEF Concluded, Refs
<1> QED  BY <1>1 DEF Off

LEMMA ForfeitIsOff ==
  ASSUME NEW r \in Refs, r.moves = r.plies, NEW G, NEW s \in Seats, s \in G,
         NEW c \in Codes \cup Timeouts \cup {"illegal_move"}
  PROVE  Off(Concluded(r, Forfeit(s, c)), G)
BY ForfeitsDiffer, ConcludedIsOff

LEMMA ChargedIs ==
  ASSUME NEW r \in Refs, NEW ms \in Nat
  PROVE  /\ Charged(r, ms) \in Refs
         /\ \A f \in {"phase", "turn", "plies", "grace", "moved", "elapsed", "result", "moves",
                      "finished"} : Charged(r, ms)[f] = r[f]
         /\ \A s \in Seats : Charged(r, ms).bank[s] =
              IF s # r.turn \/ GraceTurn(r) THEN r.bank[s]
              ELSE IF r.bank[s] > ms THEN r.bank[s] - ms ELSE 0
<1>1. CASE GraceTurn(r)
  BY <1>1 DEF Charged
<1>2. CASE ~GraceTurn(r)
  <2> DEFINE left == IF r.bank[r.turn] > ms THEN r.bank[r.turn] - ms ELSE 0
  <2>1. left \in 0 .. Bank
    <3>1. r.bank[r.turn] \in 0 .. Bank
      BY DEF Refs
    <3> QED  BY <3>1, MatchAssumption
  <2>2. Charged(r, ms) = [r EXCEPT !.bank = [r.bank EXCEPT ![r.turn] = left]]
    BY <1>2 DEF Charged, Refs
  <2> HIDE DEF left
  <2>3. Charged(r, ms) \in Refs
    <3>1. [r.bank EXCEPT ![r.turn] = left] \in [Seats -> 0 .. Bank]
      BY <2>1 DEF Refs
    <3> QED  BY <2>2, <3>1 DEF Refs
  <2>4. \A s \in Seats : Charged(r, ms).bank[s] = IF s # r.turn THEN r.bank[s] ELSE left
    BY <2>1, <2>2 DEF Refs
  <2> QED  BY <1>2, <2>2, <2>3, <2>4 DEF Refs, left
<1> QED  BY <1>1, <1>2

LEMMA SeatsDiffer ==
  \A s \in Seats : Other(s) \in Seats /\ Other(s) # s /\ Other(Other(s)) = s
                   /\ \A x \in Seats : x = s \/ x = Other(s)
BY DEF Seats, Other

\* What the channel or the engine can say of a turn, and what only a bot that
\* broke the rules makes it say.
Rejections == Codes \cup {"illegal_move"}
Outcome(o) ==
    /\ o.kind \in {"supervisor", "timeout", "move"} \cup Rejections
    /\ o.kind = "move" => o.winner \in Seats \cup {"none"}
Blamed(r, o, G) ==
    /\ o.kind \in {"timeout"} \cup Rejections => r.turn \in G
    /\ r.elapsed >= Budget(r) => r.turn \in G

LEMMA FaultsAre ==
  ASSUME NEW b \in [Seats -> Bots], NEW s \in Seats
  PROVE  FaultOf(b[s]) \in Codes \cup {"none"}
<1>1. b[s].fault \in Codes \cup {"none"}
  BY DEF Bots
<1> QED  BY <1>1 DEF FaultOf, Codes

LEMMA BudgetIs ==
  ASSUME NEW r \in Refs
  PROVE  /\ Budget(r) \in Nat
         /\ GraceTurn(r) => Budget(r) = r.grace
         /\ ~GraceTurn(r) => Budget(r) = IF r.bank[r.turn] < TurnLimit THEN r.bank[r.turn] ELSE TurnLimit
<1>1. r.grace \in Nat /\ r.bank[r.turn] \in Nat
  BY RefIs
<1> QED  BY <1>1, MatchAssumption DEF Budget

LEMMA JudgedSound ==
  ASSUME NEW r, On(r), NEW b \in [Seats -> Bots], NEW G, Known(b, G),
         NEW o, Outcome(o), o.kind # "supervisor" => Blamed(r, o, G)
  PROVE  \/ /\ Off(Judged(r, b, o), G)
            /\ o.kind = "supervisor" => Judged(r, b, o).result = Interrupted
         \/ /\ o.kind = "move" /\ r.elapsed < Budget(r)
            /\ Judged(r, b, o) = Played(Charged(r, r.elapsed), o.winner)
<1> DEFINE s == r.turn
           x == Other(r.turn)
<1>1. r \in Refs /\ r.moves = r.plies /\ s \in Seats /\ x \in Seats /\ r.elapsed \in Nat
  BY SeatsDiffer DEF On, Refs
<1>2. Budget(r) \in Nat
  BY <1>1, BudgetIs
<1>3. \A ms \in Nat : Charged(r, ms) \in Refs /\ Charged(r, ms).moves = Charged(r, ms).plies
  BY <1>1, ChargedIs
<1>4. FaultOf(b[s]) \in Codes \cup {"none"} /\ FaultOf(b[x]) \in Codes \cup {"none"}
  BY <1>1, FaultsAre
<1>5. CASE o.kind = "supervisor"
  <2>1. Judged(r, b, o) = Concluded(r, Interrupted)
    BY <1>5 DEF Judged
  <2> QED  BY <1>1, <1>5, <2>1, ResultsDiffer, ConcludedIsOff
<1>6. CASE o.kind # "supervisor" /\ FaultOf(b[x]) # "none"
  <2>1. Judged(r, b, o) = Concluded(Charged(r, r.elapsed), Forfeit(x, FaultOf(b[x])))
    BY <1>6 DEF Judged
  <2>2. x \in G
    BY <1>1, <1>6 DEF Known
  <2> QED  BY <1>1, <1>3, <1>4, <1>6, <2>1, <2>2, ForfeitIsOff
<1>7. CASE o.kind # "supervisor" /\ FaultOf(b[x]) = "none" /\ FaultOf(b[s]) # "none"
  <2>1. Judged(r, b, o) = Concluded(Charged(r, r.elapsed), Forfeit(s, FaultOf(b[s])))
    BY <1>7 DEF Judged
  <2>2. s \in G
    BY <1>1, <1>7 DEF Known
  <2> QED  BY <1>1, <1>3, <1>4, <1>7, <2>1, <2>2, ForfeitIsOff
<1>8. CASE o.kind # "supervisor" /\ FaultOf(b[x]) = "none" /\ FaultOf(b[s]) = "none"
  <2>1. CASE o.kind = "timeout" \/ r.elapsed >= Budget(r)
    <3>1. Judged(r, b, o) = Concluded(Charged(r, Budget(r)), Forfeit(s, TimeoutReason(r)))
      BY <1>8, <2>1 DEF Judged
    <3>2. s \in G /\ TimeoutReason(r) \in Timeouts
      BY <1>8, <2>1 DEF Blamed, TimeoutReason, Timeouts
    <3> QED  BY <1>1, <1>2, <1>3, <1>8, <3>1, <3>2, ForfeitIsOff
  <2>2. CASE ~(o.kind = "timeout" \/ r.elapsed >= Budget(r)) /\ o.kind \in Rejections
    <3>1. Judged(r, b, o) = Concluded(Charged(r, r.elapsed), Forfeit(s, o.kind))
      BY <1>8, <2>2 DEF Judged, Rejections
    <3>2. s \in G
      BY <1>8, <2>2 DEF Blamed
    <3> QED  BY <1>1, <1>3, <1>8, <2>2, <3>1, <3>2, ForfeitIsOff DEF Rejections
  <2>3. CASE ~(o.kind = "timeout" \/ r.elapsed >= Budget(r)) /\ o.kind \notin Rejections
    <3>1. Judged(r, b, o) = Played(Charged(r, r.elapsed), o.winner)
      BY <1>8, <2>3 DEF Judged, Rejections
    <3>2. o.kind = "move" /\ r.elapsed < Budget(r)
      BY <1>1, <1>2, <1>8, <2>3 DEF Outcome
    <3> QED  BY <3>1, <3>2
  <2> QED  BY <2>1, <2>2, <2>3
<1> QED  BY <1>5, <1>6, <1>7, <1>8

\* What a bot has left after the turn r.
Left(r, s) == IF s # r.turn \/ GraceTurn(r) THEN r.bank[s] ELSE r.bank[s] - r.elapsed
InTime(r) == r.elapsed < Budget(r)

LEMMA PlayedSound ==
  ASSUME NEW r, On(r), InTime(r), NEW w \in Seats \cup {"none"}, NEW G,
         NEW p, p = Played(Charged(r, r.elapsed), w)
  PROVE  Off(p, G) \/ (On(p) /\ p.turn = Other(r.turn) /\ \A s \in Seats : p.bank[s] = Left(r, s))
<1> USE DEF Left, InTime
<1> DEFINE c == Charged(r, r.elapsed)
           n == [c EXCEPT !.plies = @ + 1, !.moves = @ + 1, !.moved[c.turn] = TRUE,
                          !.turn = Other(c.turn), !.elapsed = 0]
<1>1. /\ r \in Refs /\ r.elapsed \in Nat /\ r.turn \in Seats /\ r.bank \in [Seats -> 0 .. Bank]
      /\ r.plies \in Nat
  <2>1. r \in Refs
    BY DEF On
  <2> QED  BY <2>1, RefIs DEF Refs
<1>2. c \in Refs /\ c.phase = "playing" /\ c.turn = r.turn /\ c.plies = r.plies
      /\ c.result = NoResult /\ c.moves = c.plies /\ ~c.finished
  <2>1. c \in Refs /\ c.phase = r.phase /\ c.turn = r.turn /\ c.plies = r.plies
        /\ c.result = r.result /\ c.moves = r.moves /\ c["finished"] = r["finished"]
    BY <1>1, ChargedIs
  <2>2. r.phase = "playing" /\ r.result = NoResult /\ r.moves = r.plies /\ ~r["finished"]
    BY DEF On
  <2>3. ~c["finished"]
    BY <2>1, <2>2, Zenon
  <2> QED  BY <2>1, <2>2, <2>3
<1>3. \A s \in Seats : c.bank[s] = IF s # r.turn \/ GraceTurn(r) THEN r.bank[s]
                                   ELSE r.bank[s] - r.elapsed
  <2>1. \A s \in Seats : c.bank[s] = IF s # r.turn \/ GraceTurn(r) THEN r.bank[s]
                                     ELSE IF r.bank[s] > r.elapsed THEN r.bank[s] - r.elapsed ELSE 0
    BY <1>1, ChargedIs
  <2>2. ~GraceTurn(r) => r.elapsed < r.bank[r.turn]
    <3>1. r.bank[r.turn] \in Nat
      BY <1>1, MatchAssumption
    <3> QED  BY <1>1, <3>1, BudgetIs, MatchAssumption
  <2>3. \A s \in Seats : r.bank[s] \in Nat
    BY <1>1, MatchAssumption
  <2> QED  BY <1>1, <2>1, <2>2, <2>3
<1>4. \A s \in Seats : c.bank[s] > 0
  <2>1. \A s \in Seats : r.bank[s] \in Nat /\ r.bank[s] > 0
    BY <1>1, MatchAssumption DEF On
  <2>2. ~GraceTurn(r) => r.elapsed < r.bank[r.turn]
    BY <1>1, <2>1, BudgetIs, MatchAssumption
  <2> QED  BY <1>1, <1>3, <2>1, <2>2
<1>5. r.plies < MaxPlies
  BY DEF On
<1>6. /\ n.plies = c.plies + 1 /\ n.moves = c.moves + 1 /\ n.turn = Other(c.turn)
      /\ n.phase = c.phase /\ n.result = c.result /\ n.bank = c.bank
      /\ (n.finished <=> c.finished)
  BY <1>2 DEF Refs
<1>7. n \in Refs
  <2>1. c.plies + 1 \in 0 .. MaxPlies /\ c.moves + 1 \in 0 .. MaxPlies
    BY <1>1, <1>2, <1>5, MatchAssumption
  <2>2. Other(c.turn) \in Seats
    BY <1>1, <1>2, SeatsDiffer
  <2>3. [c.moved EXCEPT ![c.turn] = TRUE] \in [Seats -> BOOLEAN]
    BY <1>2 DEF Refs
  <2>4. n = [c EXCEPT !.plies = c.plies + 1, !.moves = c.moves + 1,
                      !.moved = [c.moved EXCEPT ![c.turn] = TRUE],
                      !.turn = Other(c.turn), !.elapsed = 0]
    BY <1>2 DEF Refs
  <2> HIDE DEF n, c
  <2> QED  BY <1>2, <2>1, <2>2, <2>3, <2>4 DEF Refs
<1>8. n.moves = n.plies
  BY <1>2, <1>6
<1> HIDE DEF n
<1>9. p = IF w # "none" THEN Concluded(n, Win(w))
          ELSE IF n.plies >= MaxPlies THEN Concluded(n, Draw)
          ELSE n
  BY DEF Played, n
<1>10. CASE w # "none"
  BY <1>7, <1>8, <1>9, <1>10, ResultsDiffer, ConcludedIsOff
<1>11. CASE w = "none" /\ n.plies >= MaxPlies
  BY <1>7, <1>8, <1>9, <1>11, ResultsDiffer, ConcludedIsOff
<1>12. CASE w = "none" /\ ~(n.plies >= MaxPlies)
  <2>1. p = n
    BY <1>9, <1>12
  <2>2. n.plies < MaxPlies
    BY <1>1, <1>2, <1>6, <1>12, MatchAssumption
  <2> QED  BY <1>1, <1>2, <1>3, <1>4, <1>6, <1>7, <1>8, <2>1, <2>2 DEF On
<1> QED  BY <1>10, <1>11, <1>12

LEMMA AskedSound ==
  ASSUME NEW r, NEW b \in [Seats -> Bots], NEW G, Known(b, G)
  PROVE  /\ Off(r, G) => Asked(r, b) = r
         /\ On(r) => \/ Asked(r, b) = r /\ ~aborted
                     \/ Off(Asked(r, b), G) /\ (aborted => Asked(r, b).result = Interrupted)
<1>1. Off(r, G) => Asked(r, b) = r
  BY DEF Off, Asked
<1>2. ASSUME On(r)
      PROVE  \/ Asked(r, b) = r /\ ~aborted
             \/ Off(Asked(r, b), G) /\ (aborted => Asked(r, b).result = Interrupted)
  <2>1. r \in Refs /\ r.moves = r.plies /\ r.phase = "playing" /\ r.turn \in Seats
    BY <1>2 DEF On, Refs
  <2>2. CASE aborted
    <3>1. Asked(r, b) = Concluded(r, Interrupted)
      BY <2>1, <2>2 DEF Asked
    <3> QED  BY <2>1, <3>1, ResultsDiffer, ConcludedIsOff
  <2>3. CASE ~aborted /\ FaultOf(b[r.turn]) # "none"
    <3> DEFINE o == [kind |-> "crash"]
    <3>1. Asked(r, b) = Judged(r, b, o)
      BY <2>1, <2>3 DEF Asked
    <3>2. Outcome(o) /\ Blamed(r, o, G) /\ o.kind = "crash"
      BY <2>1, <2>3 DEF Outcome, Blamed, Known, Rejections, Codes
    <3> HIDE DEF o
    <3> QED  BY <1>2, <2>3, <3>1, <3>2, JudgedSound
  <2>4. CASE ~aborted /\ ~(FaultOf(b[r.turn]) # "none")
    BY <2>1, <2>4 DEF Asked
  <2> QED  BY <2>2, <2>3, <2>4
<1> QED  BY <1>1, <1>2

----------------------------------------------------------------------------
(* The invariant of a run, and the three shapes of the state after a step.  *)

Inv == RunSound /\ BlameDeserved

\* Whatever of this can be seen of a bot is the bot's doing.
Deserved(b, G) ==
    \A s \in Seats : b[s].fault # "none" \/ b[s].exited \/ b[s].eof => s \in G

LEMMA OffKeepsInv ==
  ASSUME Off(ref', guilty'), bot' \in [Seats -> Bots], Deserved(bot', guilty'),
         aborted' \in BOOLEAN, guilty' \subseteq Seats, spent' \in [Seats -> Nat],
         aborted' => ref'.result = Interrupted
  PROVE  Inv'
<1>1. TypeOK' /\ BlameDeserved'
  BY DEF TypeOK, BlameDeserved, Off
<1>2. ref'.phase = "stopping" /\ ref'.result # NoResult
  BY DEF Off
<1>3. PhasesSound' /\ FaultsDeserved' /\ OneRequest'
  BY <1>2 DEF PhasesSound, FaultsDeserved, OneRequest, Running, Deserved
<1>4. (ref.finished <=> ref.result \notin {NoResult, Interrupted})' /\ (ref.moves = ref.plies)'
  BY DEF Off
<1> QED  BY <1>1, <1>3, <1>4 DEF Inv, RunSound

LEMMA OnKeepsInv ==
  ASSUME On(ref'), bot' \in [Seats -> Bots], Deserved(bot', guilty'),
         ~aborted', aborted' \in BOOLEAN, guilty' \subseteq Seats, spent' \in [Seats -> Nat],
         \A s \in Seats : /\ bot'[s].stop = "no"
                          /\ bot'[s].proc = "ended" => s \in guilty'
                          /\ ref'.bank[s] + spent'[s] = Bank,
         bot'[ref'.turn].pending, ~bot'[Other(ref'.turn)].pending
  PROVE  Inv'
<1>1. NoResult.kind # "forfeit"
  BY DEF NoResult
<1>2. TypeOK' /\ BlameDeserved'
  BY <1>1 DEF TypeOK, BlameDeserved, On
<1>3. PhasesSound' /\ FaultsDeserved' /\ OneRequest'
  BY DEF PhasesSound, FaultsDeserved, OneRequest, Running, Deserved, On
<1>4. (ref.finished <=> ref.result \notin {NoResult, Interrupted})' /\ (ref.moves = ref.plies)'
  BY DEF On
<1> QED  BY <1>2, <1>3, <1>4 DEF Inv, RunSound, On

\* A callback the controller does not hear of.
LEMMA QuietKeepsInv ==
  ASSUME Inv, ref' = ref, aborted' = aborted, spent' = spent,
         bot' \in [Seats -> Bots], Deserved(bot', guilty'),
         guilty \subseteq guilty', guilty' \subseteq Seats,
         \A s \in Seats : /\ bot'[s].stop = bot[s].stop
                          /\ bot'[s].pending <=> bot[s].pending
                          /\ Running /\ bot'[s].proc = "ended" => s \in guilty'
  PROVE  Inv'
<1>1. TypeOK' /\ BlameDeserved'
  BY DEF Inv, RunSound, TypeOK, BlameDeserved
<1>2. PhasesSound'
  BY DEF Inv, RunSound, PhasesSound, Running
<1>3. FaultsDeserved'
  BY DEF FaultsDeserved, Running, Deserved
<1>4. OneRequest'
  <2>1. ref \in Refs
    BY DEF Inv, RunSound, TypeOK
  <2>2. ref.turn \in Seats /\ Other(ref.turn) \in Seats
    BY <2>1, RefIs, SeatsDiffer
  <2> QED  BY <2>2 DEF Inv, RunSound, OneRequest
<1> QED  BY <1>1, <1>2, <1>3, <1>4 DEF Inv, RunSound

LEMMA PlayingIsOn ==
  ASSUME Inv, ref.phase = "playing"
  PROVE  On(ref) /\ ~aborted
BY DEF Inv, RunSound, TypeOK, PhasesSound, Running, OneRequest, On

\* Time is over for a bot only when it had all of it.
LEMMA BudgetMeansOverdue ==
  ASSUME Inv, ref.phase = "playing", ref.elapsed >= Budget(ref)
  PROVE  Overdue
<1>1. ref \in Refs /\ ref.turn \in Seats /\ ref.elapsed \in Nat /\ ref.bank[ref.turn] \in Nat
  <2>1. ref \in Refs
    BY DEF Inv, RunSound, TypeOK
  <2> QED  BY <2>1, RefIs
<1>2. spent[ref.turn] \in Nat /\ ref.bank[ref.turn] + spent[ref.turn] = Bank
  BY <1>1 DEF Inv, RunSound, TypeOK, PhasesSound, Running
<1>3. CASE GraceTurn(ref)
  BY <1>1, <1>3, BudgetIs DEF Overdue
<1>4. CASE ~GraceTurn(ref)
  <2>1. ref.elapsed >= TurnLimit \/ ref.elapsed >= ref.bank[ref.turn]
    BY <1>1, <1>4, BudgetIs
  <2>2. Bank \in Nat
    BY MatchAssumption
  <2>3. ref.elapsed >= TurnLimit \/ spent[ref.turn] + ref.elapsed >= Bank
    BY <1>1, <1>2, <2>1, <2>2
  <2> QED  BY <1>4, <2>3 DEF Overdue
<1> QED  BY <1>3, <1>4

LEMMA LateIsKnown ==
  ASSUME Inv, ref.phase = "playing", guilty' = guilty \cup Late
  PROVE  guilty \subseteq guilty' /\ guilty' \subseteq Seats
         /\ (ref.elapsed >= Budget(ref) => ref.turn \in guilty')
<1>1. guilty \subseteq Seats /\ ref.turn \in Seats
  BY RefIs DEF Inv, RunSound, TypeOK
<1> QED  BY <1>1, BudgetMeansOverdue DEF Late

LEMMA AskingKeepsType ==
  ASSUME NEW b \in [Seats -> Bots], NEW s \in Seats, NEW v \in BOOLEAN
  PROVE  [b EXCEPT ![s].pending = v] \in [Seats -> Bots]
<1>1. [b[s] EXCEPT !.pending = v] \in Bots
  BY DEF Bots
<1>2. [b EXCEPT ![s].pending = v] = [b EXCEPT ![s] = [b[s] EXCEPT !.pending = v]]
  OBVIOUS
<1> QED  BY <1>1, <1>2

\* The turn that is out ends.
LEMMA SettleKeepsInv ==
  ASSUME Inv, ref.phase = "playing", NEW b \in [Seats -> Bots], NEW o, Settle(b, o), Outcome(o),
         guilty' \subseteq Seats, Deserved(b, guilty'),
         o.kind # "supervisor" => Blamed(ref, o, guilty'),
         \A s \in Seats : b[s].stop = "no" /\ (b[s].proc = "ended" => s \in guilty'),
         ~b[Other(ref.turn)].pending,
         aborted' \in BOOLEAN, aborted' => o.kind = "supervisor",
         spent' \in [Seats -> Nat], o.kind = "move" => Spend
  PROVE  Inv'
<1> DEFINE c == [b EXCEPT ![ref.turn].pending = FALSE]
           j == Judged(ref, c, o)
<1>1. On(ref) /\ ~aborted /\ ref \in Refs /\ ref.turn \in Seats /\ Other(ref.turn) \in Seats
  BY PlayingIsOn, RefIs, SeatsDiffer DEF On
<1>2. c \in [Seats -> Bots]
  BY <1>1, AskingKeepsType
<1>3. \A s \in Seats : /\ c[s].fault = b[s].fault /\ c[s].proc = b[s].proc /\ c[s].stop = b[s].stop
                       /\ (c[s].eof <=> b[s].eof) /\ (c[s].exited <=> b[s].exited)
  BY <1>1 DEF Bots
<1>4. \A s \in Seats : ~c[s].pending
  BY <1>1, SeatsDiffer DEF Bots
<1>5. Deserved(c, guilty')
  BY <1>3 DEF Deserved
<1>6. Known(c, guilty')
  BY <1>5 DEF Known, Deserved, FaultOf
<1>7. ref' = Asked(j, c) /\ bot' = Follow(ref', c)
  BY DEF Settle, Proceed
<1> HIDE DEF c, j
<1>8. \/ Off(j, guilty') /\ (o.kind = "supervisor" => j.result = Interrupted)
      \/ /\ o.kind = "move" /\ ref.elapsed < Budget(ref)
         /\ j = Played(Charged(ref, ref.elapsed), o.winner)
  BY <1>1, <1>2, <1>6, JudgedSound DEF j
<1>9. ASSUME Off(ref', guilty'), aborted' => ref'.result = Interrupted
      PROVE  Inv'
  <2>1. bot' = [s \in Seats |-> [c[s] EXCEPT !.stop = "asked"]]
    BY <1>7, <1>9 DEF Follow, Off
  <2>2. bot' \in [Seats -> Bots]
    <3>1. \A s \in Seats : [c[s] EXCEPT !.stop = "asked"] \in Bots
      BY <1>2 DEF Bots
    <3> QED  BY <2>1, <3>1
  <2>3. Deserved(bot', guilty')
    <3>1. \A s \in Seats : /\ bot'[s].fault = c[s].fault
                           /\ (bot'[s].eof <=> c[s].eof) /\ (bot'[s].exited <=> c[s].exited)
      BY <1>2, <2>1 DEF Bots
    <3> QED  BY <1>5, <3>1 DEF Deserved
  <2> QED  BY <1>9, <2>2, <2>3, OffKeepsInv
<1>10. CASE Off(j, guilty') /\ (o.kind = "supervisor" => j.result = Interrupted)
  <2>1. ref' = j
    BY <1>2, <1>6, <1>7, <1>10, AskedSound
  <2> QED  BY <1>9, <1>10, <2>1
<1>11. CASE /\ o.kind = "move" /\ ref.elapsed < Budget(ref)
            /\ j = Played(Charged(ref, ref.elapsed), o.winner)
  <2>1. o.winner \in Seats \cup {"none"} /\ ~aborted'
    BY <1>11 DEF Outcome
  <2>2. \/ Off(j, guilty')
        \/ /\ On(j) /\ j.turn = Other(ref.turn)
           /\ \A s \in Seats : j.bank[s] = Left(ref, s)
    <3>1. On(ref) /\ InTime(ref)
      BY <1>1, <1>11 DEF InTime
    <3>2. j = Played(Charged(ref, ref.elapsed), o.winner)
      BY <1>11
    <3> QED  BY <2>1, <3>1, <3>2, PlayedSound
  <2>3. CASE Off(j, guilty')
    <3>1. ref' = j
      BY <1>2, <1>6, <1>7, <2>3, AskedSound
    <3> QED  BY <1>9, <2>1, <2>3, <3>1
  <2>4. CASE /\ On(j) /\ j.turn = Other(ref.turn)
             /\ \A s \in Seats : j.bank[s] = Left(ref, s)
    <3>1. CASE Off(Asked(j, c), guilty')
      BY <1>7, <1>9, <2>1, <3>1
    <3>2. CASE Asked(j, c) = j
      <4>1. ref' = j /\ On(ref') /\ ref'.turn = Other(ref.turn) /\ ref'.turn \in Seats
        BY <1>1, <1>7, <2>4, <3>2
      <4>2. bot' = [c EXCEPT ![ref'.turn].pending = TRUE]
        BY <1>7, <4>1 DEF Follow, On
      <4>3. bot' \in [Seats -> Bots]
        BY <1>2, <4>1, <4>2, AskingKeepsType
      <4>4. bot'[ref'.turn].pending /\ ~bot'[Other(ref'.turn)].pending
        <5>1. Other(ref'.turn) = ref.turn /\ ref'.turn # ref.turn
          BY <1>1, <4>1, SeatsDiffer
        <5>2. bot'[ref.turn] = c[ref.turn]
          BY <1>1, <1>2, <4>2, <5>1
        <5>3. bot'[ref'.turn].pending
          BY <1>2, <4>1, <4>2 DEF Bots
        <5> QED  BY <1>1, <1>4, <5>1, <5>2, <5>3
      <4>5. \A s \in Seats : /\ bot'[s].fault = c[s].fault /\ bot'[s].proc = c[s].proc
                             /\ bot'[s].stop = c[s].stop
                             /\ (bot'[s].eof <=> c[s].eof) /\ (bot'[s].exited <=> c[s].exited)
        BY <1>2, <4>1, <4>2 DEF Bots
      <4>6. Deserved(bot', guilty')
        BY <1>5, <4>5 DEF Deserved
      <4>7. \A s \in Seats : bot'[s].stop = "no" /\ (bot'[s].proc = "ended" => s \in guilty')
        BY <1>3, <4>5
      <4>8. \A s \in Seats : ref'.bank[s] + spent'[s] = Bank
        <5>1. \A s \in Seats : ref.bank[s] \in Nat /\ spent[s] \in Nat
                               /\ ref.bank[s] + spent[s] = Bank
          BY <1>1, RefIs DEF Inv, RunSound, TypeOK, PhasesSound, Running
        <5>2. ref.elapsed \in Nat /\ Bank \in Nat
          BY <1>1, RefIs, MatchAssumption
        <5>3. \A s \in Seats : spent'[s] = IF s # ref.turn \/ GraceTurn(ref) THEN spent[s]
                                           ELSE spent[s] + ref.elapsed
          BY <1>1, <1>11 DEF Spend, Inv, RunSound, TypeOK
        <5>4. \A s \in Seats : ref'.bank[s] = IF s # ref.turn \/ GraceTurn(ref) THEN ref.bank[s]
                                              ELSE ref.bank[s] - ref.elapsed
          BY <2>4, <4>1 DEF Left
        <5>5. SUFFICES ASSUME NEW s \in Seats PROVE ref'.bank[s] + spent'[s] = Bank
          OBVIOUS
        <5>6. CASE s # ref.turn \/ GraceTurn(ref)
          <6>1. ref'.bank[s] = ref.bank[s] /\ spent'[s] = spent[s]
            BY <5>3, <5>4, <5>6
          <6> QED  BY <5>1, <6>1
        <5>7. CASE ~(s # ref.turn \/ GraceTurn(ref))
          <6>1. ref'.bank[s] = ref.bank[s] - ref.elapsed /\ spent'[s] = spent[s] + ref.elapsed
            BY <5>3, <5>4, <5>7
          <6> QED  BY <5>1, <5>2, <6>1
        <5> QED  BY <5>6, <5>7
      <4> QED  BY <2>1, <4>1, <4>3, <4>4, <4>6, <4>7, <4>8, OnKeepsInv
    <3> QED  BY <1>2, <1>6, <2>4, <3>1, <3>2, AskedSound
  <2> QED  BY <2>2, <2>3, <2>4
<1> QED  BY <1>8, <1>10, <1>11

----------------------------------------------------------------------------
(* The bots' fields after a callback.                                      *)

\* b differs from bot in what the channel of one bot has seen.
Same(b) == \A x \in Seats : /\ b[x].stop = bot[x].stop /\ b[x].proc = bot[x].proc
                            /\ (b[x].pending <=> bot[x].pending)

LEMMA InvIs ==
  ASSUME Inv
  PROVE  /\ bot \in [Seats -> Bots] /\ ref \in Refs /\ guilty \subseteq Seats
         /\ aborted \in BOOLEAN /\ spent \in [Seats -> Nat]
         /\ Deserved(bot, guilty)
         /\ Running => \A s \in Seats : bot[s].stop = "no" /\ (bot[s].proc = "ended" => s \in guilty)
BY DEF Inv, RunSound, TypeOK, FaultsDeserved, PhasesSound, Deserved

LEMMA SeenKeepsInv ==
  ASSUME Inv, Running, ref' = ref, aborted' = aborted, spent' = spent,
         bot' \in [Seats -> Bots], Same(bot'), Deserved(bot', guilty'),
         guilty \subseteq guilty', guilty' \subseteq Seats
  PROVE  Inv'
BY InvIs, QuietKeepsInv DEF Same

LEMMA DisturbKeepsInv ==
  ASSUME Inv, Running, NEW s \in Seats, NEW b \in [Seats -> Bots], Disturb(s, b), Same(b),
         aborted' = aborted, spent' = spent,
         guilty \subseteq guilty', guilty' \subseteq Seats, s \in guilty',
         Deserved(b, guilty'), b[s].fault # "none"
  PROVE  Inv'
<1>1. CASE ref.phase = "playing" /\ ref.turn = s /\ bot[s].pending
  <2> DEFINE o == [kind |-> b[s].fault]
  <2>1. Settle(b, o)
    BY <1>1 DEF Disturb
  <2>2. b[s].fault \in Codes
    BY DEF Bots
  <2>3. Outcome(o) /\ Blamed(ref, o, guilty') /\ o.kind \in Codes
    BY <1>1, <2>2 DEF Outcome, Blamed, Rejections, Codes
  <2> HIDE DEF o
  <2>4. o.kind # "move" /\ o.kind # "supervisor"
    BY <2>3 DEF Codes
  <2>5. \A x \in Seats : b[x].stop = "no" /\ (b[x].proc = "ended" => x \in guilty')
    BY InvIs DEF Same
  <2>6. ~b[Other(ref.turn)].pending
    BY <1>1, SeatsDiffer DEF Same, Inv, RunSound, OneRequest
  <2>7. ~aborted' /\ aborted' \in BOOLEAN /\ spent' \in [Seats -> Nat]
    BY <1>1, PlayingIsOn, InvIs
  <2> QED  BY <1>1, <2>1, <2>3, <2>4, <2>5, <2>6, <2>7, SettleKeepsInv
<1>2. CASE ~(ref.phase = "playing" /\ ref.turn = s /\ bot[s].pending)
  <2>1. ref' = ref /\ bot' = b
    BY <1>2 DEF Disturb
  <2> QED  BY <2>1, SeenKeepsInv DEF Same
<1> QED  BY <1>1, <1>2

LEMMA FaultyIs ==
  ASSUME Inv, NEW s \in Seats, NEW code \in Codes
  PROVE  /\ Faulty(s, code) \in [Seats -> Bots] /\ Same(Faulty(s, code))
         /\ \A G : guilty \subseteq G /\ s \in G => Deserved(Faulty(s, code), G)
         /\ Faulty(s, code)[s].fault # "none"
<1> DEFINE f == IF bot[s].fault = "none" THEN code ELSE bot[s].fault
           y == [bot[s] EXCEPT !.fault = f, !.partial = FALSE]
<1>1. bot \in [Seats -> Bots] /\ Deserved(bot, guilty)
  BY InvIs
<1>2. f \in Codes \cup {"none"} /\ f # "none"
  BY <1>1 DEF Bots, Codes
<1> HIDE DEF f
<1>3. Faulty(s, code) = [bot EXCEPT ![s] = y]
  BY <1>1 DEF Faulty, Bots, f
<1>4. y \in Bots /\ y.fault = f /\ y.stop = bot[s].stop /\ y.proc = bot[s].proc
      /\ (y.pending <=> bot[s].pending) /\ (y.eof <=> bot[s].eof) /\ (y.exited <=> bot[s].exited)
  BY <1>1, <1>2 DEF Bots
<1> HIDE DEF y
<1> QED  BY <1>1, <1>2, <1>3, <1>4 DEF Same, Deserved

----------------------------------------------------------------------------
(* Every step keeps the invariant.                                         *)

LEMMA InitSound == Init => Inv
<1> SUFFICES ASSUME Init PROVE Inv
  OBVIOUS
<1>1. /\ Bank \in Nat /\ Bank > 0 /\ MaxPlies \in Nat /\ MaxPlies > 0 /\ Graces \subseteq Nat
  BY MatchAssumption
<1>2. PICK g \in Graces, first \in Seats :
        ref = [phase |-> "start A", turn |-> first, plies |-> 0,
               bank |-> [s \in Seats |-> Bank], grace |-> g,
               moved |-> [s \in Seats |-> FALSE], elapsed |-> 0,
               result |-> NoResult, moves |-> 0, finished |-> FALSE]
  BY DEF Init
<1>3. ref \in Refs
  <2>1. [s \in Seats |-> Bank] \in [Seats -> 0 .. Bank] /\ [s \in Seats |-> FALSE] \in [Seats -> BOOLEAN]
    BY <1>1
  <2>2. 0 \in 0 .. MaxPlies /\ NoResult \in Results
    BY <1>1 DEF Results
  <2> QED  BY <1>2, <2>1, <2>2 DEF Refs
<1>4. bot \in [Seats -> Bots]
  BY DEF Init, Bots
<1>5. TypeOK
  BY <1>3, <1>4 DEF Init, TypeOK
<1>6. PhasesSound
  <2>1. /\ ref.phase = "start A" /\ ref.result = NoResult /\ ~ref.finished /\ ref.plies < MaxPlies
        /\ \A s \in Seats : ref.bank[s] = Bank
    BY <1>1, <1>2
  <2>2. \A s \in Seats : bot[s].stop = "no" /\ spent[s] = 0
    BY DEF Init
  <2>3. Running
    BY <2>1 DEF Running
  <2>4. \A s \in Seats : ref.bank[s] > 0 /\ ref.bank[s] + spent[s] = Bank
    <3>1. Bank + 0 = Bank /\ Bank > 0
      BY <1>1
    <3> QED  BY <2>1, <2>2, <3>1
  <2> QED  BY <2>1, <2>2, <2>3, <2>4 DEF PhasesSound
<1>7. FaultsDeserved /\ OneRequest
  BY <1>2 DEF Init, FaultsDeserved, OneRequest
<1>8. BlameDeserved
  BY <1>2 DEF BlameDeserved, NoResult
<1>9. ~ref.finished /\ ref.result = NoResult /\ ref.moves = ref.plies
  BY <1>2
<1> QED  BY <1>5, <1>6, <1>7, <1>8, <1>9 DEF Inv, RunSound

LEMMA AnswerKeepsInv ==
  ASSUME Inv, NEW s \in Seats, Answer(s)
  PROVE  Inv'
<1> DEFINE b == [bot EXCEPT ![s].partial = FALSE]
<1>1. /\ bot \in [Seats -> Bots] /\ ref \in Refs /\ Deserved(bot, guilty) /\ guilty \subseteq Seats
      /\ Running /\ bot[s].pending /\ aborted' = aborted /\ aborted \in BOOLEAN
      /\ spent \in [Seats -> Nat]
  BY InvIs DEF Answer, Talks
<1>2. ref.phase = "playing" /\ ref.turn = s
  <2>1. ref.turn \in Seats
    BY <1>1, RefIs
  <2> QED  BY <1>1, <2>1, SeatsDiffer DEF Running, Inv, RunSound, OneRequest
<1>3. b \in [Seats -> Bots]
  <2>1. [bot[s] EXCEPT !.partial = FALSE] \in Bots
    BY <1>1 DEF Bots
  <2> QED  BY <1>1, <2>1
<1>4. \A x \in Seats : /\ b[x].fault = bot[x].fault /\ b[x].proc = bot[x].proc /\ b[x].stop = bot[x].stop
                       /\ (b[x].eof <=> bot[x].eof) /\ (b[x].exited <=> bot[x].exited)
                       /\ (b[x].pending <=> bot[x].pending)
  BY <1>1 DEF Bots
<1> HIDE DEF b
<1>5. \A G : guilty \subseteq G => Deserved(b, G)
  BY <1>1, <1>4 DEF Deserved
<1>6. ASSUME guilty \subseteq guilty' PROVE  \A x \in Seats : b[x].stop = "no" /\ (b[x].proc = "ended" => x \in guilty')
  BY <1>1, <1>4, <1>6, InvIs
<1>7. ~b[Other(ref.turn)].pending /\ ~aborted
  BY <1>2, <1>4, SeatsDiffer DEF Inv, RunSound, OneRequest
<1>8. CASE (\E w \in Seats \cup {"none"} : Settle(b, [kind |-> "move", winner |-> w]))
           /\ guilty' = guilty \cup Late /\ Spend
  <2>1. PICK w \in Seats \cup {"none"} : Settle(b, [kind |-> "move", winner |-> w])
    BY <1>8
  <2> DEFINE o == [kind |-> "move", winner |-> w]
  <2>2. Settle(b, o)
    BY <2>1
  <2>3. o.kind = "move" /\ Outcome(o)
    BY DEF Outcome
  <2> HIDE DEF o
  <2>4. guilty \subseteq guilty' /\ guilty' \subseteq Seats /\ (ref.elapsed >= Budget(ref) => ref.turn \in guilty')
    BY <1>2, <1>8, LateIsKnown
  <2>5. Blamed(ref, o, guilty')
    BY <2>3, <2>4 DEF Blamed, Rejections, Codes
  <2>6. spent' \in [Seats -> Nat]
    <3>1. ref.elapsed \in Nat /\ ref.turn \in Seats
      BY <1>1, RefIs
    <3>2. spent[ref.turn] + ref.elapsed \in Nat
      BY <1>1, <3>1
    <3> QED  BY <1>1, <1>8, <3>1, <3>2 DEF Spend
  <2> QED  BY <1>1, <1>2, <1>3, <1>5, <1>6, <1>7, <1>8, <2>2, <2>3, <2>4, <2>5, <2>6, SettleKeepsInv
<1>9. CASE (\E code \in {"illegal_move", "protocol_error"} : Settle(b, [kind |-> code]))
           /\ guilty' = guilty \cup {s} /\ spent' = spent
  <2>1. PICK code \in {"illegal_move", "protocol_error"} : Settle(b, [kind |-> code])
    BY <1>9
  <2> DEFINE o == [kind |-> code]
  <2>2. Settle(b, o)
    BY <2>1
  <2>3. o.kind # "move" /\ o.kind # "supervisor" /\ Outcome(o)
    BY DEF Outcome, Rejections, Codes
  <2> HIDE DEF o
  <2>4. guilty \subseteq guilty' /\ guilty' \subseteq Seats /\ ref.turn \in guilty'
    BY <1>1, <1>2, <1>9
  <2>5. Blamed(ref, o, guilty')
    BY <2>4 DEF Blamed
  <2> QED  BY <1>1, <1>2, <1>3, <1>5, <1>6, <1>7, <1>9, <2>2, <2>3, <2>4, <2>5, SettleKeepsInv
<1> QED  BY <1>8, <1>9 DEF Answer, b

LEMMA GarbageKeepsInv ==
  ASSUME Inv, NEW s \in Seats, Garbage(s)
  PROVE  Inv'
<1>1. Running /\ guilty' = guilty \cup {s} /\ aborted' = aborted /\ spent' = spent
  BY DEF Garbage, Talks
<1>2. PICK code \in {"protocol_error", "output_limit"} : Disturb(s, Faulty(s, code))
  BY DEF Garbage
<1>3. code \in Codes
  BY DEF Codes
<1>4. guilty \subseteq guilty' /\ guilty' \subseteq Seats /\ s \in guilty'
  BY <1>1, InvIs
<1> QED  BY <1>1, <1>2, <1>3, <1>4, FaultyIs, DisturbKeepsInv

LEMMA StdinFailsKeepsInv ==
  ASSUME Inv, NEW s \in Seats, StdinFails(s)
  PROVE  Inv'
<1>1. Running /\ bot[s].proc = "ended" /\ guilty' = guilty /\ aborted' = aborted /\ spent' = spent
      /\ Disturb(s, Faulty(s, "crash"))
  BY DEF StdinFails
<1>2. "crash" \in Codes
  BY DEF Codes
<1>3. guilty \subseteq guilty' /\ guilty' \subseteq Seats /\ s \in guilty'
  BY <1>1, InvIs
<1> QED  BY <1>1, <1>2, <1>3, FaultyIs, DisturbKeepsInv

LEMMA StdoutEndsKeepsInv ==
  ASSUME Inv, NEW s \in Seats, StdoutEnds(s)
  PROVE  Inv'
<1> DEFINE b == [bot EXCEPT ![s].eof = TRUE]
           code == IF bot[s].partial THEN "protocol_error" ELSE "crash"
           f == IF bot[s].fault = "none" THEN code ELSE bot[s].fault
           y == [bot[s] EXCEPT !.eof = TRUE]
           z == [bot[s] EXCEPT !.eof = TRUE, !.fault = f]
<1>1. Running /\ guilty' = guilty \cup {s} /\ aborted' = aborted /\ spent' = spent
  BY DEF StdoutEnds, Talks
<1>2. guilty \subseteq guilty' /\ guilty' \subseteq Seats /\ s \in guilty'
  BY <1>1, InvIs
<1>3. bot \in [Seats -> Bots] /\ bot[s] \in Bots /\ Deserved(bot, guilty)
  BY InvIs
<1>4. f \in Codes \cup {"none"} /\ f # "none"
  BY <1>3 DEF Bots, Codes
<1>5. b = [bot EXCEPT ![s] = y]
      /\ [b EXCEPT ![s].fault = IF @ = "none" THEN code ELSE @] = [bot EXCEPT ![s] = z]
  BY <1>3 DEF Bots
<1>6. /\ y \in Bots /\ y.fault = bot[s].fault /\ y.stop = bot[s].stop /\ y.proc = bot[s].proc
      /\ (y.pending <=> bot[s].pending)
  BY <1>3 DEF Bots
<1> HIDE DEF f
<1>7. /\ z \in Bots /\ z.fault = f /\ z.stop = bot[s].stop /\ z.proc = bot[s].proc
      /\ (z.pending <=> bot[s].pending)
  BY <1>3, <1>4 DEF Bots
<1>8. \/ Disturb(s, [bot EXCEPT ![s] = z])
      \/ ref' = ref /\ bot' = [bot EXCEPT ![s] = y]
  BY <1>5 DEF StdoutEnds
<1> HIDE DEF y, z
<1>9. CASE Disturb(s, [bot EXCEPT ![s] = z])
  <2> DEFINE c == [bot EXCEPT ![s] = z]
  <2>1. c \in [Seats -> Bots] /\ Same(c) /\ Deserved(c, guilty') /\ c[s].fault # "none"
    BY <1>2, <1>3, <1>4, <1>7 DEF Same, Deserved
  <2>2. Disturb(s, c)
    BY <1>9
  <2> HIDE DEF c
  <2> QED  BY <1>1, <1>2, <2>1, <2>2, DisturbKeepsInv
<1>10. CASE ref' = ref /\ bot' = [bot EXCEPT ![s] = y]
  <2>1. bot' \in [Seats -> Bots] /\ Same(bot') /\ Deserved(bot', guilty')
    BY <1>2, <1>3, <1>6, <1>10 DEF Same, Deserved
  <2> QED  BY <1>1, <1>2, <1>10, <2>1, SeenKeepsInv
<1> QED  BY <1>8, <1>9, <1>10

LEMMA PartialKeepsInv ==
  ASSUME Inv, NEW s \in Seats, Partial(s)
  PROVE  Inv'
<1>1. Running /\ ref' = ref /\ aborted' = aborted /\ guilty' = guilty /\ spent' = spent
      /\ bot' = [bot EXCEPT ![s].partial = TRUE]
  BY DEF Partial, Talks
<1>2. bot \in [Seats -> Bots] /\ Deserved(bot, guilty) /\ guilty \subseteq Seats
  BY InvIs
<1>3. bot' \in [Seats -> Bots]
  <2>1. [bot[s] EXCEPT !.partial = TRUE] \in Bots
    BY <1>2 DEF Bots
  <2> QED  BY <1>1, <1>2, <2>1
<1>4. Same(bot') /\ Deserved(bot', guilty')
  BY <1>1, <1>2 DEF Same, Deserved, Bots
<1> QED  BY <1>1, <1>2, <1>3, <1>4, SeenKeepsInv

LEMMA ClosesKeepsInv ==
  ASSUME Inv, NEW s \in Seats, Closes(s)
  PROVE  Inv'
<1>1. Running /\ ref' = ref /\ aborted' = aborted /\ guilty' = guilty /\ spent' = spent
      /\ bot' = [bot EXCEPT ![s].exited = TRUE] /\ bot[s].proc = "ended"
  BY DEF Closes
<1>2. bot \in [Seats -> Bots] /\ Deserved(bot, guilty) /\ guilty \subseteq Seats /\ s \in guilty
  BY <1>1, InvIs
<1>3. bot' \in [Seats -> Bots]
  <2>1. [bot[s] EXCEPT !.exited = TRUE] \in Bots
    BY <1>2 DEF Bots
  <2> QED  BY <1>1, <1>2, <2>1
<1>4. Same(bot') /\ Deserved(bot', guilty')
  BY <1>1, <1>2 DEF Same, Deserved, Bots
<1> QED  BY <1>1, <1>2, <1>3, <1>4, SeenKeepsInv

WithProc(s, p) == [bot EXCEPT ![s].proc = p]

LEMMA EndingKeepsType ==
  ASSUME NEW s \in Seats, NEW p \in {"none", "spawning", "running", "ended"}, bot \in [Seats -> Bots]
  PROVE  /\ WithProc(s, p) \in [Seats -> Bots] /\ WithProc(s, p)[s].proc = p
         /\ \A x \in Seats :
              /\ WithProc(s, p)[x].stop = bot[x].stop /\ WithProc(s, p)[x].fault = bot[x].fault
              /\ (WithProc(s, p)[x].eof <=> bot[x].eof)
              /\ (WithProc(s, p)[x].exited <=> bot[x].exited)
              /\ (WithProc(s, p)[x].pending <=> bot[x].pending)
              /\ x # s => WithProc(s, p)[x].proc = bot[x].proc
<1>1. [bot[s] EXCEPT !.proc = p] \in Bots
  BY DEF Bots
<1>2. WithProc(s, p) = [bot EXCEPT ![s] = [bot[s] EXCEPT !.proc = p]]
  BY DEF WithProc
<1> QED  BY <1>1, <1>2 DEF Bots

LEMMA DiesKeepsInv ==
  ASSUME Inv, NEW s \in Seats, Dies(s)
  PROVE  Inv'
<1>1. /\ ref' = ref /\ aborted' = aborted /\ spent' = spent
      /\ bot' = WithProc(s, "ended")
      /\ guilty' = IF Running THEN guilty \cup {s} ELSE guilty
  BY DEF Dies, WithProc
<1>2. bot \in [Seats -> Bots] /\ Deserved(bot, guilty) /\ guilty \subseteq Seats
  BY InvIs
<1>3. guilty \subseteq guilty' /\ guilty' \subseteq Seats /\ (Running => s \in guilty')
  BY <1>1, <1>2
<1>4. /\ bot' \in [Seats -> Bots]
      /\ \A x \in Seats : /\ bot'[x].stop = bot[x].stop /\ bot'[x].fault = bot[x].fault
                          /\ (bot'[x].eof <=> bot[x].eof) /\ (bot'[x].exited <=> bot[x].exited)
                          /\ (bot'[x].pending <=> bot[x].pending)
                          /\ x # s => bot'[x].proc = bot[x].proc
  BY <1>1, <1>2, EndingKeepsType
<1>5. Deserved(bot', guilty')
  BY <1>2, <1>3, <1>4 DEF Deserved
<1>6. \A x \in Seats : Running /\ bot'[x].proc = "ended" => x \in guilty'
  BY <1>3, <1>4, InvIs
<1> QED  BY <1>1, <1>3, <1>4, <1>5, <1>6, QuietKeepsInv

\* A run that ends before a turn was out.
LEMMA BotsToldToStop ==
  ASSUME NEW r, Off(r, guilty), NEW b \in [Seats -> Bots], Deserved(b, guilty), Proceed(r, b)
  PROVE  ref' = r /\ bot' \in [Seats -> Bots] /\ Deserved(bot', guilty)
<1>1. ref' = r /\ bot' = [s \in Seats |-> [b[s] EXCEPT !.stop = "asked"]]
  BY DEF Proceed, Follow, Off
<1>2. \A s \in Seats : [b[s] EXCEPT !.stop = "asked"] \in Bots
  BY DEF Bots
<1>3. \A s \in Seats : /\ bot'[s].fault = b[s].fault
                       /\ (bot'[s].eof <=> b[s].eof) /\ (bot'[s].exited <=> b[s].exited)
  BY <1>1 DEF Bots
<1> QED  BY <1>1, <1>2, <1>3 DEF Deserved

LEMMA StartFailsKeepsInv ==
  ASSUME Inv, NEW s \in Seats, StartFails(s)
  PROVE  Inv'
<1>1. PICK p \in {"none", "ended"} :
        Proceed(Concluded(ref, Interrupted), WithProc(s, p))
  BY DEF StartFails, WithProc
<1>2. /\ aborted' = aborted /\ guilty' = guilty /\ spent' = spent
      /\ ref \in Refs /\ bot \in [Seats -> Bots] /\ Deserved(bot, guilty) /\ guilty \subseteq Seats
      /\ aborted \in BOOLEAN /\ spent \in [Seats -> Nat] /\ ref.moves = ref.plies
  BY InvIs DEF StartFails, Inv, RunSound
<1> DEFINE b == WithProc(s, p)
           r == Concluded(ref, Interrupted)
<1>3. Off(r, guilty) /\ r.result = Interrupted
  BY <1>2, ResultsDiffer, ConcludedIsOff
<1>4. b \in [Seats -> Bots] /\ Deserved(b, guilty)
  <2>1. /\ b \in [Seats -> Bots]
        /\ \A x \in Seats : /\ b[x].fault = bot[x].fault
                            /\ (b[x].eof <=> bot[x].eof) /\ (b[x].exited <=> bot[x].exited)
    BY <1>2, EndingKeepsType
  <2> QED  BY <1>2, <2>1 DEF Deserved
<1>5. Proceed(r, b)
  BY <1>1
<1> HIDE DEF b, r
<1>6. ref' = r /\ bot' \in [Seats -> Bots] /\ Deserved(bot', guilty)
  BY <1>3, <1>4, <1>5, BotsToldToStop
<1> QED  BY <1>2, <1>3, <1>6, OffKeepsInv

LEMMA TimerFiresKeepsInv ==
  ASSUME Inv, TimerFires
  PROVE  Inv'
<1> DEFINE o == [kind |-> "timeout"]
<1>1. ref.phase = "playing" /\ ref.elapsed >= Budget(ref) /\ Settle(bot, o)
      /\ guilty' = guilty \cup Late /\ aborted' = aborted /\ spent' = spent
  BY DEF TimerFires
<1>2. o.kind # "move" /\ o.kind # "supervisor" /\ Outcome(o)
  BY DEF Outcome
<1> HIDE DEF o
<1>3. guilty \subseteq guilty' /\ guilty' \subseteq Seats /\ ref.turn \in guilty'
  BY <1>1, LateIsKnown
<1>4. Blamed(ref, o, guilty')
  BY <1>3 DEF Blamed
<1>5. /\ bot \in [Seats -> Bots] /\ Deserved(bot, guilty') /\ spent' \in [Seats -> Nat]
      /\ \A s \in Seats : bot[s].stop = "no" /\ (bot[s].proc = "ended" => s \in guilty')
  BY <1>1, <1>3, InvIs DEF Running, Deserved
<1>6. ~bot[Other(ref.turn)].pending /\ ~aborted' /\ aborted' \in BOOLEAN
  BY <1>1, InvIs DEF Inv, RunSound, OneRequest
<1> QED  BY <1>1, <1>2, <1>3, <1>4, <1>5, <1>6, SettleKeepsInv

LEMMA AbortKeepsInv ==
  ASSUME Inv, Abort
  PROVE  Inv'
<1> DEFINE o == [kind |-> "supervisor"]
<1>1. Running /\ aborted' = TRUE /\ guilty' = guilty /\ spent' = spent
      /\ guilty \subseteq Seats /\ bot \in [Seats -> Bots] /\ Deserved(bot, guilty)
      /\ spent \in [Seats -> Nat]
      /\ \A s \in Seats : bot[s].stop = "no" /\ (bot[s].proc = "ended" => s \in guilty)
  BY InvIs DEF Abort
<1>2. CASE ref.phase = "playing"
  <2>1. Settle(bot, o)
    BY <1>2 DEF Abort
  <2>2. o.kind = "supervisor" /\ o.kind # "move" /\ Outcome(o)
    BY DEF Outcome
  <2> HIDE DEF o
  <2>3. ~bot[Other(ref.turn)].pending
    BY <1>2 DEF Inv, RunSound, OneRequest
  <2> QED  BY <1>1, <1>2, <2>1, <2>2, <2>3, SettleKeepsInv
<1>3. CASE ref.phase # "playing"
  <2>1. ref' = ref /\ bot' = bot
    BY <1>3 DEF Abort
  <2> QED  BY <1>1, <1>3, <2>1 DEF Inv, RunSound, TypeOK, BlameDeserved, PhasesSound,
             FaultsDeserved, OneRequest, Running
<1> QED  BY <1>2, <1>3

LEMMA TickKeepsInv ==
  ASSUME Inv, Tick
  PROVE  Inv'
<1> DEFINE e == ref.elapsed + 1
<1>1. ref \in Refs /\ e \in Nat
  BY InvIs, RefIs
<1>2. /\ ref' = [ref EXCEPT !.elapsed = e] /\ ref.phase = "playing"
      /\ bot' = bot /\ aborted' = aborted /\ guilty' = guilty /\ spent' = spent
  BY DEF Tick
<1> HIDE DEF e
<1>3. ref' \in Refs
  BY <1>1, <1>2 DEF Refs
<1>4. /\ ref'.phase = ref.phase /\ ref'.turn = ref.turn /\ ref'.plies = ref.plies
      /\ ref'.bank = ref.bank /\ ref'.result = ref.result /\ ref'.moves = ref.moves
      /\ (ref'.finished <=> ref.finished)
  BY <1>1, <1>2 DEF Refs
<1>5. TypeOK' /\ BlameDeserved'
  BY <1>2, <1>3, <1>4 DEF Inv, RunSound, TypeOK, BlameDeserved
<1>6. PhasesSound'
  BY <1>2, <1>4 DEF Inv, RunSound, PhasesSound, Running
<1>7. FaultsDeserved' /\ OneRequest'
  BY <1>2, <1>4 DEF Inv, RunSound, FaultsDeserved, OneRequest, Running
<1> QED  BY <1>2, <1>4, <1>5, <1>6, <1>7 DEF Inv, RunSound

LEMMA SpawnedKeepsInv ==
  ASSUME Inv, NEW s \in Seats, Spawned(s)
  PROVE  Inv'
<1>1. /\ aborted' = aborted /\ guilty' = guilty /\ spent' = spent
      /\ ref \in Refs /\ bot \in [Seats -> Bots] /\ Deserved(bot, guilty) /\ guilty \subseteq Seats
      /\ aborted \in BOOLEAN /\ spent \in [Seats -> Nat]
  BY InvIs DEF Spawned
<1>2. bot[s].proc = "spawning" /\ Running
  BY DEF Spawned, Starting, Running, Seats
<1> DEFINE b == WithProc(s, "running")
           r == [ref EXCEPT !.phase = "playing"]
<1>3. /\ b \in [Seats -> Bots] /\ b[s].proc = "running"
      /\ \A x \in Seats : /\ b[x].stop = bot[x].stop /\ b[x].fault = bot[x].fault
                          /\ (b[x].eof <=> bot[x].eof) /\ (b[x].exited <=> bot[x].exited)
                          /\ (b[x].pending <=> bot[x].pending)
                          /\ x # s => b[x].proc = bot[x].proc
  BY <1>1, EndingKeepsType
<1>4. \A x \in Seats : bot[x].stop = "no" /\ (bot[x].proc = "ended" => x \in guilty)
  BY <1>2, InvIs
<1>5. Deserved(b, guilty)
  BY <1>1, <1>3 DEF Deserved
<1>6. CASE s = "A"
  <2> DEFINE c == [b EXCEPT !["B"].proc = "spawning"]
  <2>1. ref' = [ref EXCEPT !.phase = "start B"] /\ bot' = c /\ ref.phase = "start A"
    BY <1>6 DEF Spawned, Starting, WithProc
  <2>2. c \in [Seats -> Bots] /\ Deserved(c, guilty)
        /\ \A x \in Seats : /\ c[x].stop = "no" /\ (c[x].pending <=> bot[x].pending)
                            /\ c[x].proc = "ended" => x \in guilty
    <3>1. [b["B"] EXCEPT !.proc = "spawning"] \in Bots
      BY <1>3 DEF Bots, Seats
    <3>2. c = [b EXCEPT !["B"] = [b["B"] EXCEPT !.proc = "spawning"]]
      BY <1>3
    <3>3. \A x \in Seats : /\ c[x].stop = b[x].stop /\ c[x].fault = b[x].fault
                           /\ (c[x].eof <=> b[x].eof) /\ (c[x].exited <=> b[x].exited)
                           /\ (c[x].pending <=> b[x].pending)
                           /\ x = "B" => c[x].proc = "spawning"
                           /\ x # "B" => c[x].proc = b[x].proc
      BY <1>3, <3>1, <3>2 DEF Bots
    <3>4. c \in [Seats -> Bots]
      BY <1>3, <3>1, <3>2
    <3>5. Deserved(c, guilty)
      BY <1>5, <3>3 DEF Deserved
    <3> QED  BY <1>3, <1>4, <1>6, <3>3, <3>4, <3>5
  <2> HIDE DEF c, b
  <2>3. ref' \in Refs /\ ref'.phase = "start B" /\ ref'.plies = ref.plies /\ ref'.bank = ref.bank
        /\ ref'.result = ref.result /\ ref'.moves = ref.moves /\ (ref'.finished <=> ref.finished)
    BY <1>1, <2>1 DEF Refs
  <2>4. TypeOK' /\ BlameDeserved'
    <3>1. TypeOK'
      BY <1>1, <2>1, <2>2, <2>3 DEF TypeOK
    <3>2. BlameDeserved'
      BY <1>1, <2>3 DEF Inv, BlameDeserved
    <3> QED  BY <3>1, <3>2
  <2>5. PhasesSound'
    BY <1>1, <1>2, <2>1, <2>2, <2>3 DEF Inv, RunSound, PhasesSound, Running
  <2>6. FaultsDeserved'
    BY <1>1, <2>1, <2>2 DEF FaultsDeserved, Deserved
  <2>7. OneRequest'
    BY <2>1, <2>2, <2>3 DEF Inv, RunSound, OneRequest
  <2> QED  BY <1>1, <2>3, <2>4, <2>5, <2>6, <2>7 DEF Inv, RunSound
<1>7. CASE s # "A"
  <2>1. Proceed(Asked(r, b), b) /\ ref.phase = "start B"
    BY <1>7 DEF Spawned, Starting, WithProc
  <2>2. /\ r \in Refs /\ r.phase = "playing" /\ r.plies = ref.plies /\ r.bank = ref.bank
        /\ r.result = ref.result /\ r.moves = ref.moves /\ (r.finished <=> ref.finished)
    BY <1>1 DEF Refs
  <2> HIDE DEF b, r
  <2>3. On(r)
    BY <1>2, <2>2 DEF On, Inv, RunSound, PhasesSound
  <2>4. Known(b, guilty)
    BY <1>5 DEF Known, Deserved, FaultOf
  <2>5. \/ Asked(r, b) = r /\ ~aborted
        \/ Off(Asked(r, b), guilty) /\ (aborted => Asked(r, b).result = Interrupted)
    BY <1>3, <2>3, <2>4, AskedSound
  <2>6. CASE Off(Asked(r, b), guilty) /\ (aborted => Asked(r, b).result = Interrupted)
    <3>1. ref' = Asked(r, b) /\ bot' \in [Seats -> Bots] /\ Deserved(bot', guilty)
      BY <1>3, <1>5, <2>1, <2>6, BotsToldToStop
    <3> QED  BY <1>1, <2>6, <3>1, OffKeepsInv
  <2>7. CASE Asked(r, b) = r /\ ~aborted
    <3>1. ref' = r /\ bot' = [b EXCEPT ![r.turn].pending = TRUE]
      BY <2>1, <2>2, <2>7 DEF Proceed, Follow
    <3>2. r.turn \in Seats /\ Other(r.turn) \in Seats /\ Other(r.turn) # r.turn
      BY <2>2, RefIs, SeatsDiffer
    <3>3. bot' \in [Seats -> Bots]
      BY <1>3, <3>1, <3>2, AskingKeepsType
    <3>4. /\ bot'[r.turn].pending /\ (bot'[Other(r.turn)].pending <=> b[Other(r.turn)].pending)
          /\ \A x \in Seats : /\ bot'[x].stop = b[x].stop /\ bot'[x].fault = b[x].fault
                              /\ bot'[x].proc = b[x].proc
                              /\ (bot'[x].eof <=> b[x].eof) /\ (bot'[x].exited <=> b[x].exited)
      BY <1>3, <3>1, <3>2 DEF Bots
    <3>5. Deserved(bot', guilty)
      BY <1>5, <3>4 DEF Deserved
    <3>6. ~bot'[Other(ref'.turn)].pending
      BY <1>3, <2>1, <3>1, <3>2, <3>4 DEF Inv, RunSound, OneRequest
    <3>7. \A x \in Seats : /\ bot'[x].stop = "no" /\ (bot'[x].proc = "ended" => x \in guilty)
      BY <1>3, <1>4, <3>4
    <3>8. \A x \in Seats : ref'.bank[x] + spent'[x] = Bank
      BY <1>1, <1>2, <2>2, <3>1 DEF Inv, RunSound, PhasesSound
    <3> QED  BY <1>1, <2>3, <2>7, <3>1, <3>3, <3>4, <3>5, <3>6, <3>7, <3>8, OnKeepsInv
  <2> QED  BY <2>5, <2>6, <2>7
<1> QED  BY <1>6, <1>7

LEMMA KillTreeKeepsInv ==
  ASSUME Inv, NEW s \in Seats, KillTree(s)
  PROVE  Inv'
<1> DEFINE y == [bot[s] EXCEPT !.stop = "killed", !.proc = "ended"]
<1>1. /\ bot \in [Seats -> Bots] /\ Deserved(bot, guilty) /\ guilty \subseteq Seats /\ ~Running
      /\ ref' = ref /\ aborted' = aborted /\ guilty' = guilty /\ spent' = spent
  BY InvIs DEF KillTree
<1>2. bot' = [bot EXCEPT ![s] = y]
  BY <1>1 DEF KillTree
<1>3. y \in Bots /\ y.fault = bot[s].fault
      /\ (y.eof <=> bot[s].eof) /\ (y.exited <=> bot[s].exited)
  BY <1>1 DEF Bots
<1> HIDE DEF y
<1>4. bot' \in [Seats -> Bots] /\ Deserved(bot', guilty)
  BY <1>1, <1>2, <1>3 DEF Deserved
<1> QED  BY <1>1, <1>4 DEF Inv, RunSound, TypeOK, BlameDeserved, PhasesSound,
             FaultsDeserved, OneRequest, Running, Deserved

LEMMA StopEndsKeepsInv ==
  ASSUME Inv, NEW s \in Seats, StopEnds(s)
  PROVE  Inv'
<1> DEFINE y == [bot[s] EXCEPT !.stop = "done"]
           p == IF bot[Other(s)].stop = "done" THEN "over" ELSE ref.phase
<1>1. /\ bot \in [Seats -> Bots] /\ Deserved(bot, guilty) /\ guilty \subseteq Seats /\ ~Running
      /\ ref \in Refs /\ aborted' = aborted /\ guilty' = guilty /\ spent' = spent
  BY InvIs DEF StopEnds
<1>2. bot' = [bot EXCEPT ![s] = y] /\ ref' = [ref EXCEPT !.phase = p]
  BY <1>1 DEF StopEnds, Refs
<1>3. y \in Bots /\ y.fault = bot[s].fault
      /\ (y.eof <=> bot[s].eof) /\ (y.exited <=> bot[s].exited)
  BY <1>1 DEF Bots
<1>4. p \in {"stopping", "over"}
  BY <1>1 DEF Refs, Running
<1> HIDE DEF y, p
<1>5. bot' \in [Seats -> Bots] /\ Deserved(bot', guilty)
  BY <1>1, <1>2, <1>3 DEF Deserved
<1>6. /\ ref' \in Refs /\ ref'.phase = p /\ ref'.plies = ref.plies /\ ref'.result = ref.result
      /\ ref'.moves = ref.moves /\ (ref'.finished <=> ref.finished)
  BY <1>1, <1>2, <1>4 DEF Refs
<1>7. ~Running' /\ ref'.phase # "playing"
  BY <1>4, <1>6 DEF Running
<1>8. TypeOK' /\ BlameDeserved'
  BY <1>1, <1>5, <1>6 DEF Inv, RunSound, TypeOK, BlameDeserved
<1>9. PhasesSound' /\ FaultsDeserved' /\ OneRequest'
  BY <1>1, <1>4, <1>5, <1>6, <1>7 DEF Inv, RunSound, PhasesSound, FaultsDeserved, OneRequest, Deserved
<1> QED  BY <1>1, <1>6, <1>8, <1>9 DEF Inv, RunSound

LEMMA StutterKeepsInv == Inv /\ UNCHANGED vars => Inv'
<1> SUFFICES ASSUME Inv, UNCHANGED vars PROVE Inv'
  OBVIOUS
<1>1. ref' = ref /\ bot' = bot /\ aborted' = aborted /\ guilty' = guilty /\ spent' = spent
  BY DEF vars
<1> QED  BY <1>1, InvIs, QuietKeepsInv

LEMMA NextKeepsInv == Inv /\ [Next]_vars => Inv'
<1> SUFFICES ASSUME Inv, [Next]_vars PROVE Inv'
  OBVIOUS
<1>1. CASE \E s \in Seats : Spawned(s) \/ StartFails(s) \/ Dies(s) \/ StdoutEnds(s) \/ Closes(s)
  BY <1>1, SpawnedKeepsInv, StartFailsKeepsInv, DiesKeepsInv, StdoutEndsKeepsInv, ClosesKeepsInv
<1>2. CASE \E s \in Seats : Answer(s) \/ Garbage(s) \/ Partial(s) \/ StdinFails(s)
  BY <1>2, AnswerKeepsInv, GarbageKeepsInv, PartialKeepsInv, StdinFailsKeepsInv
<1>3. CASE \E s \in Seats : KillTree(s) \/ StopEnds(s)
  BY <1>3, KillTreeKeepsInv, StopEndsKeepsInv
<1>4. CASE TimerFires \/ Abort \/ Tick
  BY <1>4, TimerFiresKeepsInv, AbortKeepsInv, TickKeepsInv
<1>5. CASE UNCHANGED vars
  BY <1>5, StutterKeepsInv
<1> QED  BY <1>1, <1>2, <1>3, <1>4, <1>5 DEF Next

----------------------------------------------------------------------------
(* The theorems, for every bank, turn limit, grace and number of plies.    *)

\* A run's result, journal, clocks and the faults held against the bots fit
\* together in every state of the referee, whatever the processes, the timer
\* and the supervisor do, and in whatever order their callbacks come.
THEOREM RunAlwaysSound == Safe => []RunSound
<1>1. Inv => RunSound
  BY DEF Inv
<1> QED  BY InitSound, NextKeepsInv, <1>1, PTL DEF Safe

\* The loser of a forfeit broke a rule or had all of its time: the referee
\* never blames a bot for what the other bot, the timer or a late callback did.
THEOREM BlameAlwaysDeserved == Safe => []BlameDeserved
<1>1. Inv => BlameDeserved
  BY DEF Inv
<1> QED  BY InitSound, NextKeepsInv, <1>1, PTL DEF Safe
=============================================================================
