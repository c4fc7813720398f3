------------------------------ MODULE Pairing ------------------------------
(* The pairing algorithms of packages/arena/src/domain/formats, run as a tournament: *)
(* each step pairs the next round from what was played so far and plays it with some *)
(* results.  Two programs use them: "arena" (bot competitions) and "human" (human    *)
(* tournaments), which differ in the standings they hand over.  Players are numbers, *)
(* their order the one of their names.                                               *)
EXTENDS Integers, Sequences, FiniteSets

CONSTANTS
    Setups     \* the tournaments to look at: [format, caller, n, rounds, results]

ASSUME SetupsAssumption ==
    \A s \in Setups : /\ s.format \in {"single", "double", "swiss"}
                      /\ s.caller \in {"arena", "human"}
                      /\ s.n \in Nat \ {0, 1}
                      /\ s.rounds \in Nat
                      /\ s.results \subseteq {"A", "B", "draw"}

VARIABLES
    setup,         \* the tournament
    roundsPlayed,
    games,         \* their games: [round, a, b, result]
    byes           \* and byes: <<round, player>>

pairingVars == <<setup, roundsPlayed, games, byes>>

Players == 1..setup.n
Nobody == 0          \* the empty place in the circle of an odd round-robin

Odd == setup.n % 2 = 1
CircleSize == IF Odd THEN setup.n + 1 ELSE setup.n

RoundCount(format, n, requested) ==
    LET single == IF n % 2 = 1 THEN n ELSE n - 1
    IN  CASE format = "single" -> single
          [] format = "double" -> 2 * single
          [] format = "swiss"  -> IF n = 2 THEN 1 ELSE IF requested < n THEN requested ELSE n - 1

-----------------------------------------------------------------------------
(* Round-robin: Berger's circle *)

\* The last is taken out and put in after the first.
Rotate(circle) ==
    [j \in 1..CircleSize |-> IF j = 1 THEN circle[1]
                             ELSE IF j = 2 THEN circle[CircleSize] ELSE circle[j - 1]]

Seating == [j \in 1..CircleSize |-> IF j > setup.n THEN Nobody ELSE j]

Circle(steps) ==
    LET at[r \in 0..steps] == IF r = 0 THEN Seating ELSE Rotate(at[r - 1]) IN at[steps]

(* The places i and m - 1 - i of the circle meet; the seats alternate. *)
CirclePairs(r) ==
    LET circle == Circle(r)
        Meet(p, q, i) == IF (i + r) % 2 = 0 THEN <<p, q>> ELSE <<q, p>>
    IN  {Meet(circle[i + 1], circle[CircleSize - i], i) :
            i \in {k \in 0..(CircleSize - 1) : 2 * k < CircleSize}}

SwapNever(pairs) == pairs
SwapLegs(pairs) == {<<p[2], p[1]>> : p \in pairs}

RoundRobinRound(k) ==
    LET leg2 == setup.format = "double" /\ k > CircleSize - 1
        all == IF leg2 THEN SwapLegs(CirclePairs(k - CircleSize)) ELSE CirclePairs(k - 1)
    IN  [pairs |-> {p \in all : Nobody \notin {p[1], p[2]}},
         byes  |-> {p \in Players : <<p, Nobody>> \in all \/ <<Nobody, p>> \in all}]

(* The schedule of a plain tournament, drawn up at once. *)
DoubleRoundRobinSchedule ==
    LET leg1 == UNION {{<<r + 1, p>> : p \in {q \in CirclePairs(r) : Nobody \notin {q[1], q[2]}}}
                         : r \in 0..(CircleSize - 2)}
    IN  leg1 \union {<<m[1] + CircleSize - 1, <<m[2][2], m[2][1]>>>> : m \in leg1}

-----------------------------------------------------------------------------
(* What a Swiss round knows of the players *)

GamesOf(p) == {g \in games : p \in {g.a, g.b}}
OpponentsIn(p, g) == IF g.a = p THEN g.b ELSE g.a
Won(p, g) == g.result = IF g.a = p THEN "A" ELSE "B"
TimesPlayed(p, q) == Cardinality({g \in games : {g.a, g.b} = {p, q}})

SeatIn(p, g) == IF g.a = p THEN "A" ELSE "B"
SeatBalance(p) ==
    Cardinality({g \in games : g.a = p}) - Cardinality({g \in games : g.b = p})
LastSeat(p) ==
    IF GamesOf(p) = {} THEN "none"
    ELSE SeatIn(p, CHOOSE g \in GamesOf(p) : \A h \in GamesOf(p) : h.round <= g.round)
SeatStreak(p) ==
    Cardinality({g \in GamesOf(p) :
                    \A h \in GamesOf(p) : h.round >= g.round => SeatIn(p, h) = LastSeat(p)})

(* The human tournaments key their standings by participantId where the pairing looks *)
(* for botId: it finds none, and takes every figure as zero.                          *)
Ranked(figure) == IF setup.caller = "arena" THEN figure ELSE 0

ByesHad(p) == Cardinality({b \in byes : b[2] = p})
ByeCount(p) == Ranked(ByesHad(p))
Wins(p) == Ranked(Cardinality({g \in GamesOf(p) : Won(p, g)}))
Played(p) == Ranked(Cardinality(GamesOf(p)))
Points(p) ==
    Ranked(3 * Wins(p) + Cardinality({g \in GamesOf(p) : g.result = "draw"})
             + IF setup.format = "swiss" THEN 3 * ByeCount(p) ELSE 0)
\* The points of the opponents, game by game, counted one by one.
Buchholz(p) == Cardinality(UNION {{g} \X (1..Points(OpponentsIn(p, g))) : g \in GamesOf(p)})

-----------------------------------------------------------------------------
(* Swiss *)

(* The participants as a round sees them. *)
Participants ==
    [p \in Players |->
        [points |-> Points(p), wins |-> Wins(p), buchholz |-> Buchholz(p), played |-> Played(p),
         byes |-> ByeCount(p),
         balance |-> SeatBalance(p), last |-> LastSeat(p), streak |-> SeatStreak(p),
         met |-> [q \in Players |-> TimesPlayed(p, q)]]]

(* Lexicographic order of the keys the sorts compare; what comes first by a table of keys. *)
Before(s, t) == \E i \in DOMAIN s : s[i] < t[i] /\ \A j \in 1..(i - 1) : s[j] = t[j]
First(key) == CHOOSE p \in DOMAIN key : \A q \in DOMAIN key \ {p} : Before(key[p], key[q])
Distance(x, y) == IF x < y THEN y - x ELSE x - y

(* f: the participants; a bye goes to the weakest, a pool is sorted from the strongest. *)
ByeKey(f, p) == <<f[p].points, f[p].wins, f[p].buchholz, f[p].played, p>>
PoolKey(f, p) == <<-f[p].points, -f[p].wins, -f[p].buchholz, -f[p].played, p>>
Strongest(f, pool) == First([p \in pool |-> PoolKey(f, p)])

FairByeWeakest(f) == IF Odd THEN {First([p \in Players |-> ByeKey(f, p)])} ELSE {}
FairBye(f) ==
    LET eligible == {q \in Players : \A p \in Players : f[q].byes <= f[p].byes}
    IN  IF Odd THEN {First([p \in eligible |-> ByeKey(f, p)])} ELSE {}

SeatPenalty(x, y) ==
    LET seated == "none" \notin {x.last, y.last}
    IN  CASE x.balance * y.balance < 0                                          -> 0
          [] x.balance = 0 /\ y.balance = 0 /\ seated /\ x.last # y.last        -> 0
          [] x.balance * y.balance > 0                                          -> 3
          [] x.balance * y.balance = 0 /\ seated /\ x.last = y.last             -> 2
          [] OTHER                                                              -> 1

ClosenessKey(f, u, v) ==
    <<Distance(f[u].points, f[v].points), Distance(f[u].wins, f[v].wins), SeatPenalty(f[u], f[v]), v>>
GreedyKey(f, u, v) ==
    <<f[u].met[v], Distance(f[u].points, f[v].points), Distance(f[u].wins, f[v].wins),
      SeatPenalty(f[u], f[v]), v>>

Unmet(f, u, pool) == {v \in pool \ {u} : f[u].met[v] = 0}

(* The first pairing of a pool without a rematch in the order of the search, as a set of   *)
(* none or one; a pairing is a set of <<u, v>>, u the stronger.                            *)
SearchStep(f, search, pool) ==
    LET u == Strongest(f, pool)
        good == {v \in Unmet(f, u, pool) : search[pool \ {u, v}] # {}}
        first == First([v \in good |-> ClosenessKey(f, u, v)])
    IN  IF pool = {} THEN {{}} ELSE IF good = {} THEN {} ELSE
        {{<<u, first>>} \union rest : rest \in search[pool \ {u, first}]}
RematchFree(f) ==
    LET search[pool \in SUBSET Players] == SearchStep(f, search, pool) IN search

(* A search that never takes a choice back. *)
NoBacktracking(f) ==
    LET search[pool \in SUBSET Players] ==
            LET u == Strongest(f, pool)
                first == First([v \in Unmet(f, u, pool) |-> ClosenessKey(f, u, v)])
            IN  IF pool = {} THEN {{}} ELSE IF Unmet(f, u, pool) = {} THEN {} ELSE
                {{<<u, first>>} \union rest : rest \in search[pool \ {u, first}]}
    IN  search

GreedyStep(f, greedy, pool) ==
    LET u == Strongest(f, pool)
        first == First([v \in pool \ {u} |-> GreedyKey(f, u, v)])
    IN  IF pool = {} THEN {} ELSE {<<u, first>>} \union greedy[pool \ {u, first}]
GreedyFallback(f) ==
    LET greedy[pool \in SUBSET Players] == GreedyStep(f, greedy, pool) IN greedy

(* The search gives up after MAX_SEARCH_STEPS = 5000 steps.  A pool of m takes at most     *)
(* T(m) = 1 + (m - 1) T(m - 2) of them: ten players 1333, twelve up to 14664.              *)
PoolSearchedThrough == 10
GivingUp(pool) == IF Cardinality(pool) <= PoolSearchedThrough THEN {FALSE} ELSE BOOLEAN

HastyMatching(f, pool, givesUp) ==
    LET found == IF givesUp THEN {} ELSE NoBacktracking(f)[pool]
    IN  IF found # {} THEN CHOOSE m \in found : TRUE ELSE GreedyFallback(f)[pool]
Matching(f, pool, givesUp) ==
    LET found == IF givesUp THEN {} ELSE RematchFree(f)[pool]
    IN  IF found # {} THEN CHOOSE m \in found : TRUE ELSE GreedyFallback(f)[pool]

(* Does x, the higher of the two, take seat A of game i of the round (counted from 0)? *)
TakesA(x, y, i) ==
    IF x.balance # y.balance THEN x.balance < y.balance ELSE
    CASE x.last = "B" /\ y.last = "A" -> TRUE
      [] x.last = "A" /\ y.last = "B" -> FALSE
      [] x.last = "B" /\ y.last = "B" -> x.streak >= y.streak
      [] x.last = "A" /\ y.last = "A" -> x.streak < y.streak
      [] OTHER                        -> i % 2 = 0

(* The place of a pair in the round: pairs are made from the strongest player down. *)
ScheduleIndex(f, matched, e) ==
    Cardinality({d \in matched : Before(PoolKey(f, d[1]), PoolKey(f, e[1]))})

SwissRound(f, givesUp) ==
    LET bye == FairBye(f)
        matched == Matching(f, Players \ bye, givesUp)
        Seated(e) == IF TakesA(f[e[1]], f[e[2]], ScheduleIndex(f, matched, e)) THEN e ELSE <<e[2], e[1]>>
    IN  [pairs |-> {Seated(e) : e \in matched}, byes |-> bye]

-----------------------------------------------------------------------------
PairingInit ==
    /\ setup \in Setups
    /\ roundsPlayed = 0
    /\ games = {}
    /\ byes = {}

(* pairRound *)
NextRounds ==
    IF setup.format = "swiss"
    THEN {SwissRound(Participants, g) : g \in GivingUp(Players \ FairBye(Participants))}
    ELSE {RoundRobinRound(roundsPlayed + 1)}

(* A round is paired, and its games are played. *)
PlayRound ==
    /\ roundsPlayed < RoundCount(setup.format, setup.n, setup.rounds)
    /\ \E next \in NextRounds :
        /\ byes' = byes \union {<<roundsPlayed + 1, p>> : p \in next.byes}
        /\ \E result \in [next.pairs -> setup.results] :
             games' = games \union {[round |-> roundsPlayed + 1, a |-> p[1], b |-> p[2],
                                     result |-> result[p]] : p \in next.pairs}
    /\ roundsPlayed' = roundsPlayed + 1
    /\ UNCHANGED setup

PairingSpec == PairingInit /\ [][PlayRound]_pairingVars

-----------------------------------------------------------------------------
(* Properties *)

(* Every round seats everybody exactly once: in one game, or with the round's bye, which   *)
(* an odd field has and an even one has not (pairSwissRound, pairRoundRobinRound).           *)
EveryoneOncePerRound ==
    \A r \in 1..roundsPlayed :
        /\ \A p \in Players :
            Cardinality({g \in GamesOf(p) : g.round = r}) + Cardinality({b \in byes : b = <<r, p>>}) = 1
        /\ Cardinality({b \in byes : b[1] = r}) = IF Odd THEN 1 ELSE 0

(* A round-robin played to its end had every pair meet once, or once with each seating; the  *)
(* double one is, game by game, the schedule a plain tournament draws up in advance          *)
(* (formats/index.mjs pairRoundRobinRound against round-robin.mjs).                          *)
RoundRobinComplete ==
    (setup.format # "swiss" /\ roundsPlayed = RoundCount(setup.format, setup.n, setup.rounds)) =>
        /\ \A p, q \in Players :
              p # q => TimesPlayed(p, q) = IF setup.format = "double" THEN 2 ELSE 1
        /\ setup.format = "double" =>
              {<<g.round, <<g.a, g.b>>>> : g \in games} = DoubleRoundRobinSchedule

(* What every schedule owes its players.                                                     *)
ScheduleSound == EveryoneOncePerRound /\ RoundRobinComplete

(* A Swiss round repeats a pairing only when no pairing of its players avoids a repetition,  *)
(* as long as the search is not cut short: judged over all ways to give everybody a partner, *)
(* not by the order of the search (swiss.mjs:10).                                            *)
RematchOnlyIfForced ==
    LET earlier == {{g.a, g.b} : g \in {h \in games : h.round < roundsPlayed}}
        pool == {p \in Players : <<roundsPlayed, p>> \notin byes}
    IN  /\ setup.format = "swiss" /\ Cardinality(pool) <= PoolSearchedThrough
        /\ \E g \in games : g.round = roundsPlayed /\ {g.a, g.b} \in earlier
        => ~\E partner \in [pool -> pool] : \A p \in pool :
                partner[p] # p /\ partner[partner[p]] = p /\ {p, partner[p]} \notin earlier

(* A Swiss tournament treats its players alike: in a competition nobody has a second bye     *)
(* before everybody had one (swiss.mjs:9), and nobody is given seat A who, of the two, had   *)
(* it more often before, as against seat B (allocateSeats, over the whole history).          *)
BalanceBefore(p, r) ==
    Cardinality({g \in games : g.a = p /\ g.round < r}) - Cardinality({g \in games : g.b = p /\ g.round < r})
SwissFair ==
    setup.format = "swiss" =>
        /\ setup.caller = "arena" => \A p, q \in Players : ByesHad(p) <= ByesHad(q) + 1
        /\ \A g \in games : BalanceBefore(g.a, g.round) <= BalanceBefore(g.b, g.round)
=============================================================================
