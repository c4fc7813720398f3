----------------------------- MODULE MCPairing -----------------------------
(* Fields of two to five players with every result; larger ones with decided games, *)
(* up to the first field whose search may be cut short.                             *)
EXTENDS Pairing

Tournament(format, caller, n, rounds, results) ==
    [format |-> format, caller |-> caller, n |-> n, rounds |-> rounds, results |-> results]

MCSetups ==
    {Tournament(f, "arena", n, 0, {"A"}) : f \in {"single", "double"}, n \in 2..8} \union
    {Tournament("swiss", c, n, n - 1, {"A", "B", "draw"}) : c \in {"arena", "human"}, n \in 2..4} \union
    {Tournament("swiss", c, 5, 4, {"A", "B"}) : c \in {"arena", "human"}} \union
    {Tournament("swiss", "arena", 6, 4, {"A", "B"})} \union
    {Tournament("swiss", "arena", 8, 4, {"A"}), Tournament("swiss", "arena", 12, 3, {"A"})}
=============================================================================
