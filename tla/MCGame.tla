------------------------------- MODULE MCGame -------------------------------
(* Model-checking DurableGame: sockets are interchangeable.                 *)
EXTENDS DurableGame, TLC

Interchangeable == Permutations(Conn)
=============================================================================
