------------------------------ MODULE MCDropQueue ------------------------------
(* Three publishers race for two places; publishers are interchangeable, *)
(* and so are receivers.                                                  *)
EXTENDS DropQueue, TLC

Threads == Permutations(Publishers) \cup Permutations(Receivers)

================================================================================
