---------------------------- MODULE MCSocketSession ----------------------------
(* Three connections of one character to two processes, two of them to one.     *)
EXTENDS SocketSession, TLC

CONSTANTS p1, p2, d1, d2, d3

TwoProcs == {p1, p2}
MCConns == {d1, d2, d3}
Apart == [c \in MCConns |-> IF c = d3 THEN p2 ELSE p1]

\* The connections to one process are interchangeable.
Symmetry == Permutations({d1, d2})
===============================================================================
