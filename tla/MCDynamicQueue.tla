---------------------------- MODULE MCDynamicQueue ----------------------------
(* Three addJob calls in one process, or two calls anywhere in two processes.  *)
EXTENDS DynamicQueue, TLC

CONSTANTS p1, p2, j1, j2, j3, c1, c2, c3, key

OneProc == {p1}
TwoProcs == {p1, p2}
MCCalls == {j1, j2, j3}
TwoCalls == {j1, j2}
MCKeys == {key}

\* Up to the names of calls and processes, these are all the placements.
Together == {[c \in MCCalls |-> p1]}
SameOrApart == {[c \in TwoCalls |-> p1],
                [c \in TwoCalls |-> IF c = j1 THEN p1 ELSE p2]}

\* Calls of one process, and clients, are interchangeable.
Symmetry == Permutations(MCCalls) \union Permutations({c1, c2, c3})
===============================================================================
