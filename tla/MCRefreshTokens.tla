---------------------------- MODULE MCRefreshTokens ----------------------------
(* Three or four requests of any kind to one account.                          *)
EXTENDS RefreshTokens, TLC

CONSTANTS q1, q2, q3, q4

ThreeRequests == {q1, q2, q3}
FourRequests == {q1, q2, q3, q4}

Symmetry == Permutations(FourRequests)
===============================================================================
