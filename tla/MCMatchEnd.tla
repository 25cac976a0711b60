----------------------------- MODULE MCMatchEnd -----------------------------
(***************************************************************************)
(* Instances of MatchEnd for TLC.                                          *)
(***************************************************************************)
EXTENDS MatchEnd

CONSTANTS c1, c2, u1, u2, m1, m2, r1, r2, d1, d2

OneMatch == m1 :> << u1, u2 >>
OneDate == m1 :> d1

\* A win, a draw with a lower score of the same player (and one below zero), and
\* a foreign winner.
ThreeReports == { [winner |-> u1,       p1 |-> 2, p2 |-> 0],
                  [winner |-> None,     p1 |-> 1, p2 |-> -1],
                  [winner |-> Outsider, p1 |-> 1, p2 |-> 1] }

ConnSymmetry == Permutations(Conns) \union Permutations(RoomObjs)
=============================================================================
