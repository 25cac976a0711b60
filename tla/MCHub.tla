-------------------------------- MODULE MCHub --------------------------------
(***************************************************************************)
(* Instances of Hub for TLC.                                               *)
(***************************************************************************)
EXTENDS Hub

CONSTANTS c1, c2, c3, u1, u2, u3, m1, m2, r1, r2, r3, r4

\* One match between u1 and u2; c1, c2, c3 let one of them connect twice.
OneMatch == m1 :> << u1, u2 >>

\* u1 plays u2 in m1 and u3 in m2.
SharedPlayer == m1 :> << u1, u2 >> @@ m2 :> << u1, u3 >>

ConnSymmetry == Permutations(Conns) \union Permutations(RoomObjs)
=============================================================================
