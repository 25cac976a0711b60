----------------------------- MODULE MCAttempts -----------------------------
(***************************************************************************)
(* Instances of Attempts for TLC.                                          *)
(***************************************************************************)
EXTENDS Attempts, TLC

CONSTANTS h1, h2, h3, u1, w1, w2

\* Against w1: the second guess, and a seventh nobody has; against w2: the first.
Lists == { << w2, w1 >>, << w2, w2, w2, w2, w2, w2, w1 >> }

HandlerSymmetry == Permutations(Handlers)
=============================================================================
