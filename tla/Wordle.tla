------------------------------- MODULE Wordle -------------------------------
(***************************************************************************)
(* The client's pure Wordle functions (games/wordle/scoring.js): the colour*)
(* of every letter of a guess, the test for a win, and the score that is   *)
(* to mirror the server's.  A word is a sequence of upper-cased letters.   *)
(***************************************************************************)
EXTENDS Scoring, FiniteSets

Same(g, s, i) == g[i] = s[i]

\* The letters c of s that are not hit: `remaining` after the first loop.
Unhit(g, s, c) == Cardinality({i \in DOMAIN s : s[i] = c /\ ~Same(g, s, i)})

\* A fault kept for the checks: a green letter takes one from the pool.
TakesAlways(g, s, c, i) == g[i] = c

\* Letter i of the guess asks for a c that is left.
Takes(g, s, c, i) == g[i] = c /\ ~Same(g, s, i)

\* The second loop.  left[i] is remaining[c] before letter i: every earlier c of
\* the guess that was not a hit took one while there were any.
Remaining(g, s, c) ==
    LET left[i \in 1 .. Len(g) + 1] ==
            IF i = 1 THEN Unhit(g, s, c)
            ELSE IF Takes(g, s, c, i - 1) /\ left[i-1] > 0
                 THEN left[i-1] - 1 ELSE left[i-1]
    IN  left

evaluateGuess(g, s) ==
    [i \in 1 .. Len(g) |->
        IF Same(g, s, i) THEN "hit"
        ELSE IF Remaining(g, s, g[i])[i] > 0 THEN "present" ELSE "miss"]

isWin(evaluation) ==
    Len(evaluation) > 0 /\ \A i \in 1 .. Len(evaluation) : evaluation[i] = "hit"

\* A fault kept for the checks: the loop runs one guess too far.
OneTooMany(guesses) == 1 .. Len(guesses) \cap 0 .. MaxGuesses + 1

\* The guesses the client's loop looks at.
Looked(guesses) == 1 .. Len(guesses) \cap 0 .. MaxGuesses

\* The loop of score(): the result at the first guess that is the solution.
score(guesses, solution) ==
    LET from[i \in 1 .. Len(guesses) + 1] ==
            IF i \notin Looked(guesses) THEN [score |-> 0, won |-> FALSE]
            ELSE IF guesses[i] = solution
                 THEN [score |-> IF (i - 1) * scorePerGuess > scoreFirstSolve THEN 0
                                 ELSE scoreFirstSolve - (i - 1) * scorePerGuess,
                       won   |-> TRUE]
                 ELSE from[i+1]
    IN  from[1]

----------------------------------------------------------------------------
(* The rule of the game, stated without a loop. *)

\* The yellow letters of g up to the i-th need as many places of s.
Asked(g, s, i)    == {j \in 1 .. i : g[j] = g[i] /\ g[j] # s[j]}
Unplaced(g, s, i) == {j \in DOMAIN s : s[j] = g[i] /\ g[j] # s[j]}

\* "Greens are placed first, then yellows are issued only against remaining
\* (non-green) target letters", from the left.
Feedback(g, s) ==
    [i \in 1 .. Len(g) |->
        CASE g[i] = s[i] -> "hit"
          [] g[i] # s[i] /\ Cardinality(Asked(g, s, i)) <= Cardinality(Unplaced(g, s, i))
               -> "present"
          [] OTHER -> "miss"]

=============================================================================
