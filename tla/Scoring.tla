------------------------------ MODULE Scoring ------------------------------
(***************************************************************************)
(* What the server pays for a list of guesses (server/internal/api,        *)
(* scoring.go).  A guess is the word it means once trimmed and lower-cased.*)
(***************************************************************************)
EXTENDS Integers, Sequences

CONSTANTS MaxGuesses, scoreFirstSolve, scorePerGuess  \* of the source

\* A fault kept for the checks: guesses beyond the last one count.
AnyGuess(guesses) == DOMAIN guesses

\* The guesses that are considered.
Considered(guesses) == {i \in DOMAIN guesses : i <= MaxGuesses}

\* The considered guesses that are the solution.
Solving(word, guesses) == {i \in Considered(guesses) : guesses[i] = word}

\* The points for a solution at the i-th guess.
Points(i) ==
  LET n == scoreFirstSolve - (i - 1) * scorePerGuess IN IF n < 0 THEN 0 ELSE n

Score(word, guesses) ==
  IF Solving(word, guesses) = {} THEN [score |-> 0, won |-> FALSE]
  ELSE LET first == CHOOSE i \in Solving(word, guesses) :
                      \A j \in Solving(word, guesses) : i <= j
       IN  [score |-> Points(first), won |-> TRUE]

=============================================================================
