------------------------------ MODULE PlayWords ------------------------------
(***************************************************************************)
(* The games of Play meet the pure functions their scene relies on for     *)
(* colours and scores (Wordle): a guess, which Play knows by whether it is *)
(* the solution, may be any word that is, or is not, the solution.         *)
(***************************************************************************)
EXTENDS Play, Wordle

CONSTANTS Letters,    \* the alphabet
          WordLength  \* letters in a word

ASSUME WordsAssumption == WordLength \in Nat \ {0}

Words == [1 .. WordLength -> Letters]

\* The words of which the scene gets the colours or the win wrong.
Miscoloured ==
    {p \in Words \X Words :
        LET colours == evaluateGuess(p[1], p[2])
        IN  colours # Feedback(p[1], p[2]) \/ isWin(colours) # (p[1] = p[2])}

\* The kinds of guesses among them.
MiscolouredKinds == {IF p[1] = p[2] THEN "right" ELSE "wrong" : p \in Miscoloured}

\* No row of a game is coloured wrong, whatever word was entered and whatever the
\* solution is: the loops of evaluateGuess follow the rule of the game, also with
\* letters that repeat in the guess, the solution or both, and a row is all green
\* exactly if the guess is the solution (scoring.js:9-52).
FeedbackIsRight ==
    \A v \in Running : \A i \in DOMAIN game[v].guesses :
        game[v].guesses[i] \notin MiscolouredKinds

\* The client's score of a list is the score the server will give, for every list a
\* game comes to, also one with a guess more than there are rows (scoring.js:56-75,
\* scoring.go).
ScoreMirrors ==
    \A v \in Running :
        score(game[v].guesses, "right") = Score("right", game[v].guesses)

=============================================================================
