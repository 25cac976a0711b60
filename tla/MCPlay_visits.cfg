\* Two visits to the puzzle, games of two rows, two attempts posted.
SPECIFICATION Spec
CONSTANTS
    MaxVisits = 2
    MaxTyped = 2
    MaxPosts = 2
    MaxGuesses = 2
    scoreFirstSolve = 100
    scorePerGuess = 15
    None = None
    Letters <- OneLetter
    WordLength = 1
INVARIANT ShownWinIsPaid
PROPERTY StoredAttemptStays
CHECK_DEADLOCK FALSE
