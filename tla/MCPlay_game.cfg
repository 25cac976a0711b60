\* One visit, a game of four rows and one guess too many, three attempts posted;
\* words of four letters out of three.
SPECIFICATION LiveSpec
CONSTANTS
    MaxVisits = 1
    MaxTyped = 5
    MaxPosts = 3
    MaxGuesses = 4
    scoreFirstSolve = 100
    scorePerGuess = 15
    None = None
    Letters <- FewLetters
    WordLength = 4
INVARIANTS
    TypeOK
    ReportsWorthTheSame
    ReportsAreFinal
    FeedbackIsRight
    ScoreMirrors
PROPERTY GameEnds
CHECK_DEADLOCK FALSE
