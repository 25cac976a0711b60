\* Three requests of one user around midnight, for three days.
CONSTANTS
  h1 = h1  h2 = h2  h3 = h3  u1 = u1  w1 = w1  w2 = w2
  None = None
  Global = Global
  Handlers = {h1, h2, h3}
  Users = {u1}
  Words = {w1, w2}
  GuessLists <- Lists
  LastDay = 3
  MaxGuesses = 6
  scoreFirstSolve = 100
  scorePerGuess = 15
  gracePastDays = 1
SPECIFICATION Spec
SYMMETRY HandlerSymmetry
INVARIANTS
  TypeOK
  BoardScoresWereEarned
  ToldScoresStay
  BoardsAgree
PROPERTY ClosedBoardsStay
CHECK_DEADLOCK FALSE
