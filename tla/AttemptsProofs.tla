--------------------------- MODULE AttemptsProofs ---------------------------
(***************************************************************************)
(* Proofs about Attempts, for any number of requests, users, days and      *)
(* words: types, that every board score was earned, and that the boards    *)
(* keep every score a user was told.                                       *)
(***************************************************************************)
EXTENDS Attempts, WellFoundedInduction, TLAPS

\* Every non-empty set of numbers has a least one.
LEMMA LeastOf ==
  ASSUME NEW T \in SUBSET Nat, T # {}
  PROVE  \E x \in T : \A y \in T : x <= y
<1>1. PICK x \in T : \A y \in T : ~ (<< y, x >> \in OpToRel(<, Nat))
  BY NatLessThanWellFounded, WFMin
<1>2. ASSUME NEW y \in T PROVE x <= y
  <2>1. x \in Nat /\ y \in Nat
    OBVIOUS
  <2>2. ~ (y < x)
    BY <1>1, <2>1 DEF OpToRel
  <2>3. QED
    BY <2>1, <2>2
<1>3. QED
  BY <1>2

\* The points of a guess are a score.
LEMMA PointsType == ASSUME NEW i \in Nat \ {0} PROVE Points(i) \in Scores
<1>1. i - 1 \in Nat /\ scorePerGuess \in Nat /\ scoreFirstSolve \in Nat
  BY AttemptsAssumption
<1>2. (i - 1) * scorePerGuess \in Nat
  BY <1>1
<1>3. QED
  BY <1>1, <1>2 DEF Points, Scores

\* A positive score is what the guesses earn.
LEMMA ScoreEarns ==
  ASSUME NEW g \in GuessLists, NEW word
  PROVE  /\ Score(word, g).score \in Scores
         /\ Score(word, g).won \in BOOLEAN
         /\ Score(word, g).score > 0 => Earns(word, g, Score(word, g).score)
<1> DEFINE S == Solving(word, g)
           first == CHOOSE i \in S : \A j \in S : i <= j
<1>1. g \in Seq(Words) /\ MaxGuesses \in Nat
  BY AttemptsAssumption
<1>2. S = {i \in 1..Len(g) : i <= MaxGuesses /\ g[i] = word}
  BY <1>1 DEF Solving, Considered
<1>3. CASE S = {}
  BY <1>3, AttemptsAssumption DEF Score, Scores
<1>4. CASE S # {}
  <2>1. S \in SUBSET Nat
    BY <1>1, <1>2
  <2>2. first \in S /\ \A j \in S : first <= j
    BY <1>4, <2>1, LeastOf
  <2>3. Score(word, g) = [score |-> Points(first), won |-> TRUE]
    BY <1>4 DEF Score
  <2> HIDE DEF S, first
  <2>4. first \in 1..MaxGuesses /\ first <= Len(g) /\ g[first] = word
    BY <1>1, <1>2, <2>2
  <2>5. ASSUME NEW j \in 1..(first - 1) PROVE g[j] # word
    <3>1. j \in 1..Len(g) /\ j <= MaxGuesses /\ ~(first <= j)
      BY <1>1, <2>4
    <3>2. QED
      BY <1>2, <2>2, <3>1
  <2>6. Points(first) \in Scores
    BY <2>4, PointsType
  <2>7. Earns(word, g, Points(first))
    BY <2>4, <2>5 DEF Earns
  <2>8. QED
    BY <2>3, <2>6, <2>7
<1>5. QED
  BY <1>3, <1>4

\* Scores are natural numbers, nothing among them.
LEMMA ScoresAreNat == Scores \subseteq Nat /\ 0 \in Scores
  BY AttemptsAssumption DEF Scores

\* What finalize returns has its type.
LEMMA FinalizeType ==
  ASSUME NEW g \in GuessLists, NEW word
  PROVE  finalize(g, word) \in Attempt
  BY ScoreEarns DEF finalize, Attempt

\* No request is under way at first.
LEMMA IInvInit == Init => IInv
<1> SUFFICES ASSUME Init PROVE IInv
  OBVIOUS
<1>1. TypeOK
  BY ScoresAreNat, AttemptsAssumption DEF Init, TypeOK
<1>2. ASSUME NEW h \in Handlers PROVE HandlerInv(h)
  BY DEF Init, HandlerInv, RequestKept, AttemptScored, SubmittedStays, ToldStays
<1>3. BoardScoresWereEarned
  BY DEF Init, BoardScoresWereEarned
<1>4. QED
  BY <1>1, <1>2, <1>3 DEF IInv

\* What holds of the boards before a step holds after it, if the step keeps
\* every accepted request, puzzle and told score, and lowers no board.
LEMMA BoardsKept ==
  ASSUME IInv,
         \A h \in Handlers : request[h] # None => request'[h] = request[h],
         \A d \in Dates : puzzles[d] # None => puzzles'[d] = puzzles[d],
         UNCHANGED boards
  PROVE  BoardScoresWereEarned'
<1>1. SUFFICES ASSUME NEW b \in Boards, NEW u \in Users, boards[b][u] > 0
               PROVE  \E h \in Handlers :
                        /\ request'[h] # None
                        /\ request'[h].user = u
                        /\ b \in {request'[h].date, Global}
                        /\ puzzles'[request'[h].date] # None
                        /\ Earns(puzzles'[request'[h].date], request'[h].guesses, boards[b][u])
  BY DEF BoardScoresWereEarned
<1>2. PICK h \in Handlers :
        /\ request[h] # None
        /\ request[h].user = u
        /\ b \in {request[h].date, Global}
        /\ puzzles[request[h].date] # None
        /\ Earns(puzzles[request[h].date], request[h].guesses, boards[b][u])
  BY <1>1 DEF IInv, BoardScoresWereEarned
<1>3. request[h] \in Request
  BY <1>2 DEF IInv, TypeOK
<1>4. request'[h] = request[h] /\ puzzles'[request[h].date] = puzzles[request[h].date]
  BY <1>2, <1>3 DEF Request
<1>5. QED
  BY <1>2, <1>4

\* A step of h leaves the other handlers as they were; boards only grow.
Others(h) ==
  /\ \A k \in Handlers \ {h} :
       /\ pc'[k] = pc[k] /\ request'[k] = request[k]
       /\ attempt'[k] = attempt[k] /\ answer'[k] = answer[k]
  /\ lost \subseteq lost'
  /\ UNCHANGED puzzles
  /\ \A b \in Boards, u \in Users : boards'[b][u] >= boards[b][u]

\* A step of one request keeps what the invariant says of the others.
LEMMA OthersKept ==
  ASSUME IInv, NEW h \in Handlers, Others(h), boards' \in [Boards -> [Users -> Scores]],
         NEW k \in Handlers, k # h
  PROVE  HandlerInv(k)'
<1>1. HandlerInv(k) /\ TypeOK
  BY DEF IInv
<1>2. /\ pc'[k] = pc[k] /\ request'[k] = request[k]
      /\ attempt'[k] = attempt[k] /\ answer'[k] = answer[k]
      /\ puzzles' = puzzles
      /\ k \in lost => k \in lost'
  BY DEF Others
<1>3. RequestKept(k)' /\ AttemptScored(k)'
  BY <1>1, <1>2 DEF HandlerInv, RequestKept, AttemptScored
<1>4. ASSUME NEW b \in Boards, NEW s \in Nat, request[k] \in Request, Shows(b, k, s)
      PROVE  Shows(b, k, s)'
  <2>1. request[k].user \in Users
    BY <1>4 DEF Request
  <2>2. boards'[b][request[k].user] >= boards[b][request[k].user]
    BY <2>1 DEF Others
  <2>3. boards'[b][request[k].user] \in Nat /\ boards[b][request[k].user] \in Nat
    BY <1>1, <2>1, ScoresAreNat DEF TypeOK
  <2>4. QED
    BY <1>2, <1>4, <2>2, <2>3 DEF Shows
<1>5. SubmittedStays(k)'
  <2>1. SUFFICES ASSUME k \notin lost', pc'[k] \in {"global", "answer"}
                 PROVE  /\ Shows(request[k].date, k, attempt[k].score)'
                        /\ pc'[k] = "answer" => Shows(Global, k, attempt[k].score)'
    BY <1>2 DEF SubmittedStays
  <2>2. request[k] \in Request /\ attempt[k] \in Attempt
    <3>1. request[k] \in Request /\ puzzles[request[k].date] \in Words
          /\ attempt[k] = finalize(request[k].guesses, puzzles[request[k].date])
      BY <1>1, <1>2, <2>1 DEF HandlerInv, RequestKept, AttemptScored
    <3>2. QED
      BY <3>1, FinalizeType DEF Request
  <2>3. request[k].date \in Boards /\ Global \in Boards /\ attempt[k].score \in Nat
    BY <2>2, ScoresAreNat DEF Request, Attempt, Boards
  <2>4. /\ Shows(request[k].date, k, attempt[k].score)
        /\ pc[k] = "answer" => Shows(Global, k, attempt[k].score)
    BY <1>1, <1>2, <2>1 DEF HandlerInv, SubmittedStays
  <2>5. QED
    BY <1>2, <1>4, <2>2, <2>3, <2>4 DEF Shows
<1>6. ToldStays(k)'
  <2>1. SUFFICES ASSUME k \notin lost', answer[k] # None, answer[k].status = "ok"
                 PROVE  /\ Shows(request[k].date, k, answer[k].score)'
                        /\ Shows(Global, k, answer[k].score)'
    BY <1>2 DEF ToldStays
  <2>2. request[k] \in Request /\ answer[k] \in Response
    BY <1>1, <2>1 DEF HandlerInv, RequestKept, TypeOK
  <2>3. request[k].date \in Boards /\ Global \in Boards /\ answer[k].score \in Nat
    BY <2>2, ScoresAreNat DEF Request, Response, Boards
  <2>4. Shows(request[k].date, k, answer[k].score) /\ Shows(Global, k, answer[k].score)
    BY <1>1, <1>2, <2>1 DEF HandlerInv, ToldStays
  <2>5. QED
    BY <1>2, <1>4, <2>2, <2>3, <2>4 DEF Shows
<1>7. QED
  BY <1>3, <1>5, <1>6 DEF HandlerInv

\* What remains to be shown of a step of h.
LEMMA HandlerStep ==
  ASSUME IInv, NEW h \in Handlers, TypeOK', Others(h), HandlerInv(h)',
         BoardScoresWereEarned'
  PROVE  IInv'
<1>1. boards' \in [Boards -> [Users -> Scores]]
  BY DEF TypeOK
<1>2. QED
  BY <1>1, OthersKept DEF IInv

\* Boards that stay as they are do not shrink.
LEMMA BoardsStay ==
  ASSUME TypeOK, UNCHANGED boards
  PROVE  \A b \in Boards, u \in Users : boards'[b][u] >= boards[b][u]
<1>1. ASSUME NEW b \in Boards, NEW u \in Users PROVE boards[b][u] \in Nat
  BY ScoresAreNat DEF TypeOK
<1>2. QED
  BY <1>1

\* A fresh handler takes a request.
LEMMA AcceptStep ==
  ASSUME IInv, NEW h \in Handlers, NEW u \in Users, NEW d \in Dates, NEW g \in GuessLists,
         Accept(h, u, d, g)
  PROVE  IInv'
<1> DEFINE r == [user |-> u, date |-> d, guesses |-> g]
<1>1. /\ pc[h] = "idle" /\ pc' = [pc EXCEPT ![h] = "puzzle"]
      /\ request' = [request EXCEPT ![h] = r]
      /\ r \in Request
      /\ UNCHANGED << today, puzzles, attempts, boards, attempt, answer, lost >>
  BY DEF Accept, Goto, storeVars, Request
<1> HIDE DEF r
<1>2. TypeOK /\ request[h] = None /\ answer[h] = None
  BY <1>1 DEF IInv, HandlerInv, RequestKept
<1>3. TypeOK'
  BY <1>1, <1>2 DEF TypeOK
<1>4. pc'[h] = "puzzle" /\ request'[h] = r
  BY <1>1, <1>2 DEF TypeOK
<1>5. Others(h)
  BY <1>1, <1>2, BoardsStay DEF TypeOK, Others
<1>6. HandlerInv(h)'
  BY <1>1, <1>2, <1>4
  DEF HandlerInv, RequestKept, AttemptScored, SubmittedStays, ToldStays
<1>7. BoardScoresWereEarned'
  BY <1>1, <1>2, <1>5, BoardsKept DEF Others
<1>8. QED
  BY <1>3, <1>5, <1>6, <1>7, HandlerStep

\* A refusal or an error is written.
LEMMA AnswerStep ==
  ASSUME IInv, NEW h \in Handlers, NEW status \in {"refused", "not found", "error"},
         Answer(h, status, 0),
         attempts' \in [Users -> [Dates -> Attempt \union {None}]],
         UNCHANGED << today, puzzles, boards, request, attempt, lost >>
  PROVE  IInv'
<1>1. /\ pc' = [pc EXCEPT ![h] = "done"]
      /\ answer' = [answer EXCEPT ![h] = [status |-> status, score |-> 0]]
  BY DEF Answer, Goto
<1>2. TypeOK
  BY DEF IInv
<1>3. TypeOK'
  <2>1. [status |-> status, score |-> 0] \in Response
    BY ScoresAreNat DEF Response
  <2>2. QED
    BY <1>1, <1>2, <2>1 DEF TypeOK
<1>4. pc'[h] = "done" /\ answer'[h].status # "ok"
  BY <1>1, <1>2 DEF TypeOK
<1>5. Others(h)
  BY <1>1, <1>2, BoardsStay DEF TypeOK, Others
<1>6. HandlerInv(h)'
  BY <1>4 DEF HandlerInv, RequestKept, AttemptScored, SubmittedStays, ToldStays
<1>7. BoardScoresWereEarned'
  BY BoardsKept
<1>8. QED
  BY <1>3, <1>5, <1>6, <1>7, HandlerStep

\* The request is scored.
LEMMA GetPuzzleStep ==
  ASSUME IInv, NEW h \in Handlers, GetPuzzle(h)
  PROVE  IInv'
<1> DEFINE a == finalize(request[h].guesses, puzzles[request[h].date])
<1>1. /\ pc[h] = "puzzle" /\ pc' = [pc EXCEPT ![h] = "store"]
      /\ puzzles[request[h].date] # None
      /\ attempt' = [attempt EXCEPT ![h] = a]
      /\ UNCHANGED << today, puzzles, attempts, boards, request, answer, lost >>
  BY DEF GetPuzzle, Goto, storeVars
<1> HIDE DEF a
<1>2. TypeOK /\ request[h] \in Request /\ answer[h] = None
  BY <1>1 DEF IInv, HandlerInv, RequestKept
<1>3. a \in Attempt
  BY <1>2, FinalizeType DEF Request, a
<1>4. TypeOK'
  BY <1>1, <1>2, <1>3 DEF TypeOK
<1>5. pc'[h] = "store" /\ attempt'[h] = a
  BY <1>1, <1>2 DEF TypeOK
<1>6. puzzles[request[h].date] \in Words
  BY <1>1, <1>2 DEF TypeOK, Request
<1>7. Others(h)
  BY <1>1, <1>2, BoardsStay DEF TypeOK, Others
<1>8. HandlerInv(h)'
  BY <1>1, <1>2, <1>5, <1>6
  DEF HandlerInv, RequestKept, AttemptScored, SubmittedStays, ToldStays, a
<1>9. BoardScoresWereEarned'
  BY <1>1, BoardsKept
<1>10. QED
  BY <1>4, <1>7, <1>8, <1>9, HandlerStep

\* What a handler that has an attempt knows of it.
LEMMA AttemptFacts ==
  ASSUME IInv, NEW h \in Handlers, pc[h] \in {"store", "daily", "global", "answer"}
  PROVE  /\ request[h] \in Request
         /\ request[h].user \in Users /\ request[h].date \in Dates
         /\ puzzles[request[h].date] \in Words
         /\ attempt[h] = finalize(request[h].guesses, puzzles[request[h].date])
         /\ attempt[h] \in Attempt
         /\ attempt[h].score \in Scores /\ attempt[h].score \in Nat
         /\ answer[h] = None
<1>1. /\ request[h] \in Request /\ answer[h] = None
      /\ puzzles[request[h].date] \in Words
      /\ attempt[h] = finalize(request[h].guesses, puzzles[request[h].date])
  BY DEF IInv, HandlerInv, RequestKept, AttemptScored
<1>2. attempt[h] \in Attempt
  BY <1>1, FinalizeType DEF Request
<1>3. QED
  BY <1>1, <1>2, ScoresAreNat DEF Request, Attempt

\* What is stored is an attempt.
LEMMA StoredType ==
  ASSUME IInv, NEW h \in Handlers, pc[h] = "store"
  PROVE  StoredAttempt(h) \in [Users -> [Dates -> Attempt \union {None}]]
  BY AttemptFacts DEF IInv, TypeOK, StoredAttempt

\* The attempt is stored; without a score there is nothing to submit.
LEMMA UpsertAttemptStep ==
  ASSUME IInv, NEW h \in Handlers, UpsertAttempt(h)
  PROVE  IInv'
<1>1. /\ pc[h] = "store" /\ pc' = [pc EXCEPT ![h] = AfterStore(h)]
      /\ attempts' = StoredAttempt(h)
      /\ UNCHANGED << today, puzzles, boards, request, attempt, answer, lost >>
  BY DEF UpsertAttempt, Goto
<1>2. TypeOK
  BY DEF IInv
<1>3. \/ AfterStore(h) = "daily"
      \/ AfterStore(h) = "answer" /\ attempt[h].score = 0
  <2>1. attempt[h].score \in Nat
    BY <1>1, AttemptFacts
  <2>2. QED
    BY <2>1 DEF AfterStore
<1>4. attempts' \in [Users -> [Dates -> Attempt \union {None}]]
  BY <1>1, StoredType
<1>5. TypeOK'
  BY <1>1, <1>2, <1>3, <1>4 DEF TypeOK
<1>6. pc'[h] = AfterStore(h)
  BY <1>1, <1>2 DEF TypeOK
<1>7. Others(h)
  BY <1>1, <1>2, BoardsStay DEF TypeOK, Others
<1>8. HandlerInv(h)'
  <2>1. RequestKept(h)' /\ AttemptScored(h)'
    BY <1>1, <1>3, <1>6, AttemptFacts DEF RequestKept, AttemptScored
  <2>2. ToldStays(h)'
    BY <1>1, AttemptFacts DEF ToldStays
  <2>3. boards[request[h].date][request[h].user] \in Nat /\ boards[Global][request[h].user] \in Nat
    BY <1>1, <1>2, AttemptFacts, ScoresAreNat DEF TypeOK, Boards
  <2>4. SubmittedStays(h)'
    BY <1>1, <1>3, <1>6, <2>3 DEF SubmittedStays, Shows
  <2>5. QED
    BY <2>1, <2>2, <2>4 DEF HandlerInv
<1>9. BoardScoresWereEarned'
  BY <1>1, BoardsKept
<1>10. QED
  BY <1>5, <1>7, <1>8, <1>9, HandlerStep

\* The boards after the submission of h: the user's entry of one board becomes
\* the better one, all others stay.
LEMMA BestBoards ==
  ASSUME IInv, NEW h \in Handlers, SubmitScore(h)
  PROVE  /\ BoardOf(h) \in Boards
         /\ boards' \in [Boards -> [Users -> Scores]]
         /\ \A b \in Boards, u \in Users : boards'[b][u] >= boards[b][u]
         /\ \A b \in Boards, u \in Users :
              \/ boards'[b][u] = boards[b][u]
              \/ /\ b = BoardOf(h) /\ u = request[h].user
                 /\ boards'[b][u] = attempt[h].score
         /\ boards'[BoardOf(h)][request[h].user] >= attempt[h].score
<1> DEFINE b0 == BoardOf(h)
           u0 == request[h].user
           s  == attempt[h].score
<1>1. /\ pc[h] \in {"daily", "global"}
      /\ boards' = [boards EXCEPT ![b0][u0] = Best(boards[b0][u0], s)]
  BY DEF SubmitScore
<1>2. u0 \in Users /\ request[h].date \in Dates /\ s \in Scores
  BY <1>1, AttemptFacts
<1>3. b0 \in Boards
  BY <1>1, <1>2 DEF BoardOf, Boards
<1>4. boards \in [Boards -> [Users -> Scores]]
  BY DEF IInv, TypeOK
<1> HIDE DEF b0, u0, s
<1>5. \A b \in Boards, u \in Users : boards[b][u] \in Scores /\ boards[b][u] \in Nat
  BY <1>4, ScoresAreNat
<1>6. s \in Nat
  BY <1>2, ScoresAreNat
<1>7. /\ Best(boards[b0][u0], s) \in {boards[b0][u0], s}
      /\ Best(boards[b0][u0], s) >= boards[b0][u0]
      /\ Best(boards[b0][u0], s) >= s
  BY <1>2, <1>3, <1>5, <1>6 DEF Best
<1>8. boards' \in [Boards -> [Users -> Scores]]
  BY <1>1, <1>2, <1>3, <1>4, <1>7
<1>9. ASSUME NEW b \in Boards, NEW u \in Users
      PROVE  boards'[b][u] = IF b = b0 /\ u = u0 THEN Best(boards[b0][u0], s)
                                                 ELSE boards[b][u]
  BY <1>1, <1>2, <1>3, <1>4
<1>10. \A b \in Boards, u \in Users : boards'[b][u] >= boards[b][u]
  BY <1>5, <1>7, <1>9
<1>11. \A b \in Boards, u \in Users :
         boards'[b][u] = boards[b][u] \/ (b = b0 /\ u = u0 /\ boards'[b][u] = s)
  BY <1>7, <1>9
<1>12. boards'[b0][u0] >= s
  BY <1>2, <1>3, <1>7, <1>9
<1>13. QED
  BY <1>3, <1>8, <1>10, <1>11, <1>12 DEF b0, u0, s

\* A submission adds a score the request has earned.
LEMMA SubmitScoreStep ==
  ASSUME IInv, NEW h \in Handlers, SubmitScore(h)
  PROVE  IInv'
<1>1. /\ pc[h] \in {"daily", "global"} /\ pc' = [pc EXCEPT ![h] = AfterBoard(h)]
      /\ UNCHANGED << today, puzzles, attempts, request, attempt, answer, lost >>
  BY DEF SubmitScore, Goto
<1>2. TypeOK
  BY DEF IInv
<1>3. pc'[h] = AfterBoard(h) /\ AfterBoard(h) = IF pc[h] = "daily" THEN "global" ELSE "answer"
  BY <1>1, <1>2 DEF TypeOK, AfterBoard
<1>4. TypeOK'
  BY <1>1, <1>2, <1>3, BestBoards DEF TypeOK
<1>5. Others(h)
  BY <1>1, <1>2, BestBoards DEF TypeOK, Others
<1>6. HandlerInv(h)'
  <2>1. RequestKept(h)' /\ AttemptScored(h)' /\ ToldStays(h)'
    BY <1>1, <1>3, AttemptFacts DEF RequestKept, AttemptScored, ToldStays
  <2>2. CASE pc[h] = "daily"
    <3>1. BoardOf(h) = request[h].date /\ pc'[h] = "global"
      BY <1>3, <2>2 DEF BoardOf
    <3>2. QED
      BY <1>1, <3>1, <2>1, BestBoards DEF HandlerInv, SubmittedStays, Shows
  <2>3. CASE pc[h] = "global"
    <3>1. BoardOf(h) = Global /\ pc'[h] = "answer"
      BY <1>3, <2>3 DEF BoardOf
    <3>2. h \notin lost => Shows(request[h].date, h, attempt[h].score)
      BY <2>3 DEF IInv, HandlerInv, SubmittedStays
    <3>3. h \notin lost => Shows(request[h].date, h, attempt[h].score)'
      <4>1. /\ request[h].date \in Boards /\ request[h].user \in Users
            /\ attempt[h].score \in Nat
        BY <1>1, AttemptFacts DEF Boards
      <4>2. /\ boards'[request[h].date][request[h].user] \in Nat
            /\ boards[request[h].date][request[h].user] \in Nat
            /\ boards'[request[h].date][request[h].user]
                 >= boards[request[h].date][request[h].user]
        <5>1. /\ boards \in [Boards -> [Users -> Scores]]
              /\ boards' \in [Boards -> [Users -> Scores]]
          BY <1>2, BestBoards DEF TypeOK
        <5>2. \A b \in Boards, u \in Users : boards'[b][u] >= boards[b][u]
          BY BestBoards
        <5>3. QED
          BY <4>1, <5>1, <5>2, ScoresAreNat
      <4>3. QED
        BY <1>1, <3>2, <4>1, <4>2 DEF Shows
    <3>4. QED
      BY <1>1, <3>1, <3>3, <2>1, BestBoards DEF HandlerInv, SubmittedStays, Shows
  <2>4. QED
    BY <1>1, <2>2, <2>3
<1>7. BoardScoresWereEarned'
  <2>1. SUFFICES ASSUME NEW b \in Boards, NEW u \in Users, boards'[b][u] > 0
                 PROVE  \E k \in Handlers :
                          /\ request[k] # None
                          /\ request[k].user = u
                          /\ b \in {request[k].date, Global}
                          /\ puzzles[request[k].date] # None
                          /\ Earns(puzzles[request[k].date], request[k].guesses, boards'[b][u])
    BY <1>1 DEF BoardScoresWereEarned
  <2>2. CASE boards'[b][u] = boards[b][u]
    BY <2>1, <2>2 DEF IInv, BoardScoresWereEarned
  <2>3. CASE b = BoardOf(h) /\ u = request[h].user /\ boards'[b][u] = attempt[h].score
    <3>1. /\ request[h] \in Request /\ puzzles[request[h].date] \in Words
          /\ attempt[h] = finalize(request[h].guesses, puzzles[request[h].date])
      BY <1>1, AttemptFacts
    <3>2. request[h] # None /\ request[h].guesses \in GuessLists
      BY <3>1, AttemptsAssumption DEF Request
    <3>3. puzzles[request[h].date] # None
      BY <3>1, AttemptsAssumption
    <3>4. attempt[h].score = Score(puzzles[request[h].date], request[h].guesses).score
      BY <3>1 DEF finalize
    <3>5. Earns(puzzles[request[h].date], request[h].guesses, attempt[h].score)
      BY <2>1, <2>3, <3>2, <3>4, ScoreEarns
    <3>6. QED
      BY <2>3, <3>2, <3>3, <3>5 DEF BoardOf
  <2>4. QED
    BY <2>2, <2>3, BestBoards
<1>8. QED
  BY <1>4, <1>5, <1>6, <1>7, HandlerStep

\* A submission fails: the request joins those that have lost one.
LEMMA SubmitScoreFailStep ==
  ASSUME IInv, NEW h \in Handlers, SubmitScoreFail(h)
  PROVE  IInv'
<1>1. /\ pc[h] \in {"daily", "global"} /\ pc' = [pc EXCEPT ![h] = AfterBoard(h)]
      /\ lost' = lost \union {h}
      /\ UNCHANGED << today, puzzles, attempts, boards, request, attempt, answer >>
  BY DEF SubmitScoreFail, Goto, storeVars
<1>2. TypeOK /\ AfterBoard(h) \in {"global", "answer"}
  BY DEF IInv, AfterBoard
<1>3. TypeOK'
  BY <1>1, <1>2 DEF TypeOK
<1>4. pc'[h] \in {"global", "answer"}
  BY <1>1, <1>2 DEF TypeOK
<1>5. Others(h)
  BY <1>1, <1>2, BoardsStay DEF TypeOK, Others
<1>6. HandlerInv(h)'
  BY <1>1, <1>4, AttemptFacts
  DEF HandlerInv, RequestKept, AttemptScored, SubmittedStays, ToldStays
<1>7. BoardScoresWereEarned'
  BY <1>1, BoardsKept
<1>8. QED
  BY <1>3, <1>5, <1>6, <1>7, HandlerStep

\* The score is told: what the boards show of it is what was submitted.
LEMMA AnswerOkStep ==
  ASSUME IInv, NEW h \in Handlers, AnswerOk(h)
  PROVE  IInv'
<1> DEFINE a == [status |-> "ok", score |-> attempt[h].score]
<1>1. /\ pc[h] = "answer" /\ pc' = [pc EXCEPT ![h] = "done"]
      /\ answer' = [answer EXCEPT ![h] = a]
      /\ UNCHANGED << today, puzzles, attempts, boards, request, attempt, lost >>
  BY DEF AnswerOk, Answer, Goto, storeVars
<1>2. TypeOK /\ request[h] \in Request /\ attempt[h].score \in Scores
  BY <1>1, AttemptFacts DEF IInv
<1>3. a \in Response
  BY <1>2 DEF Response
<1>4. a.score = attempt[h].score
  OBVIOUS
<1> HIDE DEF a
<1>5. TypeOK'
  BY <1>1, <1>2, <1>3 DEF TypeOK
<1>6. pc'[h] = "done" /\ answer'[h] = a
  BY <1>1, <1>2 DEF TypeOK
<1>7. Others(h)
  BY <1>1, <1>2, BoardsStay DEF TypeOK, Others
<1>8. h \notin lost => /\ Shows(request[h].date, h, attempt[h].score)
                       /\ Shows(Global, h, attempt[h].score)
  BY <1>1 DEF IInv, HandlerInv, SubmittedStays
<1>9. HandlerInv(h)'
  BY <1>1, <1>2, <1>4, <1>6, <1>8
  DEF HandlerInv, RequestKept, AttemptScored, SubmittedStays, ToldStays, Shows
<1>10. BoardScoresWereEarned'
  BY <1>1, BoardsKept
<1>11. QED
  BY <1>5, <1>7, <1>9, <1>10, HandlerStep

\* The day and the seeding of puzzles: accepted requests are against a puzzle
\* that is there already.
LEMMA OutsideStep ==
  ASSUME IInv, TypeOK', UNCHANGED << handlerVars, boards >>,
         \A d \in Dates : puzzles[d] # None => puzzles'[d] = puzzles[d]
  PROVE  IInv'
<1>1. UNCHANGED << pc, request, attempt, answer, lost, boards >>
  BY DEF handlerVars
<1>2. ASSUME NEW h \in Handlers PROVE HandlerInv(h)'
  <2>1. HandlerInv(h)
    BY DEF IInv
  <2>2. AttemptScored(h)'
    <3>1. SUFFICES ASSUME pc[h] \in {"store", "daily", "global", "answer"}
                   PROVE  puzzles'[request[h].date] = puzzles[request[h].date]
      BY <1>1, <2>1 DEF HandlerInv, AttemptScored
    <3>2. QED
      BY <3>1, AttemptFacts, AttemptsAssumption
  <2>3. QED
    BY <1>1, <2>1, <2>2 DEF HandlerInv, RequestKept, SubmittedStays, ToldStays, Shows
<1>3. BoardScoresWereEarned'
  BY <1>1, BoardsKept
<1>4. QED
  BY <1>2, <1>3 DEF IInv

\* A request cut short by a restart has told nobody anything.
LEMMA RestartStep ==
  ASSUME IInv, Restart
  PROVE  IInv'
<1>1. /\ pc' = [h \in Handlers |-> IF h \in Active THEN "done" ELSE pc[h]]
      /\ lost \subseteq lost' /\ lost' \subseteq Handlers
      /\ UNCHANGED << today, puzzles, attempts, boards, request, attempt, answer >>
  BY DEF Restart, storeVars, Active, IInv, TypeOK
<1>2. TypeOK'
  BY <1>1 DEF IInv, TypeOK
<1>3. ASSUME NEW h \in Handlers PROVE HandlerInv(h)'
  <2>1. HandlerInv(h)
    BY DEF IInv
  <2>2. pc'[h] = pc[h] \/ pc'[h] = "done"
    BY <1>1
  <2>3. h \in lost => h \in lost'
    BY <1>1
  <2>4. QED
    BY <1>1, <2>1, <2>2, <2>3
    DEF HandlerInv, RequestKept, AttemptScored, SubmittedStays, ToldStays, Shows
<1>4. BoardScoresWereEarned'
  BY <1>1, BoardsKept
<1>5. QED
  BY <1>2, <1>3, <1>4 DEF IInv

\* Every step keeps the invariant.
LEMMA IInvNext == IInv /\ [Next]_vars => IInv'
<1> SUFFICES ASSUME IInv, [Next]_vars PROVE IInv'
  OBVIOUS
<1>1. CASE UNCHANGED vars
  <2>1. TypeOK'
    BY <1>1 DEF vars, storeVars, handlerVars, IInv, TypeOK
  <2>2. QED
    BY <1>1, <2>1, OutsideStep DEF vars, storeVars
<1>2. CASE NextDay
  <2>1. TypeOK'
    BY <1>2, AttemptsAssumption DEF NextDay, storeVars, handlerVars, IInv, TypeOK
  <2>2. QED
    BY <1>2, <2>1, OutsideStep DEF NextDay, storeVars
<1>3. ASSUME NEW d \in Dates, NEW w \in Words, SeedPuzzle(d, w) PROVE IInv'
  <2>1. TypeOK'
    BY <1>3 DEF SeedPuzzle, handlerVars, IInv, TypeOK
  <2>2. \A e \in Dates : puzzles[e] # None => puzzles'[e] = puzzles[e]
    BY <1>3 DEF SeedPuzzle, IInv, TypeOK
  <2>3. QED
    BY <1>3, <2>1, <2>2, OutsideStep DEF SeedPuzzle
<1>4. ASSUME NEW h \in Handlers, Submit(h) PROVE IInv'
  <2>1. CASE \E u \in Users, d \in Dates, g \in GuessLists : Accept(h, u, d, g)
    BY <2>1, AcceptStep
  <2>2. CASE Refuse(h)
    <3>1. attempts \in [Users -> [Dates -> Attempt \union {None}]]
      BY DEF IInv, TypeOK
    <3>2. QED
      BY <2>2, <3>1, AnswerStep DEF Refuse, storeVars
  <2>3. CASE GetPuzzleFail(h)
    <3>1. attempts \in [Users -> [Dates -> Attempt \union {None}]]
      BY DEF IInv, TypeOK
    <3>2. PICK status \in {"not found", "error"} : Answer(h, status, 0)
      BY <2>3 DEF GetPuzzleFail
    <3>3. QED
      BY <2>3, <3>1, <3>2, AnswerStep DEF GetPuzzleFail, storeVars
  <2>4. CASE UpsertAttemptFail(h)
    <3>1. attempts' \in [Users -> [Dates -> Attempt \union {None}]]
      BY <2>4, StoredType DEF UpsertAttemptFail, IInv, TypeOK
    <3>2. QED
      BY <2>4, <3>1, AnswerStep DEF UpsertAttemptFail
  <2>5. CASE GetPuzzle(h)
    BY <2>5, GetPuzzleStep
  <2>6. CASE UpsertAttempt(h)
    BY <2>6, UpsertAttemptStep
  <2>7. CASE SubmitScore(h)
    BY <2>7, SubmitScoreStep
  <2>8. CASE SubmitScoreFail(h)
    BY <2>8, SubmitScoreFailStep
  <2>9. CASE AnswerOk(h)
    BY <2>9, AnswerOkStep
  <2>10. QED
    BY <1>4, <2>1, <2>2, <2>3, <2>4, <2>5, <2>6, <2>7, <2>8, <2>9 DEF Submit
<1>5. QED
  BY <1>1, <1>2, <1>3, <1>4, RestartStep DEF Next

\* A request is only accepted in its window, so none is under way for a final
\* date, and a daily board changes only for a request of its date.
LEMMA FinalStep ==
  ASSUME IInv, [Next]_vars, NEW d \in Dates, Final(d)
  PROVE  Final(d)' /\ boards'[d] = boards[d]
<1>1. /\ TypeOK /\ d \in Int /\ today \in Int /\ gracePastDays \in Int
      /\ d + gracePastDays < today
      /\ \A h \in Active : request[h].date # d
  BY AttemptsAssumption DEF IInv, TypeOK, Final, UnderwayFor, Dates
<1>2. ASSUME today' \in {today, today + 1}, boards'[d] = boards[d],
             \A k \in Handlers : k \in Active' => k \in Active /\ request'[k] = request[k]
      PROVE  Final(d)' /\ boards'[d] = boards[d]
  <2>1. d + gracePastDays < today'
    BY <1>1, <1>2
  <2>2. ~UnderwayFor(d)'
    BY <1>1, <1>2 DEF UnderwayFor, Active
  <2>3. QED
    BY <1>2, <2>1, <2>2 DEF Final
<1>3. ASSUME today' \in {today, today + 1}, UNCHANGED << boards, pc, request >>
      PROVE  Final(d)' /\ boards'[d] = boards[d]
  BY <1>2, <1>3 DEF Active
<1>4. CASE Restart
  <2>1. \A k \in Handlers : k \in Active' => k \in Active
    BY <1>4 DEF Restart, Active
  <2>2. QED
    BY <1>2, <1>4, <2>1 DEF Restart, storeVars
<1>5. ASSUME NEW h \in Handlers, NEW u \in Users, NEW e \in Dates, NEW g \in GuessLists,
             Accept(h, u, e, g)
      PROVE  Final(d)' /\ boards'[d] = boards[d]
  <2>1. e # d
    BY <1>1, <1>5, AttemptsAssumption DEF Accept, dateInWindow, Dates
  <2>2. request'[h].date = e
    BY <1>1, <1>5 DEF Accept, TypeOK
  <2>3. \A k \in Handlers : k # h => pc'[k] = pc[k] /\ request'[k] = request[k]
    BY <1>1, <1>5 DEF Accept, Goto, TypeOK
  <2>4. ~UnderwayFor(d)'
    BY <1>1, <2>1, <2>2, <2>3 DEF UnderwayFor, Active
  <2>5. QED
    BY <1>1, <1>5, <2>4 DEF Accept, storeVars, Final
<1>6. ASSUME NEW h \in Handlers, NEW label, pc' = [pc EXCEPT ![h] = label],
             h \in Active \/ label = "done",
             UNCHANGED << today, request >>, boards'[d] = boards[d]
      PROVE  Final(d)' /\ boards'[d] = boards[d]
  <2>1. \A k \in Handlers : k \in Active' => k \in Active
    BY <1>1, <1>6 DEF Active, TypeOK
  <2>2. QED
    BY <1>2, <1>6, <2>1
<1>7. ASSUME NEW h \in Handlers, SubmitScore(h)
      PROVE  Final(d)' /\ boards'[d] = boards[d]
  <2>1. /\ h \in Active
        /\ pc' = [pc EXCEPT ![h] = AfterBoard(h)]
        /\ UNCHANGED << today, request >>
    BY <1>7 DEF SubmitScore, Goto, Active
  <2>2. BoardOf(h) # d
    BY <1>1, <2>1, AttemptsAssumption DEF BoardOf, Dates
  <2>3. boards'[d] = boards[d]
    BY <1>1, <1>7, <2>2 DEF SubmitScore, TypeOK, Boards
  <2>4. QED
    BY <1>6, <2>1, <2>3
<1>8. ASSUME NEW h \in Handlers,
             \/ Refuse(h) \/ GetPuzzle(h) \/ GetPuzzleFail(h) \/ UpsertAttempt(h)
             \/ UpsertAttemptFail(h) \/ SubmitScoreFail(h) \/ AnswerOk(h)
      PROVE  Final(d)' /\ boards'[d] = boards[d]
  <2>1. /\ \E label : /\ pc' = [pc EXCEPT ![h] = label]
                      /\ h \in Active \/ label = "done"
        /\ UNCHANGED << today, request, boards >>
    BY <1>8 DEF Refuse, GetPuzzle, GetPuzzleFail, UpsertAttempt, UpsertAttemptFail,
                SubmitScoreFail, AnswerOk, Answer, Goto, Active, storeVars
  <2>2. QED
    BY <1>6, <2>1
<1>9. CASE UNCHANGED vars
  BY <1>3, <1>9 DEF vars, storeVars, handlerVars
<1>10. CASE NextDay \/ \E e \in Dates, w \in Words : SeedPuzzle(e, w)
  BY <1>3, <1>10 DEF NextDay, SeedPuzzle, storeVars, handlerVars
<1>11. QED
  BY <1>4, <1>5, <1>7, <1>8, <1>9, <1>10 DEF Next, Submit

\* The inductive invariant holds in every state.
THEOREM AttemptsInvariance == Spec => []IInv
  BY IInvInit, IInvNext, PTL DEF Spec

\* Every variable keeps its type; in particular no score exceeds that of a
\* first-guess solve, on whatever board and however many requests interleave.
THEOREM AttemptsTypeCorrect == Spec => []TypeOK
<1>1. IInv => TypeOK
  BY DEF IInv
<1>2. QED
  BY <1>1, AttemptsInvariance, PTL

\* Every score on a board was earned by a request of that user, dated on the
\* board's day, whose guesses are worth it against that day's puzzle.
THEOREM EarnedScores == Spec => []BoardScoresWereEarned
<1>1. IInv => BoardScoresWereEarned
  BY DEF IInv
<1>2. QED
  BY <1>1, AttemptsInvariance, PTL

\* A score a user was told stays on both boards, unless a submission of that
\* very request failed.
THEOREM ToldScores == Spec => []ToldScoresStay
<1>1. IInv => ToldScoresStay
  BY DEF IInv, HandlerInv, ToldStays, Shows, ToldScoresStay
<1>2. QED
  BY <1>1, AttemptsInvariance, PTL

\* The daily board of a date that has left the window, with no request for it
\* under way, does not change any more.
THEOREM ClosedBoards == Spec => ClosedBoardsStay
<1>1. IInv /\ [Next]_vars =>
        [\A d \in Dates : Final(d) => Final(d)' /\ boards'[d] = boards[d]]_vars
  BY FinalStep
<1>2. QED
  BY <1>1, AttemptsInvariance, PTL DEF Spec, ClosedBoardsStay
-----------------------------------------------------------------------------
\* Boards that stay agree as before, if every handler between its submissions
\* stays there and none is lost.
LEMMA AgreeKept ==
  ASSUME AgreeInv, UNCHANGED boards, lost' = {} => lost = {},
         lost' = {} => \A h \in Handlers : pc[h] = "global" =>
                         /\ pc'[h] = "global" /\ request'[h] = request[h]
                         /\ attempt'[h] = attempt[h]
  PROVE  AgreeInv'
<1>1. SUFFICES ASSUME lost' = {}, NEW u \in Users
               PROVE  SomeDayShows(u)' /\ \A d \in Dates : Followed(u, d)'
  BY DEF AgreeInv
<1>2. SomeDayShows(u) /\ \A d \in Dates : Followed(u, d)
  BY <1>1 DEF AgreeInv
<1>3. SomeDayShows(u)'
  BY <1>2 DEF SomeDayShows
<1>4. ASSUME NEW d \in Dates PROVE Followed(u, d)'
  <2>1. CASE boards[d][u] <= boards[Global][u]
    BY <2>1 DEF Followed
  <2>2. CASE \E h \in Handlers : /\ pc[h] = "global"
                                 /\ request[h].user = u /\ request[h].date = d
                                 /\ boards[d][u] <= attempt[h].score
    <3>1. PICK h \in Handlers : /\ pc[h] = "global"
                                /\ request[h].user = u /\ request[h].date = d
                                /\ boards[d][u] <= attempt[h].score
      BY <2>2
    <3>2. pc'[h] = "global" /\ request'[h] = request[h] /\ attempt'[h] = attempt[h]
      BY <1>1, <3>1
    <3>3. QED
      BY <3>1, <3>2 DEF Followed
  <2>3. QED
    BY <1>2, <2>1, <2>2 DEF Followed
<1>5. QED
  BY <1>3, <1>4

\* A submission: a daily score is followed by the handler that brought it, an
\* all-time score is shown by the day it was submitted to just before.
LEMMA AgreeSubmit ==
  ASSUME IInv, AgreeInv, NEW h \in Handlers, SubmitScore(h)
  PROVE  AgreeInv'
<1> DEFINE u0 == request[h].user
           d0 == request[h].date
           s  == attempt[h].score
<1>1. /\ pc[h] \in {"daily", "global"} /\ pc' = [pc EXCEPT ![h] = AfterBoard(h)]
      /\ UNCHANGED << request, attempt, lost >>
  BY DEF SubmitScore, Goto
<1>2. /\ u0 \in Users /\ d0 \in Dates /\ d0 \in Boards /\ Global \in Boards
      /\ Global \notin Dates /\ s \in Nat
  BY <1>1, AttemptFacts, AttemptsAssumption DEF Boards, Dates
<1>3. pc'[h] = AfterBoard(h) /\ \A k \in Handlers \ {h} : pc'[k] = pc[k]
  BY <1>1 DEF IInv, TypeOK
<1>4. SUFFICES ASSUME lost = {}, NEW u \in Users
               PROVE  SomeDayShows(u)' /\ \A d \in Dates : Followed(u, d)'
  BY <1>1 DEF AgreeInv
<1>5. SomeDayShows(u) /\ \A d \in Dates : Followed(u, d)
  BY <1>4 DEF AgreeInv
<1>6. \A b \in Boards : boards[b][u] \in Nat /\ boards'[b][u] \in Nat
  <2>1. boards \in [Boards -> [Users -> Scores]] /\ boards' \in [Boards -> [Users -> Scores]]
    BY BestBoards DEF IInv, TypeOK
  <2>2. QED
    BY <2>1, ScoresAreNat
<1>7. \A b \in Boards : boards'[b][u] >= boards[b][u]
  BY BestBoards
<1>8. /\ \A b \in Boards : \/ boards'[b][u] = boards[b][u]
                           \/ b = BoardOf(h) /\ u = u0 /\ boards'[b][u] = s
      /\ boards'[BoardOf(h)][u0] >= s
  BY BestBoards
<1>9. \A d \in Dates : d \in Boards
  BY DEF Boards
<1>10. \A k \in Handlers : pc[k] = "global" => attempt[k].score \in Nat
  BY AttemptFacts
<1> HIDE DEF u0, d0, s
<1>11. CASE pc[h] = "daily"
  <2>1. BoardOf(h) = d0 /\ pc'[h] = "global"
    BY <1>3, <1>11 DEF BoardOf, AfterBoard, d0
  <2>2. boards'[Global][u] = boards[Global][u]
    BY <1>2, <1>8, <2>1
  <2>3. SomeDayShows(u)'
    <3>1. PICK d \in Dates : boards[Global][u] <= boards[d][u]
      BY <1>5 DEF SomeDayShows
    <3>2. boards'[Global][u] <= boards'[d][u]
      BY <1>2, <1>6, <1>7, <1>9, <2>2, <3>1
    <3>3. QED
      BY <3>2 DEF SomeDayShows
  <2>4. ASSUME NEW d \in Dates PROVE Followed(u, d)'
    <3>1. CASE boards'[d][u] = boards[d][u] /\ boards[d][u] <= boards[Global][u]
      BY <2>2, <3>1 DEF Followed
    <3>2. CASE /\ boards'[d][u] = boards[d][u]
               /\ \E k \in Handlers : /\ pc[k] = "global"
                                      /\ request[k].user = u /\ request[k].date = d
                                      /\ boards[d][u] <= attempt[k].score
      <4>1. PICK k \in Handlers : /\ pc[k] = "global"
                                  /\ request[k].user = u /\ request[k].date = d
                                  /\ boards[d][u] <= attempt[k].score
        BY <3>2
      <4>2. pc'[k] = "global"
        BY <1>3, <1>11, <4>1
      <4>3. QED
        BY <1>1, <3>2, <4>1, <4>2 DEF Followed
    <3>3. CASE boards'[d][u] # boards[d][u]
      <4>1. d = d0 /\ u = u0 /\ boards'[d][u] = s
        BY <1>8, <1>9, <2>1, <3>3
      <4>2. boards'[d][u] <= s
        BY <1>2, <4>1
      <4>3. QED
        BY <1>1, <2>1, <4>1, <4>2 DEF Followed, u0, d0, s
    <3>4. QED
      BY <1>5, <3>1, <3>2, <3>3 DEF Followed
  <2>5. QED
    BY <2>3, <2>4
<1>12. CASE pc[h] = "global"
  <2>1. BoardOf(h) = Global /\ pc'[h] = "answer"
    BY <1>3, <1>12 DEF BoardOf, AfterBoard
  <2>2. \A d \in Dates : boards'[d][u] = boards[d][u]
    BY <1>2, <1>8, <1>9, <2>1
  <2>3. SomeDayShows(u)'
    <3>1. CASE boards'[Global][u] = boards[Global][u]
      BY <1>5, <2>2, <3>1 DEF SomeDayShows
    <3>2. CASE u = u0 /\ boards'[Global][u] = s
      <4>1. Shows(d0, h, s)
        BY <1>4, <1>12 DEF IInv, HandlerInv, SubmittedStays, d0, s
      <4>2. boards[d0][u] >= s
        BY <3>2, <4>1 DEF Shows, u0
      <4>3. boards'[Global][u] <= boards'[d0][u]
        BY <1>2, <1>6, <2>2, <3>2, <4>2
      <4>4. QED
        BY <1>2, <4>3 DEF SomeDayShows
    <3>3. QED
      BY <1>2, <1>8, <3>1, <3>2
  <2>4. ASSUME NEW d \in Dates PROVE Followed(u, d)'
    <3>1. boards[d][u] \in Nat /\ boards[Global][u] \in Nat /\ boards'[Global][u] \in Nat
          /\ boards'[Global][u] >= boards[Global][u]
      BY <1>2, <1>6, <1>7, <1>9
    <3>2. CASE boards[d][u] <= boards[Global][u]
      <4>1. boards'[d][u] <= boards'[Global][u]
        BY <2>2, <3>1, <3>2
      <4>2. QED
        BY <4>1 DEF Followed
    <3>3. CASE \E k \in Handlers : /\ pc[k] = "global"
                                   /\ request[k].user = u /\ request[k].date = d
                                   /\ boards[d][u] <= attempt[k].score
      <4>1. PICK k \in Handlers : /\ pc[k] = "global"
                                  /\ request[k].user = u /\ request[k].date = d
                                  /\ boards[d][u] <= attempt[k].score
        BY <3>3
      <4>2. CASE k = h
        <5>1. u = u0 /\ boards[d][u] <= s
          BY <4>1, <4>2 DEF u0, s
        <5>2. boards'[d][u] <= boards'[Global][u]
          BY <1>2, <1>8, <2>1, <2>2, <3>1, <5>1
        <5>3. QED
          BY <5>2 DEF Followed
      <4>3. CASE k # h
        <5>1. pc'[k] = "global"
          BY <1>3, <4>1, <4>3
        <5>2. QED
          BY <1>1, <2>2, <4>1, <5>1 DEF Followed
      <4>4. QED
        BY <4>2, <4>3
    <3>4. QED
      BY <1>5, <3>2, <3>3 DEF Followed
  <2>5. QED
    BY <2>3, <2>4
<1>13. QED
  BY <1>1, <1>11, <1>12

\* Every step keeps the agreement.
LEMMA AgreeNext == IInv /\ AgreeInv /\ [Next]_vars => AgreeInv'
<1> SUFFICES ASSUME IInv, AgreeInv, [Next]_vars PROVE AgreeInv'
  OBVIOUS
<1>1. CASE UNCHANGED << boards, pc, request, attempt, lost >>
  BY <1>1, AgreeKept
<1>2. CASE Restart
  <2>1. lost' = {} => lost = {} /\ \A h \in Handlers : pc[h] # "global"
    BY <1>2 DEF Restart, Active
  <2>2. UNCHANGED boards
    BY <1>2 DEF Restart, storeVars
  <2>3. QED
    BY <2>1, <2>2, AgreeKept
<1>3. ASSUME NEW h \in Handlers, NEW label, pc' = [pc EXCEPT ![h] = label],
             pc[h] # "global" \/ h \in lost', lost \subseteq lost', UNCHANGED boards,
             \A k \in Handlers \ {h} : request'[k] = request[k] /\ attempt'[k] = attempt[k]
      PROVE  AgreeInv'
  <2>1. lost' = {} => \A k \in Handlers : pc[k] = "global" => k # h /\ pc'[k] = pc[k]
    BY <1>3 DEF IInv, TypeOK
  <2>2. lost' = {} => lost = {}
    BY <1>3
  <2>3. QED
    BY <1>3, <2>1, <2>2, AgreeKept
<1>4. ASSUME NEW h \in Handlers, Submit(h) PROVE AgreeInv'
  <2>1. CASE SubmitScore(h)
    BY <2>1, AgreeSubmit
  <2>2. CASE \E u \in Users, d \in Dates, g \in GuessLists : Accept(h, u, d, g)
    <3>1. \A k \in Handlers \ {h} : request'[k] = request[k] /\ attempt'[k] = attempt[k]
      BY <2>2 DEF Accept, IInv, TypeOK
    <3>2. QED
      BY <1>3, <2>2, <3>1 DEF Accept, Goto, storeVars
  <2>3. CASE Refuse(h) \/ GetPuzzleFail(h) \/ UpsertAttemptFail(h) \/ AnswerOk(h)
    BY <1>3, <2>3
    DEF Refuse, GetPuzzleFail, UpsertAttemptFail, AnswerOk, Answer, Goto, storeVars
  <2>4. CASE GetPuzzle(h)
    <3>1. \A k \in Handlers \ {h} : request'[k] = request[k] /\ attempt'[k] = attempt[k]
      BY <2>4 DEF GetPuzzle, IInv, TypeOK
    <3>2. QED
      BY <1>3, <2>4, <3>1 DEF GetPuzzle, Goto, storeVars
  <2>5. CASE UpsertAttempt(h)
    BY <1>3, <2>5 DEF UpsertAttempt, Goto
  <2>6. CASE SubmitScoreFail(h)
    BY <1>3, <2>6 DEF SubmitScoreFail, Goto, storeVars
  <2>7. QED
    BY <1>4, <2>1, <2>2, <2>3, <2>4, <2>5, <2>6 DEF Submit
<1>5. QED
  BY <1>1, <1>2, <1>4 DEF Next, vars, NextDay, SeedPuzzle, storeVars, handlerVars

\* A user has a best daily score.
LEMMA BestDailyExists ==
  ASSUME TypeOK, NEW u \in Users
  PROVE  /\ \E d \in Dates : BestDaily(u) = boards[d][u]
         /\ \A d \in Dates : boards[d][u] <= BestDaily(u)
<1> DEFINE T == {scoreFirstSolve - boards[d][u] : d \in Dates}
<1>1. \A d \in Dates : boards[d][u] \in Nat /\ boards[d][u] <= scoreFirstSolve
  BY DEF TypeOK, Boards, Scores
<1>2. 1 \in Dates /\ scoreFirstSolve \in Nat
  BY AttemptsAssumption DEF Dates
<1>3. T \in SUBSET Nat
  BY <1>1, <1>2
<1>4. T # {}
  BY <1>2
<1>5. PICK x \in T : \A y \in T : x <= y
  BY <1>3, <1>4, LeastOf
<1>6. PICK e \in Dates : x = scoreFirstSolve - boards[e][u]
  BY <1>5
<1>7. ASSUME NEW d \in Dates PROVE boards[d][u] <= boards[e][u]
  <2>1. x <= scoreFirstSolve - boards[d][u]
    BY <1>5
  <2>2. QED
    BY <1>1, <1>2, <1>6, <2>1
<1>8. \E s \in {boards[d][u] : d \in Dates} : \A d \in Dates : boards[d][u] <= s
  BY <1>7
<1>9. /\ BestDaily(u) \in {boards[d][u] : d \in Dates}
      /\ \A d \in Dates : boards[d][u] <= BestDaily(u)
  BY <1>8 DEF BestDaily
<1>10. QED
  BY <1>9

\* What the invariant says of boards and days is what BoardsAgree says.
LEMMA AgreeInvAgrees == TypeOK /\ AgreeInv => BoardsAgree
<1> SUFFICES ASSUME TypeOK, AgreeInv, lost = {}, NEW u \in Users
             PROVE  /\ boards[Global][u] <= BestDaily(u)
                    /\ ~Submitting(u) => boards[Global][u] = BestDaily(u)
  BY DEF BoardsAgree
<1>1. PICK e \in Dates : BestDaily(u) = boards[e][u]
  BY BestDailyExists
<1>2. PICK d \in Dates : boards[Global][u] <= boards[d][u]
  BY DEF AgreeInv, SomeDayShows
<1>3. boards[d][u] <= boards[e][u]
  BY <1>1, BestDailyExists
<1>4. boards[d][u] \in Nat /\ boards[e][u] \in Nat /\ boards[Global][u] \in Nat
  BY ScoresAreNat DEF TypeOK, Boards
<1>5. boards[Global][u] <= BestDaily(u)
  BY <1>1, <1>2, <1>3, <1>4
<1>6. ASSUME ~Submitting(u) PROVE boards[e][u] <= boards[Global][u]
  BY <1>6 DEF AgreeInv, Followed, Submitting
<1>7. QED
  BY <1>1, <1>4, <1>5, <1>6

\* While no submission is lost, the all-time score of a user is never above the
\* best daily one, and is the best daily one when none is under way
\* (attempts.go submit).
THEOREM AgreeingBoards == Spec => []BoardsAgree
<1>1. Init => AgreeInv
  <2>1. SUFFICES ASSUME Init, NEW u \in Users
                 PROVE  SomeDayShows(u) /\ \A d \in Dates : Followed(u, d)
    BY DEF AgreeInv
  <2>2. 1 \in Dates /\ \A b \in Boards : boards[b][u] = 0
    BY <2>1, AttemptsAssumption DEF Init, Dates
  <2>3. \A d \in Dates : boards[d][u] <= boards[Global][u] /\ boards[Global][u] <= boards[d][u]
    BY <2>2 DEF Boards
  <2>4. QED
    BY <2>2, <2>3 DEF SomeDayShows, Followed
<1>2. IInv /\ AgreeInv => BoardsAgree
  BY AgreeInvAgrees DEF IInv
<1>3. QED
  BY <1>1, <1>2, IInvInit, IInvNext, AgreeNext, PTL DEF Spec
=============================================================================
