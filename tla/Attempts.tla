------------------------------ MODULE Attempts ------------------------------
(***************************************************************************)
(* The REST side of async PvP (server/internal/api): POST /attempts, which *)
(* scores a list of guesses against the stored puzzle, stores the attempt  *)
(* and submits its score to the boards, and GET /attempts/me/{date}.       *)
(*                                                                         *)
(* Every request is served by a goroutine of its own, so one user's        *)
(* requests from several tabs, or a retry of a request that seemed to      *)
(* fail, run side by side.  One action is one store call; the time moves,  *)
(* calls fail and the process ends between any two of them.  A date is the *)
(* number of a UTC day, a guess the word it means once trimmed and         *)
(* lower-cased; puzzles have a non-blank word.                             *)
(***************************************************************************)
EXTENDS Scoring, FiniteSets

CONSTANTS
  Handlers,         \* request handlers; each serves one request
  Users,            \* uids a token can carry
  Words,            \* words that are solutions or guesses
  GuessLists,       \* the lists of guesses a request can carry
  LastDay,          \* bound on the days that pass; days are 1..LastDay
  Global,           \* the all-time board
  None,             \* no puzzle, attempt, request or answer
  gracePastDays     \* of the source

Dates  == 1..LastDay
Boards == Dates \union {Global}
Scores == 0..scoreFirstSolve
Response == [status : {"ok", "refused", "not found", "error"}, score : Scores]
Attempt == [guesses : GuessLists, score : Scores, won : BOOLEAN, inProgress : BOOLEAN]
Request == [user : Users, date : Dates, guesses : GuessLists]

ASSUME AttemptsAssumption ==
  /\ GuessLists \subseteq Seq(Words)
  /\ None \notin Words /\ None \notin Request
  /\ LastDay >= 1
  /\ {LastDay, MaxGuesses, scoreFirstSolve, scorePerGuess, gracePastDays} \subseteq Nat
  /\ Global \notin 1..LastDay

VARIABLES
  today,     \* the UTC day of the server's clock
  puzzles,   \* the puzzle of a date, or None
  attempts,  \* the stored attempt of a user on a date, or None
  boards,    \* the leaderboards; 0 for no entry
  pc,        \* the store call a handler makes next
  request,   \* the accepted request of a handler, or None
  attempt,   \* local `attempt` of submit, or None
  answer,    \* the answer written, or None
  lost       \* handlers not all of whose submissions were applied

storeVars   == << puzzles, attempts, boards >>
handlerVars == << pc, request, attempt, answer, lost >>
vars        == << today, storeVars, handlerVars >>

Init ==
  /\ today    = 1
  /\ puzzles  = [d \in Dates |-> None]
  /\ attempts = [u \in Users |-> [d \in Dates |-> None]]
  /\ boards   = [b \in Boards |-> [u \in Users |-> 0]]
  /\ pc       = [h \in Handlers |-> "idle"]
  /\ request  = [h \in Handlers |-> None]
  /\ attempt  = [h \in Handlers |-> None]
  /\ answer   = [h \in Handlers |-> None]
  /\ lost     = {}
-----------------------------------------------------------------------------
(***************************************************************************)
(* The attempt that is stored (scoring.go), the submit window (router.go).  *)
(***************************************************************************)
\* finalize: score and outcome are the server's, whatever the client sent.
finalize(guesses, word) ==
  LET result == Score(word, guesses)
  IN  [guesses |-> guesses, score |-> result.score, won |-> result.won,
       inProgress |-> ~result.won /\ Len(guesses) < MaxGuesses]

\* A fault kept for the checks: the window is a day too long.
DayTooLong(date, now) == date <= now /\ date >= now - gracePastDays - 1

\* Today, or up to gracePastDays before.
dateInWindow(date, now) == date <= now /\ date >= now - gracePastDays
-----------------------------------------------------------------------------
(***************************************************************************)
(* POST /attempts.                                                         *)
(***************************************************************************)
Goto(h, label) == pc' = [pc EXCEPT ![h] = label]

Answer(h, status, score) ==
  /\ Goto(h, "done")
  /\ answer' = [answer EXCEPT ![h] = [status |-> status, score |-> score]]

\* The request is well-formed, dated in the window, and has guesses.
Accept(h, user, date, guesses) ==
  /\ pc[h] = "idle"
  /\ dateInWindow(date, today)
  /\ guesses # << >>
  /\ request' = [request EXCEPT ![h] = [user |-> user, date |-> date, guesses |-> guesses]]
  /\ Goto(h, "puzzle")
  /\ UNCHANGED << today, storeVars, attempt, answer, lost >>

\* No claims, a malformed body or date, a date out of the window, no guesses.
Refuse(h) ==
  /\ pc[h] = "idle"
  /\ Answer(h, "refused", 0)
  /\ UNCHANGED << today, storeVars, request, attempt, lost >>

\* GetPuzzle, and the score.
GetPuzzle(h) ==
  /\ pc[h] = "puzzle"
  /\ puzzles[request[h].date] # None
  /\ attempt' = [attempt EXCEPT ![h] =
                   finalize(request[h].guesses, puzzles[request[h].date])]
  /\ Goto(h, "store")
  /\ UNCHANGED << today, storeVars, request, answer, lost >>

\* No such puzzle, or a store error.
GetPuzzleFail(h) ==
  /\ pc[h] = "puzzle"
  /\ Answer(h, IF puzzles[request[h].date] = None THEN "not found" ELSE "error", 0)
  /\ UNCHANGED << today, storeVars, request, attempt, lost >>

StoredAttempt(h) ==
  [attempts EXCEPT ![request[h].user][request[h].date] = attempt[h]]

\* Only a positive score goes to the boards.
AfterStore(h) == IF attempt[h].score > 0 THEN "daily" ELSE "answer"

\* The attempt replaces whatever the user had for the date.
UpsertAttempt(h) ==
  /\ pc[h] = "store"
  /\ attempts' = StoredAttempt(h)
  /\ Goto(h, AfterStore(h))
  /\ UNCHANGED << today, puzzles, boards, request, attempt, answer, lost >>

\* An error, after which the call may have been applied all the same.
UpsertAttemptFail(h) ==
  /\ pc[h] = "store"
  /\ attempts' \in {attempts, StoredAttempt(h)}
  /\ Answer(h, "error", 0)
  /\ UNCHANGED << today, puzzles, boards, request, attempt, lost >>

\* Faults kept for the checks: the last score wins, and scores add up.
Overwrite(old, new) == new
AddUp(old, new) == old + new

\* A board keeps a user's best score.
Best(old, new) == IF new > old THEN new ELSE old

\* A fault kept for the checks: the second submission is forgotten.
DailyOnly(h) == "answer"

\* The board of the submission a handler makes next, and what follows it.
BoardOf(h) == IF pc[h] = "daily" THEN request[h].date ELSE Global
AfterBoard(h) == IF pc[h] = "daily" THEN "global" ELSE "answer"

SubmitScore(h) ==
  /\ pc[h] \in {"daily", "global"}
  /\ boards' = [boards EXCEPT ![BoardOf(h)][request[h].user] = Best(@, attempt[h].score)]
  /\ Goto(h, AfterBoard(h))
  /\ UNCHANGED << today, puzzles, attempts, request, attempt, answer, lost >>

\* An error is ignored; had the call been applied, the step would be the other.
SubmitScoreFail(h) ==
  /\ pc[h] \in {"daily", "global"}
  /\ lost' = lost \union {h}
  /\ Goto(h, AfterBoard(h))
  /\ UNCHANGED << today, storeVars, request, attempt, answer >>

AnswerOk(h) ==
  /\ pc[h] = "answer"
  /\ Answer(h, "ok", attempt[h].score)
  /\ UNCHANGED << today, storeVars, request, attempt, lost >>
-----------------------------------------------------------------------------
\* The day ends.
NextDay ==
  /\ today < LastDay
  /\ today' = today + 1
  /\ UNCHANGED << storeVars, handlerVars >>

\* Puzzles are put into the store from outside, once for each date.
SeedPuzzle(d, word) ==
  /\ puzzles[d] = None
  /\ puzzles' = [puzzles EXCEPT ![d] = word]
  /\ UNCHANGED << today, attempts, boards, handlerVars >>

Active == {h \in Handlers : pc[h] \notin {"idle", "done"}}

\* The process ends and starts again; its requests are never answered.
Restart ==
  /\ Active # {}
  /\ pc' = [h \in Handlers |-> IF h \in Active THEN "done" ELSE pc[h]]
  /\ lost' = lost \union {h \in Active : pc[h] \in {"daily", "global"}}
  /\ UNCHANGED << today, storeVars, request, attempt, answer >>

Submit(h) ==
  \/ Refuse(h)
  \/ \E u \in Users, d \in Dates, g \in GuessLists : Accept(h, u, d, g)
  \/ GetPuzzle(h) \/ GetPuzzleFail(h)
  \/ UpsertAttempt(h) \/ UpsertAttemptFail(h)
  \/ SubmitScore(h) \/ SubmitScoreFail(h)
  \/ AnswerOk(h)

Next ==
  \/ NextDay
  \/ Restart
  \/ \E d \in Dates, w \in Words : SeedPuzzle(d, w)
  \/ \E h \in Handlers : Submit(h)

Spec == Init /\ [][Next]_vars
-----------------------------------------------------------------------------
(***************************************************************************)
(* Properties.                                                             *)
(***************************************************************************)
TypeOK ==
  /\ today \in 1..LastDay
  /\ puzzles \in [Dates -> Words \union {None}]
  /\ attempts \in [Users -> [Dates -> Attempt \union {None}]]
  /\ boards \in [Boards -> [Users -> Scores]]
  /\ pc \in [Handlers -> {"idle", "puzzle", "store", "daily", "global", "answer", "done"}]
  /\ request \in [Handlers -> Request \union {None}]
  /\ attempt \in [Handlers -> Attempt \union {None}]
  /\ answer \in [Handlers -> Response \union {None}]
  /\ lost \in SUBSET Handlers

\* s is what the list of guesses is worth: the points of the first guess that
\* is the word, among the guesses a game allows.
Earns(word, guesses, s) ==
  \E i \in 1..MaxGuesses :
    /\ i <= Len(guesses) /\ guesses[i] = word
    /\ \A j \in 1..(i - 1) : guesses[j] # word
    /\ s = Points(i)

\* "The server re-scores using the persisted puzzle so a bad client cannot
\* inflate its own score": every score on a board was earned by a request of
\* that user, on the board's date, against that date's puzzle.
BoardScoresWereEarned ==
  \A b \in Boards : \A u \in Users : boards[b][u] > 0 =>
    \E h \in Handlers :
      LET r == request[h]
      IN  /\ r # None
          /\ r.user = u
          /\ b \in {r.date, Global}
          /\ puzzles[r.date] # None
          /\ Earns(puzzles[r.date], r.guesses, boards[b][u])

\* Once a user has been told a score, both boards show at least that score,
\* whatever weaker runs the user's other requests store in between, unless a
\* submission of that very request failed.
ToldScoresStay ==
  \A h \in Handlers \ lost :
    LET r == request[h]
    IN  answer[h] # None /\ answer[h].status = "ok" =>
          /\ boards[r.date][r.user] >= answer[h].score
          /\ boards[Global][r.user] >= answer[h].score

BestDaily(u) ==
  CHOOSE s \in {boards[d][u] : d \in Dates} :
    \A d \in Dates : boards[d][u] <= s

\* A request that has done one of its two submissions or is about to do both.
Submitting(u) ==
  \E h \in Handlers : pc[h] \in {"daily", "global"} /\ request[h].user = u

\* The two boards a score goes to, one after the other, do not drift apart:
\* while no submission is lost, the all-time score of a user is never above the
\* best daily one, and equal to it when no request of the user is under way.
BoardsAgree ==
  lost = {} =>
    \A u \in Users :
      /\ boards[Global][u] <= BestDaily(u)
      /\ ~Submitting(u) => boards[Global][u] = BestDaily(u)

\* A request for the date is under way.
UnderwayFor(d) == \E h \in Active : request[h].date = d

\* The date has left the window and no request accepted for it is left.
Final(d) == d + gracePastDays < today /\ ~UnderwayFor(d)

\* A daily board becomes final, although requests for it may be accepted up to
\* the last moment of the window and submit their score long after.
ClosedBoardsStay ==
  [][\A d \in Dates : Final(d) => Final(d)' /\ boards'[d] = boards[d]]_vars
-----------------------------------------------------------------------------
(***************************************************************************)
(* The inductive invariant behind BoardScoresWereEarned and ToldScoresStay *)
(* (see AttemptsProofs).                                                   *)
(***************************************************************************)
\* A request is accepted once and then kept, and only an accepted one is stored,
\* submitted or answered with a score.
RequestKept(h) ==
  /\ pc[h] = "idle" => request[h] = None /\ answer[h] = None
  /\ pc[h] \notin {"idle", "done"} => request[h] \in Request /\ answer[h] = None
  /\ answer[h] # None /\ answer[h].status = "ok" => request[h] \in Request

\* The attempt at hand is the request scored against the date's puzzle.
AttemptScored(h) ==
  pc[h] \in {"store", "daily", "global", "answer"} =>
    /\ puzzles[request[h].date] \in Words
    /\ attempt[h] = finalize(request[h].guesses, puzzles[request[h].date])

\* The board b has at least the score s for the user of h.
Shows(b, h, s) == boards[b][request[h].user] >= s

\* What a request has submitted without an error is on the boards, and a score
\* that needs no submission is none.
SubmittedStays(h) ==
  h \notin lost =>
    /\ pc[h] \in {"global", "answer"} => Shows(request[h].date, h, attempt[h].score)
    /\ pc[h] = "answer" => Shows(Global, h, attempt[h].score)

ToldStays(h) ==
  h \notin lost /\ answer[h] # None /\ answer[h].status = "ok" =>
    Shows(request[h].date, h, answer[h].score) /\ Shows(Global, h, answer[h].score)

HandlerInv(h) ==
  RequestKept(h) /\ AttemptScored(h) /\ SubmittedStays(h) /\ ToldStays(h)

IInv ==
  /\ TypeOK
  /\ \A h \in Handlers : HandlerInv(h)
  /\ BoardScoresWereEarned

\* Behind BoardsAgree: some day shows the all-time score, and a daily score the
\* all-time board does not have yet is about to be submitted to it.
SomeDayShows(u) == \E d \in Dates : boards[Global][u] <= boards[d][u]

Followed(u, d) ==
  \/ boards[d][u] <= boards[Global][u]
  \/ \E h \in Handlers :
       /\ pc[h] = "global" /\ request[h].user = u /\ request[h].date = d
       /\ boards[d][u] <= attempt[h].score

AgreeInv ==
  lost = {} => \A u \in Users : SomeDayShows(u) /\ \A d \in Dates : Followed(u, d)
=============================================================================
