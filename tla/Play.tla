-------------------------------- MODULE Play --------------------------------
(***************************************************************************)
(* A player's visits to today's puzzle in one browser page: GameRunner     *)
(* (games/runner/GameRunner.svelte), the Phaser scene of Wordle            *)
(* (WordleScene.js) and the HUD (WordleHud.svelte), which meet on one      *)
(* shared EventBus, against the REST server.                               *)
(*                                                                         *)
(* A visit is one mounting of the runner.  Its game may outlive it: what   *)
(* the runner awaits while the player leaves still starts a game.  Every   *)
(* row of tiles flips for the same time, so rows end in the order they     *)
(* were entered, and what happens when a row has flipped happens later     *)
(* than the guess.  A guess is known by whether it is the solution         *)
(* (WinIsSolution in PlayProofs).                                          *)
(***************************************************************************)
EXTENDS Scoring, FiniteSets

CONSTANTS MaxVisits,  \* bound: visits to the puzzle
          MaxTyped,   \* bound: guesses one game takes
          MaxPosts,   \* bound: attempts posted
          None

ASSUME PlayAssumption ==
    {MaxVisits, MaxTyped, MaxPosts, MaxGuesses, scoreFirstSolve, scorePerGuess} \subseteq Nat

Visits  == 1 .. MaxVisits
PostIds == 1 .. MaxPosts
Guess   == {"right", "wrong"}
Outcome == {"won", "lost"}

\* No outcome is not an outcome.
ASSUME NoOutcomeAssumption == None \notin Outcome

\* A running scene: its guesses, how many of its rows have flipped, finished.
Game == [guesses : Seq(Guess), flipped : Nat, finished : BOOLEAN]

Boards == {"daily", "alltime"}

\* A POST /attempts: the visit whose runner sent it, the visit whose game made
\* the list, whether the runner knew the date, what the server's handler does
\* next (on a board: submit the score there), whether a submission was lost, and
\* what the runner heard.
Post == [by : Visits, of : Visits, guesses : Seq(Guess), dated : BOOLEAN,
         pos : Boards \cup {"storing", "answering"}, lost : BOOLEAN,
         answer : {"none", "ok", "failed"}]

VARIABLES visits,   \* visits so far
          here,     \* the mounted runner's visit; 0 in the lobby
          at,       \* how far startGame of a visit got: what it awaits
          dead,     \* visits whose startGame failed or was stopped
          resume,   \* the attempt a visit's startGame has read; empty for none
          stage,    \* the runner's stage
          game,     \* the scene of a visit, or None
          used,     \* guessesUsed of a visit's HUD
          result,   \* result of a visit's HUD, or None
          posts,    \* the attempts posted
          stored,   \* the guesses the server has stored, or None
          best      \* the player's score on each leaderboard

runnerVars == << visits, here, at, dead, resume, stage >>
hudVars    == << used, result >>
serverVars == << stored, best >>
vars       == << runnerVars, game, hudVars, posts, serverVars >>

TypeOK ==
    /\ visits \in 0 .. MaxVisits /\ here \in 0 .. visits
    /\ at \in [Visits -> {"away", "variant", "puzzle", "resume", "phaser", "booting",
                          "started"}]
    /\ dead \subseteq Visits
    /\ resume \in [Visits -> Seq(Guess)]
    /\ stage \in [Visits -> {"loading", "ready", "finished", "error"}]
    /\ game \in [Visits -> Game \cup {None}]
    /\ used \in [Visits -> Nat]
    /\ result \in [Visits -> Outcome \cup {None}]
    /\ posts \in Seq(Post)
    /\ stored \in Seq(Guess) \cup {None}
    /\ best \in [Boards -> Nat]

Init ==
    /\ visits = 0 /\ here = 0
    /\ at = [v \in Visits |-> "away"]
    /\ dead = {}
    /\ resume = [v \in Visits |-> << >>]
    /\ stage = [v \in Visits |-> "loading"]
    /\ game = [v \in Visits |-> None]
    /\ used = [v \in Visits |-> 0]
    /\ result = [v \in Visits |-> None]
    /\ posts = << >>
    /\ stored = None
    /\ best = [b \in Boards |-> 0]

----------------------------------------------------------------------------
(* The runner *)

\* onMount, up to the first await.
Visit ==
    /\ here = 0 /\ visits < MaxVisits
    /\ visits' = visits + 1 /\ here' = visits + 1
    /\ at' = [at EXCEPT ![visits + 1] = "variant"]
    /\ UNCHANGED << dead, resume, stage, game, hudVars, posts, serverVars >>

Awaits(v, what) == at[v] = what /\ v \notin dead

\* The variant is loaded: the HUD is there.
VariantLoads(v) ==
    /\ Awaits(v, "variant")
    /\ at' = [at EXCEPT ![v] = "puzzle"]
    /\ UNCHANGED << visits, here, dead, resume, stage, game, hudVars, posts, serverVars >>

\* The puzzle is fetched: its date is known.
PuzzleArrives(v) ==
    /\ Awaits(v, "puzzle")
    /\ at' = [at EXCEPT ![v] = "resume"]
    /\ UNCHANGED << visits, here, dead, resume, stage, game, hudVars, posts, serverVars >>

\* A fault kept for the checks: only a win closes an attempt.
OnlyWon(guesses) == \E i \in DOMAIN guesses : guesses[i] = "right"

Won(guesses) == \E i \in DOMAIN guesses : guesses[i] = "right"

\* A resumed attempt is closed.
Over(guesses) == Won(guesses) \/ Len(guesses) >= MaxGuesses

\* The server reads the stored attempt for the runner.  What it read is used two
\* awaits later.
ResumeRead(v) ==
    /\ Awaits(v, "resume")
    /\ at' = [at EXCEPT ![v] = "phaser"]
    /\ resume' = [resume EXCEPT ![v] = IF stored = None THEN << >> ELSE stored]
    /\ UNCHANGED << visits, here, dead, stage, game, hudVars, posts, serverVars >>

\* Phaser is imported and its game made, which boots by itself.
PhaserArrives(v) ==
    /\ Awaits(v, "phaser")
    /\ at' = [at EXCEPT ![v] = "booting"]
    /\ stage' = [stage EXCEPT ![v] = "ready"]
    /\ UNCHANGED << visits, here, dead, resume, game, hudVars, posts, serverVars >>

\* Phaser is up: the scene starts with what was read, whether or not the runner
\* is still mounted.
SceneStarts(v) ==
    /\ Awaits(v, "booting")
    /\ at' = [at EXCEPT ![v] = "started"]
    /\ game' = [game EXCEPT ![v] = [guesses |-> resume[v], flipped |-> Len(resume[v]),
                                    finished |-> Over(resume[v])]]
    /\ UNCHANGED << visits, here, dead, resume, stage, hudVars, posts, serverVars >>

\* A fetch fails, or an import.
StartFails(v) ==
    /\ v \notin dead /\ at[v] \in {"variant", "puzzle", "resume", "phaser"}
    /\ dead' = dead \cup {v}
    /\ stage' = [stage EXCEPT ![v] = "error"]
    /\ UNCHANGED << visits, here, at, resume, game, hudVars, posts, serverVars >>

\* Back to the lobby: the runner's game goes, if it has one yet, booting or up.
Leave ==
    /\ here # 0
    /\ here' = 0
    /\ game' = [game EXCEPT ![here] = None]
    /\ dead' = IF at[here] = "booting" THEN dead \cup {here} ELSE dead
    /\ UNCHANGED << visits, at, resume, stage, hudVars, posts, serverVars >>

\* A fault kept for the checks: counted from zero.
BegunFromZero == 0 .. visits

Begun == 1 .. visits

\* The page is reloaded; only requests that were sent remain.
Reload ==
    /\ visits > 0
    /\ here' = 0
    /\ game' = [v \in Visits |-> None]
    /\ dead' = Begun
    /\ UNCHANGED << visits, at, resume, stage, hudVars, posts, serverVars >>

----------------------------------------------------------------------------
(* The scene *)

Running == {v \in Visits : game[v] # None}

\* The HUD of the mounted runner, once its variant is loaded.
HudMounted == here # 0 /\ at[here] # "variant"

Accepts(v) == game[v] # None /\ ~game[v].finished

\* A word is typed and entered.  Keys reach every running scene, the screen's
\* keyboard one of them.
Enter(vs, w) ==
    LET takers == {v \in vs : Accepts(v)}
    IN  /\ takers # {}
        /\ \A v \in takers : Len(game[v].guesses) < MaxTyped
        /\ game' = [v \in Visits |-> IF v \in takers
                                     THEN [game[v] EXCEPT !.guesses = Append(@, w)]
                                     ELSE game[v]]
        /\ used' = IF HudMounted THEN [used EXCEPT ![here] = @ + Cardinality(takers)]
                                 ELSE used
        /\ UNCHANGED << runnerVars, result, posts, serverVars >>

\* The row that flips next.  A guess beyond the grid has no row.
Row(v) == game[v].flipped + 1
Flips(v) == game[v] # None /\ Row(v) <= Len(game[v].guesses) /\ Row(v) <= MaxGuesses

\* Faults kept for the checks: lost one guess early, lost at the last guess only.
LostEarly(g) == Len(g.guesses) >= MaxGuesses - 1
LostAtLast(g) == Len(g.guesses) = MaxGuesses

\* Lost is decided by the guesses entered when the row has flipped.
LostNow(g) == Len(g.guesses) >= MaxGuesses

\* A fault kept for the checks: only the rows that have flipped are reported.
ReportedFlipped(g) == SubSeq(g.guesses, 1, g.flipped + 1)

\* What is reported: all guesses there are.
Reported(g) == g.guesses

\* A row has flipped.  A guess that ends the game is reported to whoever is
\* mounted: the runner posts the guesses, the HUD shows the outcome.
RowFlipped(v) ==
    LET g    == game[v]
        won  == g.guesses[Row(v)] = "right"
        ends == won \/ LostNow(g)
    IN  /\ Flips(v)
        /\ ends /\ here # 0 => Len(posts) < MaxPosts
        /\ game' = [game EXCEPT ![v].flipped = @ + 1,
                                ![v].finished = @ \/ ends]
        /\ IF ends /\ here # 0
             THEN posts' = Append(posts,
                             [by |-> here, of |-> v, guesses |-> Reported(g),
                              dated |-> at[here] \notin {"variant", "puzzle"},
                              pos |-> "storing", lost |-> FALSE, answer |-> "none"])
             ELSE UNCHANGED posts
        /\ IF ends /\ HudMounted
             THEN result' = [result EXCEPT ![here] = IF won THEN "won" ELSE "lost"]
             ELSE UNCHANGED result
        /\ UNCHANGED << runnerVars, used, serverVars >>

----------------------------------------------------------------------------
(* The server, and the answers *)

Worth(guesses) == Score("right", guesses).score

\* The server's attempt is closed: ~InProgress.
Decided(guesses) == Score("right", guesses).won \/ Len(guesses) >= MaxGuesses

\* The handler scores a list and stores it; a day it cannot read it refuses.
StoreAttempt(p) ==
    /\ p \in DOMAIN posts /\ posts[p].pos = "storing" /\ posts[p].dated
    /\ stored' = posts[p].guesses
    /\ posts' = [posts EXCEPT ![p].pos = IF Worth(posts[p].guesses) > 0 THEN "daily"
                                         ELSE "answering"]
    /\ UNCHANGED << runnerVars, game, hudVars, best >>

\* A fault kept for the checks: the all-time board is forgotten.
AfterNone(board) == "answering"

After(board) == IF board = "daily" THEN "alltime" ELSE "answering"

\* It submits the score to a board, the daily one first, and goes on whether or
\* not the store took it.  A board keeps the better score.
SubmitScore(p, taken) ==
    LET board == posts[p].pos
        worth == Worth(posts[p].guesses)
    IN  /\ p \in DOMAIN posts /\ board \in Boards
        /\ best' = IF taken /\ worth > best[board] THEN [best EXCEPT ![board] = worth]
                   ELSE best
        /\ posts' = [posts EXCEPT ![p].pos = After(board),
                                  ![p].lost = @ \/ ~taken]
        /\ UNCHANGED << runnerVars, game, hudVars, stored >>

\* The runner shows the end of the attempt whatever it heard.
Answered(p, how) ==
    /\ p \in DOMAIN posts /\ posts[p].answer = "none"
    /\ how = "ok" => posts[p].pos = "answering"
    /\ posts' = [posts EXCEPT ![p].answer = how]
    /\ stage' = [stage EXCEPT ![posts[p].by] = "finished"]
    /\ UNCHANGED << visits, here, at, dead, resume, game, hudVars, serverVars >>

----------------------------------------------------------------------------

Next ==
    \/ Visit \/ Leave \/ Reload
    \/ \E v \in Visits :
          \/ VariantLoads(v) \/ PuzzleArrives(v) \/ ResumeRead(v) \/ PhaserArrives(v)
          \/ SceneStarts(v) \/ StartFails(v)
          \/ RowFlipped(v)
    \/ \E w \in Guess : Enter(Running, w) \/ \E v \in Visits : Enter({v}, w)
    \/ \E p \in PostIds :
          \/ StoreAttempt(p) \/ SubmitScore(p, TRUE) \/ SubmitScore(p, FALSE)
          \/ Answered(p, "ok") \/ Answered(p, "failed")

Spec == Init /\ [][Next]_vars

\* Animation frames come.
LiveSpec == Spec /\ \A v \in Visits : WF_vars(RowFlipped(v))

----------------------------------------------------------------------------
(* Properties *)

\* Guesses entered while rows flip make a game report twice, and its reports may
\* reach the server in any order: all are worth the same, so the stored score
\* does not depend on the order (WordleScene.js submitGuess, GameRunner.svelte).
ReportsWorthTheSame ==
    \A p, q \in DOMAIN posts :
        posts[p].of = posts[q].of => Worth(posts[p].guesses) = Worth(posts[q].guesses)

\* The server never stores what it takes for an attempt in progress: a report is
\* solved within MaxGuesses or has as many (WordleScene.js, scoring.go finalize).
ReportsAreFinal ==
    \A p \in DOMAIN posts :
        Decided(posts[p].guesses)

\* A player who was shown "You won!" and whose reports of that visit were all
\* answered has points for it on both boards, unless one of those reports lost a
\* submission: these are best-effort, and the answer does not tell (WordleHud.svelte,
\* GameRunner.svelte, attempts.go:84-89).
ShownWinIsPaid ==
    \A v \in Visits :
        /\ result[v] = "won"
        /\ \A p \in DOMAIN posts : posts[p].by = v => posts[p].answer = "ok" /\ ~posts[p].lost
        => \A b \in Boards : best[b] > 0

\* Its game is still to start, with what it has read.
ToStart(v) == at[v] \in {"phaser", "booting"} /\ v \notin dead

\* No report that may still be stored, no game that can still make one, and none
\* to come from a visit that read before the attempt was stored.
Quiet ==
    /\ \A p \in DOMAIN posts : posts[p].dated => posts[p].pos # "storing"
    /\ \A v \in Running : game[v].finished /\ ~Flips(v)
    /\ \A v \in Visits : ToStart(v) => Over(resume[v])

\* Once a finished attempt is stored and nothing is under way, it stays: visits
\* that read it resume it and report nothing (GameRunner.svelte startGame,
\* WordleScene.js init, attempts.go mine).  A visit that read before it was stored
\* is something under way: it starts an empty game, which may replace the attempt.
StoredAttemptStays ==
    [][stored # None /\ Quiet => stored' = stored /\ Quiet']_vars

\* A game that is solved or out of guesses ends, however fast the guesses came
\* (WordleScene.js submitGuess, flipRow).
GameEnds ==
    \A v \in Visits :
        game[v] # None /\ (Won(game[v].guesses) \/ Len(game[v].guesses) >= MaxGuesses)
        ~> game[v] = None \/ game[v].finished

----------------------------------------------------------------------------
(* The inductive invariant behind ReportsWorthTheSame (see PlayProofs) *)

Grows(g, h) == Len(g) <= Len(h) /\ \A i \in 1 .. Len(g) : g[i] = h[i]

\* A report decides its game: every longer list is worth the same.
ReportDecides(r) ==
    /\ at[r.of] = "started"
    /\ Decided(r.guesses)
    /\ game[r.of] # None => Grows(r.guesses, game[r.of].guesses)

Unvisited == \A v \in Visits : v > visits => at[v] = "away"
Started   == \A v \in Visits : game[v] # None => at[v] = "started"
Decides   == \A p \in DOMAIN posts : ReportDecides(posts[p])

\* A later report of a game continues an earlier one.
OneGrows ==
    \A p, q \in DOMAIN posts :
        posts[p].of = posts[q].of /\ p <= q => Grows(posts[p].guesses, posts[q].guesses)

IInv == TypeOK /\ Unvisited /\ Started /\ Decides /\ OneGrows

----------------------------------------------------------------------------
(* The inductive invariant behind ShownWinIsPaid and StoredAttemptStays *)

\* The boards at which a handler has been.
Passed(r) == CASE r.pos = "alltime" -> {"daily"}
               [] r.pos = "answering" -> Boards
               [] OTHER -> {}

\* Where a handler has been it paid, unless it lost a submission, and it answers
\* "ok" when it has been everywhere.
PassedArePaid ==
    \A p \in DOMAIN posts :
        /\ ~posts[p].lost => \A b \in Passed(posts[p]) : best[b] >= Worth(posts[p].guesses)
        /\ posts[p].answer = "ok" => posts[p].pos = "answering"

\* A runner that shows a win has posted a list that wins.
WinsAreReported ==
    \A v \in Visits : result[v] = "won" =>
        \E p \in DOMAIN posts :
            posts[p].by = v /\ Score("right", posts[p].guesses).won

\* What is stored is over for the scene that resumes it.
StoredIsOver == stored # None => Over(stored)

PaidInv == PassedArePaid /\ WinsAreReported /\ StoredIsOver

\* The points of the code leave something for every solve that counts.
EverySolvePays == \A i \in 1 .. MaxGuesses : Points(i) > 0

=============================================================================
