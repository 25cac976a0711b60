------------------------------ MODULE MatchEnd ------------------------------
(***************************************************************************)
(* The hub together with the store: what handleMatchEnd does between the   *)
(* acceptance of a MATCH_END frame and its fan-out (match_lifecycle.go).   *)
(*                                                                         *)
(* Every store call is one action.  The two players report over two        *)
(* connections, so their handlers interleave, a player may report again,   *)
(* a call may fail with or without having been applied, and the process    *)
(* may end between any two calls: what the store holds survives.           *)
(*                                                                         *)
(* Of a match document only the fields the server ever writes are kept;    *)
(* handleMatchEnd overwrites all of them, so the copy it has read decides  *)
(* nothing.  A board is a map from uid to best score, 0 for no entry.      *)
(***************************************************************************)
EXTENDS Hub

CONSTANTS
  Dates,     \* puzzle dates, each the key of a daily board
  DateOf,    \* DateOf[m]: Match.PuzzleDate
  Global,    \* the all-time board
  Outsider,  \* a winner_uid that plays no match
  Reports    \* the results a MATCH_END can carry: winner and both scores

ASSUME MatchEndAssumption ==
  /\ DateOf \in [Matches -> Dates]
  /\ Global \notin Dates
  /\ Outsider \notin Users \union {None}
  /\ Reports \subseteq [winner : Users \union {Outsider, None}, p1 : Int, p2 : Int]

VARIABLES
  doc,     \* the match documents
  boards,  \* the leaderboards
  report,  \* report[n]: match and result of the n-th frame, an accepted MATCH_END
  stage,   \* what a goroutine at "ending" does next
  todo,    \* the SubmitScore calls it has not made yet
  lost     \* MATCH_END frames one of whose SubmitScore calls failed

storeVars == << doc, boards >>
endVars   == << doc, boards, report, stage, todo, lost >>
vars      == << hubVars, endVars >>

Boards  == Dates \union {Global}
Doc     == [state : {"active", "ended"},
            winner : Users \union {Outsider, None}, turns : Int]
Report  == [match : Matches, result : Reports]
Submission == [board : Boards, user : Users, score : Nat]

EInit ==
  /\ Init
  /\ doc    = [m \in Matches |-> [state |-> "active", winner |-> None, turns |-> 0]]
  /\ boards = [b \in Boards |-> [u \in Users |-> 0]]
  /\ report = [n \in 1..MaxFrames |-> None]
  /\ stage  = [c \in Conns |-> "idle"]
  /\ todo   = [c \in Conns |-> << >>]
  /\ lost   = {}
-----------------------------------------------------------------------------
\* maxScoreToTurns
maxScoreToTurns(s1, s2) == IF s1 > s2 THEN s1 ELSE s2

\* The document handleMatchEnd stores for the result r.
Ended(r) ==
  [state |-> "ended", winner |-> r.winner, turns |-> maxScoreToTurns(r.p1, r.p2)]

\* The daily and the global submission for one player, if it has a score.
ScoreCalls(m, user, score) ==
  IF score <= 0 THEN << >>
  ELSE << [board |-> DateOf[m], user |-> user, score |-> score],
          [board |-> Global,    user |-> user, score |-> score] >>

\* A fault kept for the checks: each player gets the other's score.
SwappedScores(m, r) ==
  ScoreCalls(m, Players[m][1], r.p2) \o ScoreCalls(m, Players[m][2], r.p1)

\* All submissions of one MATCH_END, in the order of the calls.
Submissions(m, r) ==
  (IF Len(Players[m]) >= 1 THEN ScoreCalls(m, Players[m][1], r.p1) ELSE << >>)
  \o (IF Len(Players[m]) >= 2 THEN ScoreCalls(m, Players[m][2], r.p2) ELSE << >>)

\* A fault kept for the checks: the last score wins.
Overwrite(old, new) == new

\* SubmitScore keeps the best score of a board.
Best(old, new) == IF new > old THEN new ELSE old

\* A fault kept for the checks: any winner is accepted.
AnyWinner(r, m) == TRUE

\* A draw, or a player of the match.
ValidWinner(r, m) == r.winner = None \/ roleOf(r.winner, Players[m]) # ""

\* The result c is reporting.
Result(c) == report[frame[c].n].result
At(c, step) == pc[c] = "ending" /\ stage[c] = step
GoStage(c, step) == stage' = [stage EXCEPT ![c] = step]

\* A fault kept for the checks: an error of UpsertMatch is ignored, too.
StoreErrorGoesOn(c) == EndStored(c)

\* A store error ends the handler and the connection.
StoreError(c) == EndError(c)
-----------------------------------------------------------------------------
\* A MATCH_END frame arrives; accepted, it goes to the store first.
ReceiveEnd(c, m) ==
  /\ MatchEnd(c, m)
  /\ IF pc'[c] = "ending"
     THEN /\ \E r \in Reports : report' = [report EXCEPT ![frames'] = [match |-> m, result |-> r]]
          /\ GoStage(c, "get")
     ELSE UNCHANGED << report, stage >>
  /\ UNCHANGED << storeVars, todo, lost >>

\* GetMatch succeeds and the winner is acceptable.
GetMatch(c) ==
  /\ At(c, "get")
  /\ ValidWinner(Result(c), matchID[c])
  /\ GoStage(c, "upsert")
  /\ UNCHANGED << hubVars, storeVars, report, todo, lost >>

\* GetMatch fails, or the winner is not one of the players.
GetMatchFail(c) ==
  /\ At(c, "get")
  /\ EndError(c)
  /\ GoStage(c, "idle")
  /\ UNCHANGED << storeVars, report, todo, lost >>

UpsertMatch(c) ==
  /\ At(c, "upsert")
  /\ doc' = [doc EXCEPT ![matchID[c]] = Ended(Result(c))]
  /\ todo' = [todo EXCEPT ![c] = Submissions(matchID[c], Result(c))]
  /\ GoStage(c, "submit")
  /\ UNCHANGED << hubVars, boards, report, lost >>

\* UpsertMatch returns an error; after a timeout it may have been applied.
UpsertMatchFail(c) ==
  /\ At(c, "upsert")
  /\ \E d \in {doc[matchID[c]], Ended(Result(c))} :
       doc' = [doc EXCEPT ![matchID[c]] = d]
  /\ StoreError(c)
  /\ GoStage(c, "idle")
  /\ UNCHANGED << boards, report, todo, lost >>

SubmitScore(c) ==
  /\ At(c, "submit")
  /\ todo[c] # << >>
  /\ LET s == Head(todo[c])
     IN  boards' = [boards EXCEPT ![s.board][s.user] = Best(@, s.score)]
  /\ todo' = [todo EXCEPT ![c] = Tail(@)]
  /\ UNCHANGED << hubVars, doc, report, stage, lost >>

\* The error of a submission is ignored; it was not applied (had it been
\* applied, the step would be SubmitScore).
SubmitScoreFail(c) ==
  /\ At(c, "submit")
  /\ todo[c] # << >>
  /\ todo' = [todo EXCEPT ![c] = Tail(@)]
  /\ lost' = lost \union {frame[c].n}
  /\ UNCHANGED << hubVars, storeVars, report, stage >>

\* All submissions made: on to the fan-out.
Submitted(c) ==
  /\ At(c, "submit")
  /\ todo[c] = << >>
  /\ EndStored(c)
  /\ GoStage(c, "idle")
  /\ UNCHANGED << storeVars, report, todo, lost >>

\* The process ends; the store keeps what it has.
ERestart ==
  /\ Restart
  /\ stage' = [c \in Conns |-> "idle"]
  /\ todo'  = [c \in Conns |-> << >>]
  /\ UNCHANGED << storeVars, report, lost >>

\* Everything else the hub does leaves the store alone.
HubStep(c) ==
  /\ \/ Register(c) \/ JoinAdd(c) \/ Lookup(c) \/ Snapshot(c)
     \/ SkipSelf(c) \/ WritePeer(c) \/ WritePeerFail(c) \/ FanoutDone(c)
     \/ Reply(c) \/ ReplyFail(c) \/ CloseNow(c) \/ Unregister(c) \/ UnregisterDrop(c)
     \/ Connect(c) \/ HandshakeFail(c) \/ Drop(c) \/ ReadEnd(c)
     \/ Ping(c) \/ BadFrame(c)
     \/ \E m \in Matches \union {None} : JoinRefuse(c, m) \/ JoinLock(c, m)
     \/ \E m \in Matches : Turn(c, m)
  /\ UNCHANGED endVars

StoreStep(c) ==
  \/ GetMatch(c) \/ GetMatchFail(c)
  \/ UpsertMatch(c) \/ UpsertMatchFail(c)
  \/ SubmitScore(c) \/ SubmitScoreFail(c) \/ Submitted(c)

ENext ==
  \/ ERestart
  \/ \E c \in Conns : HubStep(c) \/ StoreStep(c) \/ \E m \in Matches : ReceiveEnd(c, m)

ESpec == EInit /\ [][ENext]_vars
-----------------------------------------------------------------------------
(***************************************************************************)
(* Properties.                                                             *)
(***************************************************************************)
ETypeOK ==
  /\ TypeOK
  /\ doc \in [Matches -> Doc]
  /\ boards \in [Boards -> [Users -> Nat]]
  /\ report \in [1..MaxFrames -> Report \union {None}]
  /\ stage \in [Conns -> {"idle", "get", "upsert", "submit"}]
  /\ todo \in [Conns -> Seq(Submission)]
  /\ lost \in SUBSET (1..MaxFrames)

\* A client is told of the end of a match, by the fan-out or by the echo, only
\* after the store has it: whatever handlers, errors and restarts intervene,
\* no player sees a result of a match that is not stored as ended.
ToldOnlyAfterStored ==
  \A c \in Conns : \A i \in DOMAIN inbox[c] :
    inbox[c][i].type = "end" => doc[inbox[c][i].match].state = "ended"

\* The n-th frame was a MATCH_END of the match m.
Filed(n, m) == n \in 1..frames /\ report[n] \in Report /\ report[n].match = m

\* The stored result of an ended match is one that a MATCH_END reported for it,
\* as a whole, and its winner is a player or nobody: two handlers that race for
\* the document never leave a mixture of two reports.
StoredResultWasReported ==
  \A m \in Matches : doc[m].state = "ended" =>
    /\ \E n \in 1..MaxFrames : Filed(n, m) /\ doc[m] = Ended(report[n].result)
    /\ doc[m].winner = None \/ Contains(Players[m], doc[m].winner)

\* The two players of a match that have a score in a report.
Sides(m) == {1, 2} \intersect DOMAIN Players[m]
ScoreOf(r, i) == IF i = 1 THEN r.p1 ELSE r.p2

\* Some MATCH_END reported score s for the player u of a match on board b.
ScoreReported(b, u, s) ==
  \E m \in Matches : \E i \in Sides(m) : \E n \in 1..MaxFrames :
    /\ b \in {DateOf[m], Global}
    /\ Players[m][i] = u
    /\ Filed(n, m)
    /\ ScoreOf(report[n].result, i) = s

\* Every score on a board is one reported for that user in a match of the
\* board's date: the daily boards of other dates stay as they are.
BoardScoresWereReported ==
  \A b \in Boards : \A u \in Users :
    boards[b][u] > 0 => ScoreReported(b, u, boards[b][u])

\* Both boards have the score of side i of m, or a better one.
Credited(m, i, s) == \A b \in {DateOf[m], Global} : boards[b][Players[m][i]] >= s

\* "Both leaderboards reflect both players" (rooms_test.go) once a client has
\* seen the MATCH_END, whatever other handlers submitted in between, unless a
\* SubmitScore of that very report failed.
BoardsReflectToldResults ==
  \A c \in Conns : \A k \in DOMAIN inbox[c] :
    LET f == inbox[c][k]
    IN  f.type = "end" /\ f.n \notin lost =>
          \A i \in Sides(f.match) : Credited(f.match, i, ScoreOf(report[f.n].result, i))

-----------------------------------------------------------------------------
(***************************************************************************)
(* The inductive invariant behind ToldOnlyAfterStored (see MatchEndProofs):*)
(* wherever a MATCH_END is on its way to a client, its match has ended.    *)
(***************************************************************************)
\* f is being fanned out, waits to be echoed, or has been written.
Underway(f) ==
  \E c \in Conns :
    \/ pc[c] \in {"lookup", "snapshot", "write"} /\ frame[c] = f
    \/ echo[c] # None /\ echo[c] = f
    \/ \E i \in DOMAIN inbox[c] : inbox[c][i] = f

IsStored(f) == f.type = "end" => doc[f.match].state = "ended"

UnderwayIsStored == \A f \in Frame : Underway(f) => IsStored(f)

SubmittingIsStored ==
  \A c \in Conns : At(c, "submit") => doc[matchID[c]].state = "ended"

\* A handler in its store phase has a report of its match to store.
EndingIsReported ==
  \A c \in Conns : pc[c] = "ending" => Filed(frame[c].n, matchID[c])

StoredInv ==
  /\ ETypeOK
  /\ EndingIsReported
  /\ SubmittingIsStored
  /\ UnderwayIsStored
-----------------------------------------------------------------------------
(***************************************************************************)
(* The inductive invariant behind the last three invariants above.         *)
(***************************************************************************)
\* A result about to be stored has passed the test of its winner.
UpsertIsValid ==
  \A c \in Conns : At(c, "upsert") => ValidWinner(Result(c), matchID[c])

\* The submissions c has still to make are of reported scores.
TodoReported(c) ==
  \A k \in DOMAIN todo[c] :
    ScoreReported(todo[c][k].board, todo[c][k].user, todo[c][k].score)

\* c has made or will make every submission, unless it has lost one.
WillCredit(c) ==
  frame[c].n \notin lost =>
    \A i \in Sides(matchID[c]) : \A b \in {DateOf[matchID[c]], Global} :
      LET u == Players[matchID[c]][i]
          s == ScoreOf(Result(c), i)
      IN  \/ boards[b][u] >= s
          \/ \E k \in DOMAIN todo[c] : todo[c][k] = [board |-> b, user |-> u, score |-> s]

SubmittingCredits ==
  \A c \in Conns : At(c, "submit") => TodoReported(c) /\ WillCredit(c)

\* A MATCH_END under way has its scores on the boards.
UnderwayIsCredited ==
  \A f \in Frame : Underway(f) /\ f.type = "end" =>
    /\ Filed(f.n, f.match)
    /\ f.n \notin lost =>
         \A i \in Sides(f.match) : Credited(f.match, i, ScoreOf(report[f.n].result, i))

ResultInv ==
  /\ UpsertIsValid
  /\ SubmittingCredits
  /\ UnderwayIsCredited
  /\ StoredResultWasReported
  /\ BoardScoresWereReported
=============================================================================
