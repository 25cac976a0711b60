# dleague: TLA+ models, model checks and proofs

dleague is a daily word game played against others: a Go server (`server/`)
with a REST API for asynchronous play, a WebSocket hub for synchronous play and
a MongoDB store, and a Svelte/Phaser client (`client/web/`). This directory
holds TLA+ modules that model the parts where processes, store calls, failures
and restarts interleave, the TLC configurations that check them on small
instances, and TLAPS proofs of the properties that matter most.

## 1. Inventory

| part | code | state it keeps | operations |
|---|---|---|---|
| WebSocket hub and rooms | `server/internal/ws/{hub,rooms,conn}.go` | `Hub.conns`, `Hub.rooms`, `Room.conns`, `Conn.uid`, `Conn.matchID`, the locals of each connection's goroutine | upgrade, register, read loop, dispatch, fan-out, unregister |
| Match lifecycle | `ws/match_lifecycle.go`, `ws/ping.go` | none of its own: writes the hub's rooms and the store's matches and boards | PING, JOIN_ROOM, TURN, MATCH_END |
| Handshake | `ws/handshake.go`, `auth/ws_gate.go` | none | first frame, token check, user upsert, answer |
| REST attempts | `api/{attempts,scoring,router}.go` | the locals of a request | POST /attempts, GET /attempts/me/{date} |
| REST puzzles and boards | `api/{puzzles,leaderboards}.go` | none | reads |
| Auth middleware | `auth/{middleware,firebase,auth}.go` | none | verify, user upsert |
| Store | `store/store.go`, `store/memstore`, `store/mongodb` | users, puzzles, attempts, matches, boards, presence, cache | one call per operation; the MongoDB one over the network, with timeouts |
| Process | `cmd/api/main.go`, `config` | phase of `main`, the store's handle | boot, serve, drain, close |
| Client WebSocket | `client/web/src/net/ws.js` | connection state, current socket, reconnect timers | connect, authenticate, send, close, reconnect |
| Wordle client | `client/web/src/games/**` | guesses, input, animations, page stage, HUD | keys, flip animation, end of attempt, POST |

How they interact. A WebSocket connection is one goroutine that reads a frame,
handles it to the end and reads the next. Goroutines meet in the hub: the
registry is guarded by `hub.mu`, each room by `room.mu`, and a handler takes
them one after the other, not together, except in `unregister`. A fan-out
writes, one peer at a time and without a lock, to sockets that belong to other
goroutines. MATCH_END makes up to six store calls; each REST request makes up to
four. Nothing ties the calls of one request together: no transaction, no
version, no lock. The client talks to both sides, from as many tabs as the user
has open.

What is hard, and tested least (`hazards` in `PROJECT.json`, each at its line):

* steps between `hub.mu` and `room.mu` (join against unregister);
* a snapshot of a room that is stale while it is written to;
* two MATCH_ENDs, or two POSTs, whose store calls interleave;
* a store call that fails, or fails after having been applied, in the middle;
* the process ending between any two calls: rooms are lost, documents are not;
* a slow peer holding a goroutine for ten seconds per write;
* sequences of legal frames nobody tried: joining two matches, joining twice;
* midnight between the test of the submit window and the submission;
* documents that outlive their expiry, and two first authentications of one user;
* a signal while requests run, and connections the HTTP server has let go of;
* guesses entered while the rows of earlier ones still flip;
* on the client, answers, timers and close events that arrive after the state
  they belong to is gone, and a game that starts from what was read before.

What makes each part correct:

* hub and rooms: a frame reaches the players of its match and nobody else, in
  order, once, and everyone who should get it; registry and rooms hold no
  connection and no room that is over; every dead connection is cleaned up;
* match lifecycle: nobody is told a result that is not stored; what is stored is
  a result somebody reported, as a whole; boards hold reported scores and never
  lose one;
* attempts: a score on a board was earned; a told score stays; the daily and the
  all-time board agree; a board becomes final;
* store: both implementations behave like one abstract store;
* process: a shutdown in time cuts off no request, and every signal ends it;
* client's WebSocket: one socket per client, "connected" only if the server says
  so and as the user shown, a lost connection comes back, one that was closed
  while its client awaited nothing does not;
* Wordle client: a game ends, its reports are worth the same in any order, a win
  it shows is paid if its reports were answered and no submission was lost, and a
  later visit that reads a finished attempt leaves it as it is.

## 2. Modules

| module | models | extends / instantiates |
|---|---|---|
| `Room` | a room's member list and `roleOf`, as operators on sequences | |
| `Hub` | connections, rooms, frames and fan-out, one action per critical section, store phase or socket write; the abstract specification of a MATCH_END: its store phase succeeds or fails | `Room` |
| `MatchEnd` | that phase spelled out call by call, with the store's matches and boards; implements `Hub` | `Hub` |
| `Scoring` | `scoring.go` as functions of a list of guesses | |
| `Attempts` | POST /attempts: window, puzzle, score, stored attempt, two boards | `Scoring` |
| `StoreTypes` | documents, orders, lists and expiry, for the four modules below | |
| `Store` | the contract of `store.Store`: what a call may answer and leave behind | `StoreTypes` |
| `MemStore`, `MongoStore` | the two backends, each with its refinement mapping to `Store` | `StoreTypes`, `Store` |
| `Backends` | the two given the same calls in lockstep | `MemStore`, `MongoStore` |
| `Session` | the browser's `WsClient` against the server's handshake | |
| `Wordle` | `games/wordle/scoring.js` as functions | `Scoring` |
| `Play` | runner, scene, HUD and event bus against the REST server | `Scoring` |
| `PlayWords` | the games of `Play` against the colours and scores of `Wordle` | `Play`, `Wordle` |
| `Shutdown` | boot, signal, drain and close of the process against requests, sockets and database calls | |
| `MC*` | instances for TLC | |
| `*Proofs` | theorems and lemmas about the module they are named after | |

`Hub` state and code. `pc[c]` is the place of `c`'s goroutine; `conns`, `rooms`
are the hub's maps; a `Room` is a heap object, so `rooms[m]` is a pointer into
`RoomObjs`, `roomOf` and `members` are the object's fields, and `room[c]` is the
local pointer that keeps an object alive after the registry has dropped it. A
room object is allocated when nothing points to it. `frame`, `peers`, `next` are
the locals of `broadcastRoom`, `echo` is the MATCH_END response still to be
written, `inbox[c]` is what has been written to an open socket. JOIN_ROOM is two
actions (`JoinLock` under `hub.mu`, `JoinAdd` under `room.mu`), because the code
releases the first lock before it takes the second; `unregister` is two actions
(`Unregister`, `UnregisterDrop`), because it takes `room.mu` twice, but no other
goroutine can take `hub.mu` in between (`Locked`); a fan-out is `Lookup`,
`Snapshot` and one action per peer. A write to a peer succeeds, or fails and
closes the socket, as the WebSocket library does on a timeout. `Drop` is the
client or the network, `Restart` the process ending at any moment.

`MatchEnd` adds `GetMatch`, `UpsertMatch` and one `SubmitScore` per call, each
able to fail, and to fail after having been applied where that differs.
`ERestart` keeps documents and boards and loses all else. Of a match document
only the fields the server writes are kept. No code creates matches; the
instances start with active ones.

`Attempts` has one handler per request. `Accept` holds every test up to the
first store call; then one action per call. `NextDay` moves the clock at any
moment, `SeedPuzzle` is the operator who puts puzzles into the store, `Restart`
as above. A guess is the word it means after trimming and lower-casing; the
score formula is the code's.

`Store` is a contract: one action per method of the interface, with `answer` the
result of the latest call. It leaves open what the interface leaves open: on
which side of its instant of expiry an entry is gone, how equals are ordered,
what a list of no length holds, and whether a call that failed was applied.
`MemStore` has one action per method, because each holds the store's mutex; what
has expired is deleted when it is next asked for. `MongoStore` has one action
per method too, because each is one operation of the server on one document,
with one exception: an upsert of a user that finds no document inserts one in a
later step (`UpsertFindsNone`, `UpsertInserts`), and the unique index turns a
second insert into an update. Its calls may fail, applied or not;
`PurgePresence` and `PurgeCache` are the TTL monitor. The mapping to `Store`
forgets entries that have expired. Reading the clock and applying the operation
are one instant but for the pending inserts. A list is read in one step, though
MongoDB scans a collection and may meet writes made meanwhile. `Backends` has
both backends' variables and a step per call made of both.

`Session`: `state`, `ws`, `uid`, `intentionalClose` are the fields of a
`WsClient`; a Lobby that is mounted makes a client, one that goes closes it. A
call of `connect()` is numbered and the number names its socket. Every `await`
and every event of a socket is an action of its own. A socket is two FIFO
channels whose ends notice separately that it is over (`OnClose`,
`ReadLoopEnds`); what was under way is then lost. A timer may fire at any time,
so the length of a backoff is not modelled. What a served connection does with
frames is `Hub`'s; here it answers PING.

`Play`: a visit is one mounting of the runner; `at[v]` is what its `startGame`
awaits: the variant, the puzzle, the stored attempt, the import of Phaser, and
at last Phaser's ready event, which no code awaits but which starts the scene.
What was read of the stored attempt is `resume[v]`, and is used two awaits
later, whatever was stored in between. `game[v]` is the running scene, which may
outlive its visit; a player who leaves while Phaser boots destroys it, one who
leaves earlier does not. A row flips after its guess was entered, and what
follows from a guess happens then (`RowFlipped`). Keys reach every running scene
and events whoever is mounted, since there is one keyboard and one bus. The
handler of a POST stores the attempt, then submits its score to the daily and to
the all-time board, one step each (`StoreAttempt`, `SubmitScore`); a submission
may be lost, which the report remembers (`lost`) and the answer does not tell.
The runner may take a report for failed at any moment while its handler goes on.
A guess is known by whether it is the solution; `Wordle` has the letters, and
`WinIsSolution` says that "all green" and "is the solution" are the same.

`Shutdown`: `phase` of `main`, `step` of every request and socket, `handle` the
nilable pointer in the MongoDB client, which a call reads twice: when it tests
for nil and when it uses it. `http.Server.Shutdown` waits for the connections it
tracks (accepted or serving REST) and not for upgraded ones; `Disconnect` waits
for the calls that were sent; every call has a deadline. Making the handle nil and
waiting in `Disconnect` are one step: between the two the code does nothing, and
a call that tests the handle meanwhile may as well test it after.

Definitions whose comment starts with "A fault kept for the checks" are mutated
forms of the definition after them; no specification uses them. `mutants` in
`PROJECT.json` names, for every property of a passing run, the fault that breaks
it.

## 3. Runs

| run | instance | question and result |
|---|---|---|
| `rooms` | 3 connections, 2 users, 1 match, 3 room objects, 4 frames | order and uniqueness of relayed frames, completeness of a fan-out, no leaked room, no dead member: hold |
| `live` | 2 connections, 3 users, 2 matches sharing a player, 3 frames, fair | no frame leaves its match although connections move between rooms and stay members of the old one; every dead connection is unregistered: hold |
| `joinrace` | 2 connections, 2 frames | whoever has joined is in the registered room: violated |
| `race` | 2 connections, 1 match, 3 possible results, 4 frames | told only after stored, stored and submitted only what was reported, boards keep it: hold |
| `submit` | 3 requests of one user, 2 words, 3 days | scores are earned and stay, the boards agree, a daily board becomes final: hold |
| `session_safety` | 2 users, 2 clients, 3 calls of `connect()`, every fault | AUTH first and once, one socket per client, connected means served and as the user shown, a client closed while it awaits nothing stays closed: hold |
| `session_live` | 1 client, 4 calls, served connections break, fair | a mounted Lobby is connected again, one closed while it awaits nothing is let go at both ends: hold |
| `play_game` | 1 visit, 4 rows, 5 guesses, 3 reports, fair; words of four letters out of three | reports are final and worth the same, a game ends, its rows are coloured right whatever the words are, and the client scores its list as the server does: hold |
| `play_visits` | 2 visits, 2 rows, 2 reports | a stored attempt stays while nothing that began before is under way; a shown win is on both boards if its reports were answered and lost no submission: hold |
| `mongo_store` | 2 users, 2 matches, 3 scores, time to 3 | MongoDB implements the contract: holds |
| `backends_same` | the same | both backends answer alike but for what the contract leaves open; the in-memory store implements the contract: hold |
| `shutdown_drain` | 2 REST requests, 1 socket, 2 calls each, fair | no request is cut off by a shutdown in time; a signal ends the process: hold |

Bounds, and why they suffice. Connections, requests and visits are used once, so
a run is a finite story and stops: deadlock is not checked.

*Hub.* Three connections for two users are the least in which one user is
connected twice and a room has two members apart from the one that leaves; two
users of one match and a third in a second match are the least in which a frame
could go astray. Two joins and two relays are enough for two fan-outs to overlap.
Three frames of the `live` run are a move to another room, or two joins and a
relay; isolation for more is proved. Room objects: one more than can be reachable
at once, so allocation never blocks a join that the code would carry out. Runs
with symmetry check no liveness.

*MatchEnd.* One frame per player is a join and one a report, so the two reports
interleave in every way; the three results are a win, a draw with a lower score
of the same player, and a winner who does not play.

*Attempts.* Three days are the least in which a board becomes final while a
request is accepted; the two guess lists are worth 85 and nothing against the
one word, and 100 each against the other, so that the same list is a win, a
better win and a loss on different dates; the seventh guess of the second list
must not count.

*Session.* Three calls are a first connection, one lost and retried, and one of
the next user's, or two retries in a row; a fourth in `session_live` gives a
second loss. `MaxFrames` bounds what is under way when the page sends more.

*Play.* Four rows and five guesses leave room for a win in the middle, guesses
entered over it and one beyond the grid; the source has six rows and the same
branches. Two visits with two rows are a game that outlives its visit next to
one that resumes or starts from an earlier read. Three reports (`MaxPosts`) are
a win in the middle and two rows flipped after the grid was filled; two, in the
run with visits, are one of each game, or two of one. Words of four letters out
of three repeat letters in the guess, in the solution and in both, more often in
either; `PlayWords` judges the guesses of a game, which `Play` knows by whether
they are the solution, by all words they may be.

*Store.* No operation depends on two collections, so `OneAtATime` lets TLC use
one at a time; none needs more than two keys. Times to live are 0 (keep, for the
cache), 1 and 2, with time to go past them. The counts asked for are -1, 1 and
5: none, a cut among equals, and more than there is.

*Shutdown.* Two requests are one that the drain meets and one that it does not
know yet; two calls are the middleware's and the handler's.

Fairness. `Hub!FairSpec`: for every connection, weak fairness of `Serve(c)`
(whatever its goroutine does next: register, handle, write, close, unregister)
and of `ReadEnd(c)`, the end of a read on an idle or dead socket. The Go
scheduler runs every runnable goroutine; a read ends after `idleTimeout` (60 s)
and a write after `writeTimeout` (10 s), so neither blocks for ever;
`sync.RWMutex` does not starve a waiting writer; store calls carry a timeout.
`Session!LiveSpec`: the event loop delivers what has happened, timers fire, the
network delivers or reports a close, and the server's goroutines run; users and
faults owe nothing. `Play!LiveSpec`: animation frames come, so rows end to flip.
`Shutdown!LiveSpec`: `main` goes on, the deadline of the shutdown comes, and a
call that was sent ends, because every call carries one.

## 4. Proofs

TLAPS checks, for every value of the constants that satisfies the assumptions
(`HubAssumption`, `MatchEndAssumption`, `AttemptsAssumption`, `PlayAssumption`,
`WordsAssumption`, `SessionAssumption`, `ShutdownAssumption`, `StoreAssumption`:
what players, dates, reports, guess lists, uids and documents are, and that the
null value is none of them; `NoFrameAssumption` and `NoOutcomeAssumption` say so
of records, for which it cannot be computed from the parts):

| theorem | states |
|---|---|
| `HubProofs!Invariance` | `Spec => []IInv` |
| `HubProofs!HubTypeCorrect` | `Spec => []TypeOK` |
| `HubProofs!RelayIsolation` | `Spec => []RelayedInsideMatch` |
| `HubProofs!NoRoomLeaks` | `Spec => []NoEmptyRoomLeaks` |
| `HubProofs!ServedRooms` | `Spec => []RoomsHoldServedConns` |
| `HubProofs!FanoutReaches` | `Spec => []FanoutReachesLivePeers` |
| `HubProofs!RelayOrder` | `Spec => []RelayedInOrderOnce` |
| `MatchEndProofs!ImplementsHub` | `ESpec => Spec`: spelling out the store phase adds no behaviour of the hub |
| `MatchEndProofs!MatchEndTypeCorrect` | `ESpec => []ETypeOK` |
| `MatchEndProofs!ToldAfterStored` | `ESpec => []ToldOnlyAfterStored` |
| `MatchEndProofs!StoredAsReported` | `ESpec => []StoredResultWasReported` |
| `MatchEndProofs!ScoresAsReported` | `ESpec => []BoardScoresWereReported` |
| `MatchEndProofs!ToldResultsOnBoards` | `ESpec => []BoardsReflectToldResults` |
| `AttemptsProofs!AttemptsTypeCorrect` | `Spec => []TypeOK` |
| `AttemptsProofs!EarnedScores` | `Spec => []BoardScoresWereEarned` |
| `AttemptsProofs!ToldScores` | `Spec => []ToldScoresStay` |
| `AttemptsProofs!ClosedBoards` | `Spec => ClosedBoardsStay` |
| `AttemptsProofs!AgreeingBoards` | `Spec => []BoardsAgree` |
| `SessionProofs!SessionTypeCorrect` | `Spec => []TypeOK` |
| `SessionProofs!AuthFirst` | `Spec => []AuthFirstAndOnce` |
| `SessionProofs!SingleSocket` | `Spec => []OneSocket` |
| `SessionProofs!ConnectedServed` | `Spec => []ConnectedIsServed` |
| `SessionProofs!ConnectedUser` | `Spec => []ConnectedAsShown` |
| `SessionProofs!ClosedForGood` | `Spec => ClosedStaysClosed` |
| `PlayProofs!PlayTypeCorrect` | `Spec => []TypeOK` |
| `PlayProofs!ReportsFinal` | `Spec => []ReportsAreFinal` |
| `PlayProofs!ReportsAlike` | `Spec => []ReportsWorthTheSame` |
| `PlayProofs!StoredStays` | `Spec => StoredAttemptStays`: while nothing is under way, no visit still to start from an earlier read among it |
| `PlayProofs!WinsArePaid` | if every solve pays, `Spec => []ShownWinIsPaid`, which exempts reports that lost a submission; `CodePays`: with six guesses, 100 points and 15 off for each guess after the first, it does |
| `PlayProofs!WinIsSolution` | a guess is all hits exactly if it is the solution |
| `PlayProofs!ColoursAreRight` | `evaluateGuess` colours every guess by the rule of the game |
| `PlayProofs!RowsColouredRight` | `Spec => []FeedbackIsRight` |
| `PlayProofs!ScoresAgree` | the client's loop finds the server's score of every list |
| `PlayProofs!PreviewMirrors` | `Spec => []ScoreMirrors` |
| `ShutdownProofs!ShutdownTypeCorrect` | `Spec => []TypeOK` |
| `ShutdownProofs!DrainsBeforeClose` | `Spec => []DrainedBeforeClosed` |
| `MemStoreProofs!MemStoreTypeCorrect` | `Spec => []TypeOK` |
| `MemStoreProofs!MemStoreIsAStore` | `Spec => Promise!Spec`: the in-memory backend implements the contract |
| `MongoStoreProofs!MongoStoreTypeCorrect` | `Spec => []TypeOK` |
| `MongoStoreProofs!MongoStoreIsAStore` | `Spec => Promise!Spec`: the MongoDB backend implements the contract |

*Relay isolation.* A member's `matchID` says nothing about the room it is in: a
second JOIN_ROOM overwrites it and leaves the first membership behind. The
argument is therefore about users. `IInv` of `Hub` says: a registered room is
keyed by its match; a pointer held by a goroutine is to a room of the match the
connection is in, registered or forgotten (`PointersInsideMatch`); members of a
room anybody can reach are players of the room's match (`MembersArePlayers`); a
frame in flight names the match of its sender (`FramesOfMatch`); so are a
snapshot's peers and the echo. The reuse of a room object is why
`MembersArePlayers` speaks of reachable rooms only: a free one may have stale
members, which allocation wipes.

*Rooms and fan-outs.* Three more invariants rest on `IInv`. `RoomsInv`: a
connection is in a room once, so `remove` takes it out, and is registered as long
as it is served; the two properties about rooms are inductive with these two
facts. `ReachInv`: a fan-out starts at its first peer and a socket is closed
before its connection is unregistered. `OrderInv` numbers frames in the order
they were read: what a fan-out carries is later than anything of the same sender
in the inbox of a peer it has yet to reach (`FanoutIsNews`), the echo is the
sender's own and comes after its fan-out (`EchoIsNews`), and a connection is among
the peers once. None of it needs a bound on who overlaps with whom.

*MatchEnd.* Knowing `ImplementsHub`, the invariant of `Hub` holds of `MatchEnd`
too and is used as it is. `StoredInv` adds: wherever an end frame is under way
(in a fan-out, in the echo, in an inbox) its match is stored as ended, and a
handler that submits scores has stored it. `ResultInv` adds what the document and
the boards hold: a frame being handled is one that was reported, what is stored
of an ended match is such a report as a whole, a score on a board is one of
them, and what a handler has submitted without an error is credited. A frame
that was told without loss has had all its submissions, and boards only grow.

*Attempts.* `IInv` is a conjunction over handlers: an accepted request is kept,
an attempt at hand is the request scored against the date's puzzle, and what a
handler has submitted without an error is on the boards. It survives other
handlers' steps because boards only grow (`OthersKept`); the score of the first
solving guess exists by well-foundedness of the naturals (`LeastOf`,
`ScoreEarns`). The agreement of the boards needs `AgreeInv`: some day shows the
all-time score, and a daily score above the all-time one belongs to a handler
that is about to submit it there.

*Play.* A list that is decided (solved, or with all its guesses) keeps its worth
however it grows, the first solving guess being the same. `IInv` says that every
report decides its game, that a game only grows on from what it reported, and
that later reports of a game continue earlier ones. `PaidInv` relates the two
ends: a handler that lost nothing has paid at every board it has passed, "ok" is
answered when it has passed both, and a runner that shows a win has posted a
winning list. A list that was paid has points only
if a solve is worth some, which the formula does not give for all constants;
`EverySolvePays` is therefore the theorem's hypothesis, and `CodePays` shows that
the constants of `scoring.go:12-17` meet it, as its comment says. A stored attempt
stays because what is stored is over (`StoredIsOver`), so what a visit reads from
then on is over, and a scene that resumes a list that is over reports nothing.
`Quiet` excludes what began before: a report still to be stored, a game still to
end, and a visit still to start its game from a read that found nothing.

*Wordle.* The loops of `scoring.js` are recursive functions. No induction scheme
can be instantiated, but a loop that is a function on `0..n` with its recursive
equation has its closed form by well-foundedness: if it differed somewhere, it
would at a least index (`LeastOf`), where one unfolding contradicts it. So the
colours and the scores are proved for words and lists of every length.

*Session.* The core of `IInv` is `OneThread`: a client none of whose tokens was
refused waits for one timer, one refresh or the token of one call, or has one
live socket, which is `ws`. It fails for a refused token, whose late close
arrives beside the next call (section 5); hence `Trusted`. `Wire` says what the
two ends of a socket know of each other: a frame sent waits in the channel while
the server still shakes hands, and only a server that served answers. `PageInv`
and `TokensOfShown` carry the user: a mounted Lobby asks for tokens of the user
shown only. That a closed client stays closed is an action property: the step
that closes leaves it nothing to wait for, and what its sockets still report
changes nothing.

*Shutdown.* The handle is there until `Close` (`HandleUntilClose`), so nobody
panics before; from the end of a drain in time to the exit no request moves
(`DrainedStays`), because the listener is closed and all it had accepted is over.

*Store.* A step of a backend is a step of the contract under the mapping, call by
call; time passing is one too, because an entry that expires becomes one that is
forgotten. A sorted list, cut where the backend cuts it, is one that `Lists`
allows (`CutLists`, `LimitLists`).

Only model-checked: that the two backends, given the same calls, answer alike
(`AnswersAlike`), and liveness (`DeadConnsUnregistered`, `GameEnds`, `Reconnects`,
`ClosedIsLetGo`, `SignalEnds`), which is beyond the prover. Every invariant of a
passing run is a theorem.

## 5. Findings

Kept as a run: `joinrace`. `handleJoinRoom` releases `hub.mu` before it adds the
connection to the room it found. If the last member leaves in between, the room
is dropped and the joining player sits in a room nobody will ever look up; the
opponent's join makes another.

The models contain the following behaviours too. They disagree with a comment or
a document, and the properties above are stated so that they hold beside them:

* `main.go:50` builds the hub without the store, so every JOIN_ROOM is refused in
  production (`Hub` with `HasStore = FALSE`), although `hub.go:21-24` asks for
  `NewHubWithStore` once there is a store.
* A later MATCH_END of either player replaces a stored result
  (`match_lifecycle.go:113`; "persists the final result", line 85).
* A later POST replaces a closed attempt, also a win by a loss (`attempts.go:79`);
  the boards keep the better score (`ToldScoresStay`), so the two disagree.
* A game that reads the stored attempt before another one of the player is stored
  starts from nothing, Phaser being imported and booted in between
  (`GameRunner.svelte:90-109`), and may be posted over the finished attempt; hence
  the last part of `Quiet` in `Play`.
* A win that is shown and answered may be on neither board, or on one: what
  `SubmitScore` answers is dropped (`attempts.go:84-89`, "best-effort"), and
  nothing submits again; hence `lost` in `Play`.
* A room may have more than two members ("Two conns max", `rooms.go:8`), and
  unregister leaves `matchID` set ("cleared", `conn.go:27`).
* A guess entered while the last row flips is a seventh one and is posted
  (`WordleScene.js:220`; "six tries"). Resumed, such a list has no row for its
  last guess (`WordleScene.js:102`).
* Guesses entered while the winning row flips may fill the grid; the HUD then ends
  with "Out of guesses" (`WordleScene.js:230`). The server still pays the win.
* The HUD's counter starts from zero in a resumed game (`WordleHud.svelte:11`).
* A socket that closes before it authenticated leaves the promise of `connect()`
  pending: `onclose` overwrites the state it then asks for (`ws.js:108, 113`;
  "rejects on close"). A retry that fails in this way, or whose token refresh
  fails (`ws.js:131`), is therefore the last one.
* The late close of a refused socket overwrites the state of the next one
  (`ws.js:108`), whose answer is then ignored; hence `Trusted` in `Session`.
* At the very instant of expiry memstore still finds an entry and MongoDB does not;
  memstore orders equals by uid and MongoDB does not (`OpenQuestion` in
  `Backends`; "plugs in identically", `store.go:3-4`).
* `Close` sets the client's handle to nil while a WebSocket handshake, for which
  `Shutdown` does not wait, may be between its test and its use of it: the call
  panics and returns no `ErrClosed` (`panicked` in `Shutdown`).

## 6. Plan and limits

Modelled: the parts of section 1, but for what the next section leaves out. What
could come next is a proof of `AnswersAlike`: the two backends' data are related
entry by entry, and two sorted lists of one set have equal keys place by place.

## Not modelled

* REST puzzles and leaderboards: each handler reads one document or board and
  writes a projection of it. There is no step between which another could come;
  the reads themselves are in the store modules.
* Token verification: Firebase's. Its outcomes are in `Session`.
* The protobuf codec and generated code: the library's. Messages are records of
  the fields handlers look at.
* The HTTP router and the health check: wiring and a ping.
* Configuration: parsing of the environment.
* The game registry, which nothing calls; the smoke command; `Export`, a read of
  everything; presentation (sign-in, banner, template scenes, drawing, share
  text); the abandoned WebAssembly page; scripts, CI and planning documents.
* In what is modelled: how long a backoff takes; a user switch in another tab; a
  hub without a verifier in the handshake, which `main` never builds; the letters
  of a guess while it is typed.
