--------------------------------- MODULE Hub ---------------------------------
(***************************************************************************)
(* The WebSocket hub of the server (server/internal/ws): connections,      *)
(* rooms and the frames relayed between the players of a match.            *)
(*                                                                         *)
(* Each connection is served by one goroutine, which reads a frame,        *)
(* handles it to the end and only then reads the next.  pc[c] is where     *)
(* the goroutine of c stands; one action is one critical section, one      *)
(* call to the store or one socket write, so that the goroutines of other  *)
(* connections run in between exactly where the locks let them.            *)
(*                                                                         *)
(* A Room is a heap object: hub.rooms points to it, and so may the locals  *)
(* of goroutines, which keep it alive after the hub has forgotten it.  A   *)
(* room object is therefore a member of RoomObjs, free to be allocated     *)
(* when nothing points to it.                                              *)
(*                                                                         *)
(* What MATCH_END does to the store is left open here ("ending" is the     *)
(* store phase, which succeeds or fails); module MatchEnd fills it in.     *)
(***************************************************************************)
EXTENDS Naturals, Room

CONSTANTS
  Conns,        \* connections ever accepted; each is used once
  Users,        \* uids a token can carry
  Matches,      \* match ids; one without a document has no players
  Players,      \* Players[m]: the players of the stored match m, p1 first
  RoomObjs,     \* room objects the allocator can hand out
  None,         \* the empty uid, match id, pointer or envelope
  HasStore,     \* hub built by NewHubWithStore (TRUE) or NewHub
  HasVerifier,  \* UpgradeOptions.Verifier is set
  MaxFrames     \* bound on the frames clients send

ASSUME HubAssumption ==
  /\ Players \in [Matches -> Seq(Users)]
  /\ \A S \in {Conns, Users, Matches, RoomObjs} : None \notin S
  /\ HasStore \in BOOLEAN
  /\ HasVerifier \in BOOLEAN
  /\ MaxFrames \in Nat

VARIABLES
  pc,       \* where the goroutine of each connection stands
  open,     \* the server side of the socket can still be used
  uid,      \* Conn.uid
  matchID,  \* Conn.matchID
  conns,    \* Hub.conns
  rooms,    \* Hub.rooms: the room object of a match, or None
  roomOf,   \* Room.matchID
  members,  \* Room.conns
  room,     \* local `room` of handleJoinRoom and broadcastRoom
  frame,    \* the frame being fanned out or persisted, or None
  peers,    \* the snapshot broadcastRoom iterates over
  next,     \* its position in the snapshot
  echo,     \* the MATCH_END dispatch returned, still to be written, or None
  inbox,    \* relayed frames written to each open connection, in order
  frames    \* number of frames read from clients so far

connVars == << pc, open, uid, matchID, conns >>
roomVars == << rooms, roomOf, members, room >>
fanVars  == << frame, peers, next >>
ioVars   == << echo, inbox, frames >>
hubVars  == << connVars, roomVars, fanVars, ioVars >>

PCs == {"new", "register", "read", "add", "ending", "lookup", "snapshot",
        "write", "reply", "close", "unregister", "leave", "done"}

\* A frame the hub relays; n is its place among all frames read.
Frame == [type : {"turn", "end"}, from : Conns, match : Matches,
          n : 1..MaxFrames]

\* A nil pointer points to no frame.
ASSUME NoFrameAssumption == None \notin Frame

Goto(c, label) == pc' = [pc EXCEPT ![c] = label]

Running == {c \in Conns : pc[c] \notin {"new", "done"}}

\* hub.mu is held across two actions only while unregister works on a room,
\* under room.mu for each of the two: see Unregister and UnregisterDrop.
Locked == \E c \in Conns : pc[c] = "leave"
-----------------------------------------------------------------------------
Init ==
  /\ pc      = [c \in Conns |-> "new"]
  /\ open    = [c \in Conns |-> FALSE]
  /\ uid     = [c \in Conns |-> None]
  /\ matchID = [c \in Conns |-> None]
  /\ conns   = {}
  /\ rooms   = [m \in Matches |-> None]
  /\ roomOf  = [r \in RoomObjs |-> None]
  /\ members = [r \in RoomObjs |-> << >>]
  /\ room    = [c \in Conns |-> None]
  /\ frame   = [c \in Conns |-> None]
  /\ peers   = [c \in Conns |-> << >>]
  /\ next    = [c \in Conns |-> 1]
  /\ echo    = [c \in Conns |-> None]
  /\ inbox   = [c \in Conns |-> << >>]
  /\ frames  = 0
-----------------------------------------------------------------------------
(***************************************************************************)
(* Connection lifecycle (conn.go, handshake.go).                           *)
(***************************************************************************)

\* The upgrade is accepted and, if a verifier is set, the first frame was an
\* AUTH_REQUEST whose token verified.
Connect(c) ==
  /\ pc[c] = "new"
  /\ open' = [open EXCEPT ![c] = TRUE]
  /\ IF HasVerifier THEN \E u \in Users : uid' = [uid EXCEPT ![c] = u]
                    ELSE UNCHANGED uid
  /\ Goto(c, "register")
  /\ UNCHANGED << matchID, conns, roomVars, fanVars, ioVars >>

\* Timeout, read error, wrong or malformed first frame, or a bad token.
HandshakeFail(c) ==
  /\ pc[c] = "new"
  /\ HasVerifier
  /\ Goto(c, "done")
  /\ UNCHANGED << open, uid, matchID, conns, roomVars, fanVars, ioVars >>

Register(c) ==
  /\ pc[c] = "register"
  /\ ~Locked
  /\ conns' = conns \union {c}
  /\ Goto(c, "read")
  /\ UNCHANGED << open, uid, matchID, roomVars, fanVars, ioVars >>

\* The read loop ends: idle timeout or read error.
ReadEnd(c) ==
  /\ pc[c] = "read"
  /\ Goto(c, "close")
  /\ UNCHANGED << open, uid, matchID, conns, roomVars, fanVars, ioVars >>

\* A fault kept for the checks: unregister is not deferred.
NothingElse == "done"

\* What is deferred besides CloseNow.
AfterClose == "unregister"

\* Deferred last, so run first: CloseNow.
CloseNow(c) ==
  /\ pc[c] = "close"
  /\ open' = [open EXCEPT ![c] = FALSE]
  /\ Goto(c, AfterClose)
  /\ UNCHANGED << uid, matchID, conns, roomVars, fanVars, ioVars >>

\* Deferred before it: unregister takes hub.mu, and the connection out of the
\* room of the match joined last.
Unregister(c) ==
  /\ pc[c] = "unregister"
  /\ ~Locked
  /\ conns' = conns \ {c}
  /\ IF matchID[c] # None /\ rooms[matchID[c]] # None
     THEN /\ members' = [members EXCEPT ![rooms[matchID[c]]] = RoomRemove(@, c)]
          /\ Goto(c, "leave")
     ELSE UNCHANGED members /\ Goto(c, "done")
  /\ inbox' = [inbox EXCEPT ![c] = << >>]
  /\ UNCHANGED << open, uid, matchID, rooms, roomOf, room, fanVars, echo, frames >>

\* A fault kept for the checks: the emptied room stays registered.
KeepEmptyRoom(m) == rooms

\* A room without members is dropped from the registry.
DropIfEmpty(m) ==
  IF RoomEmpty(members[rooms[m]]) THEN [rooms EXCEPT ![m] = None] ELSE rooms

\* Then, hub.mu still held, it looks whether the room is empty; a join that
\* found the room earlier may have added its connection in between.
UnregisterDrop(c) ==
  /\ pc[c] = "leave"
  /\ rooms' = DropIfEmpty(matchID[c])
  /\ Goto(c, "done")
  /\ UNCHANGED << open, uid, matchID, conns, roomOf, members, room, fanVars, ioVars >>

\* The client or the network drops the connection.
Drop(c) ==
  /\ open[c]
  /\ open' = [open EXCEPT ![c] = FALSE]
  /\ UNCHANGED << pc, uid, matchID, conns, roomVars, fanVars, ioVars >>

\* The process ends and starts again; nothing in memory survives.
Restart ==
  /\ Running # {}
  /\ pc'    = [c \in Conns |-> IF c \in Running THEN "done" ELSE pc[c]]
  /\ open'  = [c \in Conns |-> FALSE]
  /\ conns' = {}
  /\ rooms' = [m \in Matches |-> None]
  /\ room'  = [c \in Conns |-> None]
  /\ frame' = [c \in Conns |-> None]
  /\ peers' = [c \in Conns |-> << >>]
  /\ next'  = [c \in Conns |-> 1]
  /\ echo'  = [c \in Conns |-> None]
  /\ inbox' = [c \in Conns |-> << >>]
  /\ uid'   = [c \in Conns |-> None]
  /\ matchID' = [c \in Conns |-> None]
  /\ UNCHANGED << roomOf, members, frames >>
-----------------------------------------------------------------------------
(***************************************************************************)
(* Frames from the client of c, dispatched one at a time.                  *)
(***************************************************************************)

\* The read loop has the next frame in hand.
Receive(c) ==
  /\ pc[c] = "read"
  /\ open[c]
  /\ frames < MaxFrames
  /\ frames' = frames + 1

Envelope(type, c, m) ==
  [type |-> type, from |-> c, match |-> m, n |-> frames + 1]

\* The handler returned an error: the connection is given up.
Fail(c) ==
  /\ Goto(c, "close")
  /\ UNCHANGED << open, uid, matchID, conns, roomVars, fanVars, echo, inbox >>

\* The handler returned a PONG or a refusal, to be written next.
Respond(c) ==
  /\ Goto(c, "reply")
  /\ UNCHANGED << open, uid, matchID, conns, roomVars, fanVars, echo, inbox >>

Ping(c) == Receive(c) /\ Respond(c)

\* handleJoinRoom lets c in: there is a store, c has a uid and plays the
\* stored match m.
MayJoin(c, m) ==
  /\ HasStore
  /\ uid[c] # None
  /\ m # None
  /\ roleOf(uid[c], Players[m]) # ""

\* Otherwise it answers with a refusal.
JoinRefuse(c, m) == Receive(c) /\ ~MayJoin(c, m) /\ Respond(c)

\* A frame or payload that cannot be unmarshalled, or a JOIN_ROOM whose GetMatch
\* fails for another reason than ErrNotFound.
BadFrame(c) == Receive(c) /\ Fail(c)

FreeRooms == {r \in RoomObjs : /\ \A m \in Matches : rooms[m] # r
                               /\ \A c \in Conns : room[c] # r}

\* Under hub.mu: find or create the room of m and stamp the connection.
JoinLock(c, m) ==
  /\ Receive(c)
  /\ MayJoin(c, m)
  /\ ~Locked
  /\ IF rooms[m] # None
     THEN /\ room' = [room EXCEPT ![c] = rooms[m]]
          /\ UNCHANGED << rooms, roomOf, members >>
     ELSE \E r \in FreeRooms :
            /\ room'    = [room EXCEPT ![c] = r]
            /\ rooms'   = [rooms EXCEPT ![m] = r]
            /\ roomOf'  = [roomOf EXCEPT ![r] = m]
            /\ members' = [members EXCEPT ![r] = << >>]
  /\ matchID' = [matchID EXCEPT ![c] = m]
  /\ Goto(c, "add")
  /\ UNCHANGED << open, uid, conns, fanVars, echo, inbox >>

\* After hub.mu is released: add the connection to the room object found.
JoinAdd(c) ==
  /\ pc[c] = "add"
  /\ members' = [members EXCEPT ![room[c]] = RoomAdd(@, c)]
  /\ room' = [room EXCEPT ![c] = None]
  /\ Goto(c, "reply")
  /\ UNCHANGED << open, uid, matchID, conns, rooms, roomOf, fanVars, ioVars >>

\* A fault kept for the checks: no test of the frame's match_id.
AnyMatch(c, m) == matchID[c] # None

\* The guards of handleTurn and handleMatchEnd: in a room, and in this one.
InRoom(c, m) == matchID[c] # None /\ m = matchID[c]

Accept(c, envelope, label) ==
  /\ frame' = [frame EXCEPT ![c] = envelope]
  /\ Goto(c, label)
  /\ UNCHANGED << open, uid, matchID, conns, roomVars, peers, next, echo, inbox >>

\* handleTurn up to the fan-out.
Turn(c, m) ==
  /\ Receive(c)
  /\ IF InRoom(c, m) THEN Accept(c, Envelope("turn", c, m), "lookup")
                     ELSE Fail(c)

\* handleMatchEnd up to its calls to the store.
MatchEnd(c, m) ==
  /\ Receive(c)
  /\ IF HasStore /\ InRoom(c, m) THEN Accept(c, Envelope("end", c, m), "ending")
                                 ELSE Fail(c)

\* The store has the result (EndStored), or the handler fails on the match,
\* the winner or the store (EndError).
EndStored(c) ==
  /\ pc[c] = "ending"
  /\ Goto(c, "lookup")
  /\ UNCHANGED << open, uid, matchID, conns, roomVars, fanVars, ioVars >>

EndError(c) ==
  /\ pc[c] = "ending"
  /\ frame' = [frame EXCEPT ![c] = None]
  /\ Goto(c, "close")
  /\ UNCHANGED << open, uid, matchID, conns, roomVars, peers, next, ioVars >>
-----------------------------------------------------------------------------
(***************************************************************************)
(* broadcastRoom, and the write of the response.                           *)
(***************************************************************************)

\* Under hub.mu.RLock: the room registered for the match, if any.
Lookup(c) ==
  /\ pc[c] = "lookup"
  /\ ~Locked
  /\ room' = [room EXCEPT ![c] = rooms[matchID[c]]]
  /\ Goto(c, IF rooms[matchID[c]] = None THEN "write" ELSE "snapshot")
  /\ UNCHANGED << open, uid, matchID, conns, rooms, roomOf, members, fanVars, ioVars >>

\* Under room.mu: copy the members.
Snapshot(c) ==
  /\ pc[c] = "snapshot"
  /\ peers' = [peers EXCEPT ![c] = members[room[c]]]
  /\ room' = [room EXCEPT ![c] = None]
  /\ Goto(c, "write")
  /\ UNCHANGED << open, uid, matchID, conns, rooms, roomOf, members, frame, next, ioVars >>

\* The next connection of the snapshot.
Peer(c) == peers[c][next[c]]
Writing(c) == pc[c] = "write" /\ next[c] <= Len(peers[c])

\* A fault kept for the checks: the first failed write ends the fan-out.
GiveUp(c) == Len(peers[c]) + 1

\* A failed write is logged and the fan-out goes on.
GoOn(c) == next[c] + 1

SkipSelf(c) ==
  /\ Writing(c)
  /\ Peer(c) = c
  /\ next' = [next EXCEPT ![c] = @ + 1]
  /\ UNCHANGED << connVars, roomVars, frame, peers, ioVars >>

WritePeer(c) ==
  /\ Writing(c)
  /\ Peer(c) # c
  /\ open[Peer(c)]
  /\ inbox' = [inbox EXCEPT ![Peer(c)] = Append(@, frame[c])]
  /\ next' = [next EXCEPT ![c] = @ + 1]
  /\ UNCHANGED << connVars, roomVars, frame, peers, echo, frames >>

\* The peer's socket is gone, or the write times out, which closes it.
WritePeerFail(c) ==
  /\ Writing(c)
  /\ Peer(c) # c
  /\ open' = [open EXCEPT ![Peer(c)] = FALSE]
  /\ next' = [next EXCEPT ![c] = GoOn(c)]
  /\ UNCHANGED << pc, uid, matchID, conns, roomVars, frame, peers, ioVars >>

\* The snapshot is exhausted: TURN has no response, MATCH_END is echoed.
FanoutDone(c) ==
  /\ pc[c] = "write"
  /\ next[c] > Len(peers[c])
  /\ frame' = [frame EXCEPT ![c] = None]
  /\ peers' = [peers EXCEPT ![c] = << >>]
  /\ next'  = [next EXCEPT ![c] = 1]
  /\ IF frame[c].type = "end"
     THEN echo' = [echo EXCEPT ![c] = frame[c]] /\ Goto(c, "reply")
     ELSE UNCHANGED echo /\ Goto(c, "read")
  /\ UNCHANGED << open, uid, matchID, conns, roomVars, inbox, frames >>

Reply(c) ==
  /\ pc[c] = "reply"
  /\ open[c]
  /\ inbox' = IF echo[c] = None THEN inbox
              ELSE [inbox EXCEPT ![c] = Append(@, echo[c])]
  /\ echo' = [echo EXCEPT ![c] = None]
  /\ Goto(c, "read")
  /\ UNCHANGED << open, uid, matchID, conns, roomVars, fanVars, frames >>

ReplyFail(c) ==
  /\ pc[c] = "reply"
  /\ open' = [open EXCEPT ![c] = FALSE]
  /\ echo' = [echo EXCEPT ![c] = None]
  /\ Goto(c, "close")
  /\ UNCHANGED << uid, matchID, conns, roomVars, fanVars, inbox, frames >>
-----------------------------------------------------------------------------
\* What the goroutine of c does without waiting for its client.
Serve(c) ==
  \/ Register(c) \/ JoinAdd(c)
  \/ EndStored(c) \/ EndError(c)
  \/ Lookup(c) \/ Snapshot(c)
  \/ SkipSelf(c) \/ WritePeer(c) \/ WritePeerFail(c) \/ FanoutDone(c)
  \/ Reply(c) \/ ReplyFail(c)
  \/ CloseNow(c) \/ Unregister(c) \/ UnregisterDrop(c)

\* What the client of c makes the server do.
Client(c) ==
  \/ Connect(c) \/ Drop(c)
  \/ Ping(c) \/ BadFrame(c)
  \/ \E m \in Matches \union {None} : JoinRefuse(c, m) \/ JoinLock(c, m)
  \/ \E m \in Matches : Turn(c, m) \/ MatchEnd(c, m)

Next ==
  \/ Restart
  \/ \E c \in Conns : Serve(c) \/ Client(c) \/ HandshakeFail(c) \/ ReadEnd(c)

Spec == Init /\ [][Next]_hubVars

\* The scheduler runs every goroutine, every call to the store and every
\* socket write is under a timeout, and so is every read of the read loop.
FairSpec == Spec /\ \A c \in Conns : WF_hubVars(Serve(c)) /\ WF_hubVars(ReadEnd(c))
-----------------------------------------------------------------------------
(***************************************************************************)
(* Properties.                                                             *)
(***************************************************************************)
PointerOrNone(S) == S \union {None}

\* Every variable has its type; see PCs and Frame above.
TypeOK ==
  /\ pc \in [Conns -> PCs]
  /\ open \in [Conns -> BOOLEAN]
  /\ uid \in [Conns -> PointerOrNone(Users)]
  /\ matchID \in [Conns -> PointerOrNone(Matches)]
  /\ conns \in SUBSET Conns
  /\ rooms \in [Matches -> PointerOrNone(RoomObjs)]
  /\ roomOf \in [RoomObjs -> PointerOrNone(Matches)]
  /\ members \in [RoomObjs -> Seq(Conns)]
  /\ room \in [Conns -> PointerOrNone(RoomObjs)]
  /\ frame \in [Conns -> PointerOrNone(Frame)]
  /\ peers \in [Conns -> Seq(Conns)]
  /\ next \in [Conns -> Nat \ {0}]
  /\ echo \in [Conns -> PointerOrNone(Frame)]
  /\ inbox \in [Conns -> Seq(Frame)]
  /\ frames \in 0..MaxFrames

PlayerOf(c, m) == m \in Matches /\ Contains(Players[m], uid[c])

\* A TURN or MATCH_END frame is only ever written to a connection whose user
\* plays the match the frame names, and comes from one of that match's
\* players, whatever rooms the two connections joined, left or re-joined and
\* whichever room object the fan-out got hold of.  The match_id test of
\* handleTurn calls the opposite "cross-room frame injection".
RelayedInsideMatch ==
  \A d \in Conns : \A i \in DOMAIN inbox[d] :
    LET f == inbox[d][i]
    IN  PlayerOf(d, f.match) /\ PlayerOf(f.from, f.match)

\* A client sees the frames of one sender in the order they were sent, and
\* none of them twice, although it may have repeated its JOIN_ROOM.
RelayedInOrderOnce ==
  \A d \in Conns : \A i, j \in DOMAIN inbox[d] :
    LET f == inbox[d][i]  g == inbox[d][j]
    IN  i < j /\ f.from = g.from => f.n < g.n

\* "Errors per-conn are logged but don't abort the fan-out": every peer the
\* fan-out has passed has the frame or a dead socket.
FanoutReachesLivePeers ==
  \A c \in Conns : pc[c] = "write" =>
    \A i \in 1..next[c]-1 :
      i \in DOMAIN peers[c] /\ peers[c][i] # c /\ open[peers[c][i]]
        => Contains(inbox[peers[c][i]], frame[c])

Joining(r) == \E c \in Conns : pc[c] = "add" /\ room[c] = r

Leaving(m) == \E c \in Conns : pc[c] = "leave" /\ matchID[c] = m

\* A registered room has a member, a goroutine about to add one, or one about to
\* drop it: no interleaving of joins and disconnects leaves an empty room in the
\* registry.
NoEmptyRoomLeaks ==
  \A m \in Matches : rooms[m] # None =>
    members[rooms[m]] # << >> \/ Joining(rooms[m]) \/ Leaving(m)

\* No user plays two of the matches.
DisjointMatches ==
  \A m1, m2 \in Matches : \A u \in Users :
    Contains(Players[m1], u) /\ Contains(Players[m2], u) => m1 = m2

\* When nobody plays two matches, the members of a registered room are
\* connections the hub still serves, in that match: a connection that has
\* ended is in no room, so no room outlives its connections.
RoomsHoldServedConns ==
  DisjointMatches =>
    \A m \in Matches : rooms[m] # None =>
      \A i \in DOMAIN members[rooms[m]] :
        LET c == members[rooms[m]][i] IN c \in conns /\ matchID[c] = m

\* Joined to m by a JOIN_ROOM that was answered ok, and still registered.
Joined(c, m) == c \in conns /\ matchID[c] = m /\ pc[c] # "add"

\* "Once joined, TURN frames are forwarded to room peers" (envelope.proto):
\* whoever has joined the match is in the room the hub has for it.
JoinedConnIsInRoom ==
  \A c \in Conns, m \in Matches :
    Joined(c, m) => rooms[m] # None /\ Contains(members[rooms[m]], c)

\* A connection whose socket is gone is unregistered in the end, whatever its
\* goroutine was doing and whoever it was writing to.
DeadConnsUnregistered ==
  \A c \in Conns : (c \in conns /\ ~open[c]) ~> (c \notin conns)
-----------------------------------------------------------------------------
(***************************************************************************)
(* The inductive invariant behind RelayedInsideMatch (see HubProofs).      *)
(***************************************************************************)
\* A room object somebody can reach.  A free one may hold stale members: they
\* are wiped when it is allocated again.
InUse(r) == (\E m \in Matches : rooms[m] = r) \/ (\E c \in Conns : room[c] = r)

RoomsKeyed == \A m \in Matches : rooms[m] # None => roomOf[rooms[m]] = m

\* The locals of handleJoinRoom and broadcastRoom point to a room of the match
\* the connection is in, even if the hub has dropped that room meanwhile.
PointersInsideMatch ==
  \A c \in Conns :
    IF pc[c] \in {"add", "snapshot"}
    THEN room[c] \in RoomObjs /\ matchID[c] # None /\ roomOf[room[c]] = matchID[c]
    ELSE room[c] = None

JoinedArePlayers ==
  \A c \in Conns : IF pc[c] = "new" THEN uid[c] = None /\ matchID[c] = None
                   ELSE matchID[c] # None => PlayerOf(c, matchID[c])

MembersArePlayers ==
  \A r \in RoomObjs : InUse(r) =>
    \A i \in DOMAIN members[r] : PlayerOf(members[r][i], roomOf[r])

FramesOfMatch ==
  \A c \in Conns : pc[c] \in {"ending", "lookup", "snapshot", "write"} =>
    /\ frame[c] \in Frame
    /\ frame[c].from = c
    /\ matchID[c] # None
    /\ frame[c].match = matchID[c]

PeersArePlayers ==
  \A c \in Conns : \A i \in DOMAIN peers[c] :
    pc[c] = "write" /\ PlayerOf(peers[c][i], matchID[c])

EchoInsideMatch ==
  \A c \in Conns : echo[c] # None =>
    pc[c] = "reply" /\ echo[c].from = c /\ PlayerOf(c, echo[c].match)

IInv ==
  /\ TypeOK
  /\ RoomsKeyed
  /\ PointersInsideMatch
  /\ JoinedArePlayers
  /\ MembersArePlayers
  /\ FramesOfMatch
  /\ PeersArePlayers
  /\ EchoInsideMatch
  /\ RelayedInsideMatch
-----------------------------------------------------------------------------
(***************************************************************************)
(* The inductive invariant behind NoEmptyRoomLeaks and RoomsHoldServedConns.*)
(***************************************************************************)
\* No value twice.
Once(s) == \A i, j \in DOMAIN s : s[i] = s[j] => i = j

\* add() looks for the connection first, so remove() takes it out altogether.
MembersOnce == \A r \in RoomObjs : Once(members[r])

\* A connection is registered from the start of its read loop to unregister.
ServedAreRegistered ==
  \A c \in Conns : pc[c] \notin {"new", "register", "leave", "done"} => c \in conns

RoomsInv ==
  /\ MembersOnce
  /\ ServedAreRegistered
  /\ NoEmptyRoomLeaks
  /\ RoomsHoldServedConns
-----------------------------------------------------------------------------
(***************************************************************************)
(* The inductive invariant behind FanoutReachesLivePeers.                  *)
(***************************************************************************)
\* The socket is closed before the connection is unregistered.
EndedAreClosed ==
  \A c \in Conns : pc[c] \in {"new", "unregister", "leave", "done"} => ~open[c]

\* A fan-out starts at the first of its peers.
FanoutFromStart == \A c \in Conns : pc[c] # "write" => next[c] = 1

ReachInv == EndedAreClosed /\ FanoutFromStart /\ FanoutReachesLivePeers
-----------------------------------------------------------------------------
(***************************************************************************)
(* The inductive invariant behind RelayedInOrderOnce.                      *)
(***************************************************************************)
\* d has no frame of c as late as f.
Ahead(d, c, f) == \A i \in DOMAIN inbox[d] : inbox[d][i].from = c => inbox[d][i].n < f.n

\* Frames are counted before they are handled.
FramesCounted ==
  \A c \in Conns :
    /\ frame[c] # None => frame[c].n <= frames
    /\ echo[c] # None => echo[c].n <= frames
    /\ \A i \in DOMAIN inbox[c] : inbox[c][i].n <= frames

PeersOnce == \A c \in Conns : Once(peers[c])

\* The fan-out of c has passed d.
Passed(c, d) == \E i \in DOMAIN peers[c] : i < next[c] /\ peers[c][i] = d

\* A frame handled or fanned out is new to its sender, who gets it as the echo
\* only, and to all peers that are still to come.
FanoutIsNews ==
  \A c, d \in Conns :
    frame[c] # None /\ (d = c \/ ~Passed(c, d)) => Ahead(d, c, frame[c])

EchoIsNews == \A c \in Conns : echo[c] # None => Ahead(c, c, echo[c])

\* Only a frame under way is kept.
FrameUnderWay ==
  \A c \in Conns :
    frame[c] # None => pc[c] \in {"ending", "lookup", "snapshot", "write"}

OrderInv ==
  /\ FramesCounted
  /\ PeersOnce
  /\ FrameUnderWay
  /\ FanoutIsNews
  /\ EchoIsNews
  /\ RelayedInOrderOnce
=============================================================================
