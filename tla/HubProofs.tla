------------------------------ MODULE HubProofs ------------------------------
(***************************************************************************)
(* Theorems about Hub for every value of its constants.                    *)
(***************************************************************************)
EXTENDS Hub, SequenceTheorems, TLAPS

-----------------------------------------------------------------------------
(***************************************************************************)
(* Lemmas about rooms.                                                     *)
(***************************************************************************)

\* RoomAdd keeps a sequence of connections and adds at most the new one.
LEMMA RoomAddProperties ==
  ASSUME NEW S, NEW s \in Seq(S), NEW c \in S
  PROVE  /\ RoomAdd(s, c) \in Seq(S)
         /\ \A i \in DOMAIN RoomAdd(s, c) :
              RoomAdd(s, c)[i] = c \/ \E j \in DOMAIN s : RoomAdd(s, c)[i] = s[j]
  BY DEF RoomAdd, Contains

\* RemoveAt closes the gap.
LEMMA RemoveAtElements ==
  ASSUME NEW S, NEW s \in Seq(S), NEW k \in DOMAIN s
  PROVE  /\ RemoveAt(s, k) \in Seq(S)
         /\ DOMAIN RemoveAt(s, k) = 1..Len(s)-1
         /\ \A i \in 1..Len(s)-1 : RemoveAt(s, k)[i] = s[IF i < k THEN i ELSE i + 1]
<1> DEFINE a == SubSeq(s, 1, k-1)
           b == SubSeq(s, k+1, Len(s))
<1>1. k \in 1..Len(s) /\ Len(s) \in Nat
  OBVIOUS
<1>2. \A i \in 1..Len(s) : s[i] \in S
  BY ElementOfSeq
<1>3. a \in Seq(S) /\ Len(a) = k-1 /\ \A i \in 1..k-1 : a[i] = s[i]
  <2>1. \A i \in 1..k-1 : s[i] \in S
    BY <1>1, <1>2
  <2>2. 1 \in Int /\ k-1 \in Int /\ (IF 1 <= k-1 THEN k-1 ELSE 0) = k-1
    BY <1>1
  <2>3. QED
    BY ONLY <2>1, <2>2, SubSeqProperties
<1>4. b \in Seq(S) /\ Len(b) = Len(s)-k /\ \A i \in 1..Len(s)-k : b[i] = s[k+i]
  <2>1. \A i \in k+1..Len(s) : s[i] \in S
    BY <1>1, <1>2
  <2>2. k+1 \in Int /\ Len(s) \in Int
    BY <1>1
  <2>3. QED
    BY <1>1, <2>1, <2>2, SubSeqProperties
<1> HIDE DEF a, b
<1>5. /\ a \o b \in Seq(S)
      /\ Len(a \o b) = Len(a) + Len(b)
      /\ \A i \in 1..Len(a)+Len(b) :
           (a \o b)[i] = IF i <= Len(a) THEN a[i] ELSE b[i - Len(a)]
  BY ONLY <1>3, <1>4, ConcatProperties
<1>6. Len(a) + Len(b) = Len(s)-1
  BY <1>1, <1>3, <1>4
<1>7. ASSUME NEW i \in 1..Len(s)-1
      PROVE  (a \o b)[i] = s[IF i < k THEN i ELSE i + 1]
  <2>1. CASE i < k
    BY <1>1, <1>3, <1>5, <1>6, <2>1
  <2>2. CASE ~(i < k)
    <3>1. i - (k-1) \in 1..Len(s)-k /\ k + (i - (k-1)) = i + 1
      BY <1>1, <2>2
    <3>2. (a \o b)[i] = b[i - (k-1)]
      BY <1>1, <1>3, <1>5, <1>6, <2>2
    <3>3. QED
      BY <1>4, <2>2, <3>1, <3>2
  <2>3. QED
    BY <2>1, <2>2
<1>8. RemoveAt(s, k) = a \o b
  BY DEF RemoveAt, a, b
<1>9. DOMAIN (a \o b) = 1..Len(s)-1
  BY ONLY <1>5, <1>6
<1>10. QED
  BY <1>5, <1>7, <1>8, <1>9

\* RoomRemove cuts the first occurrence out, if there is one.
LEMMA RoomRemoveCuts ==
  ASSUME NEW S, NEW s \in Seq(S), NEW c
  PROVE  \/ RoomRemove(s, c) = s /\ \A i \in DOMAIN s : s[i] # c
         \/ \E k \in DOMAIN s : s[k] = c /\ RoomRemove(s, c) = RemoveAt(s, k)
<1>1. CASE Contains(s, c)
  <2> DEFINE k == CHOOSE i \in DOMAIN s : s[i] = c
  <2>1. k \in DOMAIN s /\ s[k] = c
    BY <1>1, LenProperties DEF Contains
  <2>2. RoomRemove(s, c) = RemoveAt(s, k)
    BY <1>1 DEF RoomRemove
  <2> HIDE DEF k
  <2>3. QED
    BY <2>1, <2>2
<1>2. CASE ~Contains(s, c)
  BY <1>2, LenProperties DEF RoomRemove, Contains
<1>3. QED
  BY <1>1, <1>2

\* RoomRemove keeps a sequence of connections and adds none.
LEMMA RoomRemoveProperties ==
  ASSUME NEW S, NEW s \in Seq(S), NEW c
  PROVE  /\ RoomRemove(s, c) \in Seq(S)
         /\ \A i \in DOMAIN RoomRemove(s, c) :
              \E j \in DOMAIN s : RoomRemove(s, c)[i] = s[j]
<1>1. CASE RoomRemove(s, c) = s
  BY <1>1
<1>2. ASSUME NEW k \in DOMAIN s, RoomRemove(s, c) = RemoveAt(s, k)
      PROVE  /\ RoomRemove(s, c) \in Seq(S)
             /\ \A i \in DOMAIN RoomRemove(s, c) :
                  \E j \in DOMAIN s : RoomRemove(s, c)[i] = s[j]
  <2> DEFINE at(i) == IF i < k THEN i ELSE i + 1
  <2>1. \A i \in 1..Len(s)-1 : at(i) \in DOMAIN s
    OBVIOUS
  <2>2. /\ RoomRemove(s, c) \in Seq(S)
        /\ DOMAIN RoomRemove(s, c) = 1..Len(s)-1
        /\ \A i \in 1..Len(s)-1 : RoomRemove(s, c)[i] = s[at(i)]
    BY <1>2, RemoveAtElements
  <2> HIDE DEF at
  <2>3. QED
    BY <2>1, <2>2
<1>3. QED
  BY <1>1, <1>2, RoomRemoveCuts

\* A room that holds nobody twice does so after add and remove, and what was
\* removed is gone.
LEMMA RoomAddOnce ==
  ASSUME NEW S, NEW s \in Seq(S), NEW c \in S, Once(s)
  PROVE  Once(RoomAdd(s, c)) /\ RoomAdd(s, c) # << >> /\ Contains(RoomAdd(s, c), c)
<1>1. CASE Contains(s, c)
  BY <1>1 DEF RoomAdd, Contains
<1>2. CASE ~Contains(s, c)
  <2>1. \A i \in 1..Len(s) : s[i] # c
    BY <1>2, LenProperties DEF Contains
  <2>2. /\ DOMAIN Append(s, c) = 1..Len(s)+1 /\ Len(s) \in Nat /\ DOMAIN s = 1..Len(s)
        /\ \A i \in 1..Len(s) : Append(s, c)[i] = s[i]
        /\ Append(s, c)[Len(s)+1] = c
    OBVIOUS
  <2>3. Once(Append(s, c))
    BY <2>1, <2>2 DEF Once
  <2>4. Append(s, c) # << >> /\ Contains(Append(s, c), c)
    BY <2>2, LenProperties DEF Contains
  <2>5. QED
    BY <1>2, <2>3, <2>4 DEF RoomAdd
<1>3. QED
  BY <1>1, <1>2

LEMMA RoomRemoveOnce ==
  ASSUME NEW S, NEW s \in Seq(S), NEW c, Once(s)
  PROVE  /\ Once(RoomRemove(s, c))
         /\ \A i \in DOMAIN RoomRemove(s, c) : RoomRemove(s, c)[i] # c
<1>1. CASE RoomRemove(s, c) = s /\ \A i \in DOMAIN s : s[i] # c
  BY <1>1
<1>2. ASSUME NEW k \in DOMAIN s, s[k] = c, RoomRemove(s, c) = RemoveAt(s, k)
      PROVE  /\ Once(RoomRemove(s, c))
             /\ \A i \in DOMAIN RoomRemove(s, c) : RoomRemove(s, c)[i] # c
  <2> DEFINE at(i) == IF i < k THEN i ELSE i + 1
  <2>1. /\ k \in 1..Len(s) /\ Len(s) \in Nat /\ DOMAIN s = 1..Len(s)
        /\ \A i \in 1..Len(s)-1 : at(i) \in DOMAIN s /\ at(i) # k
        /\ \A i, j \in 1..Len(s)-1 : at(i) = at(j) => i = j
    OBVIOUS
  <2>2. /\ DOMAIN RoomRemove(s, c) = 1..Len(s)-1
        /\ \A i \in 1..Len(s)-1 : RoomRemove(s, c)[i] = s[at(i)]
    BY <1>2, RemoveAtElements
  <2> HIDE DEF at
  <2>3. QED
    BY <1>2, <2>1, <2>2 DEF Once
<1>3. QED
  BY <1>1, <1>2, RoomRemoveCuts
-----------------------------------------------------------------------------
(***************************************************************************)
(* IInv is inductive.                                                      *)
(***************************************************************************)

\* A connection without a uid is nobody's player.
LEMMA NoUidNoPlayer ==
  ASSUME NEW m \in Matches PROVE ~Contains(Players[m], None)
<1>1. Players[m] \in Seq(Users) /\ None \notin Users
  BY HubAssumption
<1>2. QED
  BY <1>1, ElementOfSeq DEF Contains

\* A received frame is counted, and gets its place.
LEMMA ReceiveCounts ==
  ASSUME TypeOK, NEW c \in Conns, Receive(c)
  PROVE  frames + 1 \in 1..MaxFrames /\ frames' = frames + 1 /\ frames' \in 0..MaxFrames
  BY HubAssumption DEF TypeOK, Receive

\* Nothing is joined, held or on its way in the initial state.
LEMMA IInvInit == Init => IInv
<1> SUFFICES ASSUME Init PROVE IInv
  OBVIOUS
<1> USE DEF Init
<1>1. TypeOK
  BY HubAssumption DEF TypeOK, PointerOrNone, PCs
<1>2. RoomsKeyed /\ PointersInsideMatch /\ JoinedArePlayers
  BY DEF RoomsKeyed, PointersInsideMatch, JoinedArePlayers
<1>3. MembersArePlayers
  BY DEF MembersArePlayers
<1>4. FramesOfMatch /\ PeersArePlayers /\ EchoInsideMatch /\ RelayedInsideMatch
  BY DEF FramesOfMatch, PeersArePlayers, EchoInsideMatch, RelayedInsideMatch
<1>5. QED
  BY <1>1, <1>2, <1>3, <1>4 DEF IInv

\* The goroutine of c moves on to label, outside a join and a fan-out, and at
\* most gives up the frame or the echo it held.
Control(c, label) ==
  /\ pc[c] \notin {"add", "snapshot", "write"}
  /\ label \in {"read", "lookup", "reply", "close", "unregister", "done"}
  /\ label = "lookup" => pc[c] = "ending"
  /\ pc' = [pc EXCEPT ![c] = label]
  /\ open' \in [Conns -> BOOLEAN] /\ conns' \in SUBSET Conns /\ frames' \in 0..MaxFrames
  /\ \/ frame' = frame
     \/ label = "close" /\ frame' = [frame EXCEPT ![c] = None]
  /\ \/ pc[c] # "reply" /\ echo' = echo
     \/ echo' = [echo EXCEPT ![c] = None]
  /\ UNCHANGED << uid, matchID, rooms, roomOf, members, room, peers, next, inbox >>

\* Such a step disturbs nothing the invariant speaks of.
LEMMA ControlStep ==
  ASSUME IInv, NEW c \in Conns, NEW label, Control(c, label)
  PROVE  IInv'
<1> USE DEF IInv, Control
<1>1. TypeOK'
  <2>1. /\ pc' \in [Conns -> PCs]
        /\ frame' \in [Conns -> PointerOrNone(Frame)]
        /\ echo' \in [Conns -> PointerOrNone(Frame)]
    BY DEF TypeOK, PCs, PointerOrNone
  <2>2. QED
    BY <2>1 DEF TypeOK
<1>2. (RoomsKeyed /\ PointersInsideMatch)'
  BY DEF TypeOK, RoomsKeyed, PointersInsideMatch
<1>3. MembersArePlayers'
  BY DEF MembersArePlayers, InUse, PlayerOf
<1>4. (JoinedArePlayers /\ FramesOfMatch)'
  BY HubAssumption DEF TypeOK, JoinedArePlayers, FramesOfMatch, PlayerOf
<1>5. PeersArePlayers'
  BY DEF TypeOK, PeersArePlayers, PlayerOf
<1>6. (EchoInsideMatch /\ RelayedInsideMatch)'
  BY DEF TypeOK, EchoInsideMatch, RelayedInsideMatch, PlayerOf
<1>7. QED
  BY <1>1, <1>2, <1>3, <1>4, <1>5, <1>6

\* The handshake fails, the connection is registered, its read loop ends, its
\* socket is closed; the store phase of a MATCH_END ends; a reply fails.
LEMMA LifecycleStep ==
  ASSUME IInv, NEW c \in Conns,
         \/ HandshakeFail(c) \/ Register(c) \/ ReadEnd(c) \/ CloseNow(c)
         \/ EndStored(c) \/ EndError(c) \/ ReplyFail(c)
  PROVE  IInv'
<1> USE DEF Control, Goto, roomVars, fanVars, ioVars
<1>1. open \in [Conns -> BOOLEAN] /\ conns \in SUBSET Conns /\ frames \in 0..MaxFrames
  BY DEF IInv, TypeOK
<1>2. HandshakeFail(c) => Control(c, "done")
  BY <1>1 DEF HandshakeFail
<1>3. Register(c) => Control(c, "read")
  BY <1>1 DEF Register
<1>4. ReadEnd(c) => Control(c, "close")
  BY <1>1 DEF ReadEnd
<1>5. CloseNow(c) => Control(c, "unregister")
  BY <1>1 DEF CloseNow, AfterClose
<1>6. EndStored(c) => Control(c, "lookup")
  BY <1>1 DEF EndStored
<1>7. EndError(c) => Control(c, "close")
  BY <1>1 DEF EndError
<1>8. ReplyFail(c) => Control(c, "close")
  BY <1>1 DEF ReplyFail
<1> HIDE DEF Control
<1>9. QED
  BY <1>2, <1>3, <1>4, <1>5, <1>6, <1>7, <1>8, ControlStep

\* A handler returned an error or an answer.
LEMMA HandledStep ==
  ASSUME IInv, NEW c \in Conns, Receive(c), Fail(c) \/ Respond(c)
  PROVE  IInv'
<1>1. /\ open \in [Conns -> BOOLEAN] /\ conns \in SUBSET Conns
      /\ pc[c] = "read" /\ frames' \in 0..MaxFrames
  BY ReceiveCounts DEF IInv, TypeOK, Receive
<1>2. Control(c, "close") \/ Control(c, "reply")
  BY <1>1 DEF Control, Fail, Respond, Goto, roomVars, fanVars
<1>3. QED
  BY <1>2, ControlStep

\* A dropped socket changes nothing the invariant speaks of.
LEMMA DropStep ==
  ASSUME IInv, NEW c \in Conns, Drop(c)
  PROVE  IInv'
<1> USE DEF IInv, Drop, Goto, hubVars, connVars, roomVars, fanVars, ioVars
<1>1. TypeOK'
  BY HubAssumption DEF TypeOK, PointerOrNone, PCs
<1>2. (RoomsKeyed /\ PointersInsideMatch /\ MembersArePlayers)'
  BY HubAssumption DEF TypeOK, PCs, RoomsKeyed, PointersInsideMatch,
           MembersArePlayers, InUse, PlayerOf
<1>3. (JoinedArePlayers /\ FramesOfMatch)'
  BY HubAssumption DEF TypeOK, PCs, JoinedArePlayers, FramesOfMatch, PlayerOf
<1>4. (PeersArePlayers /\ EchoInsideMatch /\ RelayedInsideMatch)'
  BY HubAssumption DEF TypeOK, PCs, PeersArePlayers, EchoInsideMatch,
           RelayedInsideMatch, PlayerOf
<1>5. QED
  BY <1>1, <1>2, <1>3, <1>4

\* The fan-out steps over the sender.
LEMMA SkipSelfStep ==
  ASSUME IInv, NEW c \in Conns, SkipSelf(c)
  PROVE  IInv'
<1> USE DEF IInv, SkipSelf, Writing, Peer, Goto, hubVars, connVars, roomVars, fanVars, ioVars
<1>1. TypeOK'
  BY HubAssumption DEF TypeOK, PointerOrNone, PCs
<1>2. (RoomsKeyed /\ PointersInsideMatch /\ MembersArePlayers)'
  BY HubAssumption DEF TypeOK, PCs, RoomsKeyed, PointersInsideMatch,
           MembersArePlayers, InUse, PlayerOf
<1>3. (JoinedArePlayers /\ FramesOfMatch)'
  BY HubAssumption DEF TypeOK, PCs, JoinedArePlayers, FramesOfMatch, PlayerOf
<1>4. (PeersArePlayers /\ EchoInsideMatch /\ RelayedInsideMatch)'
  BY HubAssumption DEF TypeOK, PCs, PeersArePlayers, EchoInsideMatch,
           RelayedInsideMatch, PlayerOf
<1>5. QED
  BY <1>1, <1>2, <1>3, <1>4

\* A TURN or MATCH_END of the match the connection is in was accepted.
LEMMA AcceptStep ==
  ASSUME IInv, NEW c \in Conns, Receive(c),
         NEW type \in {"turn", "end"}, NEW label \in {"lookup", "ending"},
         NEW m \in Matches, InRoom(c, m), Accept(c, Envelope(type, c, m), label)
  PROVE  IInv'
<1> USE DEF IInv, Receive, InRoom, Accept, Goto, hubVars, connVars, roomVars, fanVars, ioVars
<1> DEFINE e == Envelope(type, c, m)
<1>1. e \in Frame /\ e.from = c /\ e.match = m
  BY ReceiveCounts DEF Envelope, Frame
<1>2. frame' = [frame EXCEPT ![c] = e] /\ matchID[c] = m /\ matchID[c] # None
  OBVIOUS
<1> HIDE DEF e
<1>3. TypeOK'
  <2>1. frames' \in 0..MaxFrames
    BY ReceiveCounts
  <2>2. pc' \in [Conns -> PCs] /\ frame' \in [Conns -> PointerOrNone(Frame)]
    BY <1>1, <1>2 DEF TypeOK, PointerOrNone, PCs
  <2>3. QED
    BY <2>1, <2>2 DEF TypeOK
<1>4. (RoomsKeyed /\ PointersInsideMatch)'
  BY DEF TypeOK, PCs, RoomsKeyed, PointersInsideMatch
<1>5. MembersArePlayers'
  BY DEF MembersArePlayers, InUse, PlayerOf
<1>6. JoinedArePlayers'
  BY DEF TypeOK, PCs, JoinedArePlayers, PlayerOf
<1>7. FramesOfMatch'
  BY <1>1, <1>2 DEF TypeOK, PCs, FramesOfMatch
<1>8. (PeersArePlayers /\ EchoInsideMatch /\ RelayedInsideMatch)'
  BY DEF TypeOK, PCs, PeersArePlayers, EchoInsideMatch, RelayedInsideMatch, PlayerOf
<1>9. QED
  BY <1>3, <1>4, <1>5, <1>6, <1>7, <1>8

\* handleTurn fans a frame out, or fails.
LEMMA TurnStep ==
  ASSUME IInv, NEW c \in Conns, NEW m \in Matches, Turn(c, m)
  PROVE  IInv'
<1>1. CASE InRoom(c, m)
  BY <1>1, AcceptStep DEF Turn
<1>2. CASE ~InRoom(c, m)
  BY <1>2, HandledStep DEF Turn
<1>3. QED
  BY <1>1, <1>2

\* handleMatchEnd goes on to the store, or fails.
LEMMA MatchEndStep ==
  ASSUME IInv, NEW c \in Conns, NEW m \in Matches, MatchEnd(c, m)
  PROVE  IInv'
<1>1. CASE HasStore /\ InRoom(c, m)
  BY <1>1, AcceptStep DEF MatchEnd
<1>2. CASE ~(HasStore /\ InRoom(c, m))
  BY <1>2, HandledStep DEF MatchEnd
<1>3. QED
  BY <1>1, <1>2

\* The new uid is that of a connection that is in no room yet.
LEMMA ConnectStep ==
  ASSUME IInv, NEW c \in Conns, Connect(c)
  PROVE  IInv'
<1> USE DEF IInv, Connect, Goto, hubVars, connVars, roomVars, fanVars, ioVars
<1>1. uid' \in [Conns -> Users \union {None}]
  BY DEF TypeOK, PointerOrNone
<1>2. TypeOK'
  BY <1>1 DEF TypeOK, PointerOrNone, PCs
<1>3. ASSUME NEW d \in Conns, NEW m \in Matches, Contains(Players[m], uid[d])
      PROVE  d # c /\ uid'[d] = uid[d]
  BY <1>3, NoUidNoPlayer DEF TypeOK, JoinedArePlayers
<1>4. (RoomsKeyed /\ PointersInsideMatch)'
  BY DEF TypeOK, PCs, RoomsKeyed, PointersInsideMatch
<1>5. (JoinedArePlayers /\ FramesOfMatch)'
  BY HubAssumption DEF TypeOK, PCs, JoinedArePlayers, FramesOfMatch, PlayerOf
<1>6. MembersArePlayers'
  <2> SUFFICES ASSUME NEW r \in RoomObjs, InUse(r), NEW i \in DOMAIN members[r]
               PROVE  roomOf[r] \in Matches /\ Contains(Players[roomOf[r]], uid'[members[r][i]])
    BY DEF MembersArePlayers, InUse, PlayerOf
  <2>1. PlayerOf(members[r][i], roomOf[r]) /\ members[r][i] \in Conns
    BY DEF MembersArePlayers, TypeOK
  <2>2. QED
    BY <1>3, <2>1 DEF PlayerOf
<1>7. PeersArePlayers'
  <2> SUFFICES ASSUME NEW d \in Conns, NEW i \in DOMAIN peers[d]
               PROVE  /\ pc'[d] = "write"
                      /\ matchID[d] \in Matches
                      /\ Contains(Players[matchID[d]], uid'[peers[d][i]])
    BY DEF PeersArePlayers, PlayerOf
  <2>1. /\ pc[d] = "write" /\ d # c
        /\ PlayerOf(peers[d][i], matchID[d]) /\ peers[d][i] \in Conns
    BY DEF PeersArePlayers, TypeOK
  <2>2. QED
    BY <1>3, <2>1 DEF PlayerOf, TypeOK
<1>8. EchoInsideMatch'
  BY <1>3 DEF EchoInsideMatch, PlayerOf, TypeOK
<1>9. RelayedInsideMatch'
  <2> SUFFICES ASSUME NEW d \in Conns, NEW i \in DOMAIN inbox[d]
               PROVE  /\ inbox[d][i].match \in Matches
                      /\ Contains(Players[inbox[d][i].match], uid'[d])
                      /\ Contains(Players[inbox[d][i].match], uid'[inbox[d][i].from])
    BY DEF RelayedInsideMatch, PlayerOf
  <2>1. inbox[d][i] \in Frame
    BY DEF TypeOK
  <2>2. inbox[d][i].from \in Conns
    BY <2>1 DEF Frame
  <2>3. PlayerOf(d, inbox[d][i].match) /\ PlayerOf(inbox[d][i].from, inbox[d][i].match)
    BY DEF RelayedInsideMatch
  <2>4. QED
    BY <1>3, <2>2, <2>3 DEF PlayerOf
<1>10. QED
  BY <1>2, <1>4, <1>5, <1>6, <1>7, <1>8, <1>9

\* Leaving only shrinks a room.
LEMMA UnregisterStep ==
  ASSUME IInv, NEW c \in Conns, Unregister(c)
  PROVE  IInv'
<1> USE DEF IInv, Unregister, Goto, hubVars, connVars, roomVars, fanVars, ioVars
<1>1. /\ members' \in [RoomObjs -> Seq(Conns)]
      /\ \A r \in RoomObjs : \A i \in DOMAIN members'[r] :
           \E j \in DOMAIN members[r] : members'[r][i] = members[r][j]
  <2>1. CASE matchID[c] # None /\ rooms[matchID[c]] # None
    <3>1. rooms[matchID[c]] \in RoomObjs
      BY <2>1 DEF TypeOK, PointerOrNone
    <3>2. members[rooms[matchID[c]]] \in Seq(Conns)
      BY <3>1 DEF TypeOK
    <3>3. members' = [members EXCEPT ![rooms[matchID[c]]] =
                        RoomRemove(members[rooms[matchID[c]]], c)]
      BY <2>1
    <3>4. QED
      BY <3>1, <3>2, <3>3, RoomRemoveProperties DEF TypeOK
  <2>2. CASE ~(matchID[c] # None /\ rooms[matchID[c]] # None)
    BY <2>2 DEF TypeOK
  <2>3. QED
    BY <2>1, <2>2
<1>2. TypeOK'
  <2>1. inbox' \in [Conns -> Seq(Frame)]
    BY DEF TypeOK
  <2>2. QED
    BY <1>1, <2>1 DEF TypeOK, PointerOrNone, PCs
<1>3. (RoomsKeyed /\ PointersInsideMatch)'
  BY DEF TypeOK, PCs, RoomsKeyed, PointersInsideMatch
<1>4. (JoinedArePlayers /\ FramesOfMatch)'
  BY DEF TypeOK, PCs, JoinedArePlayers, FramesOfMatch, PlayerOf
<1>5. MembersArePlayers'
  <2>1. ASSUME NEW r \in RoomObjs, InUse(r)' PROVE InUse(r)
    BY <2>1 DEF InUse
  <2>2. QED
    BY <1>1, <2>1 DEF MembersArePlayers, PlayerOf
<1>6. (PeersArePlayers /\ EchoInsideMatch)'
  <2>1. PeersArePlayers'
    BY DEF TypeOK, PeersArePlayers, PlayerOf
  <2>2. EchoInsideMatch'
    BY DEF TypeOK, EchoInsideMatch, PlayerOf
  <2>3. QED
    BY <2>1, <2>2
<1>7. RelayedInsideMatch'
  BY DEF TypeOK, RelayedInsideMatch, PlayerOf
<1>8. QED
  BY <1>2, <1>3, <1>4, <1>5, <1>6, <1>7

\* An emptied room is only forgotten.
LEMMA UnregisterDropStep ==
  ASSUME IInv, NEW c \in Conns, UnregisterDrop(c)
  PROVE  IInv'
<1> USE DEF IInv, UnregisterDrop, Goto, hubVars, connVars, roomVars, fanVars, ioVars
<1>1. /\ rooms' \in [Matches -> RoomObjs \union {None}]
      /\ \A m \in Matches : rooms'[m] \in {rooms[m], None}
  BY DEF TypeOK, PointerOrNone, DropIfEmpty
<1>2. TypeOK'
  BY <1>1 DEF TypeOK, PointerOrNone, PCs
<1>3. (RoomsKeyed /\ PointersInsideMatch)'
  BY <1>1 DEF TypeOK, PCs, RoomsKeyed, PointersInsideMatch
<1>4. (JoinedArePlayers /\ FramesOfMatch)'
  BY DEF TypeOK, PCs, JoinedArePlayers, FramesOfMatch, PlayerOf
<1>5. MembersArePlayers'
  <2>1. ASSUME NEW r \in RoomObjs, InUse(r)' PROVE InUse(r)
    BY <1>1, <2>1, HubAssumption DEF InUse, TypeOK
  <2>2. QED
    BY <2>1 DEF MembersArePlayers, PlayerOf
<1>6. (PeersArePlayers /\ EchoInsideMatch /\ RelayedInsideMatch)'
  BY DEF TypeOK, PCs, PeersArePlayers, EchoInsideMatch, RelayedInsideMatch, PlayerOf
<1>7. QED
  BY <1>2, <1>3, <1>4, <1>5, <1>6

\* Joining a registered room, or a free one that is registered and wiped.
LEMMA JoinLockStep ==
  ASSUME IInv, NEW c \in Conns, NEW m \in Matches \union {None}, JoinLock(c, m)
  PROVE  IInv'
<1> USE DEF IInv
<1>1. /\ m \in Matches
      /\ pc[c] = "read" /\ pc' = [pc EXCEPT ![c] = "add"]
      /\ matchID' = [matchID EXCEPT ![c] = m]
      /\ PlayerOf(c, m)
      /\ UNCHANGED << open, uid, conns, frame, peers, next, echo, inbox >>
      /\ frames' = frames + 1
  BY DEF JoinLock, Receive, MayJoin, PlayerOf, roleOf, Goto, fanVars
<1>2. PICK r \in RoomObjs :
        /\ room' = [room EXCEPT ![c] = r]
        /\ rooms' = [rooms EXCEPT ![m] = r]
        /\ roomOf' = [roomOf EXCEPT ![r] = m]
        /\ \/ r = rooms[m] /\ members' = members
           \/ r \in FreeRooms /\ members' = [members EXCEPT ![r] = << >>]
  <2>1. CASE rooms[m] # None
    <3>1. rooms[m] \in RoomObjs /\ roomOf[rooms[m]] = m
      BY <1>1, <2>1 DEF TypeOK, PointerOrNone, RoomsKeyed
    <3>2. /\ rooms = [rooms EXCEPT ![m] = rooms[m]]
          /\ roomOf = [roomOf EXCEPT ![rooms[m]] = m]
      BY <1>1, <3>1 DEF TypeOK
    <3>3. /\ room' = [room EXCEPT ![c] = rooms[m]]
          /\ rooms' = rooms /\ roomOf' = roomOf /\ members' = members
      BY <2>1 DEF JoinLock
    <3>4. QED
      BY <3>1, <3>2, <3>3
  <2>2. CASE rooms[m] = None
    BY <2>2 DEF JoinLock, FreeRooms
  <2>3. QED
    BY <2>1, <2>2
<1>3. TypeOK'
  <2>1. members' \in [RoomObjs -> Seq(Conns)]
    <3>1. << >> \in Seq(Conns)
      OBVIOUS
    <3>2. CASE members' = members
      BY <3>2 DEF TypeOK
    <3>3. CASE members' = [members EXCEPT ![r] = << >>]
      BY <3>1, <3>3 DEF TypeOK
    <3>4. QED
      BY <1>2, <3>2, <3>3
  <2>2. /\ rooms' \in [Matches -> RoomObjs \union {None}]
        /\ roomOf' \in [RoomObjs -> Matches \union {None}]
        /\ room' \in [Conns -> RoomObjs \union {None}]
    BY <1>1, <1>2 DEF TypeOK, PointerOrNone
  <2>3. /\ pc' \in [Conns -> PCs]
        /\ matchID' \in [Conns -> Matches \union {None}]
        /\ frames' \in 0..MaxFrames
    <3>1. pc' \in [Conns -> PCs]
      BY <1>1 DEF TypeOK, PCs
    <3>2. frames' \in 0..MaxFrames
      BY ReceiveCounts DEF JoinLock
    <3>3. QED
      BY <1>1, <3>1, <3>2 DEF TypeOK, PointerOrNone
  <2>4. QED
    BY <1>1, <2>1, <2>2, <2>3 DEF TypeOK, PointerOrNone
<1>4. RoomsKeyed'
  BY <1>1, <1>2 DEF TypeOK, PointerOrNone, RoomsKeyed, FreeRooms
<1>5. PointersInsideMatch'
  BY <1>1, <1>2, HubAssumption
  DEF TypeOK, PointerOrNone, PCs, PointersInsideMatch, RoomsKeyed, FreeRooms
<1>6. MembersArePlayers'
  <2> SUFFICES ASSUME NEW q \in RoomObjs, InUse(q)', NEW i \in DOMAIN members'[q]
               PROVE  PlayerOf(members[q][i], roomOf[q])'
    BY DEF MembersArePlayers
  <2>1. CASE q = r
    <3>1. r = rooms[m] /\ members' = members
      <4>1. CASE r \in FreeRooms /\ members' = [members EXCEPT ![r] = << >>]
        BY <2>1, <4>1 DEF TypeOK
      <4>2. QED
        BY <1>2, <4>1
    <3>2. InUse(r) /\ roomOf[r] = m
      BY <1>1, <1>2, <3>1, HubAssumption DEF InUse, RoomsKeyed
    <3>3. QED
      BY <1>1, <1>2, <2>1, <3>1, <3>2 DEF MembersArePlayers, PlayerOf, TypeOK
  <2>2. CASE q # r
    <3>1. InUse(q)
      BY <1>1, <1>2, <2>2 DEF InUse, TypeOK
    <3>2. members'[q] = members[q] /\ roomOf'[q] = roomOf[q]
      BY <1>2, <2>2 DEF TypeOK
    <3>3. QED
      BY <1>1, <3>1, <3>2 DEF MembersArePlayers, PlayerOf
  <2>3. QED
    BY <2>1, <2>2
<1>7. JoinedArePlayers'
  BY <1>1 DEF TypeOK, PCs, JoinedArePlayers, PlayerOf
<1>8. FramesOfMatch'
  BY <1>1 DEF TypeOK, FramesOfMatch
<1>9. (PeersArePlayers /\ EchoInsideMatch)'
  <2>1. PeersArePlayers'
    BY <1>1 DEF TypeOK, PeersArePlayers, PlayerOf
  <2>2. EchoInsideMatch'
    BY <1>1 DEF TypeOK, EchoInsideMatch, PlayerOf
  <2>3. QED
    BY <2>1, <2>2
<1>10. RelayedInsideMatch'
  BY <1>1 DEF RelayedInsideMatch, PlayerOf
<1>11. QED
  BY <1>3, <1>4, <1>5, <1>6, <1>7, <1>8, <1>9, <1>10

\* The room added to is one of the joined match, registered or not.
LEMMA JoinAddStep ==
  ASSUME IInv, NEW c \in Conns, JoinAdd(c)
  PROVE  IInv'
<1> USE DEF IInv, JoinAdd, Goto, hubVars, connVars, roomVars, fanVars, ioVars
<1>1. room[c] \in RoomObjs /\ roomOf[room[c]] = matchID[c] /\ matchID[c] # None
  BY DEF PointersInsideMatch
<1>2. members[room[c]] \in Seq(Conns)
  BY <1>1 DEF TypeOK
<1>3. /\ members' \in [RoomObjs -> Seq(Conns)]
      /\ \A r \in RoomObjs : \A i \in DOMAIN members'[r] :
           \/ r = room[c] /\ members'[r][i] = c
           \/ \E j \in DOMAIN members[r] : members'[r][i] = members[r][j]
  BY <1>1, <1>2, RoomAddProperties DEF TypeOK
<1>4. TypeOK'
  BY <1>3 DEF TypeOK, PointerOrNone, PCs
<1>5. (RoomsKeyed /\ PointersInsideMatch)'
  BY DEF TypeOK, PCs, RoomsKeyed, PointersInsideMatch
<1>6. MembersArePlayers'
  <2>1. ASSUME NEW r \in RoomObjs, InUse(r)' PROVE InUse(r)
    BY <2>1, HubAssumption DEF InUse, TypeOK
  <2>2. PlayerOf(c, matchID[c]) /\ InUse(room[c])
    BY <1>1 DEF JoinedArePlayers, InUse
  <2>3. QED
    BY <1>1, <1>3, <2>1, <2>2 DEF MembersArePlayers, PlayerOf
<1>7. (JoinedArePlayers /\ FramesOfMatch)'
  BY DEF TypeOK, PCs, JoinedArePlayers, FramesOfMatch, PlayerOf
<1>8. (PeersArePlayers /\ EchoInsideMatch /\ RelayedInsideMatch)'
  BY DEF TypeOK, PCs, PeersArePlayers, EchoInsideMatch, RelayedInsideMatch, PlayerOf
<1>9. QED
  BY <1>4, <1>5, <1>6, <1>7, <1>8

\* The fan-out looks up the room of its own match.
LEMMA LookupStep ==
  ASSUME IInv, NEW c \in Conns, Lookup(c)
  PROVE  IInv'
<1> USE DEF IInv, Lookup, Goto, hubVars, connVars, roomVars, fanVars, ioVars
<1>1. matchID[c] \in Matches
  BY DEF FramesOfMatch, TypeOK, PointerOrNone
<1> DEFINE r == rooms[matchID[c]]
<1>2. r \in RoomObjs \union {None} /\ (r # None => roomOf[r] = matchID[c])
  BY <1>1 DEF TypeOK, PointerOrNone, RoomsKeyed
<1>3. /\ room' = [room EXCEPT ![c] = r]
      /\ pc' = [pc EXCEPT ![c] = IF r = None THEN "write" ELSE "snapshot"]
  OBVIOUS
<1>4. ASSUME NEW q \in RoomObjs, InUse(q)' PROVE InUse(q)
  BY <1>1, <1>4 DEF InUse, TypeOK
<1> HIDE DEF r
<1>5. TypeOK'
  BY <1>2, <1>3 DEF TypeOK, PointerOrNone, PCs
<1>6. RoomsKeyed'
  BY DEF RoomsKeyed
<1>7. PointersInsideMatch'
  BY <1>2, <1>3 DEF TypeOK, PCs, PointersInsideMatch, FramesOfMatch
<1>8. MembersArePlayers'
  BY <1>4 DEF MembersArePlayers, PlayerOf
<1>9. (JoinedArePlayers /\ FramesOfMatch)'
  BY <1>3 DEF TypeOK, PCs, JoinedArePlayers, FramesOfMatch, PlayerOf
<1>10. (PeersArePlayers /\ EchoInsideMatch /\ RelayedInsideMatch)'
  BY <1>3 DEF TypeOK, PCs, PeersArePlayers, EchoInsideMatch, RelayedInsideMatch, PlayerOf
<1>11. QED
  BY <1>5, <1>6, <1>7, <1>8, <1>9, <1>10

\* The snapshot holds the members of a room of the match.
LEMMA SnapshotStep ==
  ASSUME IInv, NEW c \in Conns, Snapshot(c)
  PROVE  IInv'
<1> USE DEF IInv, Snapshot, Goto, hubVars, connVars, roomVars, fanVars, ioVars
<1>1. /\ room[c] \in RoomObjs /\ roomOf[room[c]] = matchID[c] /\ InUse(room[c])
      /\ members[room[c]] \in Seq(Conns)
  BY DEF PointersInsideMatch, InUse, TypeOK
<1>2. \A i \in DOMAIN members[room[c]] : PlayerOf(members[room[c]][i], matchID[c])
  BY <1>1 DEF MembersArePlayers
<1>3. TypeOK'
  BY <1>1 DEF TypeOK, PointerOrNone, PCs
<1>4. (RoomsKeyed /\ PointersInsideMatch)'
  BY DEF TypeOK, PCs, RoomsKeyed, PointersInsideMatch
<1>5. MembersArePlayers'
  <2>1. ASSUME NEW r \in RoomObjs, InUse(r)' PROVE InUse(r)
    BY <2>1, HubAssumption DEF InUse, TypeOK
  <2>2. QED
    BY <2>1 DEF MembersArePlayers, PlayerOf
<1>6. (JoinedArePlayers /\ FramesOfMatch)'
  BY DEF TypeOK, PCs, JoinedArePlayers, FramesOfMatch, PlayerOf
<1>7. PeersArePlayers'
  <2>1. peers' = [peers EXCEPT ![c] = members[room[c]]] /\ pc'[c] = "write"
    BY DEF TypeOK
  <2>2. QED
    BY <1>2, <2>1 DEF TypeOK, PCs, PeersArePlayers, PlayerOf
<1>8. (EchoInsideMatch /\ RelayedInsideMatch)'
  BY DEF TypeOK, PCs, EchoInsideMatch, RelayedInsideMatch, PlayerOf
<1>9. QED
  BY <1>3, <1>4, <1>5, <1>6, <1>7, <1>8

\* What is appended to an inbox, by a fan-out or as the echo, is a frame of a
\* match both ends play.
LEMMA DeliveryStep ==
  ASSUME IInv, NEW d \in Conns, NEW f \in Frame,
         PlayerOf(d, f.match), PlayerOf(f.from, f.match),
         inbox' = [inbox EXCEPT ![d] = Append(@, f)], uid' = uid
  PROVE  inbox' \in [Conns -> Seq(Frame)] /\ RelayedInsideMatch'
<1>1. inbox[d] \in Seq(Frame)
  BY DEF IInv, TypeOK
<1>2. /\ Append(inbox[d], f) \in Seq(Frame)
      /\ \A i \in DOMAIN Append(inbox[d], f) :
           \/ i \in DOMAIN inbox[d] /\ Append(inbox[d], f)[i] = inbox[d][i]
           \/ Append(inbox[d], f)[i] = f
  BY <1>1
<1>3. QED
  BY <1>2 DEF IInv, TypeOK, RelayedInsideMatch, PlayerOf

\* A fan-out of a frame of the match delivers to players of that match.
LEMMA WritePeerStep ==
  ASSUME IInv, NEW c \in Conns, WritePeer(c)
  PROVE  IInv'
<1> USE DEF IInv, WritePeer, Writing, Peer, hubVars, connVars, roomVars, fanVars, ioVars
<1> DEFINE d == peers[c][next[c]]
<1>1. next[c] \in DOMAIN peers[c] /\ pc[c] = "write"
  BY DEF TypeOK
<1>2. d \in Conns /\ PlayerOf(d, matchID[c])
  BY <1>1 DEF TypeOK, PeersArePlayers
<1>3. /\ frame[c] \in Frame /\ frame[c].from = c /\ frame[c].match = matchID[c]
      /\ PlayerOf(c, matchID[c])
  BY <1>1 DEF FramesOfMatch, JoinedArePlayers
<1>4. inbox' = [inbox EXCEPT ![d] = Append(@, frame[c])]
  OBVIOUS
<1> HIDE DEF d
<1>5. inbox' \in [Conns -> Seq(Frame)] /\ RelayedInsideMatch'
  BY <1>2, <1>3, <1>4, DeliveryStep
<1>6. TypeOK'
  <2>1. next' \in [Conns -> Nat \ {0}]
    <3>1. next \in [Conns -> Nat \ {0}] /\ next' = [next EXCEPT ![c] = @ + 1]
      BY DEF TypeOK
    <3>2. \A k \in Nat \ {0} : k + 1 \in Nat \ {0}
      OBVIOUS
    <3>3. QED
      BY ONLY <3>1, <3>2
  <2>2. UNCHANGED << pc, open, uid, matchID, conns, rooms, roomOf, members, room,
                     frame, peers, echo, frames >>
    OBVIOUS
  <2>3. TypeOK
    OBVIOUS
  <2> HIDE DEF IInv, WritePeer, Writing, Peer
  <2>4. QED
    BY <1>5, <2>1, <2>2, <2>3 DEF TypeOK
<1>7. (RoomsKeyed /\ PointersInsideMatch /\ MembersArePlayers)'
  BY DEF RoomsKeyed, PointersInsideMatch, MembersArePlayers, InUse, PlayerOf
<1>8. (JoinedArePlayers /\ FramesOfMatch)'
  BY DEF JoinedArePlayers, FramesOfMatch, PlayerOf
<1>9. (PeersArePlayers /\ EchoInsideMatch)'
  BY DEF PeersArePlayers, EchoInsideMatch, PlayerOf
<1>10. QED
  BY <1>5, <1>6, <1>7, <1>8, <1>9

\* A failed write moves the fan-out on.
LEMMA WritePeerFailStep ==
  ASSUME IInv, NEW c \in Conns, WritePeerFail(c)
  PROVE  IInv'
<1> USE DEF IInv, WritePeerFail, Writing, Peer, GoOn, hubVars, connVars, roomVars,
            fanVars, ioVars
<1>1. open' \in [Conns -> BOOLEAN] /\ next' \in [Conns -> Nat \ {0}]
  <2>1. next \in [Conns -> Nat \ {0}] /\ open \in [Conns -> BOOLEAN]
    BY DEF TypeOK
  <2>2. next' \in [Conns -> Nat \ {0}]
    BY <2>1
  <2>3. open' \in [Conns -> BOOLEAN]
    BY <2>1
  <2>4. QED
    BY <2>2, <2>3
<1>2. TypeOK'
  BY <1>1 DEF TypeOK, PointerOrNone, PCs
<1>3. (RoomsKeyed /\ PointersInsideMatch /\ MembersArePlayers)'
  BY DEF RoomsKeyed, PointersInsideMatch, MembersArePlayers, InUse, PlayerOf
<1>4. (JoinedArePlayers /\ FramesOfMatch)'
  BY DEF JoinedArePlayers, FramesOfMatch, PlayerOf
<1>5. (PeersArePlayers /\ EchoInsideMatch /\ RelayedInsideMatch)'
  BY DEF PeersArePlayers, EchoInsideMatch, RelayedInsideMatch, PlayerOf
<1>6. QED
  BY <1>2, <1>3, <1>4, <1>5

\* What MATCH_END echoes is the frame just fanned out.
LEMMA FanoutDoneStep ==
  ASSUME IInv, NEW c \in Conns, FanoutDone(c)
  PROVE  IInv'
<1> USE DEF IInv
<1>1. /\ pc[c] = "write"
      /\ frame' = [frame EXCEPT ![c] = None]
      /\ peers' = [peers EXCEPT ![c] = << >>]
      /\ next' = [next EXCEPT ![c] = 1]
      /\ UNCHANGED << open, uid, matchID, conns, rooms, roomOf, members, room, inbox, frames >>
  BY DEF FanoutDone, roomVars
<1>2. \/ pc' = [pc EXCEPT ![c] = "reply"] /\ echo' = [echo EXCEPT ![c] = frame[c]]
      \/ pc' = [pc EXCEPT ![c] = "read"] /\ echo' = echo
  BY DEF FanoutDone, Goto
<1>3. /\ frame[c] \in Frame /\ frame[c].from = c
      /\ PlayerOf(c, frame[c].match)
  BY <1>1 DEF FramesOfMatch, JoinedArePlayers
<1>4. TypeOK'
  <2>1. pc' \in [Conns -> PCs] /\ echo' \in [Conns -> Frame \union {None}]
    BY <1>2, <1>3 DEF TypeOK, PointerOrNone, PCs
  <2>2. frame' \in [Conns -> PointerOrNone(Frame)] /\ next' \in [Conns -> Nat \ {0}]
    BY <1>1 DEF TypeOK, PointerOrNone
  <2>3. peers' \in [Conns -> Seq(Conns)]
    <3>1. << >> \in Seq(Conns)
      OBVIOUS
    <3>2. QED
      BY <1>1, <3>1 DEF TypeOK
  <2>4. echo' \in [Conns -> PointerOrNone(Frame)]
    BY <2>1 DEF PointerOrNone
  <2>5. TypeOK
    OBVIOUS
  <2> HIDE DEF IInv
  <2>6. QED
    BY <1>1, <2>1, <2>2, <2>3, <2>4, <2>5 DEF TypeOK
<1>5. (RoomsKeyed /\ PointersInsideMatch /\ MembersArePlayers)'
  BY <1>1, <1>2
  DEF TypeOK, PCs, RoomsKeyed, PointersInsideMatch, MembersArePlayers, InUse, PlayerOf
<1>6. (JoinedArePlayers /\ FramesOfMatch)'
  <2>1. JoinedArePlayers'
    BY <1>1, <1>2 DEF TypeOK, JoinedArePlayers, PlayerOf
  <2>2. FramesOfMatch'
    BY <1>1, <1>2 DEF TypeOK, FramesOfMatch
  <2>3. QED
    BY <2>1, <2>2
<1>7. PeersArePlayers'
  <2>1. SUFFICES ASSUME NEW d \in Conns, NEW i \in DOMAIN peers'[d]
                 PROVE  pc'[d] = "write" /\ PlayerOf(peers[d][i], matchID[d])'
    BY DEF PeersArePlayers
  <2>2. d # c
    <3>1. SUFFICES ASSUME d = c PROVE FALSE
      OBVIOUS
    <3>2. peers'[d] = << >>
      BY <1>1, <3>1 DEF TypeOK
    <3>3. QED
      BY <2>1, <3>2
  <2>3. pc'[d] = pc[d] /\ peers'[d] = peers[d] /\ uid' = uid /\ matchID' = matchID
    BY <1>1, <1>2, <2>2 DEF TypeOK
  <2>4. QED
    BY <2>1, <2>3 DEF PeersArePlayers, PlayerOf
<1>8. EchoInsideMatch'
  BY <1>1, <1>2, <1>3 DEF TypeOK, PCs, EchoInsideMatch, PlayerOf
<1>9. RelayedInsideMatch'
  BY <1>1 DEF RelayedInsideMatch, PlayerOf
<1>10. QED
  BY <1>4, <1>5, <1>6, <1>7, <1>8, <1>9

\* The echo goes to the player who sent it.
LEMMA ReplyStep ==
  ASSUME IInv, NEW c \in Conns, Reply(c)
  PROVE  IInv'
<1> USE DEF IInv, Reply, Goto, hubVars, connVars, roomVars, fanVars, ioVars
<1>1. inbox' \in [Conns -> Seq(Frame)] /\ RelayedInsideMatch'
  <2>1. CASE echo[c] = None
    BY <2>1 DEF TypeOK, RelayedInsideMatch, PlayerOf
  <2>2. CASE echo[c] # None
    <3>1. echo[c] \in Frame /\ echo[c].from = c /\ PlayerOf(c, echo[c].match)
      BY <2>2 DEF TypeOK, PointerOrNone, EchoInsideMatch
    <3>2. inbox' = [inbox EXCEPT ![c] = Append(@, echo[c])] /\ uid' = uid
      BY <2>2
    <3>3. QED
      BY <3>1, <3>2, DeliveryStep
  <2>3. QED
    BY <2>1, <2>2
<1>2. TypeOK'
  BY <1>1 DEF TypeOK, PointerOrNone, PCs
<1>3. (RoomsKeyed /\ PointersInsideMatch /\ MembersArePlayers)'
  BY DEF TypeOK, PCs, RoomsKeyed, PointersInsideMatch, MembersArePlayers, InUse, PlayerOf
<1>4. (JoinedArePlayers /\ FramesOfMatch)'
  BY DEF TypeOK, PCs, JoinedArePlayers, FramesOfMatch, PlayerOf
<1>5. PeersArePlayers'
  BY DEF TypeOK, PeersArePlayers, PlayerOf
<1>6. EchoInsideMatch'
  BY DEF TypeOK, EchoInsideMatch, PlayerOf
<1>7. QED
  BY <1>1, <1>2, <1>3, <1>4, <1>5, <1>6

\* After a restart no room is in use and no frame is on its way.
LEMMA RestartStep ==
  ASSUME IInv, Restart
  PROVE  IInv'
<1> USE DEF IInv, Restart
<1>1. TypeOK'
  BY DEF TypeOK, PointerOrNone, PCs, Running
<1>2. (RoomsKeyed /\ PointersInsideMatch /\ JoinedArePlayers /\ FramesOfMatch)'
  BY DEF TypeOK, PCs, Running, RoomsKeyed, PointersInsideMatch, JoinedArePlayers,
         FramesOfMatch
<1>3. MembersArePlayers'
  BY HubAssumption DEF MembersArePlayers, InUse
<1>4. (PeersArePlayers /\ EchoInsideMatch /\ RelayedInsideMatch)'
  BY DEF PeersArePlayers, EchoInsideMatch, RelayedInsideMatch
<1>5. QED
  BY <1>1, <1>2, <1>3, <1>4

\* The invariant speaks of the state only.
LEMMA StutterStep ==
  ASSUME IInv, UNCHANGED hubVars
  PROVE  IInv'
<1> USE DEF IInv, hubVars, connVars, roomVars, fanVars, ioVars
<1>1. TypeOK'
  BY DEF TypeOK
<1>2. (RoomsKeyed /\ PointersInsideMatch /\ MembersArePlayers)'
  BY DEF RoomsKeyed, PointersInsideMatch, MembersArePlayers, InUse, PlayerOf
<1>3. (JoinedArePlayers /\ FramesOfMatch)'
  BY DEF JoinedArePlayers, FramesOfMatch, PlayerOf
<1>4. (PeersArePlayers /\ EchoInsideMatch /\ RelayedInsideMatch)'
  BY DEF PeersArePlayers, EchoInsideMatch, RelayedInsideMatch, PlayerOf
<1>5. QED
  BY <1>1, <1>2, <1>3, <1>4

\* Every step of the hub keeps the invariant.
LEMMA IInvNext == IInv /\ [Next]_hubVars => IInv'
<1> SUFFICES ASSUME IInv, [Next]_hubVars PROVE IInv'
  OBVIOUS
<1>1. CASE Restart
  BY <1>1, RestartStep
<1>2. ASSUME NEW c \in Conns, Serve(c) PROVE IInv'
  BY <1>2, LifecycleStep, JoinAddStep, LookupStep, SnapshotStep,
     SkipSelfStep, WritePeerStep, WritePeerFailStep, FanoutDoneStep, ReplyStep,
     UnregisterStep, UnregisterDropStep DEF Serve
<1>3. ASSUME NEW c \in Conns, Client(c) PROVE IInv'
  <2>1. CASE Ping(c) \/ BadFrame(c)
    BY <2>1, HandledStep DEF Ping, BadFrame
  <2>2. ASSUME NEW m \in Matches \union {None}, JoinRefuse(c, m) PROVE IInv'
    BY <2>2, HandledStep DEF JoinRefuse
  <2>3. QED
    BY <1>3, <2>1, <2>2, ConnectStep, DropStep, JoinLockStep, TurnStep, MatchEndStep
    DEF Client
<1>4. ASSUME NEW c \in Conns, HandshakeFail(c) \/ ReadEnd(c) PROVE IInv'
  BY <1>4, LifecycleStep
<1>5. CASE UNCHANGED hubVars
  BY <1>5, StutterStep
<1>6. QED
  BY <1>1, <1>2, <1>3, <1>4, <1>5 DEF Next

-----------------------------------------------------------------------------
\* The inductive invariant of the hub holds in every reachable state.
THEOREM Invariance == Spec => []IInv
  BY IInvInit, IInvNext, PTL DEF Spec

\* Every variable of the hub keeps its type.
THEOREM HubTypeCorrect == Spec => []TypeOK
<1>1. IInv => TypeOK
  BY DEF IInv
<1>2. QED
  BY <1>1, Invariance, PTL

\* For any number of users, matches, connections and rooms, and any number of
\* frames: TURN and MATCH_END frames stay between the players of the match they
\* name, whatever joins, disconnects and restarts intervene.
THEOREM RelayIsolation == Spec => []RelayedInsideMatch
<1>1. IInv => RelayedInsideMatch
  BY DEF IInv
<1>2. QED
  BY <1>1, Invariance, PTL

-----------------------------------------------------------------------------
(***************************************************************************)
(* RoomsInv is inductive, where IInv holds.                                *)
(***************************************************************************)

\* There are no rooms in the initial state.
LEMMA RoomsInit == Init => RoomsInv
  BY DEF Init, RoomsInv, MembersOnce, Once, ServedAreRegistered, NoEmptyRoomLeaks,
         RoomsHoldServedConns

\* What a step of c does that takes no part in a join or a leave: rooms stay as
\* they are, nobody is unregistered, and whoever is to add or to drop still is.
OutsideRooms(c) ==
  /\ UNCHANGED << rooms, members, matchID >>
  /\ conns \subseteq conns'
  /\ pc' \in [Conns -> PCs]
  /\ \A d \in Conns \ {c} : pc'[d] = pc[d] /\ room'[d] = room[d]
  /\ \/ pc'[c] = pc[c] /\ room'[c] = room[c]
     \/ /\ pc[c] \notin {"add", "leave"}
        /\ pc'[c] \notin {"new", "register", "leave", "done"} => c \in conns'

\* Such a step disturbs nothing the invariant speaks of.
LEMMA OutsideRoomsStep ==
  ASSUME IInv, RoomsInv, NEW c \in Conns, OutsideRooms(c)
  PROVE  RoomsInv'
<1> USE DEF RoomsInv, OutsideRooms
<1>1. MembersOnce'
  BY DEF MembersOnce, Once
<1>2. ServedAreRegistered'
  BY DEF ServedAreRegistered
<1>3. NoEmptyRoomLeaks'
  <2>1. \A r : Joining(r) => Joining(r)'
    BY DEF Joining
  <2>2. \A m : Leaving(m) => Leaving(m)'
    BY DEF Leaving
  <2>3. QED
    BY <2>1, <2>2 DEF NoEmptyRoomLeaks
<1>4. RoomsHoldServedConns'
  BY DEF RoomsHoldServedConns
<1>5. QED
  BY <1>1, <1>2, <1>3, <1>4

\* Handshakes, frames that are no joins, their handling and fan-out.
LEMMA OutsideRoomsActions ==
  ASSUME IInv, RoomsInv, NEW c \in Conns,
         \/ Connect(c) \/ HandshakeFail(c) \/ Register(c) \/ ReadEnd(c) \/ CloseNow(c)
         \/ Drop(c) \/ Ping(c) \/ BadFrame(c)
         \/ \E m \in Matches \union {None} : JoinRefuse(c, m)
         \/ \E m \in Matches : Turn(c, m) \/ MatchEnd(c, m)
         \/ EndStored(c) \/ EndError(c) \/ Lookup(c) \/ Snapshot(c)
         \/ SkipSelf(c) \/ WritePeer(c) \/ WritePeerFail(c) \/ FanoutDone(c)
         \/ Reply(c) \/ ReplyFail(c)
  PROVE  OutsideRooms(c)
<1> USE DEF OutsideRooms, connVars, roomVars, fanVars, ioVars, Goto
<1>1. /\ pc \in [Conns -> PCs] /\ conns \subseteq Conns /\ room \in [Conns -> PointerOrNone(RoomObjs)]
      /\ pc[c] \notin {"new", "register", "leave", "done"} => c \in conns
  BY DEF IInv, TypeOK, RoomsInv, ServedAreRegistered
<1>2. ASSUME NEW label, label \in PCs, pc' = [pc EXCEPT ![c] = label]
      PROVE  pc' \in [Conns -> PCs] /\ pc'[c] = label /\ \A d \in Conns \ {c} : pc'[d] = pc[d]
  BY <1>1, <1>2
<1> USE <1>1
<1>3. CASE Connect(c) \/ HandshakeFail(c) \/ Register(c) \/ ReadEnd(c) \/ CloseNow(c)
  BY <1>3 DEF Connect, HandshakeFail, Register, ReadEnd, CloseNow, AfterClose, PCs
<1>4. CASE Drop(c) \/ SkipSelf(c) \/ WritePeer(c) \/ WritePeerFail(c)
  BY <1>4 DEF Drop, SkipSelf, WritePeer, WritePeerFail
<1>5. ASSUME Receive(c), Fail(c) \/ Respond(c) PROVE OutsideRooms(c)
  BY <1>5 DEF Receive, Fail, Respond, PCs
<1>6. CASE Ping(c) \/ BadFrame(c)
  BY <1>5, <1>6 DEF Ping, BadFrame
<1>7. CASE \E m \in Matches \union {None} : JoinRefuse(c, m)
  BY <1>5, <1>7 DEF JoinRefuse
<1>8. ASSUME NEW m \in Matches, Turn(c, m) \/ MatchEnd(c, m) PROVE OutsideRooms(c)
  <2>1. CASE Fail(c)
    BY <1>5, <1>8, <2>1 DEF Turn, MatchEnd
  <2>2. ASSUME NEW e, NEW label \in {"lookup", "ending"}, Receive(c), Accept(c, e, label)
        PROVE  OutsideRooms(c)
    BY <2>2 DEF Receive, Accept, PCs
  <2>3. QED
    BY <1>8, <2>1, <2>2 DEF Turn, MatchEnd
<1>9. CASE EndStored(c) \/ EndError(c)
  BY <1>9 DEF EndStored, EndError, PCs
<1>10. CASE Lookup(c) \/ Snapshot(c)
  <2>1. /\ pc[c] \in {"lookup", "snapshot"}
        /\ \E label \in {"write", "snapshot"} : pc' = [pc EXCEPT ![c] = label]
        /\ \E r : room' = [room EXCEPT ![c] = r]
        /\ UNCHANGED << conns, rooms, members, matchID >>
    BY <1>10 DEF Lookup, Snapshot
  <2>2. QED
    BY <2>1 DEF PCs
<1>11. CASE FanoutDone(c) \/ Reply(c) \/ ReplyFail(c)
  BY <1>11 DEF FanoutDone, Reply, ReplyFail, PCs
<1>12. QED
  BY <1>3, <1>4, <1>6, <1>7, <1>8, <1>9, <1>10, <1>11

\* A room is found or made by somebody who is to join it; the members of a match
\* that shares no player with another do not move.
LEMMA JoinLockRooms ==
  ASSUME IInv, RoomsInv, NEW c \in Conns, NEW m \in Matches \union {None}, JoinLock(c, m)
  PROVE  RoomsInv'
<1> USE DEF IInv
<1>1. /\ m \in Matches
      /\ pc[c] = "read" /\ pc' = [pc EXCEPT ![c] = "add"]
      /\ matchID' = [matchID EXCEPT ![c] = m]
      /\ PlayerOf(c, m)
      /\ UNCHANGED << uid, conns >>
  BY DEF JoinLock, Receive, MayJoin, PlayerOf, roleOf, Goto, fanVars
<1>2. PICK r \in RoomObjs :
        /\ room' = [room EXCEPT ![c] = r]
        /\ \/ /\ r = rooms[m] /\ r # None
              /\ UNCHANGED << rooms, members >>
           \/ /\ r \in FreeRooms /\ rooms[m] = None
              /\ rooms' = [rooms EXCEPT ![m] = r]
              /\ members' = [members EXCEPT ![r] = << >>]
  <2>1. rooms[m] \in RoomObjs \union {None}
    BY <1>1 DEF TypeOK, PointerOrNone
  <2>2. QED
    BY <2>1 DEF JoinLock, FreeRooms
<1>3. r # None /\ room'[c] = r /\ pc'[c] = "add"
  BY <1>1, <1>2, HubAssumption DEF TypeOK
<1>4. /\ rooms'[m] = r
      /\ \A q \in Matches \ {m} : rooms'[q] = rooms[q]
      /\ \A q \in Matches : rooms'[q] # None /\ rooms'[q] = r => q = m
  BY <1>1, <1>2, HubAssumption DEF TypeOK, RoomsKeyed, FreeRooms
<1>5. /\ \A q \in RoomObjs \ {r} : members'[q] = members[q]
      /\ members'[r] = members[r] \/ members'[r] = << >>
  BY <1>2 DEF TypeOK
<1>6. MembersOnce'
  BY <1>5 DEF RoomsInv, MembersOnce, Once
<1>7. ServedAreRegistered'
  BY <1>1 DEF RoomsInv, ServedAreRegistered, TypeOK
<1>8. NoEmptyRoomLeaks'
  <2> SUFFICES ASSUME NEW q \in Matches, rooms'[q] # None
               PROVE  (members[rooms[q]] # << >> \/ Joining(rooms[q]) \/ Leaving(q))'
    BY DEF NoEmptyRoomLeaks
  <2>1. CASE q = m
    BY <1>3, <1>4, <2>1 DEF Joining
  <2>2. CASE q # m
    <3>1. rooms'[q] = rooms[q] /\ rooms[q] \in RoomObjs /\ rooms[q] # r
      BY <1>4, <2>2 DEF TypeOK, PointerOrNone
    <3>2. members'[rooms[q]] = members[rooms[q]]
      BY <1>5, <3>1
    <3>3. Joining(rooms[q]) => Joining(rooms[q])'
      BY <1>1, <1>2, <3>1 DEF Joining, TypeOK
    <3>4. Leaving(q) => Leaving(q)'
      BY <1>1 DEF Leaving, TypeOK
    <3>5. QED
      BY <3>1, <3>2, <3>3, <3>4 DEF RoomsInv, NoEmptyRoomLeaks
  <2>3. QED
    BY <2>1, <2>2
<1>9. RoomsHoldServedConns'
  <2> SUFFICES ASSUME DisjointMatches, NEW q \in Matches, rooms'[q] # None,
                      NEW i \in DOMAIN members'[rooms'[q]]
               PROVE  LET d == members'[rooms'[q]][i] IN d \in conns' /\ matchID'[d] = q
    BY DEF RoomsHoldServedConns, DisjointMatches
  <2> DEFINE d == members'[rooms'[q]][i]
  <2>1. rooms'[q] = rooms[q] /\ rooms[q] \in RoomObjs /\ members'[rooms[q]] = members[rooms[q]]
    <3>1. CASE r \in FreeRooms /\ rooms' = [rooms EXCEPT ![m] = r] /\ members' = [members EXCEPT ![r] = << >>]
      <4>1. rooms'[q] # r
        BY <3>1 DEF TypeOK
      <4>2. q # m
        BY <1>4, <4>1
      <4>3. QED
        BY <1>4, <1>5, <4>1, <4>2 DEF TypeOK, PointerOrNone
    <3>2. CASE UNCHANGED << rooms, members >>
      BY <3>2 DEF TypeOK, PointerOrNone
    <3>3. QED
      BY <1>2, <3>1, <3>2
  <2>2. d \in Conns /\ d \in conns /\ matchID[d] = q
    BY <2>1 DEF RoomsInv, RoomsHoldServedConns, TypeOK
  <2>3. d = c => q = m
    <3>1. PlayerOf(d, roomOf[rooms[q]]) /\ roomOf[rooms[q]] = q
      BY <2>1 DEF MembersArePlayers, InUse, RoomsKeyed
    <3>2. uid[c] \in Users
      BY <1>1, NoUidNoPlayer DEF PlayerOf, TypeOK, PointerOrNone
    <3>3. QED
      BY <1>1, <3>1, <3>2 DEF DisjointMatches, PlayerOf
  <2> HIDE DEF d
  <2>4. QED
    BY <1>1, <2>2, <2>3 DEF d, TypeOK
<1>10. QED
  BY <1>6, <1>7, <1>8, <1>9 DEF RoomsInv

\* Whoever is added is served, and in the match of the room.
LEMMA JoinAddRooms ==
  ASSUME IInv, RoomsInv, NEW c \in Conns, JoinAdd(c)
  PROVE  RoomsInv'
<1> USE DEF IInv
<1> DEFINE r == room[c]
<1>1. /\ pc[c] = "add" /\ pc' = [pc EXCEPT ![c] = "reply"]
      /\ members' = [members EXCEPT ![r] = RoomAdd(members[r], c)]
      /\ room' = [room EXCEPT ![c] = None]
      /\ UNCHANGED << matchID, conns, rooms >>
  BY DEF JoinAdd, Goto
<1>2. r \in RoomObjs /\ roomOf[r] = matchID[c] /\ members[r] \in Seq(Conns)
  BY <1>1 DEF PointersInsideMatch, TypeOK
<1> HIDE DEF r
<1>3. /\ members'[r] = RoomAdd(members[r], c)
      /\ \A q \in RoomObjs \ {r} : members'[q] = members[q]
  BY <1>1, <1>2 DEF TypeOK
<1>4. MembersOnce'
  <2>1. Once(members[r])
    BY <1>2 DEF RoomsInv, MembersOnce
  <2>2. Once(RoomAdd(members[r], c))
    BY <1>2, <2>1, RoomAddOnce
  <2>3. QED
    BY <1>3, <2>2 DEF RoomsInv, MembersOnce, Once
<1>5. ServedAreRegistered'
  BY <1>1 DEF RoomsInv, ServedAreRegistered, TypeOK
<1>6. NoEmptyRoomLeaks'
  <2> SUFFICES ASSUME NEW q \in Matches, rooms[q] # None
               PROVE  (members[rooms[q]] # << >> \/ Joining(rooms[q]) \/ Leaving(q))'
    BY <1>1 DEF NoEmptyRoomLeaks
  <2>1. rooms[q] \in RoomObjs /\ rooms'[q] = rooms[q]
    BY <1>1 DEF TypeOK, PointerOrNone
  <2>2. CASE rooms[q] = r
    <3>1. Once(members[r])
      BY <1>2 DEF RoomsInv, MembersOnce
    <3>2. RoomAdd(members[r], c) # << >>
      BY <1>2, <3>1, RoomAddOnce
    <3>3. QED
      BY <1>3, <2>1, <2>2, <3>2
  <2>3. CASE rooms[q] # r
    <3>1. members'[rooms[q]] = members[rooms[q]]
      BY <1>3, <2>1, <2>3
    <3>2. Joining(rooms[q]) => Joining(rooms[q])'
      BY <1>1, <2>3 DEF Joining, TypeOK, r
    <3>3. Leaving(q) => Leaving(q)'
      BY <1>1 DEF Leaving, TypeOK
    <3>4. QED
      BY <2>1, <3>1, <3>2, <3>3 DEF RoomsInv, NoEmptyRoomLeaks
  <2>4. QED
    BY <2>2, <2>3
<1>7. RoomsHoldServedConns'
  <2> SUFFICES ASSUME DisjointMatches, NEW q \in Matches, rooms[q] # None,
                      NEW i \in DOMAIN members'[rooms[q]]
               PROVE  members'[rooms[q]][i] \in conns /\ matchID[members'[rooms[q]][i]] = q
    BY <1>1 DEF RoomsHoldServedConns, DisjointMatches
  <2>1. rooms[q] \in RoomObjs
    BY DEF TypeOK, PointerOrNone
  <2>2. \A j \in DOMAIN members[rooms[q]] :
          members[rooms[q]][j] \in conns /\ matchID[members[rooms[q]][j]] = q
    BY DEF RoomsInv, RoomsHoldServedConns
  <2>3. CASE rooms[q] = r
    <3>1. matchID[c] = q /\ c \in conns
      BY <1>1, <1>2, <2>3 DEF RoomsKeyed, RoomsInv, ServedAreRegistered
    <3>2. \/ members'[r][i] = c
          \/ \E j \in DOMAIN members[r] : members'[r][i] = members[r][j]
      BY <1>2, <1>3, <2>3, RoomAddProperties
    <3>3. QED
      BY <2>2, <2>3, <3>1, <3>2
  <2>4. CASE rooms[q] # r
    BY <1>3, <2>1, <2>2, <2>4
  <2>5. QED
    BY <2>3, <2>4
<1>8. QED
  BY <1>4, <1>5, <1>6, <1>7 DEF RoomsInv

\* Whoever leaves is in the room of its match at most, and there once.
LEMMA UnregisterRooms ==
  ASSUME IInv, RoomsInv, NEW c \in Conns, Unregister(c)
  PROVE  RoomsInv'
<1> USE DEF IInv
<1>1. /\ conns' = conns \ {c} /\ pc[c] = "unregister"
      /\ pc' \in {[pc EXCEPT ![c] = "leave"], [pc EXCEPT ![c] = "done"]}
      /\ UNCHANGED << matchID, rooms, room >>
  BY DEF Unregister, Goto
<1>2. \A r \in RoomObjs :
        \/ members'[r] = members[r]
        \/ /\ members'[r] = RoomRemove(members[r], c)
           /\ matchID[c] # None /\ r = rooms[matchID[c]] /\ pc'[c] = "leave"
  BY DEF Unregister, Goto, TypeOK
<1>3. \A r \in RoomObjs : members[r] \in Seq(Conns) /\ Once(members[r])
  BY DEF RoomsInv, MembersOnce, TypeOK
<1>4. MembersOnce'
  <2>1. \A r \in RoomObjs : Once(members'[r])
    BY <1>2, <1>3, RoomRemoveOnce
  <2>2. QED
    BY <2>1 DEF MembersOnce, Once
<1>5. ServedAreRegistered'
  BY <1>1 DEF RoomsInv, ServedAreRegistered, TypeOK
<1>6. NoEmptyRoomLeaks'
  <2> SUFFICES ASSUME NEW m \in Matches, rooms[m] # None
               PROVE  (members[rooms[m]] # << >> \/ Joining(rooms[m]) \/ Leaving(m))'
    BY <1>1 DEF NoEmptyRoomLeaks
  <2>1. rooms[m] \in RoomObjs /\ rooms'[m] = rooms[m]
    BY <1>1 DEF TypeOK, PointerOrNone
  <2>2. CASE members'[rooms[m]] = members[rooms[m]]
    <3>1. Joining(rooms[m]) => Joining(rooms[m])'
      BY <1>1 DEF Joining, TypeOK
    <3>2. Leaving(m) => Leaving(m)'
      BY <1>1 DEF Leaving, TypeOK
    <3>3. QED
      BY <2>1, <2>2, <3>1, <3>2 DEF RoomsInv, NoEmptyRoomLeaks
  <2>3. CASE matchID[c] # None /\ rooms[m] = rooms[matchID[c]] /\ pc'[c] = "leave"
    <3>1. matchID[c] = m
      BY <2>1, <2>3, HubAssumption DEF RoomsKeyed, TypeOK, PointerOrNone
    <3>2. QED
      BY <1>1, <2>3, <3>1 DEF Leaving
  <2>4. QED
    BY <1>2, <2>1, <2>2, <2>3
<1>7. RoomsHoldServedConns'
  <2> SUFFICES ASSUME DisjointMatches, NEW m \in Matches, rooms[m] # None,
                      NEW i \in DOMAIN members'[rooms[m]]
               PROVE  LET d == members'[rooms[m]][i] IN d \in conns' /\ matchID[d] = m
    BY <1>1 DEF RoomsHoldServedConns, DisjointMatches
  <2> DEFINE d == members'[rooms[m]][i]
  <2>1. rooms[m] \in RoomObjs
    BY DEF TypeOK, PointerOrNone
  <2>2. \E j \in DOMAIN members[rooms[m]] : d = members[rooms[m]][j]
    BY <1>2, <1>3, <2>1, RoomRemoveProperties
  <2>3. d \in conns /\ matchID[d] = m
    BY <2>2 DEF RoomsInv, RoomsHoldServedConns
  <2>4. d # c
    <3>1. SUFFICES ASSUME d = c PROVE FALSE
      OBVIOUS
    <3>2. matchID[c] # None /\ rooms[matchID[c]] # None
      BY <2>3, <3>1, HubAssumption DEF TypeOK
    <3>3. members'[rooms[m]] = RoomRemove(members[rooms[m]], c)
      BY <2>1, <2>3, <3>1, <3>2 DEF Unregister, TypeOK
    <3>4. QED
      BY <1>3, <2>1, <3>1, <3>3, RoomRemoveOnce
  <2> HIDE DEF d
  <2>5. QED
    BY <1>1, <2>3, <2>4 DEF d
<1>8. QED
  BY <1>4, <1>5, <1>6, <1>7 DEF RoomsInv

\* What is dropped was empty, so what stays has a member.
LEMMA UnregisterDropRooms ==
  ASSUME IInv, RoomsInv, NEW c \in Conns, UnregisterDrop(c)
  PROVE  RoomsInv'
<1> USE DEF IInv
<1>1. /\ pc[c] = "leave" /\ pc' = [pc EXCEPT ![c] = "done"]
      /\ UNCHANGED << matchID, members, room, conns >>
  BY DEF UnregisterDrop, Goto, ioVars, fanVars
<1>2. \A m \in Matches : rooms'[m] # None =>
        /\ rooms'[m] = rooms[m]
        /\ m = matchID[c] => members[rooms[m]] # << >>
  BY DEF UnregisterDrop, DropIfEmpty, RoomEmpty, TypeOK
<1>3. MembersOnce'
  BY <1>1 DEF RoomsInv, MembersOnce, Once
<1>4. ServedAreRegistered'
  BY <1>1 DEF RoomsInv, ServedAreRegistered, TypeOK
<1>5. NoEmptyRoomLeaks'
  <2>1. \A r : Joining(r) => Joining(r)'
    BY <1>1 DEF Joining, TypeOK
  <2>2. \A m \in Matches : m # matchID[c] /\ Leaving(m) => Leaving(m)'
    BY <1>1 DEF Leaving, TypeOK
  <2>3. QED
    BY <1>1, <1>2, <2>1, <2>2 DEF RoomsInv, NoEmptyRoomLeaks
<1>6. RoomsHoldServedConns'
  BY <1>1, <1>2 DEF RoomsInv, RoomsHoldServedConns, DisjointMatches
<1>7. QED
  BY <1>3, <1>4, <1>5, <1>6 DEF RoomsInv

\* After a restart there are no rooms.
LEMMA RestartRooms ==
  ASSUME IInv, RoomsInv, Restart
  PROVE  RoomsInv'
  BY DEF Restart, Running, IInv, TypeOK, RoomsInv, MembersOnce, Once, ServedAreRegistered,
         NoEmptyRoomLeaks, RoomsHoldServedConns

\* The invariant speaks of the state only.
LEMMA StutterRooms ==
  ASSUME IInv, RoomsInv, UNCHANGED hubVars
  PROVE  RoomsInv'
<1>1. CASE Conns = {}
  BY <1>1 DEF IInv, TypeOK, hubVars, connVars, roomVars, RoomsInv, MembersOnce, Once,
     ServedAreRegistered, NoEmptyRoomLeaks, Joining, Leaving, RoomsHoldServedConns
<1>2. ASSUME NEW c \in Conns PROVE OutsideRooms(c)
  BY DEF hubVars, connVars, roomVars, OutsideRooms, IInv, TypeOK
<1>3. QED
  BY <1>1, <1>2, OutsideRoomsStep

\* Every step of the hub keeps it.
LEMMA RoomsNext == IInv /\ RoomsInv /\ [Next]_hubVars => RoomsInv'
<1> SUFFICES ASSUME IInv, RoomsInv, [Next]_hubVars PROVE RoomsInv'
  OBVIOUS
<1>1. CASE Restart
  BY <1>1, RestartRooms
<1>2. ASSUME NEW c \in Conns, Serve(c) PROVE RoomsInv'
  BY <1>2, OutsideRoomsActions, OutsideRoomsStep, JoinAddRooms, UnregisterRooms,
     UnregisterDropRooms DEF Serve
<1>3. ASSUME NEW c \in Conns, Client(c) PROVE RoomsInv'
  BY <1>3, OutsideRoomsActions, OutsideRoomsStep, JoinLockRooms DEF Client
<1>4. ASSUME NEW c \in Conns, HandshakeFail(c) \/ ReadEnd(c) PROVE RoomsInv'
  BY <1>4, OutsideRoomsActions, OutsideRoomsStep
<1>5. CASE UNCHANGED hubVars
  BY <1>5, StutterRooms
<1>6. QED
  BY <1>1, <1>2, <1>3, <1>4, <1>5 DEF Next

\* The registry and the rooms agree in every reachable state.
THEOREM RoomsInvariance == Spec => []RoomsInv
  BY RoomsInit, RoomsNext, Invariance, PTL DEF Spec

\* No interleaving of joins, disconnects and restarts leaves an empty room in the
\* registry (rooms.go, hub.go unregister).
THEOREM NoRoomLeaks == Spec => []NoEmptyRoomLeaks
<1>1. RoomsInv => NoEmptyRoomLeaks
  BY DEF RoomsInv
<1>2. QED
  BY <1>1, RoomsInvariance, PTL

\* When no user plays two matches, whoever is in a registered room is served, in
\* that match (hub.go unregister, match_lifecycle.go handleJoinRoom).
THEOREM ServedRooms == Spec => []RoomsHoldServedConns
<1>1. RoomsInv => RoomsHoldServedConns
  BY DEF RoomsInv
<1>2. QED
  BY <1>1, RoomsInvariance, PTL

-----------------------------------------------------------------------------
(***************************************************************************)
(* ReachInv is inductive, where IInv holds.                                *)
(***************************************************************************)

\* What was in an inbox stays when a frame is appended, which is in it then.
LEMMA AppendContains ==
  ASSUME NEW S, NEW s \in Seq(S), NEW e \in S
  PROVE  /\ Contains(Append(s, e), e)
         /\ \A f : Contains(s, f) => Contains(Append(s, e), f)
<1>1. /\ Len(Append(s, e)) = Len(s) + 1 /\ Len(s) \in Nat
      /\ \A i \in 1..Len(s) : Append(s, e)[i] = s[i]
      /\ Append(s, e)[Len(s) + 1] = e
  OBVIOUS
<1>2. QED
  BY <1>1 DEF Contains

\* Nobody is connected and nothing written in the initial state.
LEMMA ReachInit == Init => ReachInv
  BY DEF Init, ReachInv, EndedAreClosed, FanoutFromStart, FanoutReachesLivePeers

\* What every step does: a fan-out begins, goes on as it was, or takes one peer,
\* who is the sender, gets the frame or is disconnected; inboxes of open sockets
\* grow only.
KeepsReach ==
  /\ EndedAreClosed' /\ FanoutFromStart'
  /\ \A c \in Conns : pc'[c] = "write" =>
       \/ next'[c] = 1
       \/ /\ pc[c] = "write" /\ frame'[c] = frame[c] /\ peers'[c] = peers[c]
          /\ \/ next'[c] = next[c]
             \/ /\ next'[c] = next[c] + 1
                /\ LET p == peers[c][next[c]]
                   IN  p = c \/ ~open'[p] \/ Contains(inbox'[p], frame[c])
  /\ \A p \in Conns : pc[p] # "new" /\ open'[p] =>
       /\ open[p]
       /\ inbox'[p] = inbox[p] \/ \E f \in Frame : inbox'[p] = Append(inbox[p], f)

\* Such a step keeps what the fan-outs have reached.
LEMMA KeepsReachStep ==
  ASSUME IInv, ReachInv, KeepsReach
  PROVE  ReachInv'
<1>1. ASSUME NEW c \in Conns, pc'[c] = "write", NEW i \in 1..next'[c]-1,
             i \in DOMAIN peers'[c], peers'[c][i] # c, open'[peers'[c][i]]
      PROVE  Contains(inbox'[peers'[c][i]], frame'[c])
  <2>1. next'[c] # 1
    BY <1>1
  <2>2. pc[c] = "write" /\ frame'[c] = frame[c] /\ peers'[c] = peers[c] /\ next[c] \in Nat
    BY <1>1, <2>1 DEF KeepsReach, IInv, TypeOK
  <2> DEFINE p == peers[c][i]
  <2>3. p \in Conns /\ pc[p] # "new"
    <3>1. p \in Conns /\ PlayerOf(p, matchID[c])
      BY <1>1, <2>2 DEF IInv, TypeOK, PeersArePlayers
    <3>2. QED
      BY <3>1, NoUidNoPlayer DEF IInv, JoinedArePlayers, PlayerOf
  <2>4. CASE i < next[c]
    <3>1. i \in 1..next[c]-1
      BY <2>2, <2>4
    <3>2. /\ open[p] /\ inbox[p] \in Seq(Frame)
          /\ inbox'[p] = inbox[p] \/ \E f \in Frame : inbox'[p] = Append(inbox[p], f)
      BY <1>1, <2>2, <2>3 DEF KeepsReach, IInv, TypeOK
    <3>3. Contains(inbox[p], frame[c])
      BY <1>1, <2>2, <3>1, <3>2 DEF ReachInv, FanoutReachesLivePeers
    <3>4. ASSUME NEW f \in Frame, inbox'[p] = Append(inbox[p], f)
          PROVE  Contains(inbox'[p], frame[c])
      BY <3>2, <3>3, <3>4, AppendContains
    <3>5. QED
      BY <2>2, <3>2, <3>3, <3>4
  <2>5. CASE ~(i < next[c])
    <3>1. next'[c] = next[c] + 1 /\ i = next[c]
      BY <1>1, <2>1, <2>2, <2>5 DEF KeepsReach
    <3>2. QED
      BY <1>1, <2>1, <2>2, <3>1 DEF KeepsReach
  <2>6. QED
    BY <2>4, <2>5
<1>2. QED
  BY <1>1 DEF KeepsReach, ReachInv, FanoutReachesLivePeers

\* The goroutine of c moves on outside a fan-out; sockets may close, and inboxes
\* stay.
ElsewhereStep(c) ==
  /\ pc[c] \notin {"write", "new", "unregister", "leave", "done"}
  /\ \E label \in PCs \ {"new", "leave", "done"} :
       /\ pc' = [pc EXCEPT ![c] = label]
       /\ label = "unregister" => ~open'[c]
  /\ \A d \in Conns : open'[d] => open[d]
  /\ UNCHANGED << inbox, next >>
  /\ \A d \in Conns \ {c} : frame'[d] = frame[d] /\ peers'[d] = peers[d]

\* It disturbs no fan-out.
LEMMA ElsewhereKeepsReach ==
  ASSUME IInv, ReachInv, NEW c \in Conns, ElsewhereStep(c)
  PROVE  KeepsReach
<1> USE DEF ReachInv, ElsewhereStep
<1>1. pc \in [Conns -> PCs] /\ next[c] = 1
  BY DEF IInv, TypeOK, FanoutFromStart
<1>2. EndedAreClosed' /\ FanoutFromStart'
  BY <1>1 DEF EndedAreClosed, FanoutFromStart
<1>3. QED
  BY <1>1, <1>2 DEF KeepsReach

\* The registration, the read loop, the handlers, and what precedes the writes.
LEMMA ElsewhereActions ==
  ASSUME IInv, NEW c \in Conns,
         \/ Register(c) \/ ReadEnd(c) \/ CloseNow(c) \/ Ping(c) \/ BadFrame(c)
         \/ \E m \in Matches \union {None} : JoinRefuse(c, m) \/ JoinLock(c, m)
         \/ \E m \in Matches : Turn(c, m) \/ MatchEnd(c, m)
         \/ JoinAdd(c) \/ EndStored(c) \/ EndError(c) \/ Lookup(c) \/ Snapshot(c)
         \/ ReplyFail(c)
  PROVE  ElsewhereStep(c)
<1> USE DEF ElsewhereStep, PCs, roomVars, fanVars, ioVars, Goto
<1>1. /\ open \in [Conns -> BOOLEAN] /\ frame \in [Conns -> PointerOrNone(Frame)]
      /\ peers \in [Conns -> Seq(Conns)]
  BY DEF IInv, TypeOK
<1>2. CASE Register(c) \/ ReadEnd(c) \/ CloseNow(c)
  BY <1>1, <1>2 DEF Register, ReadEnd, CloseNow, AfterClose
<1>3. ASSUME Receive(c), Fail(c) \/ Respond(c) PROVE ElsewhereStep(c)
  BY <1>3 DEF Receive, Fail, Respond
<1>4. CASE Ping(c) \/ BadFrame(c)
  BY <1>3, <1>4 DEF Ping, BadFrame
<1>5. ASSUME NEW m \in Matches \union {None}, JoinRefuse(c, m) PROVE ElsewhereStep(c)
  BY <1>3, <1>5 DEF JoinRefuse
<1>6. ASSUME NEW m \in Matches \union {None}, JoinLock(c, m) PROVE ElsewhereStep(c)
  <2>1. /\ pc[c] = "read" /\ \E label \in {"add"} : pc' = [pc EXCEPT ![c] = label]
        /\ UNCHANGED << open, frame, peers, next, inbox >>
    BY <1>6 DEF JoinLock, Receive
  <2>2. QED
    BY <2>1
<1>7. ASSUME NEW m \in Matches, Turn(c, m) \/ MatchEnd(c, m) PROVE ElsewhereStep(c)
  <2>1. CASE Fail(c)
    BY <1>3, <1>7, <2>1 DEF Turn, MatchEnd
  <2>2. ASSUME NEW e, NEW label \in {"lookup", "ending"}, Receive(c), Accept(c, e, label)
        PROVE  ElsewhereStep(c)
    BY <1>1, <2>2 DEF Receive, Accept
  <2>3. QED
    BY <1>7, <2>1, <2>2 DEF Turn, MatchEnd
<1>8. CASE JoinAdd(c) \/ EndStored(c) \/ EndError(c)
  BY <1>1, <1>8 DEF JoinAdd, EndStored, EndError
<1>9. CASE Lookup(c)
  <2>1. /\ pc[c] = "lookup" /\ \E label \in {"write", "snapshot"} : pc' = [pc EXCEPT ![c] = label]
        /\ UNCHANGED << open, frame, peers, next, inbox >>
    BY <1>9 DEF Lookup
  <2>2. QED
    BY <2>1
<1>10. CASE Snapshot(c)
  <2>1. /\ pc[c] = "snapshot" /\ \E label \in {"write"} : pc' = [pc EXCEPT ![c] = label]
        /\ \A d \in Conns \ {c} : peers'[d] = peers[d]
        /\ UNCHANGED << open, frame, next, inbox >>
    BY <1>1, <1>10 DEF Snapshot
  <2>2. QED
    BY <2>1
<1>11. CASE ReplyFail(c)
  BY <1>1, <1>11 DEF ReplyFail
<1>12. QED
  BY <1>2, <1>4, <1>5, <1>6, <1>7, <1>8, <1>9, <1>10, <1>11

\* Sockets open and close.
LEMMA SocketsKeepReach ==
  ASSUME IInv, ReachInv, NEW c \in Conns,
         Connect(c) \/ HandshakeFail(c) \/ Drop(c) \/ Unregister(c) \/ UnregisterDrop(c)
  PROVE  KeepsReach
<1> USE DEF ReachInv, EndedAreClosed, FanoutFromStart, KeepsReach, IInv, TypeOK, PCs,
            connVars, roomVars, fanVars, ioVars, Goto
<1>1. CASE Connect(c)
  BY <1>1 DEF Connect
<1>2. CASE HandshakeFail(c) \/ Drop(c)
  BY <1>2 DEF HandshakeFail, Drop
<1>3. CASE Unregister(c)
  BY <1>3 DEF Unregister
<1>4. CASE UnregisterDrop(c)
  BY <1>4 DEF UnregisterDrop
<1>5. QED
  BY <1>1, <1>2, <1>3, <1>4

\* The fan-out takes one peer.
LEMMA WritesKeepReach ==
  ASSUME IInv, ReachInv, NEW c \in Conns, SkipSelf(c) \/ WritePeer(c) \/ WritePeerFail(c)
  PROVE  KeepsReach
<1> USE DEF ReachInv, IInv, connVars, roomVars, fanVars, ioVars
<1> DEFINE p == peers[c][next[c]]
<1>1. /\ pc[c] = "write" /\ pc' = pc /\ p \in Conns
      /\ next' = [next EXCEPT ![c] = next[c] + 1]
      /\ UNCHANGED << frame, peers >>
  BY DEF SkipSelf, WritePeer, WritePeerFail, Writing, GoOn, TypeOK
<1>2. \A d \in Conns : open'[d] => open[d]
  BY DEF SkipSelf, WritePeer, WritePeerFail, TypeOK
<1>3. frame[c] \in Frame /\ inbox[p] \in Seq(Frame)
  BY <1>1 DEF FramesOfMatch, TypeOK
<1>4. /\ p = c \/ ~open'[p] \/ Contains(inbox'[p], frame[c])
      /\ \A d \in Conns : inbox'[d] = inbox[d] \/ inbox'[d] = Append(inbox[d], frame[c])
  <2>1. CASE SkipSelf(c)
    BY <2>1 DEF SkipSelf, Peer
  <2>2. CASE WritePeer(c)
    <3>1. inbox' = [inbox EXCEPT ![p] = Append(inbox[p], frame[c])]
      BY <2>2 DEF WritePeer, Peer
    <3>2. inbox'[p] = Append(inbox[p], frame[c])
      BY <1>1, <3>1 DEF TypeOK
    <3>3. QED
      BY <1>3, <3>1, <3>2, AppendContains DEF TypeOK
  <2>3. CASE WritePeerFail(c)
    BY <1>1, <2>3 DEF WritePeerFail, Peer, TypeOK
  <2>4. QED
    BY <2>1, <2>2, <2>3
<1> HIDE DEF p
<1>5. EndedAreClosed' /\ FanoutFromStart'
  BY <1>1, <1>2 DEF EndedAreClosed, FanoutFromStart, TypeOK
<1>6. QED
  BY <1>1, <1>2, <1>3, <1>4, <1>5 DEF KeepsReach, TypeOK, p

\* The fan-out ends, and the echo is written.
LEMMA EndOfFanoutKeepsReach ==
  ASSUME IInv, ReachInv, NEW c \in Conns, FanoutDone(c) \/ Reply(c)
  PROVE  KeepsReach
<1> USE DEF ReachInv, IInv, connVars, roomVars, fanVars, ioVars, Goto
<1>1. /\ pc[c] \in {"write", "reply"}
      /\ \E label \in {"reply", "read"} : pc' = [pc EXCEPT ![c] = label]
      /\ next'[c] = 1
      /\ \A d \in Conns \ {c} : frame'[d] = frame[d] /\ peers'[d] = peers[d] /\ next'[d] = next[d]
      /\ open' = open
  BY DEF FanoutDone, Reply, FanoutFromStart, TypeOK
<1>2. \A d \in Conns : inbox'[d] = inbox[d] \/ \E f \in Frame : inbox'[d] = Append(inbox[d], f)
  <2>1. CASE inbox' = inbox
    BY <2>1
  <2>2. CASE echo[c] # None /\ inbox' = [inbox EXCEPT ![c] = Append(@, echo[c])]
    <3>1. echo[c] \in Frame
      BY <2>2 DEF TypeOK, PointerOrNone
    <3>2. \A d \in Conns : inbox'[d] = inbox[d] \/ inbox'[d] = Append(inbox[d], echo[c])
      BY <2>2 DEF TypeOK
    <3>3. QED
      BY <3>1, <3>2
  <2>3. QED
    BY <2>1, <2>2 DEF FanoutDone, Reply
<1>3. EndedAreClosed' /\ FanoutFromStart'
  BY <1>1 DEF EndedAreClosed, FanoutFromStart, TypeOK
<1>4. QED
  BY <1>1, <1>2, <1>3 DEF KeepsReach, TypeOK

\* Every step of the hub keeps it.
LEMMA ReachNext == IInv /\ ReachInv /\ [Next]_hubVars => ReachInv'
<1> SUFFICES ASSUME IInv, ReachInv, [Next]_hubVars PROVE KeepsReach
  BY KeepsReachStep
<1>1. CASE Restart
  BY <1>1 DEF Restart, Running, KeepsReach, IInv, TypeOK, PCs, EndedAreClosed, FanoutFromStart
<1>2. ASSUME NEW c \in Conns, Serve(c) PROVE KeepsReach
  BY <1>2, ElsewhereActions, ElsewhereKeepsReach, SocketsKeepReach, WritesKeepReach,
     EndOfFanoutKeepsReach DEF Serve
<1>3. ASSUME NEW c \in Conns, Client(c) PROVE KeepsReach
  BY <1>3, ElsewhereActions, ElsewhereKeepsReach, SocketsKeepReach DEF Client
<1>4. ASSUME NEW c \in Conns, HandshakeFail(c) \/ ReadEnd(c) PROVE KeepsReach
  BY <1>4, ElsewhereActions, ElsewhereKeepsReach, SocketsKeepReach
<1>5. CASE UNCHANGED hubVars
  BY <1>5 DEF KeepsReach, ReachInv, EndedAreClosed, FanoutFromStart, hubVars, connVars,
     roomVars, fanVars, ioVars
<1>6. QED
  BY <1>1, <1>2, <1>3, <1>4, <1>5 DEF Next

\* Fan-outs reach whom they have passed, in every reachable state.
THEOREM ReachInvariance == Spec => []ReachInv
  BY ReachInit, ReachNext, Invariance, PTL DEF Spec

\* A fan-out leaves no live peer out, whichever writes fail and whoever leaves
\* meanwhile (match_lifecycle.go broadcastRoom).
THEOREM FanoutReaches == Spec => []FanoutReachesLivePeers
<1>1. ReachInv => FanoutReachesLivePeers
  BY DEF ReachInv
<1>2. QED
  BY <1>1, ReachInvariance, PTL

-----------------------------------------------------------------------------
(***************************************************************************)
(* OrderInv is inductive, where the other invariants hold.                 *)
(***************************************************************************)

\* Nothing is under way in the initial state.
LEMMA OrderInit == Init => OrderInv
  BY DEF Init, OrderInv, FramesCounted, PeersOnce, Once, FrameUnderWay, FanoutIsNews,
         EchoIsNews, RelayedInOrderOnce, Ahead

\* What a step does that delivers nothing: a frame is dropped, is new, or is kept
\* by a fan-out that goes on; an echo is dropped, kept, or the frame fanned out.
DeliversNothing ==
  /\ frames \in Nat /\ frames' \in Nat /\ frames <= frames'
  /\ \A d \in Conns : inbox'[d] \in {inbox[d], << >>}
  /\ \A c \in Conns :
       \/ frame'[c] = None
       \/ frame'[c] = frame[c] /\ \A d \in Conns : Passed(c, d) => Passed(c, d)'
       \/ frame'[c].n = frames' /\ frames < frames'
  /\ \A c \in Conns : echo'[c] \in {None, echo[c], frame[c]}
  /\ PeersOnce' /\ FrameUnderWay'

\* Such a step puts nothing out of order.
LEMMA DeliversNothingStep ==
  ASSUME IInv, OrderInv, DeliversNothing
  PROVE  OrderInv'
<1> USE DEF OrderInv, DeliversNothing
<1>1. ASSUME NEW d \in Conns, NEW i \in DOMAIN inbox'[d]
      PROVE  /\ inbox'[d] = inbox[d] /\ i \in DOMAIN inbox[d]
             /\ inbox[d][i].n \in Nat /\ inbox[d][i].n <= frames
  <2>1. inbox'[d] = inbox[d]
    BY <1>1
  <2>2. inbox[d][i] \in Frame
    BY <1>1, <2>1 DEF IInv, TypeOK
  <2>3. QED
    BY <1>1, <2>1, <2>2 DEF FramesCounted, Frame
<1>2. ASSUME NEW c \in Conns PROVE /\ frame[c] # None => frame[c].n \in Nat
                                   /\ echo[c] # None => echo[c].n \in Nat
  BY DEF IInv, TypeOK, PointerOrNone, Frame
<1>3. FramesCounted'
  BY <1>1, <1>2 DEF FramesCounted
<1>4. FanoutIsNews'
  <2> SUFFICES ASSUME NEW c \in Conns, NEW d \in Conns, frame'[c] # None,
                      d = c \/ ~Passed(c, d)',
                      NEW i \in DOMAIN inbox'[d], inbox'[d][i].from = c
               PROVE  inbox'[d][i].n < frame'[c].n
    BY DEF FanoutIsNews, Ahead
  <2>1. CASE frame'[c] = frame[c] /\ \A e \in Conns : Passed(c, e) => Passed(c, e)'
    BY <1>1, <2>1 DEF FanoutIsNews, Ahead
  <2>2. CASE frame'[c].n = frames' /\ frames < frames'
    BY <1>1, <2>2
  <2>3. QED
    BY <2>1, <2>2
<1>5. EchoIsNews'
  <2> SUFFICES ASSUME NEW c \in Conns, echo'[c] # None,
                      NEW i \in DOMAIN inbox'[c], inbox'[c][i].from = c
               PROVE  inbox'[c][i].n < echo'[c].n
    BY DEF EchoIsNews, Ahead
  <2>1. CASE echo'[c] = echo[c]
    BY <1>1, <2>1 DEF EchoIsNews, Ahead
  <2>2. CASE echo'[c] = frame[c]
    BY <1>1, <2>2 DEF FanoutIsNews, Ahead
  <2>3. QED
    BY <2>1, <2>2
<1>6. RelayedInOrderOnce'
  BY <1>1 DEF RelayedInOrderOnce
<1>7. QED
  BY <1>3, <1>4, <1>5, <1>6

\* A delivery of a frame f to d that has none of its sender as late: every other
\* sender is where it was, and this one has passed d or is through.
LEMMA DeliversStep ==
  ASSUME IInv, OrderInv, NEW d \in Conns, NEW f \in Frame,
         inbox' = [inbox EXCEPT ![d] = Append(@, f)],
         frames' = frames, f.n <= frames, Ahead(d, f.from, f),
         \A c \in Conns :
           \/ frame'[c] = None
           \/ /\ frame'[c] = frame[c] /\ \A e \in Conns : Passed(c, e) => Passed(c, e)'
              /\ c = f.from => c # d /\ Passed(c, d)',
         \A c \in Conns : echo'[c] = None \/ (echo'[c] = echo[c] /\ (c = d => c # f.from)),
         PeersOnce', FrameUnderWay'
  PROVE  OrderInv'
<1> USE DEF OrderInv
<1>1. /\ \A e \in Conns : inbox[e] \in Seq(Frame) /\ (e # d => inbox'[e] = inbox[e])
      /\ inbox'[d] = Append(inbox[d], f)
      /\ Len(inbox'[d]) = Len(inbox[d]) + 1 /\ Len(inbox[d]) \in Nat
      /\ \A i \in 1..Len(inbox[d]) : inbox'[d][i] = inbox[d][i]
      /\ inbox'[d][Len(inbox[d]) + 1] = f
      /\ inbox'[d] \in Seq(Frame)
  BY DEF IInv, TypeOK
<1>2. ASSUME NEW e \in Conns, NEW i \in DOMAIN inbox'[e]
      PROVE  \/ i \in DOMAIN inbox[e] /\ inbox'[e][i] = inbox[e][i]
             \/ e = d /\ inbox'[e][i] = f /\ i = Len(inbox[d]) + 1
  <2>1. CASE e # d
    BY <1>1, <2>1
  <2>2. CASE e = d
    <3>1. i \in 1..Len(inbox[d]) + 1 /\ DOMAIN inbox[d] = 1..Len(inbox[d])
      BY <1>1, <2>2
    <3>2. QED
      BY <1>1, <2>2, <3>1
  <2>3. QED
    BY <2>1, <2>2
<1>3. FramesCounted'
  BY <1>2 DEF FramesCounted
<1>4. FanoutIsNews'
  <2> SUFFICES ASSUME NEW c \in Conns, NEW e \in Conns, frame'[c] # None,
                      e = c \/ ~Passed(c, e)',
                      NEW i \in DOMAIN inbox'[e], inbox'[e][i].from = c
               PROVE  inbox'[e][i].n < frame'[c].n
    BY DEF FanoutIsNews, Ahead
  <2>1. i \in DOMAIN inbox[e] /\ inbox'[e][i] = inbox[e][i]
    BY <1>2
  <2>2. QED
    BY <2>1 DEF FanoutIsNews, Ahead
<1>5. EchoIsNews'
  <2> SUFFICES ASSUME NEW c \in Conns, echo'[c] # None,
                      NEW i \in DOMAIN inbox'[c], inbox'[c][i].from = c
               PROVE  inbox'[c][i].n < echo'[c].n
    BY DEF EchoIsNews, Ahead
  <2>1. i \in DOMAIN inbox[c] /\ inbox'[c][i] = inbox[c][i]
    BY <1>2
  <2>2. QED
    BY <2>1 DEF EchoIsNews, Ahead
<1>6. RelayedInOrderOnce'
  <2> SUFFICES ASSUME NEW e \in Conns, NEW i \in DOMAIN inbox'[e], NEW j \in DOMAIN inbox'[e],
                      i < j, inbox'[e][i].from = inbox'[e][j].from
               PROVE  inbox'[e][i].n < inbox'[e][j].n
    BY DEF RelayedInOrderOnce
  <2>1. i \in DOMAIN inbox[e] /\ inbox'[e][i] = inbox[e][i]
    <3>1. SUFFICES ASSUME e = d /\ i = Len(inbox[d]) + 1 PROVE FALSE
      BY <1>2
    <3>2. j \in 1..Len(inbox[d]) + 1
      BY <1>1, <3>1
    <3>3. QED
      BY <1>1, <3>1, <3>2
  <2>2. CASE j \in DOMAIN inbox[e] /\ inbox'[e][j] = inbox[e][j]
    BY <2>1, <2>2 DEF RelayedInOrderOnce
  <2>3. CASE e = d /\ inbox'[e][j] = f
    BY <2>1, <2>3 DEF Ahead
  <2>4. QED
    BY <1>2, <2>2, <2>3
<1>7. QED
  BY <1>3, <1>4, <1>5, <1>6

\* Steps that touch no frame, no fan-out and no echo, whoever else they touch.
LEMMA NoFrameTouched ==
  ASSUME IInv, OrderInv, NEW c \in Conns,
         UNCHANGED << fanVars, echo >>, frames <= frames', frames' \in Nat,
         \A d \in Conns : inbox'[d] \in {inbox[d], << >>},
         \A d \in Conns : pc'[d] = pc[d] \/ frame[d] = None
                         \/ pc'[d] \in {"ending", "lookup", "snapshot", "write"}
  PROVE  DeliversNothing
<1> USE DEF OrderInv, fanVars
<1>1. frames \in Nat
  BY HubAssumption DEF IInv, TypeOK
<1>2. \A e, d \in Conns : Passed(e, d) => Passed(e, d)'
  BY DEF Passed
<1>3. PeersOnce' /\ FrameUnderWay'
  BY DEF PeersOnce, Once, FrameUnderWay
<1>4. QED
  BY <1>1, <1>2, <1>3 DEF DeliversNothing

\* Handshakes, joins, leaves, refusals, failures, and what precedes the snapshot.
LEMMA NoFrameActions ==
  ASSUME IInv, OrderInv, NEW c \in Conns,
         \/ Connect(c) \/ HandshakeFail(c) \/ Register(c) \/ ReadEnd(c) \/ CloseNow(c)
         \/ Drop(c) \/ Unregister(c) \/ UnregisterDrop(c) \/ Ping(c) \/ BadFrame(c)
         \/ \E m \in Matches \union {None} : JoinRefuse(c, m) \/ JoinLock(c, m)
         \/ \E m \in Matches : (Turn(c, m) \/ MatchEnd(c, m)) /\ Fail(c)
         \/ JoinAdd(c) \/ EndStored(c) \/ Lookup(c)
  PROVE  DeliversNothing
<1> USE DEF roomVars, ioVars, Goto
<1>1. /\ frames \in Nat /\ pc \in [Conns -> PCs] /\ inbox \in [Conns -> Seq(Frame)]
      /\ frame[c] # None => pc[c] \in {"ending", "lookup", "snapshot", "write"}
  BY HubAssumption DEF IInv, TypeOK, OrderInv, FrameUnderWay
<1>2. ASSUME UNCHANGED << fanVars, echo >>, frames' \in {frames, frames + 1},
             \A d \in Conns : inbox'[d] \in {inbox[d], << >>},
             \A d \in Conns \ {c} : pc'[d] = pc[d],
             \/ pc'[c] = pc[c]
             \/ pc[c] \notin {"ending", "lookup", "snapshot", "write"}
             \/ pc'[c] \in {"ending", "lookup", "snapshot", "write"}
      PROVE  DeliversNothing
  BY <1>1, <1>2, NoFrameTouched
<1>3. CASE Connect(c) \/ HandshakeFail(c) \/ Register(c) \/ ReadEnd(c) \/ CloseNow(c)
  BY <1>1, <1>2, <1>3 DEF Connect, HandshakeFail, Register, ReadEnd, CloseNow
<1>4. CASE Drop(c)
  BY <1>2, <1>4 DEF Drop
<1>5. CASE Unregister(c)
  BY <1>1, <1>2, <1>5 DEF Unregister
<1>6. CASE UnregisterDrop(c) \/ JoinAdd(c) \/ EndStored(c) \/ Lookup(c)
  BY <1>1, <1>2, <1>6 DEF UnregisterDrop, JoinAdd, EndStored, Lookup
<1>7. ASSUME Receive(c), Fail(c) \/ Respond(c) PROVE DeliversNothing
  BY <1>1, <1>2, <1>7 DEF Receive, Fail, Respond
<1>8. ASSUME NEW m \in Matches \union {None}, JoinRefuse(c, m) \/ JoinLock(c, m)
      PROVE  DeliversNothing
  <2>1. CASE JoinRefuse(c, m)
    BY <1>7, <2>1 DEF JoinRefuse
  <2>2. CASE JoinLock(c, m)
    BY <1>1, <1>2, <2>2 DEF JoinLock, Receive
  <2>3. QED
    BY <1>8, <2>1, <2>2
<1>9. CASE Ping(c) \/ BadFrame(c)
  BY <1>7, <1>9 DEF Ping, BadFrame
<1>10. ASSUME NEW m \in Matches, Turn(c, m) \/ MatchEnd(c, m), Fail(c) PROVE DeliversNothing
  BY <1>7, <1>10 DEF Turn, MatchEnd
<1>11. QED
  BY <1>3, <1>4, <1>5, <1>6, <1>8, <1>9, <1>10

\* A new frame is the latest of all.
LEMMA AcceptOrder ==
  ASSUME IInv, OrderInv, NEW c \in Conns, Receive(c),
         NEW type, NEW m, NEW label \in {"lookup", "ending"},
         Accept(c, Envelope(type, c, m), label)
  PROVE  DeliversNothing
<1> USE DEF OrderInv
<1> DEFINE e == Envelope(type, c, m)
<1>1. /\ frames \in Nat /\ frames' = frames + 1
      /\ frame' = [frame EXCEPT ![c] = e] /\ pc' = [pc EXCEPT ![c] = label]
      /\ UNCHANGED << peers, next, echo, inbox >>
  BY HubAssumption DEF IInv, TypeOK, Receive, Accept, Goto
<1>2. e.n = frames'
  BY <1>1 DEF Envelope
<1> HIDE DEF e
<1>3. \A d \in Conns : frame'[d] = frame[d] \/ (d = c /\ frame'[d] = e)
  BY <1>1 DEF IInv, TypeOK
<1>4. \A a, d \in Conns : Passed(a, d) => Passed(a, d)'
  BY <1>1 DEF Passed
<1>5. PeersOnce' /\ FrameUnderWay'
  BY <1>1 DEF PeersOnce, Once, FrameUnderWay, IInv, TypeOK
<1>6. QED
  BY <1>1, <1>2, <1>3, <1>4, <1>5 DEF DeliversNothing

\* A frame is given up, or its fan-out begins, passes a peer or ends.
LEMMA FanoutOrder ==
  ASSUME IInv, RoomsInv, ReachInv, OrderInv, NEW c \in Conns,
         \/ EndError(c) \/ Snapshot(c) \/ SkipSelf(c) \/ WritePeerFail(c)
         \/ FanoutDone(c) \/ ReplyFail(c)
  PROVE  DeliversNothing
<1> USE DEF OrderInv, IInv, connVars, roomVars, fanVars, ioVars, Goto
<1>1. frames \in Nat /\ frames' = frames /\ inbox' = inbox
  BY HubAssumption DEF TypeOK, EndError, Snapshot, SkipSelf, WritePeerFail, FanoutDone, ReplyFail
<1>2. PeersOnce'
  <2>1. CASE peers' = peers
    BY <2>1 DEF PeersOnce, Once
  <2>2. CASE peers' = [peers EXCEPT ![c] = << >>]
    BY <2>2 DEF PeersOnce, Once, TypeOK
  <2>3. CASE Snapshot(c)
    <3>1. Once(members[room[c]])
      BY <2>3 DEF Snapshot, PointersInsideMatch, RoomsInv, MembersOnce
    <3>2. peers' = [peers EXCEPT ![c] = members[room[c]]]
      BY <2>3 DEF Snapshot
    <3>3. QED
      BY <3>1, <3>2 DEF PeersOnce, Once, TypeOK
  <2>4. QED
    BY <2>1, <2>2, <2>3 DEF EndError, SkipSelf, WritePeerFail, FanoutDone, ReplyFail
<1>3. FrameUnderWay'
  BY DEF EndError, Snapshot, SkipSelf, WritePeerFail, FanoutDone, ReplyFail, FrameUnderWay, TypeOK
<1>4. \A d \in Conns : \/ frame'[d] = None
                       \/ /\ frame'[d] = frame[d]
                          /\ \A e \in Conns : Passed(d, e) => Passed(d, e)'
  <2>1. CASE EndError(c) \/ FanoutDone(c)
    BY <2>1 DEF EndError, FanoutDone, Passed, TypeOK
  <2>2. CASE Snapshot(c)
    <3>1. \A e \in Conns : ~Passed(c, e)
      BY <2>2 DEF Snapshot, Passed, PeersArePlayers
    <3>2. QED
      BY <2>2, <3>1 DEF Snapshot, Passed, TypeOK
  <2>3. CASE SkipSelf(c) \/ WritePeerFail(c)
    <3>1. /\ next' = [next EXCEPT ![c] = next[c] + 1] /\ UNCHANGED << frame, peers >>
          /\ \A d \in Conns : next[d] \in Nat
      BY <2>3 DEF SkipSelf, WritePeerFail, GoOn, TypeOK
    <3>2. \A d \in Conns : next'[d] \in Nat /\ next[d] <= next'[d]
      BY <3>1 DEF TypeOK
    <3>3. ASSUME NEW d \in Conns, NEW e \in Conns, Passed(d, e) PROVE Passed(d, e)'
      <4>1. PICK i \in DOMAIN peers[d] : i < next[d] /\ peers[d][i] = e
        BY <3>3 DEF Passed
      <4>2. i \in Nat
        BY <4>1 DEF TypeOK
      <4>3. QED
        BY <3>1, <3>2, <4>1, <4>2 DEF Passed
    <3>4. QED
      BY <3>1, <3>3
  <2>4. CASE ReplyFail(c)
    BY <2>4 DEF ReplyFail, Passed
  <2>5. QED
    BY <2>1, <2>2, <2>3, <2>4
<1>5. \A d \in Conns : echo'[d] \in {None, echo[d], frame[d]}
  BY DEF EndError, Snapshot, SkipSelf, WritePeerFail, FanoutDone, ReplyFail, TypeOK
<1>6. QED
  BY <1>1, <1>2, <1>3, <1>4, <1>5 DEF DeliversNothing

\* A peer gets the frame that is news to it.
LEMMA WritePeerOrder ==
  ASSUME IInv, OrderInv, NEW c \in Conns, WritePeer(c)
  PROVE  OrderInv'
<1> USE DEF IInv, OrderInv, connVars, roomVars
<1>0. /\ pc[c] = "write" /\ next[c] \in DOMAIN peers[c]
      /\ peers[c][next[c]] \in Conns \ {c} /\ frame[c] \in Frame /\ frame[c].from = c
  <2>1. pc[c] = "write" /\ next[c] \in Nat \ {0} /\ next[c] <= Len(peers[c])
    BY DEF WritePeer, Writing, TypeOK
  <2>2. peers[c] \in Seq(Conns) /\ peers[c][next[c]] # c
    BY DEF WritePeer, Peer, TypeOK
  <2>3. frame[c] \in Frame /\ frame[c].from = c
    BY <2>1 DEF FramesOfMatch
  <2>4. QED
    BY <2>1, <2>2, <2>3
<1>1. PICK d \in Conns, f \in Frame : d = peers[c][next[c]] /\ f = frame[c]
  BY <1>0
<1>2. /\ inbox' = [inbox EXCEPT ![d] = Append(@, f)]
      /\ next' = [next EXCEPT ![c] = next[c] + 1]
      /\ UNCHANGED << pc, frame, peers, echo, frames >>
  BY <1>1 DEF WritePeer, Peer
<1>3. ~Passed(c, d)
  <2>1. SUFFICES ASSUME NEW i \in DOMAIN peers[c], i < next[c], peers[c][i] = d PROVE FALSE
    BY DEF Passed
  <2>2. i = next[c]
    BY <1>0, <1>1, <2>1 DEF PeersOnce, Once
  <2>3. QED
    BY <2>1, <2>2 DEF TypeOK
<1>4. Ahead(d, c, f) /\ f.n <= frames
  BY <1>0, <1>1, <1>3, NoFrameAssumption DEF FanoutIsNews, FramesCounted
<1>5. Passed(c, d)'
  <2>1. next'[c] = next[c] + 1 /\ next[c] < next[c] + 1
    BY <1>2 DEF TypeOK
  <2>2. next[c] \in DOMAIN peers'[c] /\ next[c] < next'[c] /\ peers'[c][next[c]] = d
    BY <1>0, <1>1, <1>2, <2>1
  <2>3. QED
    BY <2>2 DEF Passed
<1>6. \A a, e \in Conns : Passed(a, e) => Passed(a, e)'
  <2>1. \A a \in Conns : next[a] \in Nat /\ next'[a] \in Nat /\ next[a] <= next'[a]
    BY <1>2 DEF TypeOK
  <2>2. \A a \in Conns : \A i \in DOMAIN peers[a] : i \in Nat
    <3>1. \A a \in Conns : peers[a] \in Seq(Conns)
      BY DEF TypeOK
    <3>2. QED
      BY <3>1
  <2>3. QED
    BY <1>2, <2>1, <2>2 DEF Passed
<1>7. PeersOnce' /\ FrameUnderWay'
  BY <1>2 DEF PeersOnce, Once, FrameUnderWay
<1>8. /\ \A a \in Conns : frame'[a] = frame[a] /\ (a = f.from => a # d /\ Passed(a, d)')
      /\ \A a \in Conns : echo'[a] = echo[a] /\ (a = d => a # f.from)
  BY <1>0, <1>1, <1>2, <1>5
<1>9. f.from = c /\ frames' = frames /\ f.n <= frames /\ Ahead(d, f.from, f)
  BY <1>0, <1>1, <1>2, <1>4
<1>10. \A a \in Conns :
         \/ frame'[a] = None
         \/ /\ frame'[a] = frame[a] /\ \A e \in Conns : Passed(a, e) => Passed(a, e)'
            /\ a = f.from => a # d /\ Passed(a, d)'
  BY <1>6, <1>8
<1>11. \A a \in Conns : echo'[a] = None \/ (echo'[a] = echo[a] /\ (a = d => a # f.from))
  BY <1>8
<1> HIDE DEF IInv, OrderInv, connVars, roomVars
<1>12. inbox' = [inbox EXCEPT ![d] = Append(@, f)]
  BY <1>2
<1>13. QED
  BY <1>7, <1>9, <1>10, <1>11, <1>12, DeliversStep

\* The sender gets the echo, which is news to it.
LEMMA ReplyOrder ==
  ASSUME IInv, OrderInv, NEW c \in Conns, Reply(c)
  PROVE  OrderInv'
<1> USE DEF IInv, OrderInv, roomVars, fanVars, Goto
<1>1. /\ pc[c] = "reply" /\ pc' = [pc EXCEPT ![c] = "read"]
      /\ echo' = [echo EXCEPT ![c] = None]
      /\ UNCHANGED << frame, peers, next, frames >>
      /\ frame[c] = None
  BY DEF Reply, FrameUnderWay
<1>2. \A a, e \in Conns : Passed(a, e) => Passed(a, e)'
  BY <1>1 DEF Passed
<1>3. PeersOnce' /\ FrameUnderWay'
  BY <1>1 DEF PeersOnce, Once, FrameUnderWay, TypeOK
<1>4. CASE echo[c] = None
  <2>1. inbox' = inbox /\ frames \in Nat
    BY <1>4, HubAssumption DEF Reply, TypeOK
  <2>2. DeliversNothing
    BY <1>1, <1>2, <1>3, <2>1 DEF DeliversNothing, TypeOK
  <2>3. QED
    BY <2>2, DeliversNothingStep
<1>5. CASE echo[c] # None
  <2> DEFINE f == echo[c]
  <2>1. f \in Frame /\ f.from = c /\ f.n <= frames /\ Ahead(c, c, f)
    BY <1>5 DEF TypeOK, PointerOrNone, EchoInsideMatch, FramesCounted, EchoIsNews
  <2>2. inbox' = [inbox EXCEPT ![c] = Append(@, f)]
    BY <1>5 DEF Reply
  <2>3. /\ \A a \in Conns : frame'[a] = None \/ (frame'[a] = frame[a] /\ a # c)
        /\ \A a \in Conns : echo'[a] = None \/ (echo'[a] = echo[a] /\ a # c)
    BY <1>1 DEF TypeOK
  <2> HIDE DEF f
  <2>4. QED
    BY <1>1, <1>2, <1>3, <2>1, <2>2, <2>3, DeliversStep
<1>6. QED
  BY <1>4, <1>5

\* Every step of the hub keeps it.
LEMMA OrderNext == IInv /\ RoomsInv /\ ReachInv /\ OrderInv /\ [Next]_hubVars => OrderInv'
<1> SUFFICES ASSUME IInv, RoomsInv, ReachInv, OrderInv, [Next]_hubVars PROVE OrderInv'
  OBVIOUS
<1>1. CASE Restart
  BY <1>1 DEF Restart, Running, IInv, TypeOK, OrderInv, FramesCounted, PeersOnce, Once,
     FrameUnderWay, FanoutIsNews, EchoIsNews, RelayedInOrderOnce, Ahead
<1>2. ASSUME NEW c \in Conns, Serve(c) PROVE OrderInv'
  BY <1>2, NoFrameActions, FanoutOrder, DeliversNothingStep, WritePeerOrder, ReplyOrder
  DEF Serve
<1>3. ASSUME NEW c \in Conns, Client(c) PROVE OrderInv'
  <2>1. ASSUME NEW m \in Matches, Turn(c, m) \/ MatchEnd(c, m) PROVE DeliversNothing
    BY <2>1, AcceptOrder, NoFrameActions DEF Turn, MatchEnd
  <2>2. QED
    BY <1>3, <2>1, NoFrameActions, DeliversNothingStep DEF Client
<1>4. ASSUME NEW c \in Conns, HandshakeFail(c) \/ ReadEnd(c) PROVE OrderInv'
  BY <1>4, NoFrameActions, DeliversNothingStep
<1>5. CASE UNCHANGED hubVars
  BY <1>5 DEF OrderInv, FramesCounted, PeersOnce, Once, FrameUnderWay, FanoutIsNews,
     EchoIsNews, RelayedInOrderOnce, Ahead, Passed, hubVars, connVars, fanVars, ioVars
<1>6. QED
  BY <1>1, <1>2, <1>3, <1>4, <1>5 DEF Next

\* The numbers of frames under way and delivered are in order, in every reachable
\* state.
THEOREM OrderInvariance == Spec => []OrderInv
  BY OrderInit, OrderNext, Invariance, RoomsInvariance, ReachInvariance, PTL DEF Spec

\* For any number of connections, matches and frames: a client sees the frames of
\* one sender in the order they were sent, and none of them twice
\* (match_lifecycle.go, rooms.go add).
THEOREM RelayOrder == Spec => []RelayedInOrderOnce
<1>1. OrderInv => RelayedInOrderOnce
  BY DEF OrderInv
<1>2. QED
  BY <1>1, OrderInvariance, PTL
=============================================================================
