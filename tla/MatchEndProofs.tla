--------------------------- MODULE MatchEndProofs ---------------------------
(***************************************************************************)
(* Theorems about MatchEnd for every value of its constants: the hub with  *)
(* the store still is the hub, and nobody is told of a result that is not  *)
(* stored.                                                                 *)
(***************************************************************************)
EXTENDS MatchEnd, HubProofs

-----------------------------------------------------------------------------
(***************************************************************************)
(* Implementation: the store phase fills in what Hub leaves open.          *)
(***************************************************************************)

\* A step of the store phase is a hub step, or none the hub sees.
LEMMA StoreStepIsHubStep ==
  ASSUME NEW c \in Conns, StoreStep(c)
  PROVE  Serve(c) \/ UNCHANGED hubVars
<1>1. CASE GetMatch(c) \/ UpsertMatch(c) \/ SubmitScore(c) \/ SubmitScoreFail(c)
  BY <1>1 DEF GetMatch, UpsertMatch, SubmitScore, SubmitScoreFail
<1>2. CASE GetMatchFail(c) \/ UpsertMatchFail(c)
  BY <1>2 DEF GetMatchFail, UpsertMatchFail, StoreError, Serve
<1>3. CASE Submitted(c)
  BY <1>3 DEF Submitted, Serve
<1>4. QED
  BY <1>1, <1>2, <1>3 DEF StoreStep

\* Every step of the hub with the store is one of the hub.
LEMMA ENextIsNext == [ENext]_vars => [Next]_hubVars
<1> SUFFICES ASSUME [ENext]_vars PROVE [Next]_hubVars
  OBVIOUS
<1>1. CASE ERestart
  BY <1>1 DEF ERestart, Next
<1>2. ASSUME NEW c \in Conns, HubStep(c) PROVE Next
  BY <1>2 DEF HubStep, Next, Serve, Client
<1>3. ASSUME NEW c \in Conns, StoreStep(c) PROVE [Next]_hubVars
  BY <1>3, StoreStepIsHubStep DEF Next
<1>4. ASSUME NEW c \in Conns, NEW m \in Matches, ReceiveEnd(c, m) PROVE Next
  BY <1>4 DEF ReceiveEnd, Next, Client
<1>5. CASE UNCHANGED vars
  BY <1>5 DEF vars
<1>6. QED
  BY <1>1, <1>2, <1>3, <1>4, <1>5 DEF ENext

\* The hub with the store implements the hub, whose store phase succeeds or
\* fails at will.
THEOREM ImplementsHub == ESpec => Spec
<1>1. EInit => Init
  BY DEF EInit
<1>2. QED
  BY <1>1, ENextIsNext, PTL DEF ESpec, Spec

\* So its inductive invariant, and with it the isolation of matches, carries
\* over to the hub with the store.
THEOREM EInvariance == ESpec => []IInv
  BY ImplementsHub, Invariance, PTL
-----------------------------------------------------------------------------
(***************************************************************************)
(* Lemmas about the data of the store phase.                               *)
(***************************************************************************)

\* The document stored for a report is a document.
LEMMA EndedIsDoc ==
  ASSUME NEW r \in Reports
  PROVE  Ended(r) \in Doc /\ Ended(r).state = "ended"
  BY MatchEndAssumption DEF Ended, Doc, maxScoreToTurns

\* The submissions for one player are submissions.
LEMMA ScoreCallsType ==
  ASSUME NEW m \in Matches, NEW u \in Users, NEW s \in Int
  PROVE  ScoreCalls(m, u, s) \in Seq(Submission)
<1>1. s > 0 =>
      /\ [board |-> DateOf[m], user |-> u, score |-> s] \in Submission
      /\ [board |-> Global, user |-> u, score |-> s] \in Submission
  BY MatchEndAssumption DEF Submission, Boards
<1>2. QED
  BY <1>1 DEF ScoreCalls

\* So are those of a whole report.
LEMMA SubmissionsType ==
  ASSUME NEW m \in Matches, NEW r \in Reports
  PROVE  Submissions(m, r) \in Seq(Submission)
<1>1. Players[m] \in Seq(Users) /\ r.p1 \in Int /\ r.p2 \in Int
  BY HubAssumption, MatchEndAssumption
<1>2. \A i \in 1..Len(Players[m]) : Players[m][i] \in Users
  BY <1>1, ElementOfSeq
<1>3. Len(Players[m]) >= 1 => ScoreCalls(m, Players[m][1], r.p1) \in Seq(Submission)
  <2>1. Len(Players[m]) >= 1 => Players[m][1] \in Users
    BY <1>1, <1>2
  <2>2. QED
    BY <1>1, <2>1, ScoreCallsType
<1>4. Len(Players[m]) >= 2 => ScoreCalls(m, Players[m][2], r.p2) \in Seq(Submission)
  <2>1. Len(Players[m]) >= 2 => Players[m][2] \in Users
    BY <1>1, <1>2
  <2>2. QED
    BY <1>1, <2>1, ScoreCallsType
<1>5. QED
  BY <1>3, <1>4 DEF Submissions

\* A connection at "ending" is in a match, whose id its frame carries.
LEMMA EndingInMatch ==
  ASSUME IInv, NEW c \in Conns, pc[c] = "ending"
  PROVE  /\ matchID[c] \in Matches
         /\ frame[c] \in Frame /\ frame[c].match = matchID[c]
  BY DEF IInv, TypeOK, PointerOrNone, FramesOfMatch
-----------------------------------------------------------------------------
(***************************************************************************)
(* Where a MATCH_END under way comes from.                                 *)
(***************************************************************************)

\* The steps of the hub outside the store phase put no MATCH_END under way.
LEMMA HubStepUnderway ==
  ASSUME IInv, NEW c \in Conns, HubStep(c),
         NEW f \in Frame, f.type = "end", Underway(f)'
  PROVE  Underway(f)
<1> USE DEF IInv, Underway, Goto, connVars, roomVars, fanVars, ioVars
<1>0. PICK d \in Conns :
        \/ pc'[d] \in {"lookup", "snapshot", "write"} /\ frame'[d] = f
        \/ echo'[d] # None /\ echo'[d] = f
        \/ \E i \in DOMAIN inbox'[d] : inbox'[d][i] = f
  OBVIOUS
<1>1. CASE Register(c) \/ JoinAdd(c) \/ CloseNow(c) \/ UnregisterDrop(c) \/ Drop(c)
  BY <1>0, <1>1 DEF Register, JoinAdd, CloseNow, UnregisterDrop, Drop, TypeOK, AfterClose
<1>2. CASE Lookup(c) \/ Snapshot(c)
  BY <1>0, <1>2 DEF Lookup, Snapshot, TypeOK
<1>3. CASE SkipSelf(c) \/ WritePeerFail(c)
  BY <1>0, <1>3 DEF SkipSelf, WritePeerFail, TypeOK
<1>4. CASE WritePeer(c)
  <2> DEFINE p == Peer(c)
  <2>1. /\ inbox' = [inbox EXCEPT ![p] = Append(@, frame[c])]
        /\ pc[c] = "write"
        /\ UNCHANGED << pc, frame, echo >>
    BY <1>4 DEF WritePeer, Writing
  <2>2. p \in Conns
    BY <1>4 DEF WritePeer, Writing, Peer, TypeOK
  <2>3. inbox[p] \in Seq(Frame) /\ frame[c] \in Frame
    BY <2>1, <2>2 DEF TypeOK, FramesOfMatch
  <2> HIDE DEF p
  <2>4. \A i \in DOMAIN inbox'[p] : \/ inbox'[p][i] = frame[c]
                                    \/ i \in DOMAIN inbox[p] /\ inbox'[p][i] = inbox[p][i]
    BY <2>1, <2>2, <2>3 DEF TypeOK
  <2>5. CASE \E i \in DOMAIN inbox'[d] : inbox'[d][i] = f
    <3>1. CASE d = p
      BY <2>1, <2>2, <2>4, <2>5, <3>1
    <3>2. CASE d # p
      BY <2>1, <2>5, <3>2 DEF TypeOK
    <3>3. QED
      BY <3>1, <3>2
  <2>6. QED
    BY <1>0, <2>1, <2>5
<1>5. CASE FanoutDone(c)
  BY <1>0, <1>5 DEF FanoutDone, TypeOK
<1>6. CASE Reply(c)
  <2>1. inbox[c] \in Seq(Frame) /\ (echo[c] # None => echo[c] \in Frame)
    BY DEF TypeOK, PointerOrNone
  <2>2. \A i \in DOMAIN inbox'[c] : \/ echo[c] # None /\ inbox'[c][i] = echo[c]
                                    \/ i \in DOMAIN inbox[c] /\ inbox'[c][i] = inbox[c][i]
    BY <1>6, <2>1 DEF Reply, TypeOK
  <2>3. QED
    BY <1>0, <1>6, <2>2 DEF Reply, TypeOK
<1>7. CASE ReplyFail(c) \/ Unregister(c)
  BY <1>0, <1>7 DEF ReplyFail, Unregister, TypeOK
<1>8. CASE Connect(c) \/ HandshakeFail(c) \/ ReadEnd(c) \/ Ping(c) \/ BadFrame(c)
  BY <1>0, <1>8 DEF Connect, HandshakeFail, ReadEnd, Ping, BadFrame, Receive, Respond,
                    Fail, TypeOK
<1>9. ASSUME NEW m \in Matches \union {None}, JoinRefuse(c, m) \/ JoinLock(c, m)
      PROVE  Underway(f)
  BY <1>0, <1>9 DEF JoinRefuse, JoinLock, Receive, Respond, TypeOK
<1>10. ASSUME NEW m \in Matches, Turn(c, m) PROVE Underway(f)
  <2>1. CASE InRoom(c, m)
    <3>1. /\ frame' = [frame EXCEPT ![c] = Envelope("turn", c, m)]
          /\ pc' = [pc EXCEPT ![c] = "lookup"]
          /\ UNCHANGED << echo, inbox >>
      BY <1>10, <2>1 DEF Turn, Accept
    <3>2. Envelope("turn", c, m).type # "end"
      BY DEF Envelope
    <3>3. QED
      BY <1>0, <3>1, <3>2 DEF TypeOK
  <2>2. CASE ~InRoom(c, m)
    BY <1>0, <1>10, <2>2 DEF Turn, Receive, Fail, TypeOK
  <2>3. QED
    BY <2>1, <2>2
<1>11. QED
  BY <1>1, <1>2, <1>3, <1>4, <1>5, <1>6, <1>7, <1>8, <1>9, <1>10 DEF HubStep

\* A hub step of this module starts no store phase, moves no connection in one
\* and keeps the frame it works on.
LEMMA HubStepEnding ==
  ASSUME IInv, NEW c \in Conns, HubStep(c), NEW d \in Conns, pc'[d] = "ending"
  PROVE  pc[d] = "ending" /\ frame'[d] = frame[d] /\ matchID'[d] = matchID[d]
<1> USE DEF IInv, Goto, connVars, roomVars, fanVars, ioVars
<1>1. CASE Register(c) \/ JoinAdd(c) \/ CloseNow(c) \/ Unregister(c) \/ UnregisterDrop(c)
  BY <1>1 DEF Register, JoinAdd, CloseNow, Unregister, UnregisterDrop, TypeOK, AfterClose
<1>2. CASE Lookup(c) \/ Snapshot(c) \/ SkipSelf(c) \/ WritePeer(c) \/ WritePeerFail(c)
  BY <1>2 DEF Lookup, Snapshot, SkipSelf, WritePeer, WritePeerFail, TypeOK
<1>3. CASE FanoutDone(c) \/ Reply(c) \/ ReplyFail(c)
  BY <1>3 DEF FanoutDone, Reply, ReplyFail, TypeOK
<1>4. CASE Connect(c) \/ HandshakeFail(c) \/ Drop(c) \/ ReadEnd(c) \/ Ping(c) \/ BadFrame(c)
  BY <1>4 DEF Connect, HandshakeFail, Drop, ReadEnd, Ping, BadFrame, Receive, Respond,
              Fail, TypeOK
<1>5. ASSUME NEW m \in Matches \union {None}, JoinRefuse(c, m) \/ JoinLock(c, m)
      PROVE  pc[d] = "ending" /\ frame'[d] = frame[d] /\ matchID'[d] = matchID[d]
  BY <1>5 DEF JoinRefuse, JoinLock, Receive, Respond, TypeOK
<1>6. ASSUME NEW m \in Matches, Turn(c, m)
      PROVE  pc[d] = "ending" /\ frame'[d] = frame[d] /\ matchID'[d] = matchID[d]
  BY <1>6 DEF Turn, Receive, Accept, Fail, TypeOK
<1>7. QED
  BY <1>1, <1>2, <1>3, <1>4, <1>5, <1>6 DEF HubStep

\* The count of frames only grows.
LEMMA FramesGrow ==
  ASSUME TypeOK, NEW c \in Conns, HubStep(c)
  PROVE  frames' = frames \/ frames' = frames + 1
<1> USE DEF connVars, roomVars, fanVars, ioVars
<1>1. CASE Register(c) \/ JoinAdd(c) \/ CloseNow(c) \/ Unregister(c) \/ UnregisterDrop(c)
  BY <1>1 DEF Register, JoinAdd, CloseNow, Unregister, UnregisterDrop
<1>2. CASE Lookup(c) \/ Snapshot(c) \/ SkipSelf(c) \/ WritePeer(c) \/ WritePeerFail(c)
  BY <1>2 DEF Lookup, Snapshot, SkipSelf, WritePeer, WritePeerFail
<1>3. CASE FanoutDone(c) \/ Reply(c) \/ ReplyFail(c)
  BY <1>3 DEF FanoutDone, Reply, ReplyFail
<1>4. CASE Connect(c) \/ HandshakeFail(c) \/ Drop(c) \/ ReadEnd(c) \/ Ping(c) \/ BadFrame(c)
  BY <1>4 DEF Connect, HandshakeFail, Drop, ReadEnd, Ping, BadFrame, Receive
<1>5. ASSUME NEW m \in Matches \union {None}, JoinRefuse(c, m) \/ JoinLock(c, m)
      PROVE  frames' = frames + 1
  BY <1>5 DEF JoinRefuse, JoinLock, Receive
<1>6. ASSUME NEW m \in Matches, Turn(c, m) PROVE frames' = frames + 1
  BY <1>6 DEF Turn, Receive
<1>7. QED
  BY <1>1, <1>2, <1>3, <1>4, <1>5, <1>6 DEF HubStep

\* What has been filed stays filed while the reports stay.
LEMMA FiledStays ==
  ASSUME TypeOK, frames' = frames \/ frames' = frames + 1, NEW n, NEW m, Filed(n, m),
         report'[n] = report[n]
  PROVE  Filed(n, m)'
  BY HubAssumption DEF Filed, TypeOK

\* What a handler has filed is a result.
LEMMA EndingResult ==
  ASSUME EndingIsReported, NEW c \in Conns, pc[c] = "ending"
  PROVE  Result(c) \in Reports
  BY DEF EndingIsReported, Filed, Result, Report
-----------------------------------------------------------------------------
(***************************************************************************)
(* StoredInv is inductive, given IInv.                                     *)
(***************************************************************************)

\* Nothing is stored, submitted or under way in the initial state.
LEMMA StoredInit == EInit => StoredInv
<1> SUFFICES ASSUME EInit PROVE StoredInv
  OBVIOUS
<1>1. TypeOK
  BY IInvInit DEF EInit, IInv
<1>2. ETypeOK
  BY <1>1 DEF ETypeOK, EInit, Doc
<1>3. EndingIsReported /\ SubmittingIsStored
  BY DEF EInit, Init, EndingIsReported, SubmittingIsStored, At
<1>4. UnderwayIsStored
  BY DEF EInit, Init, UnderwayIsStored, Underway
<1>5. QED
  BY <1>2, <1>3, <1>4 DEF StoredInv

\* The rest of the hub leaves the store phase and the store alone.
LEMMA HubStepStored ==
  ASSUME IInv, IInv', StoredInv, NEW c \in Conns, HubStep(c)
  PROVE  StoredInv'
<1>1. UNCHANGED << doc, boards, report, stage, todo, lost >>
  BY DEF HubStep, endVars
<1>2. ETypeOK'
  BY <1>1 DEF StoredInv, ETypeOK, IInv
<1>3. EndingIsReported'
  <2>1. frames' = frames \/ frames' = frames + 1
    BY FramesGrow DEF IInv
  <2>2. ASSUME NEW d \in Conns, pc'[d] = "ending" PROVE Filed(frame[d].n, matchID[d])'
    <3>1. Filed(frame[d].n, matchID[d]) /\ frame'[d] = frame[d] /\ matchID'[d] = matchID[d]
      BY <2>2, HubStepEnding DEF StoredInv, EndingIsReported
    <3>2. PICK n, m : n = frame[d].n /\ m = matchID[d]
      OBVIOUS
    <3>3. Filed(n, m)'
      BY <1>1, <2>1, <3>1, <3>2, FiledStays DEF IInv
    <3>4. QED
      BY <3>1, <3>2, <3>3
  <2>3. QED
    BY <2>2 DEF EndingIsReported
<1>3a. SubmittingIsStored'
  BY <1>1, HubStepEnding DEF StoredInv, SubmittingIsStored, At
<1>4. UnderwayIsStored'
  BY <1>1, HubStepUnderway DEF StoredInv, UnderwayIsStored, IsStored
<1>5. QED
  BY <1>2, <1>3, <1>3a, <1>4 DEF StoredInv

\* Accepting a MATCH_END records its report and puts nothing under way yet.
LEMMA ReceiveEndStored ==
  ASSUME IInv, IInv', StoredInv, NEW c \in Conns, NEW m \in Matches, ReceiveEnd(c, m)
  PROVE  StoredInv'
<1> USE DEF IInv, StoredInv
<1>1. /\ UNCHANGED << doc, boards, todo, lost, echo, inbox, matchID >>
      /\ frames + 1 \in 1..MaxFrames /\ frames' = frames + 1
  BY ReceiveCounts DEF ReceiveEnd, MatchEnd, Accept, Fail, storeVars, connVars
<1>2. CASE HasStore /\ InRoom(c, m)
  <2>1. /\ pc' = [pc EXCEPT ![c] = "ending"]
        /\ frame' = [frame EXCEPT ![c] = Envelope("end", c, m)]
    BY <1>2 DEF ReceiveEnd, MatchEnd, Accept, Goto
  <2>2. PICK r \in Reports : /\ report' = [report EXCEPT ![frames + 1] =
                                              [match |-> m, result |-> r]]
                             /\ stage' = [stage EXCEPT ![c] = "get"]
    BY <1>1, <2>1 DEF ReceiveEnd, TypeOK, GoStage
  <2>3. ETypeOK'
    BY <1>1, <2>2 DEF ETypeOK, Report
  <2>4. EndingIsReported'
    <3>1. frame'[c].n = frames + 1
      BY <2>1 DEF TypeOK, Envelope
    <3>2. \A d \in Conns : d # c => pc'[d] = pc[d] /\ frame'[d] = frame[d]
      BY <2>1 DEF TypeOK
    <3>3. ASSUME NEW d \in Conns, d # c, pc[d] = "ending"
          PROVE  Filed(frame[d].n, matchID[d])'
      <4>1. Filed(frame[d].n, matchID[d])
        BY <3>3 DEF EndingIsReported
      <4>2. report'[frame[d].n] = report[frame[d].n]
        BY <1>1, <2>2, <4>1 DEF ETypeOK, Filed, TypeOK
      <4>3. Filed(frame[d].n, matchID[d])
            => Filed(frame[d].n, matchID[d])'
        BY <1>1, <3>2, <3>3, <4>2, HubAssumption DEF Filed, TypeOK
      <4>4. QED
        BY <4>1, <4>3
    <3>4. /\ frames + 1 \in 1..frames'
          /\ report'[frames + 1] \in Report /\ report'[frames + 1].match = m
      BY <1>1, <2>2 DEF ETypeOK, TypeOK, Report
    <3>5. matchID[c] = m
      BY <1>2 DEF InRoom
    <3>6. QED
      BY <1>1, <3>1, <3>2, <3>3, <3>4, <3>5 DEF EndingIsReported, Filed
  <2>5. SubmittingIsStored'
    BY <1>1, <2>1, <2>2 DEF ETypeOK, TypeOK, SubmittingIsStored, At
  <2>6. UnderwayIsStored'
    BY <1>1, <2>1 DEF TypeOK, UnderwayIsStored, Underway, IsStored
  <2>7. QED
    BY <2>3, <2>4, <2>5, <2>6
<1>3. CASE ~(HasStore /\ InRoom(c, m))
  <2>1. pc' = [pc EXCEPT ![c] = "close"] /\ frame' = frame
    BY <1>3 DEF ReceiveEnd, MatchEnd, Fail, Goto, fanVars
  <2>2. UNCHANGED << report, stage >>
    BY <2>1 DEF ReceiveEnd, TypeOK, MatchEnd, Receive
  <2>3. ETypeOK'
    BY <1>1, <2>2 DEF ETypeOK
  <2>4. (EndingIsReported /\ SubmittingIsStored)'
    BY <1>1, <2>1, <2>2, HubAssumption DEF TypeOK, EndingIsReported, SubmittingIsStored, Filed, At
  <2>5. UnderwayIsStored'
    BY <1>1, <2>1 DEF TypeOK, UnderwayIsStored, Underway, IsStored
  <2>6. QED
    BY <2>3, <2>4, <2>5
<1>4. QED
  BY <1>2, <1>3

\* What may happen to the documents: they stay documents, and an ended match
\* stays ended, though its result may be replaced.
DocsKept == /\ doc' \in [Matches -> Doc]
            /\ \A m \in Matches : doc[m].state = "ended" => doc'[m].state = "ended"

\* Storing the result under report keeps the documents, and ends its match.
LEMMA StoringKeepsDocs ==
  ASSUME IInv, StoredInv, NEW c \in Conns, pc[c] = "ending",
         NEW d \in {doc[matchID[c]], Ended(Result(c))},
         doc' = [doc EXCEPT ![matchID[c]] = d]
  PROVE  DocsKept /\ (d = Ended(Result(c)) => doc'[matchID[c]].state = "ended")
<1>1. Result(c) \in Reports /\ matchID[c] \in Matches
  BY EndingInMatch, EndingResult DEF StoredInv
<1>2. Ended(Result(c)) \in Doc /\ Ended(Result(c)).state = "ended"
  BY <1>1, EndedIsDoc
<1>3. doc \in [Matches -> Doc]
  BY DEF StoredInv, ETypeOK
<1>4. QED
  BY <1>1, <1>2, <1>3 DEF DocsKept

\* The store phase goes on: GetMatch and UpsertMatch succeed, a submission is
\* made or lost.
LEMMA GoingOnStored ==
  ASSUME IInv, StoredInv, NEW c \in Conns,
         GetMatch(c) \/ UpsertMatch(c) \/ SubmitScore(c) \/ SubmitScoreFail(c)
  PROVE  StoredInv'
<1> USE DEF StoredInv
<1>1. /\ pc[c] = "ending" /\ UNCHANGED report
      /\ UNCHANGED << pc, open, uid, matchID, conns, rooms, roomOf, members, room,
                      frame, peers, next, echo, inbox, frames >>
  BY DEF GetMatch, UpsertMatch, SubmitScore, SubmitScoreFail, At, hubVars, connVars,
         roomVars, fanVars, ioVars
<1>2. matchID[c] \in Matches /\ frame[c] \in Frame /\ Result(c) \in Reports
  BY <1>1, EndingInMatch, EndingResult
<1>3. TypeOK'
  BY <1>1 DEF ETypeOK, TypeOK
<1>4. EndingIsReported'
  BY <1>1 DEF EndingIsReported, Filed
<1>5. DocsKept => UnderwayIsStored'
  BY <1>1 DEF DocsKept, UnderwayIsStored, Underway, IsStored, Frame
<1>6. CASE GetMatch(c)
  <2>1. UNCHANGED << doc, boards, todo, lost >> /\ stage' = [stage EXCEPT ![c] = "upsert"]
    BY <1>6 DEF GetMatch, GoStage, storeVars
  <2>2. ETypeOK' /\ DocsKept
    BY <1>1, <1>3, <2>1 DEF ETypeOK, DocsKept
  <2>3. SubmittingIsStored'
    BY <1>1, <2>1 DEF ETypeOK, SubmittingIsStored, At
  <2>4. QED
    BY <1>4, <1>5, <2>2, <2>3
<1>7. CASE UpsertMatch(c)
  <2>1. /\ doc' = [doc EXCEPT ![matchID[c]] = Ended(Result(c))]
        /\ todo' = [todo EXCEPT ![c] = Submissions(matchID[c], Result(c))]
        /\ stage' = [stage EXCEPT ![c] = "submit"]
        /\ UNCHANGED << boards, lost >>
    BY <1>7 DEF UpsertMatch, GoStage
  <2>2. DocsKept /\ doc'[matchID[c]].state = "ended"
    BY <1>1, <2>1, StoringKeepsDocs
  <2>3. todo' \in [Conns -> Seq(Submission)]
    BY <1>2, <2>1, SubmissionsType DEF ETypeOK
  <2>4. ETypeOK'
    BY <1>1, <1>3, <2>1, <2>2, <2>3 DEF ETypeOK, DocsKept
  <2>5. SubmittingIsStored'
    <3>1. \A d \in Conns : pc[d] = "ending" => matchID[d] \in Matches
      BY EndingInMatch
    <3>2. QED
      BY <1>1, <2>1, <2>2, <3>1 DEF ETypeOK, SubmittingIsStored, At, DocsKept
  <2>6. QED
    BY <1>4, <1>5, <2>2, <2>4, <2>5
<1>8. CASE SubmitScore(c) \/ SubmitScoreFail(c)
  <2>1. /\ UNCHANGED << doc, stage >> /\ todo[c] # << >>
        /\ todo' = [todo EXCEPT ![c] = Tail(todo[c])]
        /\ \/ boards' = [boards EXCEPT ![Head(todo[c]).board][Head(todo[c]).user] =
                           Best(@, Head(todo[c]).score)]
           \/ boards' = boards
        /\ lost' = lost \/ lost' = lost \union {frame[c].n}
    BY <1>8 DEF SubmitScore, SubmitScoreFail, storeVars
  <2>2. Head(todo[c]) \in Submission /\ Tail(todo[c]) \in Seq(Submission)
    BY <2>1 DEF ETypeOK
  <2>3. boards' \in [Boards -> [Users -> Nat]]
    <3> DEFINE s == Head(todo[c])
    <3>1. s.board \in Boards /\ s.user \in Users /\ s.score \in Nat
      BY <2>2 DEF Submission
    <3>2. boards[s.board][s.user] \in Nat
      BY <3>1 DEF ETypeOK
    <3>3. Best(boards[s.board][s.user], s.score) \in Nat
      BY <3>1, <3>2 DEF Best
    <3>4. boards[s.board] \in [Users -> Nat]
      BY <3>1 DEF ETypeOK
    <3> DEFINE v == Best(boards[s.board][s.user], s.score)
               row == [boards[s.board] EXCEPT ![s.user] = v]
    <3>5. boards' = boards \/ boards' = [boards EXCEPT ![s.board] = row]
      BY <2>1
    <3>6. row \in [Users -> Nat]
      BY <3>3, <3>4
    <3> HIDE DEF s, row
    <3>7. QED
      BY <3>1, <3>5, <3>6 DEF ETypeOK
  <2>4. lost' \in SUBSET (1..MaxFrames)
    BY <1>2, <2>1 DEF ETypeOK, Frame
  <2>5. ETypeOK' /\ DocsKept
    BY <1>1, <1>3, <2>1, <2>2, <2>3, <2>4 DEF ETypeOK, DocsKept
  <2>6. SubmittingIsStored'
    BY <1>1, <2>1 DEF SubmittingIsStored, At
  <2>7. QED
    BY <1>4, <1>5, <2>5, <2>6
<1>9. QED
  BY <1>6, <1>7, <1>8

\* The store phase fails; what UpsertMatch did before its error stays.
LEMMA FailingStored ==
  ASSUME IInv, IInv', StoredInv, NEW c \in Conns, GetMatchFail(c) \/ UpsertMatchFail(c)
  PROVE  StoredInv'
<1> USE DEF StoredInv
<1>1. /\ pc[c] = "ending" /\ pc' = [pc EXCEPT ![c] = "close"]
      /\ frame' = [frame EXCEPT ![c] = None]
      /\ stage' = [stage EXCEPT ![c] = "idle"]
      /\ UNCHANGED << matchID, echo, inbox, frames, boards, report, todo, lost >>
  BY DEF GetMatchFail, UpsertMatchFail, StoreError, EndError, At, Goto, GoStage,
         storeVars, ioVars
<1>2. DocsKept
  <2>1. CASE GetMatchFail(c)
    BY <2>1 DEF GetMatchFail, DocsKept, ETypeOK, storeVars
  <2>2. CASE UpsertMatchFail(c)
    BY <1>1, <2>2, StoringKeepsDocs DEF UpsertMatchFail
  <2>3. QED
    BY <2>1, <2>2
<1>3. ETypeOK'
  BY <1>1, <1>2 DEF ETypeOK, IInv, DocsKept
<1>4. EndingIsReported'
  BY <1>1 DEF IInv, TypeOK, EndingIsReported, Filed
<1>5. SubmittingIsStored'
  <2>1. \A d \in Conns : pc[d] = "ending" => matchID[d] \in Matches
    BY EndingInMatch
  <2>2. QED
    BY <1>1, <1>2, <2>1 DEF ETypeOK, TypeOK, SubmittingIsStored, At, DocsKept
<1>6. UnderwayIsStored'
  <2>1. ASSUME NEW f \in Frame, Underway(f)' PROVE Underway(f)
    BY <1>1, <2>1 DEF IInv, TypeOK, Underway
  <2>2. QED
    BY <1>2, <2>1 DEF UnderwayIsStored, IsStored, DocsKept, Frame
<1>7. QED
  BY <1>3, <1>4, <1>5, <1>6

\* The store phase ends well: its frame, whose match has ended, is fanned out.
LEMMA SubmittedStored ==
  ASSUME IInv, IInv', StoredInv, NEW c \in Conns, Submitted(c)
  PROVE  StoredInv'
<1> USE DEF StoredInv
<1>1. /\ At(c, "submit") /\ pc[c] = "ending"
      /\ pc' = [pc EXCEPT ![c] = "lookup"] /\ stage' = [stage EXCEPT ![c] = "idle"]
      /\ UNCHANGED << matchID, frame, echo, inbox, frames, doc, boards, report, todo, lost >>
  BY DEF Submitted, EndStored, At, Goto, GoStage, storeVars, fanVars, ioVars
<1>2. ETypeOK'
  BY <1>1 DEF ETypeOK, IInv
<1>3. (EndingIsReported /\ SubmittingIsStored)'
  BY <1>1 DEF IInv, TypeOK, ETypeOK, EndingIsReported, SubmittingIsStored, Filed, At
<1>4. UnderwayIsStored'
  <2>1. IsStored(frame[c])
    BY <1>1, EndingInMatch DEF SubmittingIsStored, IsStored
  <2>2. ASSUME NEW f \in Frame, Underway(f)' PROVE f = frame[c] \/ Underway(f)
    BY <1>1, <2>2 DEF IInv, TypeOK, Underway
  <2>3. QED
    BY <1>1, <2>1, <2>2 DEF UnderwayIsStored, IsStored
<1>5. QED
  BY <1>2, <1>3, <1>4

\* A restart forgets everything but the store.
LEMMA ERestartStored ==
  ASSUME IInv, IInv', StoredInv, ERestart
  PROVE  StoredInv'
<1> USE DEF StoredInv
<1>1. /\ UNCHANGED << doc, boards, report, lost >>
      /\ stage' = [c \in Conns |-> "idle"] /\ todo' = [c \in Conns |-> << >>]
  BY DEF ERestart, storeVars
<1>2. ETypeOK'
  <2>1. << >> \in Seq(Submission)
    OBVIOUS
  <2>2. QED
    BY <1>1, <2>1 DEF ETypeOK, IInv
<1>3. (EndingIsReported /\ SubmittingIsStored)'
  BY <1>1 DEF ERestart, Restart, Running, IInv, TypeOK, PCs, EndingIsReported,
              SubmittingIsStored, At
<1>4. UnderwayIsStored'
  BY DEF ERestart, Restart, Running, IInv, TypeOK, PCs, UnderwayIsStored, Underway
<1>5. QED
  BY <1>2, <1>3, <1>4

\* Every step of the hub with the store keeps StoredInv.
LEMMA StoredNext == IInv /\ IInv' /\ StoredInv /\ [ENext]_vars => StoredInv'
<1> SUFFICES ASSUME IInv, IInv', StoredInv, [ENext]_vars PROVE StoredInv'
  OBVIOUS
<1>1. CASE ERestart
  BY <1>1, ERestartStored
<1>2. ASSUME NEW c \in Conns, HubStep(c) PROVE StoredInv'
  BY <1>2, HubStepStored
<1>3. ASSUME NEW c \in Conns, StoreStep(c) PROVE StoredInv'
  BY <1>3, GoingOnStored, FailingStored, SubmittedStored DEF StoreStep
<1>4. ASSUME NEW c \in Conns, NEW m \in Matches, ReceiveEnd(c, m) PROVE StoredInv'
  BY <1>4, ReceiveEndStored
<1>5. CASE UNCHANGED vars
  BY <1>5 DEF vars, hubVars, connVars, roomVars, fanVars, ioVars, endVars, StoredInv,
     ETypeOK, TypeOK, EndingIsReported, SubmittingIsStored, UnderwayIsStored, Underway,
     IsStored, Filed, At
<1>6. QED
  BY <1>1, <1>2, <1>3, <1>4, <1>5 DEF ENext
-----------------------------------------------------------------------------
\* A MATCH_END is under way only when its match has ended in the store.
THEOREM StoredInvariance == ESpec => []StoredInv
<1>1. EInit => StoredInv
  BY StoredInit
<1>2. QED
  BY <1>1, StoredNext, EInvariance, PTL DEF ESpec

\* Every variable of the hub and of the store phase keeps its type.
THEOREM MatchEndTypeCorrect == ESpec => []ETypeOK
<1>1. StoredInv => ETypeOK
  BY DEF StoredInv
<1>2. QED
  BY <1>1, StoredInvariance, PTL

\* For any number of players, matches, connections, reports and restarts, and
\* whatever the store does: a client that has received a MATCH_END can rely on
\* the match being stored as ended.
THEOREM ToldAfterStored == ESpec => []ToldOnlyAfterStored
<1>1. IInv /\ StoredInv => ToldOnlyAfterStored
  <2> SUFFICES ASSUME IInv, StoredInv, NEW c \in Conns, NEW i \in DOMAIN inbox[c],
                      inbox[c][i].type = "end"
               PROVE  doc[inbox[c][i].match].state = "ended"
    BY DEF ToldOnlyAfterStored
  <2>1. inbox[c][i] \in Frame
    BY DEF IInv, TypeOK
  <2>2. Underway(inbox[c][i])
    BY DEF Underway
  <2>3. QED
    BY <2>1, <2>2 DEF StoredInv, UnderwayIsStored, IsStored
<1>2. QED
  BY <1>1, StoredInvariance, EInvariance, PTL
-----------------------------------------------------------------------------
(***************************************************************************)
(* ResultInv is inductive, given IInv and StoredInv.                       *)
(***************************************************************************)
ReportsKept == /\ frames \in Nat /\ frames' \in 0..MaxFrames /\ frames <= frames'
               /\ \A n \in 1..frames : report'[n] = report[n]

BoardsGrow == \A b \in Boards, u \in Users :
                /\ boards[b][u] \in Nat /\ boards'[b][u] \in Nat
                /\ boards[b][u] <= boards'[b][u]

\* Nothing reported, credited or lost is forgotten.
Kept == ReportsKept /\ BoardsGrow /\ lost \subseteq lost'

\* The sides of a match are its players, with a score each.
LEMMA SidesType ==
  ASSUME NEW m \in Matches, NEW r \in Reports, NEW i \in Sides(m)
  PROVE  /\ i \in {1, 2} /\ i <= Len(Players[m])
         /\ Players[m][i] \in Users /\ Contains(Players[m], Players[m][i])
         /\ ScoreOf(r, i) \in Int
         /\ DateOf[m] \in Boards /\ Global \in Boards
<1>1. Players[m] \in Seq(Users) /\ i \in DOMAIN Players[m] /\ i \in {1, 2}
  BY HubAssumption DEF Sides
<1>2. Players[m][i] \in Users /\ i <= Len(Players[m])
  BY <1>1
<1>3. Contains(Players[m], Players[m][i])
  BY <1>1 DEF Contains
<1>4. ScoreOf(r, i) \in Int /\ DateOf[m] \in Boards /\ Global \in Boards
  BY MatchEndAssumption DEF ScoreOf, Boards
<1>5. QED
  BY <1>1, <1>2, <1>3, <1>4

\* A filed report stays what it is.
LEMMA FiledKept ==
  ASSUME ReportsKept, NEW n, NEW m, Filed(n, m)
  PROVE  Filed(n, m)' /\ report'[n] = report[n]
  BY HubAssumption DEF ReportsKept, Filed

\* A score that was reported stays so.
LEMMA ScoreKept ==
  ASSUME ReportsKept, NEW b, NEW u, NEW s, ScoreReported(b, u, s)
  PROVE  ScoreReported(b, u, s)'
<1>1. PICK m \in Matches : \E i \in Sides(m) : \E n \in 1..MaxFrames :
           /\ b \in {DateOf[m], Global} /\ Players[m][i] = u
           /\ Filed(n, m) /\ ScoreOf(report[n].result, i) = s
  BY DEF ScoreReported
<1>2. PICK i \in Sides(m), n \in 1..MaxFrames :
           /\ b \in {DateOf[m], Global} /\ Players[m][i] = u
           /\ Filed(n, m) /\ ScoreOf(report[n].result, i) = s
  BY <1>1
<1>3. Filed(n, m)' /\ report'[n] = report[n]
  BY <1>2, FiledKept
<1>4. QED
  BY <1>2, <1>3 DEF ScoreReported

\* Both boards keep a credit.
LEMMA CreditKept ==
  ASSUME BoardsGrow, NEW m \in Matches, NEW i \in Sides(m), NEW s \in Int,
         Credited(m, i, s)
  PROVE  Credited(m, i, s)'
<1>1. Players[m][i] \in Users /\ DateOf[m] \in Boards /\ Global \in Boards
  <2>1. Players[m] \in Seq(Users) /\ i \in DOMAIN Players[m]
    BY HubAssumption DEF Sides
  <2>2. QED
    BY <2>1, MatchEndAssumption DEF Boards
<1>2. QED
  BY <1>1 DEF Credited, BoardsGrow

\* A frame that was under way is as good as it was.
LEMMA UnderwayKept ==
  ASSUME Kept, UnderwayIsCredited, NEW f \in Frame, Underway(f), f.type = "end"
  PROVE  /\ Filed(f.n, f.match)'
         /\ f.n \notin lost' =>
              \A i \in Sides(f.match) : Credited(f.match, i, ScoreOf(report[f.n].result, i))'
<1>1. Filed(f.n, f.match) /\ f.match \in Matches
  BY DEF UnderwayIsCredited, Frame
<1>2. Filed(f.n, f.match)' /\ report'[f.n] = report[f.n] /\ report[f.n].result \in Reports
  BY <1>1, FiledKept DEF Kept, Filed, Report
<1>3. ASSUME f.n \notin lost', NEW i \in Sides(f.match)
      PROVE  Credited(f.match, i, ScoreOf(report[f.n].result, i))'
  <2>1. PICK s : s = ScoreOf(report[f.n].result, i)
    OBVIOUS
  <2>2. s \in Int
    BY <1>1, <1>2, <2>1, SidesType
  <2>3. Credited(f.match, i, s)
    BY <1>3, <2>1 DEF UnderwayIsCredited, Kept
  <2>4. Credited(f.match, i, s)'
    BY <1>1, <2>2, <2>3, CreditKept DEF Kept
  <2>5. QED
    BY <1>2, <2>1, <2>4
<1>4. QED
  BY <1>2, <1>3

\* So is a handler that does not move.
LEMMA HandlerKept ==
  ASSUME Kept, EndingIsReported, NEW c \in Conns, pc[c] = "ending", TodoReported(c), WillCredit(c),
         matchID[c] \in Matches,
         frame'[c] = frame[c], matchID'[c] = matchID[c], todo'[c] = todo[c]
  PROVE  TodoReported(c)' /\ WillCredit(c)'
<1>1. TodoReported(c)'
  <2>1. ASSUME NEW k \in DOMAIN todo[c]
        PROVE  ScoreReported(todo[c][k].board, todo[c][k].user, todo[c][k].score)'
    <3>1. PICK b, u, s : b = todo[c][k].board /\ u = todo[c][k].user /\ s = todo[c][k].score
      OBVIOUS
    <3>2. ScoreReported(b, u, s)'
      BY <3>1, ScoreKept DEF Kept, TodoReported
    <3>3. QED
      BY <3>1, <3>2
  <2>2. QED
    BY <2>1 DEF TodoReported
<1>2. Result(c)' = Result(c) /\ Result(c) \in Reports
  BY FiledKept, EndingResult DEF EndingIsReported, Result, Kept
<1>3. ASSUME frame[c].n \notin lost', NEW i \in Sides(matchID[c]),
             NEW b \in {DateOf[matchID[c]], Global}
      PROVE  \/ boards'[b][Players[matchID[c]][i]] >= ScoreOf(Result(c), i)
             \/ \E k \in DOMAIN todo[c] : todo[c][k] =
                  [board |-> b, user |-> Players[matchID[c]][i], score |-> ScoreOf(Result(c), i)]
  <2> DEFINE u == Players[matchID[c]][i]
             s == ScoreOf(Result(c), i)
  <2>1. \/ boards[b][u] >= s
        \/ \E k \in DOMAIN todo[c] : todo[c][k] = [board |-> b, user |-> u, score |-> s]
    BY <1>3 DEF WillCredit, Kept
  <2>2. u \in Users /\ b \in Boards /\ s \in Int
    BY <1>2, <1>3, SidesType
  <2>3. boards[b][u] \in Nat /\ boards'[b][u] \in Nat /\ boards[b][u] <= boards'[b][u]
    BY <2>2 DEF Kept, BoardsGrow
  <2> HIDE DEF u, s
  <2>4. boards[b][u] >= s => boards'[b][u] >= s
    BY <2>2, <2>3
  <2>5. QED
    BY <2>1, <2>4 DEF u, s
<1>4. WillCredit(c)'
  BY <1>2, <1>3 DEF WillCredit
<1>5. QED
  BY <1>1, <1>4

\* Reports are written once, at a place of their own.
LEMMA StepKeepsReports ==
  ASSUME IInv, IInv', StoredInv, [ENext]_vars
  PROVE  ReportsKept
<1>1. frames \in 0..MaxFrames /\ frames' \in 0..MaxFrames
  BY DEF IInv, TypeOK
<1>2. CASE ERestart
  BY <1>1, <1>2 DEF ERestart, Restart, ReportsKept
<1>3. ASSUME NEW c \in Conns, HubStep(c) PROVE ReportsKept
  <2>1. report' = report /\ (frames' = frames \/ frames' = frames + 1)
    BY <1>3, FramesGrow DEF HubStep, endVars, IInv
  <2>2. QED
    BY <1>1, <2>1 DEF ReportsKept
<1>4. ASSUME NEW c \in Conns, StoreStep(c) PROVE ReportsKept
  <2>1. report' = report /\ frames' = frames
    BY <1>4 DEF StoreStep, GetMatch, GetMatchFail, UpsertMatch, UpsertMatchFail, SubmitScore,
                SubmitScoreFail, Submitted, StoreError, EndError, EndStored, hubVars, ioVars
  <2>2. QED
    BY <1>1, <2>1 DEF ReportsKept
<1>5. ASSUME NEW c \in Conns, NEW m \in Matches, ReceiveEnd(c, m) PROVE ReportsKept
  <2>1. frames' = frames + 1
    BY <1>5 DEF ReceiveEnd, MatchEnd, Receive
  <2>2. \A n \in 1..frames : report'[n] = report[n]
    <3>1. report' = report \/ \E r : report' = [report EXCEPT ![frames'] = r]
      BY <1>5 DEF ReceiveEnd
    <3>2. QED
      <4>1. CASE report' = report
        BY <4>1
      <4>2. CASE \E r : report' = [report EXCEPT ![frames'] = r]
        <5>1. PICK r : report' = [report EXCEPT ![frames + 1] = r]
          BY <2>1, <4>2
        <5>2. report \in [1..MaxFrames -> Report \union {None}]
          BY DEF StoredInv, ETypeOK
        <5>3. \A n \in 1..frames : n \in 1..MaxFrames /\ n # frames + 1
          BY <1>1, HubAssumption
        <5>4. QED
          BY <5>1, <5>2, <5>3
      <4>3. QED
        BY <3>1, <4>1, <4>2
  <2>3. QED
    BY <1>1, <2>1, <2>2 DEF ReportsKept
<1>6. CASE UNCHANGED vars
  BY <1>1, <1>6 DEF vars, hubVars, ioVars, endVars, ReportsKept
<1>7. QED
  BY <1>2, <1>3, <1>4, <1>5, <1>6 DEF ENext

\* Boards that do not change grow.
LEMMA SameBoards ==
  ASSUME ETypeOK, ReportsKept, boards' = boards, lost \subseteq lost'
  PROVE  Kept
  BY DEF ETypeOK, Kept, BoardsGrow

\* Boards that do not change hold reported scores still.
LEMMA SameBoardsReported ==
  ASSUME ReportsKept, BoardScoresWereReported, boards' = boards
  PROVE  BoardScoresWereReported'
<1>1. ASSUME NEW b \in Boards, NEW u \in Users, boards[b][u] > 0
      PROVE  ScoreReported(b, u, boards[b][u])'
  <2>1. PICK s : s = boards[b][u]
    OBVIOUS
  <2>2. ScoreReported(b, u, s)'
    BY <1>1, <2>1, ScoreKept DEF BoardScoresWereReported
  <2>3. QED
    BY <2>1, <2>2
<1>2. QED
  BY <1>1 DEF BoardScoresWereReported

\* So do documents hold reported results.
LEMMA SameDocsReported ==
  ASSUME ReportsKept, StoredResultWasReported, doc' = doc
  PROVE  StoredResultWasReported'
<1>1. ASSUME NEW m \in Matches, doc[m].state = "ended"
      PROVE  \E n \in 1..MaxFrames : (Filed(n, m) /\ doc[m] = Ended(report[n].result))'
  <2>1. PICK n \in 1..MaxFrames : Filed(n, m) /\ doc[m] = Ended(report[n].result)
    BY <1>1 DEF StoredResultWasReported
  <2>2. Filed(n, m)' /\ report'[n] = report[n]
    BY <2>1, FiledKept
  <2>3. QED
    BY <2>1, <2>2
<1>2. QED
  BY <1>1 DEF StoredResultWasReported

\* A result that passed the test of its winner may be stored.
LEMMA StoringReported ==
  ASSUME IInv, StoredInv, ReportsKept, StoredResultWasReported, UpsertIsValid,
         NEW c \in Conns, At(c, "upsert"),
         NEW d \in {doc[matchID[c]], Ended(Result(c))},
         doc' = [doc EXCEPT ![matchID[c]] = d]
  PROVE  StoredResultWasReported'
<1>1. pc[c] = "ending" /\ matchID[c] \in Matches
  BY EndingInMatch DEF At
<1>2. CASE d = doc[matchID[c]]
  BY <1>1, <1>2, SameDocsReported DEF StoredInv, ETypeOK
<1>3. CASE d = Ended(Result(c))
  <2>1. PICK k, m : k = frame[c].n /\ m = matchID[c]
    OBVIOUS
  <2>2. Filed(k, m) /\ k \in 1..MaxFrames /\ m \in Matches
    BY <1>1, <2>1, HubAssumption DEF StoredInv, EndingIsReported, Filed, IInv, TypeOK
  <2>3. Filed(k, m)' /\ report'[k] = report[k]
    BY <2>2, FiledKept
  <2>4. doc' = [doc EXCEPT ![m] = Ended(report[k].result)] /\ doc \in [Matches -> Doc]
    BY <1>3, <2>1 DEF Result, StoredInv, ETypeOK
  <2>5. doc'[m] = Ended(report[k].result)
    BY <2>2, <2>4
  <2>6. doc'[m].winner = None \/ Contains(Players[m], doc'[m].winner)
    <3>1. ValidWinner(report[k].result, m)
      BY <2>1 DEF UpsertIsValid, Result
    <3>2. doc'[m].winner = report[k].result.winner
      BY <2>5 DEF Ended
    <3>3. QED
      BY <3>1, <3>2 DEF ValidWinner, roleOf
  <2>7. ASSUME NEW x \in Matches, doc'[x].state = "ended"
        PROVE  /\ \E n \in 1..MaxFrames : (Filed(n, x) /\ doc[x] = Ended(report[n].result))'
               /\ doc'[x].winner = None \/ Contains(Players[x], doc'[x].winner)
    <3>1. CASE x = m
      BY <2>2, <2>3, <2>5, <2>6, <3>1
    <3>2. CASE x # m
      <4>1. doc'[x] = doc[x]
        BY <2>4, <3>2
      <4>2. PICK n \in 1..MaxFrames : Filed(n, x) /\ doc[x] = Ended(report[n].result)
        BY <2>7, <4>1 DEF StoredResultWasReported
      <4>3. Filed(n, x)' /\ report'[n] = report[n]
        BY <4>2, FiledKept
      <4>4. doc'[x].winner = None \/ Contains(Players[x], doc'[x].winner)
        BY <2>7, <4>1 DEF StoredResultWasReported
      <4>5. QED
        BY <4>1, <4>2, <4>3, <4>4
    <3>3. QED
      BY <3>1, <3>2
  <2>8. QED
    BY <2>7 DEF StoredResultWasReported
<1>4. QED
  BY <1>2, <1>3

\* Handlers that wait to store keep what they have tested.
LEMMA UpsertKept ==
  ASSUME StoredInv, ReportsKept, UpsertIsValid,
         \A d \in Conns : At(d, "upsert")' =>
           At(d, "upsert") /\ frame'[d] = frame[d] /\ matchID'[d] = matchID[d]
  PROVE  UpsertIsValid'
<1>1. ASSUME NEW d \in Conns, At(d, "upsert")' PROVE ValidWinner(Result(d), matchID[d])'
  <2>1. At(d, "upsert") /\ frame'[d] = frame[d] /\ matchID'[d] = matchID[d]
    BY <1>1
  <2>2. Filed(frame[d].n, matchID[d])
    BY <2>1 DEF At, StoredInv, EndingIsReported
  <2>3. report'[frame[d].n] = report[frame[d].n]
    BY <2>2, FiledKept
  <2>4. ValidWinner(Result(d), matchID[d])
    BY <2>1 DEF UpsertIsValid
  <2>5. Result(d)' = Result(d)
    BY <2>1, <2>3 DEF Result
  <2>6. QED
    BY <2>1, <2>4, <2>5 DEF ValidWinner
<1>2. QED
  BY <1>1 DEF UpsertIsValid

\* Steps that move no handler through its submissions keep what they owe.
LEMMA SubmittingKept ==
  ASSUME IInv, StoredInv, Kept, SubmittingCredits, NEW S \in SUBSET Conns,
         \A d \in S : At(d, "submit")' =>
           /\ At(d, "submit") /\ frame'[d] = frame[d] /\ matchID'[d] = matchID[d]
           /\ todo'[d] = todo[d]
  PROVE  \A d \in S : At(d, "submit")' => TodoReported(d)' /\ WillCredit(d)'
<1>1. ASSUME NEW d \in S, At(d, "submit")' PROVE TodoReported(d)' /\ WillCredit(d)'
  <2>1. /\ At(d, "submit") /\ pc[d] = "ending" /\ frame'[d] = frame[d]
        /\ matchID'[d] = matchID[d] /\ todo'[d] = todo[d]
    BY <1>1 DEF At
  <2>2. matchID[d] \in Matches
    BY <2>1, EndingInMatch
  <2>3. TodoReported(d) /\ WillCredit(d)
    BY <2>1 DEF SubmittingCredits
  <2>4. QED
    BY <2>1, <2>2, <2>3, HandlerKept DEF StoredInv
<1>2. QED
  BY <1>1

\* Steps that put no MATCH_END under way leave those that are as they are.
LEMMA NoneUnderway ==
  ASSUME Kept, UnderwayIsCredited,
         \A f \in Frame : f.type = "end" /\ Underway(f)' => Underway(f)
  PROVE  UnderwayIsCredited'
<1>1. ASSUME NEW f \in Frame, Underway(f)', f.type = "end"
      PROVE  /\ Filed(f.n, f.match)'
             /\ f.n \notin lost' =>
                  \A i \in Sides(f.match) :
                     Credited(f.match, i, ScoreOf(report[f.n].result, i))'
  BY <1>1, UnderwayKept
<1>2. QED
  BY <1>1 DEF UnderwayIsCredited

\* A step that touches neither documents nor boards, stores nothing and puts no
\* MATCH_END under way.
LEMMA IdleStep ==
  ASSUME IInv, StoredInv, ResultInv, ReportsKept,
         UNCHANGED << doc, boards, lost >>,
         \A d \in Conns : \A step \in {"upsert", "submit"} : At(d, step)' =>
           /\ At(d, step) /\ frame'[d] = frame[d] /\ matchID'[d] = matchID[d]
           /\ todo'[d] = todo[d],
         \A f \in Frame : f.type = "end" /\ Underway(f)' => Underway(f)
  PROVE  ResultInv'
<1> USE DEF ResultInv
<1>1. Kept
  BY SameBoards DEF StoredInv
<1>2. UpsertIsValid'
  BY UpsertKept
<1>3. SubmittingCredits'
  BY <1>1, SubmittingKept DEF SubmittingCredits
<1>4. UnderwayIsCredited'
  BY <1>1, NoneUnderway
<1>5. StoredResultWasReported' /\ BoardScoresWereReported'
  BY SameDocsReported, SameBoardsReported
<1>6. QED
  BY <1>2, <1>3, <1>4, <1>5

\* The rest of the hub leaves results alone.
LEMMA HubStepResult ==
  ASSUME IInv, StoredInv, ResultInv, ReportsKept, NEW c \in Conns, HubStep(c)
  PROVE  ResultInv'
<1>1. UNCHANGED << doc, boards, lost, stage, todo >>
  BY DEF HubStep, endVars
<1>2. QED
  BY <1>1, HubStepEnding, HubStepUnderway, IdleStep DEF At

\* An accepted MATCH_END is only filed.
LEMMA ReceiveEndResult ==
  ASSUME IInv, StoredInv, ResultInv, ReportsKept,
         NEW c \in Conns, NEW m \in Matches, ReceiveEnd(c, m)
  PROVE  ResultInv'
<1>1. UNCHANGED << doc, boards, todo, lost, echo, inbox, matchID >>
  BY DEF ReceiveEnd, MatchEnd, Accept, Fail, storeVars, connVars
<1>2. /\ \/ pc' = [pc EXCEPT ![c] = "ending"] /\ stage' = [stage EXCEPT ![c] = "get"]
         \/ pc' = [pc EXCEPT ![c] = "close"] /\ frame' = frame /\ stage' = stage
      /\ \A d \in Conns : d # c => frame'[d] = frame[d]
  <2>1. CASE HasStore /\ InRoom(c, m)
    BY <2>1 DEF ReceiveEnd, MatchEnd, Accept, Goto, GoStage, IInv, TypeOK
  <2>2. CASE ~(HasStore /\ InRoom(c, m))
    <3>1. pc' = [pc EXCEPT ![c] = "close"] /\ frame' = frame
      BY <2>2 DEF ReceiveEnd, MatchEnd, Fail, Goto, fanVars
    <3>2. QED
      BY <3>1 DEF ReceiveEnd, IInv, TypeOK
  <2>3. QED
    BY <2>1, <2>2
<1>3. \A d \in Conns : \A step \in {"upsert", "submit"} : At(d, step)' =>
        /\ At(d, step) /\ frame'[d] = frame[d] /\ matchID'[d] = matchID[d]
        /\ todo'[d] = todo[d]
  BY <1>1, <1>2 DEF At, IInv, TypeOK, StoredInv, ETypeOK
<1>4. \A f \in Frame : f.type = "end" /\ Underway(f)' => Underway(f)
  BY <1>1, <1>2 DEF Underway, IInv, TypeOK
<1>5. QED
  BY <1>1, <1>3, <1>4, IdleStep

\* A restart forgets handlers, not results.
LEMMA ERestartResult ==
  ASSUME IInv, StoredInv, ResultInv, ReportsKept, ERestart
  PROVE  ResultInv'
<1>1. UNCHANGED << doc, boards, lost >> /\ stage' = [c \in Conns |-> "idle"]
  BY DEF ERestart, storeVars
<1>2. \A f \in Frame : f.type = "end" /\ Underway(f)' => Underway(f)
  BY DEF ERestart, Restart, Running, IInv, TypeOK, PCs, Underway
<1>3. QED
  BY <1>1, <1>2, IdleStep DEF At

\* GetMatch finds the match and the winner to be acceptable.
LEMMA GetMatchResult ==
  ASSUME IInv, StoredInv, ResultInv, ReportsKept, NEW c \in Conns, GetMatch(c)
  PROVE  ResultInv'
<1> USE DEF ResultInv
<1>1. /\ UNCHANGED << pc, matchID, frame, echo, inbox, doc, boards, report, todo, lost >>
      /\ stage' = [stage EXCEPT ![c] = "upsert"]
      /\ At(c, "get") /\ ValidWinner(Result(c), matchID[c])
  BY DEF GetMatch, GoStage, hubVars, connVars, fanVars, ioVars, storeVars
<1>2. Kept
  BY <1>1, SameBoards DEF StoredInv
<1>3. UpsertIsValid'
  BY <1>1 DEF StoredInv, ETypeOK, UpsertIsValid, At, Result, ValidWinner
<1>4. \A d \in Conns : At(d, "submit")' =>
        At(d, "submit") /\ frame'[d] = frame[d] /\ matchID'[d] = matchID[d] /\ todo'[d] = todo[d]
  BY <1>1 DEF At, StoredInv, ETypeOK
<1>5. SubmittingCredits'
  BY <1>2, <1>4, SubmittingKept DEF SubmittingCredits
<1>6. UnderwayIsCredited'
  BY <1>1, <1>2, NoneUnderway DEF Underway
<1>7. StoredResultWasReported' /\ BoardScoresWereReported'
  BY <1>1, SameDocsReported, SameBoardsReported
<1>8. QED
  BY <1>3, <1>5, <1>6, <1>7

\* A handler that fails owes nothing more; what UpsertMatch did stays.
LEMMA FailingResult ==
  ASSUME IInv, StoredInv, ResultInv, ReportsKept, NEW c \in Conns,
         GetMatchFail(c) \/ UpsertMatchFail(c)
  PROVE  ResultInv'
<1> USE DEF ResultInv
<1>1. /\ pc' = [pc EXCEPT ![c] = "close"]
      /\ frame' = [frame EXCEPT ![c] = None]
      /\ stage' = [stage EXCEPT ![c] = "idle"]
      /\ UNCHANGED << matchID, echo, inbox, boards, report, todo, lost >>
  BY DEF GetMatchFail, UpsertMatchFail, StoreError, EndError, Goto, GoStage, storeVars, ioVars
<1>2. Kept
  BY <1>1, SameBoards DEF StoredInv
<1>3. \A d \in Conns : \A step \in {"upsert", "submit"} : At(d, step)' =>
        /\ At(d, step) /\ frame'[d] = frame[d] /\ matchID'[d] = matchID[d]
        /\ todo'[d] = todo[d]
  BY <1>1 DEF At, IInv, TypeOK, StoredInv, ETypeOK
<1>4. UpsertIsValid'
  BY <1>3, UpsertKept
<1>5. SubmittingCredits'
  BY <1>2, <1>3, SubmittingKept DEF SubmittingCredits
<1>6. UnderwayIsCredited'
  <2>1. \A f \in Frame : f.type = "end" /\ Underway(f)' => Underway(f)
    BY <1>1 DEF IInv, TypeOK, Underway
  <2>2. QED
    BY <1>2, <2>1, NoneUnderway
<1>7. StoredResultWasReported'
  <2>1. CASE GetMatchFail(c)
    BY <2>1, SameDocsReported DEF GetMatchFail, storeVars
  <2>2. CASE UpsertMatchFail(c)
    <3>1. PICK d \in {doc[matchID[c]], Ended(Result(c))} : doc' = [doc EXCEPT ![matchID[c]] = d]
      BY <2>2 DEF UpsertMatchFail
    <3>2. QED
      BY <2>2, <3>1, StoringReported DEF UpsertMatchFail
  <2>3. QED
    BY <2>1, <2>2
<1>8. BoardScoresWereReported'
  BY <1>1, SameBoardsReported
<1>9. QED
  BY <1>4, <1>5, <1>6, <1>7, <1>8
-----------------------------------------------------------------------------
\* The elements of a concatenation of submissions are those of its parts.
LEMMA ConcatElements ==
  ASSUME NEW A \in Seq(Submission), NEW B \in Seq(Submission)
  PROVE  /\ \A k \in DOMAIN (A \o B) : \/ \E j \in DOMAIN A : (A \o B)[k] = A[j]
                                       \/ \E j \in DOMAIN B : (A \o B)[k] = B[j]
         /\ \A j \in DOMAIN A : \E k \in DOMAIN (A \o B) : (A \o B)[k] = A[j]
         /\ \A j \in DOMAIN B : \E k \in DOMAIN (A \o B) : (A \o B)[k] = B[j]
<1> DEFINE C == A \o B
<1>1. /\ DOMAIN A = 1..Len(A) /\ DOMAIN B = 1..Len(B) /\ DOMAIN C = 1..Len(A) + Len(B)
      /\ Len(A) \in Nat /\ Len(B) \in Nat
  OBVIOUS
<1>2. \A k \in 1..Len(A) : k \in DOMAIN C /\ C[k] = A[k]
  BY <1>1
<1>3. \A k \in 1..Len(B) : k + Len(A) \in DOMAIN C /\ C[k + Len(A)] = B[k]
  BY <1>1
<1>4. ASSUME NEW k \in DOMAIN C, k \notin 1..Len(A)
      PROVE  k - Len(A) \in 1..Len(B) /\ C[k] = B[k - Len(A)]
  BY <1>1, <1>4
<1> HIDE DEF C
<1>5. \A k \in DOMAIN C : (\E j \in DOMAIN A : C[k] = A[j]) \/ (\E j \in DOMAIN B : C[k] = B[j])
  BY <1>1, <1>2, <1>4
<1>6. \A j \in DOMAIN A : \E k \in DOMAIN C : C[k] = A[j]
  BY <1>1, <1>2
<1>7. \A j \in DOMAIN B : \E k \in DOMAIN C : C[k] = B[j]
  BY <1>1, <1>3
<1>8. QED
  BY <1>5, <1>6, <1>7 DEF C

\* The calls for one player carry its score to both boards.
LEMMA ScoreCallsAre ==
  ASSUME NEW m \in Matches, NEW u, NEW s \in Int
  PROVE  LET calls == ScoreCalls(m, u, s)
         IN  /\ \A k \in DOMAIN calls : /\ calls[k].user = u /\ calls[k].score = s
                                        /\ calls[k].board \in {DateOf[m], Global}
             /\ s > 0 => \A b \in {DateOf[m], Global} : \E k \in DOMAIN calls :
                           calls[k] = [board |-> b, user |-> u, score |-> s]
<1> DEFINE x == [board |-> DateOf[m], user |-> u, score |-> s]
           y == [board |-> Global, user |-> u, score |-> s]
<1>1. CASE s > 0
  <2>1. ScoreCalls(m, u, s) = << x, y >>
    BY <1>1 DEF ScoreCalls
  <2>2. DOMAIN << x, y >> = {1, 2} /\ << x, y >>[1] = x /\ << x, y >>[2] = y
    OBVIOUS
  <2>3. QED
    BY <2>1, <2>2
<1>2. CASE ~(s > 0)
  <2>1. ScoreCalls(m, u, s) = << >>
    BY <1>2 DEF ScoreCalls
  <2>2. QED
    BY <1>2, <2>1
<1>3. QED
  BY <1>1, <1>2

\* The submissions of a report are those of its sides.
LEMMA SubmissionsAre ==
  ASSUME NEW m \in Matches, NEW r \in Reports
  PROVE  LET sub == Submissions(m, r)
         IN  /\ \A k \in DOMAIN sub : \E i \in Sides(m) :
                  /\ sub[k].user = Players[m][i] /\ sub[k].score = ScoreOf(r, i)
                  /\ sub[k].board \in {DateOf[m], Global}
             /\ \A i \in Sides(m) : \A b \in {DateOf[m], Global} : ScoreOf(r, i) > 0 =>
                  \E k \in DOMAIN sub : sub[k] =
                     [board |-> b, user |-> Players[m][i], score |-> ScoreOf(r, i)]
<1> DEFINE A == IF Len(Players[m]) >= 1 THEN ScoreCalls(m, Players[m][1], r.p1) ELSE << >>
           B == IF Len(Players[m]) >= 2 THEN ScoreCalls(m, Players[m][2], r.p2) ELSE << >>
<1>1. /\ Players[m] \in Seq(Users) /\ r.p1 \in Int /\ r.p2 \in Int
      /\ Len(Players[m]) \in Nat
  BY HubAssumption, MatchEndAssumption
<1>1a. \A i \in 1..Len(Players[m]) : Players[m][i] \in Users
  BY <1>1, ElementOfSeq
<1>2. \A i \in 1..2 : i \in Sides(m) <=> i <= Len(Players[m])
  BY <1>1 DEF Sides
<1>3. Sides(m) \subseteq {1, 2}
  BY DEF Sides
<1>4. A \in Seq(Submission)
  <2>1. CASE Len(Players[m]) >= 1
    <3>1. Players[m][1] \in Users
      BY <1>1, <1>1a, <2>1
    <3>2. ScoreCalls(m, Players[m][1], r.p1) \in Seq(Submission)
      BY <1>1, <3>1, ScoreCallsType
    <3>3. QED
      BY <2>1, <3>2
  <2>2. QED
    BY <2>1
<1>5. B \in Seq(Submission)
  <2>1. CASE Len(Players[m]) >= 2
    <3>1. Players[m][2] \in Users
      BY <1>1, <1>1a, <2>1
    <3>2. ScoreCalls(m, Players[m][2], r.p2) \in Seq(Submission)
      BY <1>1, <3>1, ScoreCallsType
    <3>3. QED
      BY <2>1, <3>2
  <2>2. QED
    BY <2>1
<1>6. /\ \A k \in DOMAIN A : /\ 1 \in Sides(m)
                             /\ A[k].user = Players[m][1] /\ A[k].score = ScoreOf(r, 1)
                             /\ A[k].board \in {DateOf[m], Global}
      /\ 1 \in Sides(m) /\ ScoreOf(r, 1) > 0 =>
           \A b \in {DateOf[m], Global} : \E k \in DOMAIN A : A[k] =
              [board |-> b, user |-> Players[m][1], score |-> ScoreOf(r, 1)]
  <2>1. CASE 1 \in Sides(m)
    <3>1. A = ScoreCalls(m, Players[m][1], ScoreOf(r, 1)) /\ ScoreOf(r, 1) \in Int
      BY <1>1, <1>2, <2>1 DEF ScoreOf
    <3> HIDE DEF A
    <3>2. PICK u, s : u = Players[m][1] /\ s = ScoreOf(r, 1)
      OBVIOUS
    <3>3. s \in Int /\ A = ScoreCalls(m, u, s)
      BY <3>1, <3>2
    <3>4. /\ \A k \in DOMAIN A : /\ A[k].user = u /\ A[k].score = s
                                 /\ A[k].board \in {DateOf[m], Global}
          /\ s > 0 => \A b \in {DateOf[m], Global} : \E k \in DOMAIN A :
                        A[k] = [board |-> b, user |-> u, score |-> s]
      BY <3>3, ScoreCallsAre
    <3>5. QED
      BY <2>1, <3>2, <3>4
  <2>2. CASE 1 \notin Sides(m)
    BY <1>1, <1>2, <2>2
  <2>3. QED
    BY <2>1, <2>2
<1>7. /\ \A k \in DOMAIN B : /\ 2 \in Sides(m)
                             /\ B[k].user = Players[m][2] /\ B[k].score = ScoreOf(r, 2)
                             /\ B[k].board \in {DateOf[m], Global}
      /\ 2 \in Sides(m) /\ ScoreOf(r, 2) > 0 =>
           \A b \in {DateOf[m], Global} : \E k \in DOMAIN B : B[k] =
              [board |-> b, user |-> Players[m][2], score |-> ScoreOf(r, 2)]
  <2>1. CASE 2 \in Sides(m)
    <3>1. B = ScoreCalls(m, Players[m][2], ScoreOf(r, 2)) /\ ScoreOf(r, 2) \in Int
      BY <1>1, <1>2, <2>1 DEF ScoreOf
    <3> HIDE DEF B
    <3>2. PICK u, s : u = Players[m][2] /\ s = ScoreOf(r, 2)
      OBVIOUS
    <3>3. s \in Int /\ B = ScoreCalls(m, u, s)
      BY <3>1, <3>2
    <3>4. /\ \A k \in DOMAIN B : /\ B[k].user = u /\ B[k].score = s
                                 /\ B[k].board \in {DateOf[m], Global}
          /\ s > 0 => \A b \in {DateOf[m], Global} : \E k \in DOMAIN B :
                        B[k] = [board |-> b, user |-> u, score |-> s]
      BY <3>3, ScoreCallsAre
    <3>5. QED
      BY <2>1, <3>2, <3>4
  <2>2. CASE 2 \notin Sides(m)
    BY <1>1, <1>2, <2>2
  <2>3. QED
    BY <2>1, <2>2
<1>8. Submissions(m, r) = A \o B
  BY DEF Submissions
<1> HIDE DEF A, B
<1> DEFINE C == A \o B
<1>9. /\ \A k \in DOMAIN C : (\E j \in DOMAIN A : C[k] = A[j]) \/ (\E j \in DOMAIN B : C[k] = B[j])
      /\ \A j \in DOMAIN A : \E k \in DOMAIN C : C[k] = A[j]
      /\ \A j \in DOMAIN B : \E k \in DOMAIN C : C[k] = B[j]
  BY <1>4, <1>5, ConcatElements
<1>10. Submissions(m, r) = C
  BY <1>8
<1> HIDE DEF C
<1>11. \A k \in DOMAIN C : \E i \in Sides(m) :
          /\ C[k].user = Players[m][i] /\ C[k].score = ScoreOf(r, i)
          /\ C[k].board \in {DateOf[m], Global}
  BY <1>6, <1>7, <1>9
<1>12. ASSUME NEW i \in Sides(m), NEW b \in {DateOf[m], Global}, ScoreOf(r, i) > 0
       PROVE  \E k \in DOMAIN C : C[k] =
                [board |-> b, user |-> Players[m][i], score |-> ScoreOf(r, i)]
  <2>1. CASE i = 1
    BY <1>6, <1>9, <1>12, <2>1
  <2>2. CASE i = 2
    BY <1>7, <1>9, <1>12, <2>2
  <2>3. QED
    BY <1>3, <2>1, <2>2
<1>13. QED
  BY <1>10, <1>11, <1>12
-----------------------------------------------------------------------------
\* UpsertMatch stores a tested result, and owes its submissions.
LEMMA UpsertMatchResult ==
  ASSUME IInv, StoredInv, ResultInv, ReportsKept, NEW c \in Conns, UpsertMatch(c)
  PROVE  ResultInv'
<1> USE DEF ResultInv
<1>1. /\ UNCHANGED << pc, matchID, frame, echo, inbox, boards, report, frames, lost >>
      /\ At(c, "upsert") /\ pc[c] = "ending"
      /\ doc' = [doc EXCEPT ![matchID[c]] = Ended(Result(c))]
      /\ todo' = [todo EXCEPT ![c] = Submissions(matchID[c], Result(c))]
      /\ stage' = [stage EXCEPT ![c] = "submit"]
  BY DEF UpsertMatch, GoStage, hubVars, connVars, fanVars, ioVars, At
<1>2. Kept
  BY <1>1, SameBoards DEF StoredInv
<1>3. UpsertIsValid'
  <2>1. \A d \in Conns : At(d, "upsert")' =>
          At(d, "upsert") /\ frame'[d] = frame[d] /\ matchID'[d] = matchID[d]
    BY <1>1 DEF At, StoredInv, ETypeOK
  <2>2. QED
    BY <2>1, UpsertKept
<1>4. StoredResultWasReported'
  BY <1>1, StoringReported
<1>5. BoardScoresWereReported'
  BY <1>1, SameBoardsReported
<1>6. UnderwayIsCredited'
  BY <1>1, <1>2, NoneUnderway DEF Underway
<1>7. PICK n, m, r : n = frame[c].n /\ m = matchID[c] /\ r = Result(c)
  OBVIOUS
<1>8. m \in Matches /\ r \in Reports /\ Filed(n, m) /\ r = report[n].result /\ n \in 1..MaxFrames
  BY <1>1, <1>7, EndingInMatch, EndingResult
     DEF StoredInv, EndingIsReported, Filed, Result, Frame
<1>9. todo'[c] = Submissions(m, r)
  BY <1>1, <1>7 DEF StoredInv, ETypeOK
<1>10. TodoReported(c)'
  <2>1. ASSUME NEW k \in DOMAIN todo'[c]
        PROVE  ScoreReported(todo[c][k].board, todo[c][k].user, todo[c][k].score)'
    <3>1. PICK i \in Sides(m) :
            /\ todo'[c][k].user = Players[m][i] /\ todo'[c][k].score = ScoreOf(r, i)
            /\ todo'[c][k].board \in {DateOf[m], Global}
      BY <1>8, <1>9, <2>1, SubmissionsAre
    <3>2. Filed(n, m)' /\ report'[n] = report[n]
      BY <1>8, FiledKept
    <3>3. QED
      BY <1>8, <3>1, <3>2 DEF ScoreReported
  <2>2. QED
    BY <2>1 DEF TodoReported
<1>11. WillCredit(c)'
  <2>1. ASSUME NEW i \in Sides(m), NEW b \in {DateOf[m], Global}
        PROVE  \/ boards'[b][Players[m][i]] >= ScoreOf(r, i)
               \/ \E k \in DOMAIN todo'[c] : todo'[c][k] =
                    [board |-> b, user |-> Players[m][i], score |-> ScoreOf(r, i)]
    <3>1. ScoreOf(r, i) \in Int /\ boards'[b][Players[m][i]] \in Nat
      BY <1>1, <1>8, <2>1, SidesType DEF StoredInv, ETypeOK
    <3>2. CASE ScoreOf(r, i) > 0
      BY <1>8, <1>9, <2>1, <3>2, SubmissionsAre
    <3>3. CASE ~(ScoreOf(r, i) > 0)
      BY <3>1, <3>3
    <3>4. QED
      BY <3>2, <3>3
  <2>2. matchID'[c] = m /\ Result(c)' = r
    BY <1>1, <1>7 DEF Result
  <2>3. QED
    BY <2>1, <2>2 DEF WillCredit
<1>12. \A d \in Conns \ {c} : At(d, "submit")' => TodoReported(d)' /\ WillCredit(d)'
  <2>1. \A d \in Conns \ {c} : At(d, "submit")' =>
          /\ At(d, "submit") /\ frame'[d] = frame[d] /\ matchID'[d] = matchID[d]
          /\ todo'[d] = todo[d]
    BY <1>1 DEF At, StoredInv, ETypeOK
  <2>2. QED
    BY <1>2, <2>1, SubmittingKept
<1>13. SubmittingCredits'
  BY <1>10, <1>11, <1>12 DEF SubmittingCredits
<1>14. QED
  BY <1>3, <1>4, <1>5, <1>6, <1>13

\* All submissions made or lost: the frame goes under way as it should.
LEMMA SubmittedResult ==
  ASSUME IInv, StoredInv, ResultInv, ReportsKept, NEW c \in Conns, Submitted(c)
  PROVE  ResultInv'
<1> USE DEF ResultInv
<1>1. /\ At(c, "submit") /\ pc[c] = "ending" /\ todo[c] = << >>
      /\ pc' = [pc EXCEPT ![c] = "lookup"] /\ stage' = [stage EXCEPT ![c] = "idle"]
      /\ UNCHANGED << matchID, frame, echo, inbox, frames, doc, boards, report, todo, lost >>
  BY DEF Submitted, EndStored, At, Goto, GoStage, storeVars, fanVars, ioVars
<1>2. Kept
  BY <1>1, SameBoards DEF StoredInv
<1>3. \A d \in Conns : \A step \in {"upsert", "submit"} : At(d, step)' =>
        /\ At(d, step) /\ frame'[d] = frame[d] /\ matchID'[d] = matchID[d]
        /\ todo'[d] = todo[d]
  BY <1>1 DEF At, IInv, TypeOK, StoredInv, ETypeOK
<1>4. UpsertIsValid'
  BY <1>3, UpsertKept
<1>5. SubmittingCredits'
  BY <1>2, <1>3, SubmittingKept DEF SubmittingCredits
<1>6. UnderwayIsCredited'
  <2>1. ASSUME NEW f \in Frame, Underway(f)' PROVE f = frame[c] \/ Underway(f)
    BY <1>1, <2>1 DEF IInv, TypeOK, Underway
  <2>2. PICK g : g = frame[c]
    OBVIOUS
  <2>3. g \in Frame /\ g.match = matchID[c] /\ g.match \in Matches /\ Filed(g.n, g.match)
    BY <1>1, <2>2, EndingInMatch DEF StoredInv, EndingIsReported
  <2>4. Filed(g.n, g.match)' /\ report'[g.n] = report[g.n]
    BY <2>3, FiledKept
  <2>5. ASSUME g.n \notin lost', NEW i \in Sides(g.match)
        PROVE  Credited(g.match, i, ScoreOf(report[g.n].result, i))'
    <3>1. \A b \in {DateOf[g.match], Global} :
            boards[b][Players[g.match][i]] >= ScoreOf(report[g.n].result, i)
      <4>1. WillCredit(c) /\ DOMAIN todo[c] = {} /\ g.n \notin lost
        BY <1>1, <2>5 DEF SubmittingCredits
      <4>2. matchID[c] = g.match /\ Result(c) = report[g.n].result /\ frame[c].n = g.n
        BY <2>2, <2>3 DEF Result
      <4>3. QED
        BY <2>5, <4>1, <4>2 DEF WillCredit
    <3>2. QED
      BY <1>1, <3>1 DEF Credited
  <2>6. ASSUME NEW f \in Frame, Underway(f)', f.type = "end"
        PROVE  /\ Filed(f.n, f.match)'
               /\ f.n \notin lost' =>
                    \A i \in Sides(f.match) :
                       Credited(f.match, i, ScoreOf(report[f.n].result, i))'
    <3>1. CASE f = g
      BY <2>4, <2>5, <3>1
    <3>2. CASE f # g
      BY <1>2, <2>1, <2>2, <2>6, <3>2, UnderwayKept
    <3>3. QED
      BY <3>1, <3>2
  <2>7. QED
    BY <2>6 DEF UnderwayIsCredited
<1>7. StoredResultWasReported' /\ BoardScoresWereReported'
  BY <1>1, SameDocsReported, SameBoardsReported
<1>8. QED
  BY <1>4, <1>5, <1>6, <1>7

\* A submission is made, or lost.
LEMMA SubmitResult ==
  ASSUME IInv, StoredInv, ResultInv, ReportsKept, NEW c \in Conns,
         SubmitScore(c) \/ SubmitScoreFail(c)
  PROVE  ResultInv'
<1> USE DEF ResultInv
<1>1. /\ UNCHANGED << pc, matchID, frame, echo, inbox, frames, doc, report, stage >>
      /\ At(c, "submit") /\ pc[c] = "ending" /\ todo[c] # << >>
      /\ todo' = [todo EXCEPT ![c] = Tail(todo[c])]
  BY DEF SubmitScore, SubmitScoreFail, hubVars, connVars, fanVars, ioVars, storeVars, At
<1>2. PICK x : x = Head(todo[c])
  OBVIOUS
<1>3. /\ x \in Submission /\ x = todo[c][1] /\ 1 \in DOMAIN todo[c]
      /\ DOMAIN todo'[c] = 1..Len(todo[c]) - 1
      /\ \A k \in DOMAIN todo'[c] : k + 1 \in DOMAIN todo[c] /\ todo'[c][k] = todo[c][k+1]
      /\ \A k \in DOMAIN todo[c] : k # 1 =>
           k - 1 \in DOMAIN todo'[c] /\ todo'[c][k-1] = todo[c][k]
  <2>1. todo[c] \in Seq(Submission) /\ todo[c] # << >> /\ todo'[c] = Tail(todo[c])
    BY <1>1 DEF StoredInv, ETypeOK
  <2>2. PICK t : t = todo[c]
    OBVIOUS
  <2>3. t \in Seq(Submission) /\ t # << >>
    BY <2>1, <2>2
  <2>4. Head(t) = t[1] /\ 1 \in DOMAIN t /\ t[1] \in Submission
    BY <2>3
  <2>5. DOMAIN Tail(t) = 1..Len(t) - 1 /\ \A k \in 1..Len(t) - 1 : Tail(t)[k] = t[k+1]
    BY <2>3
  <2>6. DOMAIN t = 1..Len(t) /\ Len(t) \in Nat
    BY <2>3
  <2>7. \A k \in 1..Len(t) - 1 : k + 1 \in 1..Len(t)
    BY <2>6
  <2>8. \A k \in 1..Len(t) : k # 1 => k - 1 \in 1..Len(t) - 1 /\ Tail(t)[k-1] = t[k]
    BY <2>5, <2>6
  <2>9. QED
    BY <1>2, <2>1, <2>2, <2>4, <2>5, <2>6, <2>7, <2>8
<1>4. x.board \in Boards /\ x.user \in Users /\ x.score \in Nat
  BY <1>3 DEF Submission
<1>5. boards \in [Boards -> [Users -> Nat]]
  BY DEF StoredInv, ETypeOK
<1>6. \/ /\ lost' = lost
         /\ \A b \in Boards, u \in Users : boards'[b][u] =
              IF b = x.board /\ u = x.user THEN Best(boards[b][u], x.score) ELSE boards[b][u]
      \/ lost' = lost \union {frame[c].n} /\ boards' = boards
  <2>1. CASE SubmitScore(c)
    <3>1. boards' = [boards EXCEPT ![x.board][x.user] = Best(@, x.score)] /\ lost' = lost
      BY <1>2, <2>1 DEF SubmitScore
    <3>2. QED
      BY <1>4, <1>5, <3>1
  <2>2. CASE SubmitScoreFail(c)
    BY <2>2 DEF SubmitScoreFail, storeVars
  <2>3. QED
    BY <2>1, <2>2
<1>7. BoardsGrow
  <2>1. ASSUME NEW b \in Boards, NEW u \in Users
        PROVE  boards[b][u] \in Nat /\ boards'[b][u] \in Nat /\ boards[b][u] <= boards'[b][u]
    BY <1>4, <1>5, <1>6 DEF Best
  <2>2. QED
    BY <2>1 DEF BoardsGrow
<1>8. Kept
  BY <1>6, <1>7 DEF Kept
<1>9. UpsertIsValid'
  <2>1. \A d \in Conns : At(d, "upsert")' =>
          At(d, "upsert") /\ frame'[d] = frame[d] /\ matchID'[d] = matchID[d]
    BY <1>1 DEF At
  <2>2. QED
    BY <2>1, UpsertKept
<1>10. UnderwayIsCredited'
  BY <1>1, <1>8, NoneUnderway DEF Underway
<1>11. TodoReported(c) /\ WillCredit(c)
  BY <1>1 DEF SubmittingCredits
<1>12. TodoReported(c)'
  <2>1. ASSUME NEW k \in DOMAIN todo'[c]
        PROVE  ScoreReported(todo[c][k].board, todo[c][k].user, todo[c][k].score)'
    <3>1. PICK y : y = todo[c][k+1]
      OBVIOUS
    <3>2. ScoreReported(y.board, y.user, y.score)
      BY <1>3, <1>11, <3>1 DEF TodoReported
    <3>3. ScoreReported(y.board, y.user, y.score)'
      BY <3>2, ScoreKept
    <3>4. todo'[c][k] = y
      BY <1>3, <3>1
    <3>5. QED
      BY <3>3, <3>4
  <2>2. QED
    BY <2>1 DEF TodoReported
<1>13. WillCredit(c)'
  <2>1. PICK n, m, r : n = frame[c].n /\ m = matchID[c] /\ r = Result(c)
    OBVIOUS
  <2>2. m \in Matches /\ r \in Reports /\ Result(c)' = r /\ matchID'[c] = m /\ frame'[c].n = n
    BY <1>1, <2>1, EndingInMatch, EndingResult DEF StoredInv, Result
  <2>3. ASSUME n \notin lost', NEW i \in Sides(m), NEW b \in {DateOf[m], Global}
        PROVE  \/ boards'[b][Players[m][i]] >= ScoreOf(r, i)
               \/ \E k \in DOMAIN todo'[c] : todo'[c][k] =
                    [board |-> b, user |-> Players[m][i], score |-> ScoreOf(r, i)]
    <3>1. PICK u, s : u = Players[m][i] /\ s = ScoreOf(r, i)
      OBVIOUS
    <3>2. u \in Users /\ s \in Int /\ b \in Boards
      BY <2>2, <2>3, <3>1, SidesType
    <3>3. lost' = lost /\ n \notin lost
      BY <1>6, <2>1, <2>3
    <3>4. \/ boards[b][u] >= s
          \/ \E k \in DOMAIN todo[c] : todo[c][k] = [board |-> b, user |-> u, score |-> s]
      BY <1>11, <2>1, <2>3, <3>1, <3>3 DEF WillCredit
    <3>5. CASE boards[b][u] >= s
      <4>1. boards[b][u] \in Nat /\ boards'[b][u] \in Nat /\ boards[b][u] <= boards'[b][u]
        BY <1>7, <3>2 DEF BoardsGrow
      <4>2. boards'[b][u] >= s
        BY <3>2, <3>5, <4>1
      <4>3. QED
        BY <3>1, <4>2
    <3>6. ASSUME NEW k \in DOMAIN todo[c], k # 1,
                 todo[c][k] = [board |-> b, user |-> u, score |-> s]
          PROVE  \E j \in DOMAIN todo'[c] : todo'[c][j] = [board |-> b, user |-> u, score |-> s]
      BY <1>3, <3>6
    <3>7. CASE x = [board |-> b, user |-> u, score |-> s]
      <4>1. CASE boards' = boards /\ lost' = lost \union {n}
        BY <2>3, <4>1
      <4>2. CASE boards'[b][u] = Best(boards[b][u], s)
        <5>1. boards[b][u] \in Nat
          BY <1>5, <3>2
        <5>2. boards'[b][u] >= s
          BY <3>2, <4>2, <5>1 DEF Best
        <5>3. QED
          BY <3>1, <5>2
      <4>3. QED
        BY <1>6, <2>1, <3>2, <3>7, <4>1, <4>2
    <3>8. QED
      BY <1>3, <3>1, <3>4, <3>5, <3>6, <3>7
  <2>4. QED
    BY <2>2, <2>3 DEF WillCredit
<1>14. \A d \in Conns \ {c} : At(d, "submit")' => TodoReported(d)' /\ WillCredit(d)'
  <2>1. \A d \in Conns \ {c} : At(d, "submit")' =>
          /\ At(d, "submit") /\ frame'[d] = frame[d] /\ matchID'[d] = matchID[d]
          /\ todo'[d] = todo[d]
    BY <1>1 DEF At, StoredInv, ETypeOK
  <2>2. QED
    BY <1>8, <2>1, SubmittingKept
<1>15. SubmittingCredits'
  BY <1>12, <1>13, <1>14 DEF SubmittingCredits
<1>16. StoredResultWasReported'
  BY <1>1, SameDocsReported
<1>17. BoardScoresWereReported'
  <2>1. ScoreReported(x.board, x.user, x.score)
    BY <1>3, <1>11 DEF TodoReported
  <2>2. ASSUME NEW b \in Boards, NEW u \in Users, boards'[b][u] > 0
        PROVE  ScoreReported(b, u, boards[b][u])'
    <3>1. PICK s : s = boards'[b][u]
      OBVIOUS
    <3>2. boards[b][u] \in Nat
      BY <1>5
    <3>3. s = boards[b][u] \/ (b = x.board /\ u = x.user /\ s = x.score)
      BY <1>4, <1>6, <3>1, <3>2 DEF Best
    <3>4. ScoreReported(b, u, s)
      BY <2>1, <2>2, <3>1, <3>3 DEF BoardScoresWereReported
    <3>5. ScoreReported(b, u, s)'
      BY <3>4, ScoreKept
    <3>6. QED
      BY <3>1, <3>5
  <2>3. QED
    BY <2>2 DEF BoardScoresWereReported
<1>18. QED
  BY <1>9, <1>10, <1>15, <1>16, <1>17

\* Every step of the hub with the store keeps ResultInv.
LEMMA ResultNext ==
  IInv /\ IInv' /\ StoredInv /\ ResultInv /\ [ENext]_vars => ResultInv'
<1> SUFFICES ASSUME IInv, IInv', StoredInv, ResultInv, [ENext]_vars PROVE ResultInv'
  OBVIOUS
<1>0. ReportsKept
  BY StepKeepsReports
<1>1. CASE ERestart
  BY <1>0, <1>1, ERestartResult
<1>2. ASSUME NEW c \in Conns, HubStep(c) PROVE ResultInv'
  BY <1>0, <1>2, HubStepResult
<1>3. ASSUME NEW c \in Conns, StoreStep(c) PROVE ResultInv'
  BY <1>0, <1>3, GetMatchResult, FailingResult, UpsertMatchResult, SubmitResult,
     SubmittedResult DEF StoreStep
<1>4. ASSUME NEW c \in Conns, NEW m \in Matches, ReceiveEnd(c, m) PROVE ResultInv'
  BY <1>0, <1>4, ReceiveEndResult
<1>5. CASE UNCHANGED vars
  <2>1. /\ UNCHANGED << doc, boards, lost >>
        /\ \A d \in Conns : \A step \in {"upsert", "submit"} : At(d, step)' =>
             /\ At(d, step) /\ frame'[d] = frame[d] /\ matchID'[d] = matchID[d]
             /\ todo'[d] = todo[d]
        /\ \A f \in Frame : f.type = "end" /\ Underway(f)' => Underway(f)
    BY <1>5 DEF vars, hubVars, connVars, roomVars, fanVars, ioVars, endVars, At, Underway
  <2>2. QED
    BY <1>0, <2>1, IdleStep
<1>6. QED
  BY <1>1, <1>2, <1>3, <1>4, <1>5 DEF ENext

\* Results and scores are those reported, and a MATCH_END under way has its scores
\* on the boards (handleMatchEnd, match_lifecycle.go).
THEOREM ResultInvariance == ESpec => []ResultInv
<1>1. EInit => ResultInv
  <2> SUFFICES ASSUME EInit PROVE ResultInv
    OBVIOUS
  <2>1. UpsertIsValid /\ SubmittingCredits
    BY DEF EInit, UpsertIsValid, SubmittingCredits, At
  <2>2. UnderwayIsCredited
    BY DEF EInit, Init, UnderwayIsCredited, Underway
  <2>3. StoredResultWasReported /\ BoardScoresWereReported
    BY DEF EInit, StoredResultWasReported, BoardScoresWereReported
  <2>4. QED
    BY <2>1, <2>2, <2>3 DEF ResultInv
<1>2. QED
  BY <1>1, ResultNext, StoredInvariance, EInvariance, PTL DEF ESpec

\* For any number of players, matches, connections, reports and restarts: a
\* stored result is one that a MATCH_END reported for that match, as a whole
\* (handleMatchEnd, match_lifecycle.go).
THEOREM StoredAsReported == ESpec => []StoredResultWasReported
<1>1. ResultInv => StoredResultWasReported
  BY DEF ResultInv
<1>2. QED
  BY <1>1, ResultInvariance, PTL

\* And a score on a board is one reported for its user, in a match of the day
\* (the submissions of handleMatchEnd).
THEOREM ScoresAsReported == ESpec => []BoardScoresWereReported
<1>1. ResultInv => BoardScoresWereReported
  BY DEF ResultInv
<1>2. QED
  BY <1>1, ResultInvariance, PTL

\* Whoever has received a MATCH_END none of whose submissions failed finds the
\* scores of both players on both boards, whatever other handlers submitted
\* (handleMatchEnd, and SubmitScore of the store).
THEOREM ToldResultsOnBoards == ESpec => []BoardsReflectToldResults
<1>1. IInv /\ ResultInv => BoardsReflectToldResults
  <2> SUFFICES ASSUME IInv, ResultInv, NEW c \in Conns, NEW k \in DOMAIN inbox[c],
                      inbox[c][k].type = "end", inbox[c][k].n \notin lost,
                      NEW i \in Sides(inbox[c][k].match)
               PROVE  Credited(inbox[c][k].match, i,
                               ScoreOf(report[inbox[c][k].n].result, i))
    BY DEF BoardsReflectToldResults
  <2>1. inbox[c][k] \in Frame
    BY DEF IInv, TypeOK
  <2>2. Underway(inbox[c][k])
    BY DEF Underway
  <2>3. QED
    BY <2>1, <2>2 DEF ResultInv, UnderwayIsCredited
<1>2. QED
  BY <1>1, ResultInvariance, EInvariance, PTL
=============================================================================
