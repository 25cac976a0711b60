--------------------------- MODULE ShutdownProofs ---------------------------
(***************************************************************************)
(* Proofs about Shutdown, for any requests, sockets and number of store    *)
(* calls: types, and that a shutdown in time cuts off no REST request.     *)
(***************************************************************************)
EXTENDS Shutdown, TLAPS

\* The number of calls of a handler is a number.
LEMMA CallsAreNumbers == \A r \in Handlers : CallsOf(r) \in Nat
BY ShutdownAssumption DEF CallsOf

\* The server boots with nothing open.
LEMMA InitInv == Init => IInv
<1> SUFFICES ASSUME Init PROVE IInv
  OBVIOUS
<1>1. TypeOK
  <2>1. \A r \in Handlers : calls[r] \in 0 .. CallsOf(r)
    BY CallsAreNumbers DEF Init
  <2>2. QED
    BY <2>1 DEF Init, TypeOK
<1>2. QED
  BY <1>1 DEF Init, IInv, NothingYet, HandleUntilClose, LateIsPast, DrainedStays,
              DrainedBeforeClosed

-----------------------------------------------------------------------------
(* Types *)

\* A handler that moves keeps the types.
LEMMA MoveType ==
    ASSUME TypeOK, NEW r \in Handlers,
           NEW s \in {"away", "open", "running", "checked", "sent", "done"},
           step' = [step EXCEPT ![r] = s],
           UNCHANGED << main, reachable >>,
           panicked' \subseteq Handlers,
           DOMAIN calls' = Handlers,
           \A q \in Handlers : calls'[q] \in 0 .. CallsOf(q)
    PROVE  TypeOK'
BY DEF TypeOK, main, CallsOf

\* Every step keeps the types.
LEMMA StepType == TypeOK /\ [Next]_vars => TypeOK'
<1> SUFFICES ASSUME TypeOK, [Next]_vars PROVE TypeOK'
  OBVIOUS
<1>1. CASE Boot \/ Fatal \/ Signal \/ Drained \/ DeadlinePasses \/ Close \/ Exit
  BY <1>1 DEF Boot, Fatal, Signal, Drained, DeadlinePasses, Close, Exit, TypeOK, CallsOf
<1>2. CASE NetworkTurns
  BY <1>2 DEF NetworkTurns, main, TypeOK, CallsOf
<1>3. CASE UNCHANGED vars
  BY <1>3 DEF vars, main, TypeOK, CallsOf
<1>4. ASSUME NEW r \in Handlers,
             Connect(r) \/ Begin(r) \/ GoesUnread(r) \/ CallEnds(r) \/ Finish(r)
      PROVE  TypeOK'
  <2>1. /\ UNCHANGED << main, reachable, calls, panicked >>
        /\ \E s \in {"open", "running", "done"} : step' = [step EXCEPT ![r] = s]
    BY <1>4 DEF Connect, Begin, GoesUnread, CallEnds, Finish
  <2>2. QED
    BY <2>1, MoveType DEF TypeOK
<1>5. ASSUME NEW r \in Handlers, Call(r) PROVE TypeOK'
  <2>1. \E s \in {"checked", "running"} : step' = [step EXCEPT ![r] = s]
    BY <1>5 DEF Call
  <2>2. calls' = [calls EXCEPT ![r] = @ + 1] /\ calls[r] < CallsOf(r)
    BY <1>5 DEF Call
  <2>3. DOMAIN calls' = Handlers
    BY <2>2 DEF TypeOK
  <2>4. ASSUME NEW q \in Handlers PROVE calls'[q] \in 0 .. CallsOf(q)
    <3>1. calls[q] \in 0 .. CallsOf(q) /\ CallsOf(q) \in Nat
      BY CallsAreNumbers DEF TypeOK
    <3>2. calls'[q] = IF q = r THEN calls[q] + 1 ELSE calls[q]
      BY <2>2 DEF TypeOK
    <3>3. QED
      BY <2>2, <3>1, <3>2
  <2>5. QED
    BY <1>5, <2>1, <2>3, <2>4, MoveType DEF Call, TypeOK
<1>6. ASSUME NEW r \in Handlers, Send(r) PROVE TypeOK'
  <2>1. \E s \in {"sent", "done"} : step' = [step EXCEPT ![r] = s]
    BY <1>6 DEF Send
  <2>2. panicked' \subseteq Handlers
    BY <1>6 DEF Send, TypeOK
  <2>3. QED
    BY <1>6, <2>1, <2>2, MoveType DEF Send, TypeOK
<1>7. QED
  BY <1>1, <1>2, <1>3, <1>4, <1>5, <1>6 DEF Next

-----------------------------------------------------------------------------
(* The drain *)

\* What IInv says beyond types.
Drains == NothingYet /\ HandleUntilClose /\ LateIsPast /\ DrainedStays /\ DrainedBeforeClosed

\* main's steps: a drain that ends in time leaves no request, and the handle is
\* cleared only after one.
LEMMA MainStep ==
    IInv /\ (Boot \/ Fatal \/ Signal \/ Drained \/ DeadlinePasses \/ Close \/ Exit) => Drains'
<1> SUFFICES ASSUME IInv,
                    Boot \/ Fatal \/ Signal \/ Drained \/ DeadlinePasses \/ Close \/ Exit
             PROVE  Drains'
  OBVIOUS
<1> USE DEF IInv, Drains, TypeOK, NothingYet, HandleUntilClose, LateIsPast, DrainedStays,
            DrainedBeforeClosed, Handlers
<1>1. CASE Boot            BY <1>1 DEF Boot
<1>2. CASE Fatal           BY <1>2 DEF Fatal
<1>3. CASE Signal          BY <1>3 DEF Signal
<1>4. CASE Drained
  <2>1. \A r \in Rest : step[r] \in {"away", "done"}
    BY <1>4 DEF Drained, Tracked
  <2>2. QED
    BY <1>4, <2>1 DEF Drained
<1>5. CASE DeadlinePasses  BY <1>5 DEF DeadlinePasses
<1>6. CASE Close           BY <1>6 DEF Close
<1>7. CASE Exit            BY <1>7 DEF Exit
<1>8. QED
  BY <1>1, <1>2, <1>3, <1>4, <1>5, <1>6, <1>7

\* Once the drain has ended in time, every handler that still moves is a socket's.
LEMMA OnlySocketsMove ==
    ASSUME IInv, NEW r \in Rest, ~late,
           phase = "stopping" \/ (phase \in {"disconnecting", "exited"} /\ ~handle)
    PROVE  step[r] \in {"away", "done"}
BY DEF IInv, DrainedStays, DrainedBeforeClosed

\* The steps of handlers: a request moves only while the server may still drain
\* it, and panics only when the handle is gone.
LEMMA HandlerStep ==
    ASSUME IInv, NEW r \in Handlers,
           \/ Connect(r) \/ Begin(r) \/ GoesUnread(r)
           \/ Call(r) \/ Send(r) \/ CallEnds(r) \/ Finish(r)
    PROVE  Drains'
<1>1. UNCHANGED main /\ phase # "booting"
      /\ \A q \in Handlers : q # r => step'[q] = step[q]
  BY DEF Connect, Begin, GoesUnread, Call, Send, CallEnds, Finish, Alive, IInv, TypeOK, main
<1>2. phase = "serving" \/ (Alive /\ step[r] \notin {"away", "done"})
  BY DEF Connect, Begin, GoesUnread, Call, Send, CallEnds, Finish
<1>3. panicked' = panicked \/ (~handle /\ panicked' = panicked \cup {r})
  BY DEF Connect, Begin, GoesUnread, Call, Send, CallEnds, Finish
<1>4. NothingYet' /\ LateIsPast'
  BY <1>1 DEF IInv, NothingYet, LateIsPast, main
<1>5. HandleUntilClose'
  BY <1>1, <1>3 DEF IInv, HandleUntilClose, main
<1>6. ASSUME ~late, phase = "stopping" \/ (phase \in {"disconnecting", "exited"} /\ ~handle)
      PROVE  r \notin Rest
  BY <1>2, <1>6, OnlySocketsMove
<1>7. DrainedStays'
  BY <1>1, <1>6 DEF IInv, DrainedStays, Handlers, main
<1>8. DrainedBeforeClosed'
  BY <1>1, <1>3, <1>6 DEF IInv, DrainedBeforeClosed, Handlers, main
<1>9. QED
  BY <1>4, <1>5, <1>7, <1>8 DEF Drains

\* Every step keeps the invariant.
LEMMA StepInv == IInv /\ [Next]_vars => IInv'
<1> SUFFICES ASSUME IInv, [Next]_vars PROVE IInv'
  OBVIOUS
<1>1. ASSUME NetworkTurns \/ UNCHANGED vars PROVE Drains'
  BY <1>1 DEF NetworkTurns, vars, main, IInv, Drains, NothingYet, HandleUntilClose,
              LateIsPast, DrainedStays, DrainedBeforeClosed
<1>2. Drains'
  BY <1>1, MainStep, HandlerStep DEF Next
<1>3. QED
  BY <1>2, StepType DEF IInv, Drains

-----------------------------------------------------------------------------

\* The invariant holds whatever is called, fails and when the signal comes.
THEOREM Invariance == Spec => []IInv
BY InitInv, StepInv, PTL DEF Spec

\* Phase, handle and handlers keep their types, and no handler makes more calls
\* of the store than it has (main.go, users.go).
THEOREM ShutdownTypeCorrect == Spec => []TypeOK
<1>1. IInv => TypeOK
  BY DEF IInv
<1>2. QED
  BY <1>1, Invariance, PTL

\* A shutdown in time lets every REST request end before the store is closed, and
\* none of them panics (main.go, the order of Shutdown and the deferred Close).
THEOREM DrainsBeforeClose == Spec => []DrainedBeforeClosed
<1>1. IInv => DrainedBeforeClosed
  BY DEF IInv
<1>2. QED
  BY <1>1, Invariance, PTL
=============================================================================
