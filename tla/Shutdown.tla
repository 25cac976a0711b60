------------------------------ MODULE Shutdown ------------------------------
(***************************************************************************)
(* The life of the server process (cmd/api/main.go): it boots, serves,     *)
(* and on a signal drains its requests, closes the store and exits, while  *)
(* handlers call the MongoDB store, whose database may be unreachable.     *)
(*                                                                         *)
(* http.Server.Shutdown waits for the connections it tracks.  A WebSocket  *)
(* leaves its care with the upgrade; the handler goes on and calls the     *)
(* store once, through the gate of the handshake.  A store call looks at   *)
(* the handle twice, Close() clears it in between or not.                  *)
(***************************************************************************)
EXTENDS Naturals, FiniteSets

CONSTANTS Rest,      \* connections that bring a REST request
          Sockets,   \* connections that ask for /ws
          MaxCalls   \* bound: store calls of one REST request

ASSUME ShutdownAssumption == Rest \cap Sockets = {} /\ MaxCalls \in Nat

Handlers == Rest \cup Sockets

\* Store calls: the middleware's or the gate's upsert, then the handler's own.
\* The hub of this server has no store.
CallsOf(r) == IF r \in Rest THEN MaxCalls ELSE 1

VARIABLES phase,     \* where main is
          late,      \* Shutdown gave up waiting
          handle,    \* the store has its database handle
          reachable, \* the database answers
          step,      \* where the handler of a connection is
          calls,     \* store calls it has made
          panicked   \* handlers that panicked

main == << phase, late, handle >>
vars == << main, reachable, step, calls, panicked >>

TypeOK ==
    /\ phase \in {"booting", "serving", "draining", "stopping", "disconnecting", "exited"}
    /\ {late, handle, reachable} \subseteq BOOLEAN
    /\ step \in [Handlers -> {"away", "open", "running", "checked", "sent", "done"}]
    /\ \A r \in Handlers : calls[r] \in 0 .. CallsOf(r)
    /\ DOMAIN calls = Handlers
    /\ panicked \subseteq Handlers

Init ==
    /\ phase = "booting" /\ late = FALSE /\ handle = FALSE /\ reachable \in BOOLEAN
    /\ step = [r \in Handlers |-> "away"]
    /\ calls = [r \in Handlers |-> 0]
    /\ panicked = {}

----------------------------------------------------------------------------
(* main *)

\* The store is connected and its indexes are made, the rest is wired, and the
\* port listened on.
Boot ==
    /\ phase = "booting" /\ reachable
    /\ phase' = "serving" /\ handle' = TRUE
    /\ UNCHANGED << late, reachable, step, calls, panicked >>

\* log.Fatalf, at the boot or of the listener: nothing is drained or closed.
Fatal ==
    /\ phase \in {"booting", "serving"}
    /\ phase' = "exited"
    /\ UNCHANGED << late, handle, reachable, step, calls, panicked >>

\* Shutdown closes the listener.
Signal ==
    /\ phase = "serving"
    /\ phase' = "draining"
    /\ UNCHANGED << late, handle, reachable, step, calls, panicked >>

\* A fault kept for the checks: a connection counts once its handler runs.
TrackedRunning(r) == r \in Rest /\ step[r] \in {"running", "checked", "sent"}

\* What Shutdown waits for: an open connection until it is upgraded or served.
Tracked(r) == step[r] = "open" \/ (r \in Rest /\ step[r] \in {"running", "checked", "sent"})

Drained ==
    /\ phase = "draining" /\ \A r \in Handlers : ~Tracked(r)
    /\ phase' = "stopping"
    /\ UNCHANGED << late, handle, reachable, step, calls, panicked >>

\* shutdownCtx ends first.
DeadlinePasses ==
    /\ phase = "draining"
    /\ phase' = "stopping" /\ late' = TRUE
    /\ UNCHANGED << handle, reachable, step, calls, panicked >>

\* The deferred Close: the handle goes, then the driver disconnects.
Close ==
    /\ phase = "stopping"
    /\ phase' = "disconnecting" /\ handle' = FALSE
    /\ UNCHANGED << late, reachable, step, calls, panicked >>

\* Disconnect has waited for what was sent, for ever if need be.
Exit ==
    /\ phase = "disconnecting" /\ \A r \in Handlers : step[r] # "sent"
    /\ phase' = "exited"
    /\ UNCHANGED << late, handle, reachable, step, calls, panicked >>

\* The database goes away or comes back.
NetworkTurns ==
    /\ reachable' = ~reachable
    /\ UNCHANGED << main, step, calls, panicked >>

----------------------------------------------------------------------------
(* The handlers *)

Alive == phase \notin {"booting", "exited"}

\* A connection is accepted.
Connect(r) ==
    /\ phase = "serving" /\ step[r] = "away"
    /\ step' = [step EXCEPT ![r] = "open"]
    /\ UNCHANGED << main, reachable, calls, panicked >>

\* Its request is read, which may be after the listener was closed, and routed
\* to a handler, or it leaves before.
Begin(r) ==
    /\ Alive /\ step[r] = "open"
    /\ step' = [step EXCEPT ![r] = "running"]
    /\ UNCHANGED << main, reachable, calls, panicked >>

GoesUnread(r) ==
    /\ Alive /\ step[r] = "open"
    /\ step' = [step EXCEPT ![r] = "done"]
    /\ UNCHANGED << main, reachable, calls, panicked >>

\* A fault kept for the checks: one call more than the handler makes.
CallAgain(r) ==
    /\ Alive /\ step[r] = "running" /\ calls[r] <= CallsOf(r)
    /\ calls' = [calls EXCEPT ![r] = @ + 1]
    /\ step' = [step EXCEPT ![r] = IF handle THEN "checked" ELSE "running"]
    /\ UNCHANGED << main, reachable, panicked >>

\* A store call begins: without a handle it returns ErrClosed, and the handler
\* goes on to whatever it does with an error.
Call(r) ==
    /\ Alive /\ step[r] = "running" /\ calls[r] < CallsOf(r)
    /\ calls' = [calls EXCEPT ![r] = @ + 1]
    /\ step' = [step EXCEPT ![r] = IF handle THEN "checked" ELSE "running"]
    /\ UNCHANGED << main, reachable, panicked >>

\* It reads the handle again to send its operation.  There is none: it panics,
\* and the router's Recoverer ends the request.
Send(r) ==
    /\ Alive /\ step[r] = "checked"
    /\ step' = [step EXCEPT ![r] = IF handle THEN "sent" ELSE "done"]
    /\ panicked' = IF handle THEN panicked ELSE panicked \cup {r}
    /\ UNCHANGED << main, reachable, calls >>

\* A fault kept for the checks: a call without a deadline.
EndsIfAnswered(r) ==
    /\ Alive /\ step[r] = "sent" /\ reachable
    /\ step' = [step EXCEPT ![r] = "running"]
    /\ UNCHANGED << main, reachable, calls, panicked >>

\* The database has answered, or defaultOpTimeout has passed.
CallEnds(r) ==
    /\ Alive /\ step[r] = "sent"
    /\ step' = [step EXCEPT ![r] = "running"]
    /\ UNCHANGED << main, reachable, calls, panicked >>

\* The request is answered, or the socket served until it ends.
Finish(r) ==
    /\ Alive /\ step[r] = "running"
    /\ step' = [step EXCEPT ![r] = "done"]
    /\ UNCHANGED << main, reachable, calls, panicked >>

----------------------------------------------------------------------------

Next ==
    \/ Boot \/ Fatal \/ Signal \/ Drained \/ DeadlinePasses \/ Close \/ Exit
    \/ NetworkTurns
    \/ \E r \in Handlers :
          \/ Connect(r) \/ Begin(r) \/ GoesUnread(r)
          \/ Call(r) \/ Send(r) \/ CallEnds(r) \/ Finish(r)

Spec == Init /\ [][Next]_vars

\* main's own steps are taken, timers run out, and a call has a deadline: neither
\* clients nor the database owe anything.
LiveSpec ==
    /\ Spec
    /\ WF_vars(DeadlinePasses) /\ WF_vars(Close) /\ WF_vars(Exit)
    /\ \A r \in Handlers : WF_vars(CallEnds(r))

----------------------------------------------------------------------------
(* Properties *)

\* A REST request is never cut off by a shutdown in time: until the store is
\* closed all of them have ended, also one whose connection was accepted and not
\* yet read at the signal, and none finds the store closed (main.go, the order of
\* Shutdown and the deferred Close).
DrainedBeforeClosed ==
    phase \in {"disconnecting", "exited"} /\ ~handle /\ ~late =>
        \A r \in Rest : step[r] \in {"away", "done"} /\ r \notin panicked

\* A signal ends the process although Disconnect waits without a limit and the
\* database may be unreachable: no call is sent any more, and every one that was
\* sent has a deadline (main.go, client.go Close, users.go withTimeout).
SignalEnds == phase = "draining" ~> phase = "exited"

----------------------------------------------------------------------------
(* An inductive invariant, of which DrainedBeforeClosed is a part *)

\* Nothing has happened before the server serves.
NothingYet ==
    phase = "booting" =>
        ~handle /\ ~late /\ panicked = {} /\ \A r \in Handlers : step[r] = "away"

\* The handle is there until Close, so that nobody panics before.
HandleUntilClose ==
    /\ phase \in {"serving", "draining", "stopping"} => handle
    /\ phase = "disconnecting" => ~handle
    /\ handle => panicked = {}

\* Shutdown has not given up before it waits, nor while it does.
LateIsPast == phase \in {"serving", "draining"} => ~late

\* Between the drain and Close nothing of REST starts again.
DrainedStays == phase = "stopping" /\ ~late => \A r \in Rest : step[r] \in {"away", "done"}

IInv ==
    /\ TypeOK
    /\ NothingYet
    /\ HandleUntilClose
    /\ LateIsPast
    /\ DrainedStays
    /\ DrainedBeforeClosed

=============================================================================
