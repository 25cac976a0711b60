------------------------------ MODULE Session ------------------------------
(***************************************************************************)
(* The browser's WebSocket client (client/web/src/net/ws.js, one WsClient  *)
(* per mounted Lobby) against the handshake of the server                  *)
(* (server/internal/ws/handshake.go).                                      *)
(*                                                                         *)
(* Every call of connect() is numbered; its number also names the socket   *)
(* it opens.  What a handler awaits (a token, an event of a socket, a      *)
(* timer) is an action of its own, so everything else may happen first.    *)
(* A socket is two FIFO channels; its two ends notice separately that it   *)
(* is over, and what was under way is then lost.                           *)
(***************************************************************************)
EXTENDS Naturals, Sequences

CONSTANTS Users,     \* users who may sign in on this page
          Clients,   \* WsClients: one per mounting of the Lobby
          MaxCalls,  \* bound: calls of connect()
          MaxFrames, \* bound: frames under way when the page sends another
          Faults,    \* what may go wrong (see AllFaults)
          None

AllFaults == {"refused",   \* a socket does not open
              "lost",      \* a socket breaks with frames under way
              "dropped",   \* the server ends a connection it served
              "slow",      \* the handshake takes longer than HandshakeTimeout
              "rejected",  \* the verifier refuses a token
              "token"}     \* the page cannot get a token

ASSUME SessionAssumption == /\ MaxCalls \in Nat /\ MaxFrames \in Nat
                            /\ Faults \subseteq AllFaults
                            /\ None \notin Users \cup Clients \cup Nat

Sockets == 1 .. MaxCalls

VARIABLES currentUser,      \* Firebase's signed-in user
          shown,            \* auth.user, the user the page shows
          lobby,            \* the WsClient of the mounted Lobby
          state, ws, uid, intentionalClose,   \* fields of the WsClients
          timers,           \* backoff timers armed
          refreshes,        \* forced token refreshes awaited by a retry
          calls,            \* the calls of connect(), in order
          sock,             \* readyState of the browser's sockets
          srv,              \* the server's side of them
          up, down          \* frames under way

page   == << currentUser, shown, lobby >>
fields == << state, ws, uid, intentionalClose >>
retry  == << timers, refreshes >>
net    == << sock, srv, up, down >>
vars   == << page, fields, retry, calls, net >>

\* A call of connect(): who made it ("mount" swallows a rejection, "retry"
\* schedules another one), the user whose token it sends, its promise.
Call == [client : Clients, by : {"mount", "retry"},
         token : Users \cup {None}, promise : {"pending", "resolved", "rejected"}]

TypeOK ==
    /\ currentUser \in Users \cup {None}
    /\ shown \in Users \cup {None}
    /\ lobby \in Clients \cup {None}
    /\ state \in [Clients -> {"idle", "connecting", "authenticating", "connected", "closed"}]
    /\ ws \in [Clients -> Sockets \cup {None}]
    /\ uid \in [Clients -> Users \cup {None}]
    /\ intentionalClose \in [Clients -> BOOLEAN]
    /\ timers \in [Clients -> Nat]
    /\ refreshes \in [Clients -> Nat]
    /\ calls \in Seq(Call) /\ Len(calls) <= MaxCalls
    /\ sock \in [Sockets -> {"none", "connecting", "open", "closing", "closed"}]
    /\ srv \in [Sockets -> {"none", "handshake", "served", "ended"}]
    /\ up \in [Sockets -> Seq({"AUTH_REQUEST", "PING"})]
    /\ down \in [Sockets -> Seq({"OK", "INVALID_TOKEN", "PONG"})]

Init ==
    /\ currentUser = None /\ shown = None /\ lobby = None
    /\ state = [c \in Clients |-> "idle"]
    /\ ws = [c \in Clients |-> None]
    /\ uid = [c \in Clients |-> None]
    /\ intentionalClose = [c \in Clients |-> FALSE]
    /\ timers = [c \in Clients |-> 0]
    /\ refreshes = [c \in Clients |-> 0]
    /\ calls = << >>
    /\ sock = [k \in Sockets |-> "none"]
    /\ srv = [k \in Sockets |-> "none"]
    /\ up = [k \in Sockets |-> << >>]
    /\ down = [k \in Sockets |-> << >>]

----------------------------------------------------------------------------
(* Helpers *)

Made == DOMAIN calls
Owner(k) == calls[k].client

\* connect() up to its first await: the token asked for is the current user's.
\* A client that was never used has no call yet.
Connect(c, by) ==
    /\ Len(calls) < MaxCalls
    /\ calls' = Append(calls, [client |-> c, by |-> by, token |-> currentUser,
                               promise |-> "pending"])
    /\ intentionalClose' = [intentionalClose EXCEPT ![c] = FALSE]

\* A fault kept for the checks: one client for all Lobbies.
AnyClient(c) == TRUE

Unused(c) == \A k \in Made : Owner(k) # c

Settle(k, how) == calls' = [calls EXCEPT ![k].promise = how]

\* timers' when c schedules another attempt.
ScheduleReconnect(c) == timers' = [timers EXCEPT ![c] = @ + 1]

\* The catch of call k: the Lobby's is empty, the timer's schedules a retry.
Caught(k) == IF calls[k].by = "retry" THEN ScheduleReconnect(Owner(k))
                                      ELSE UNCHANGED timers

\* WebSocket.close()
Close(k) == sock' = [sock EXCEPT ![k] = IF @ \in {"connecting", "open"} THEN "closing" ELSE @]

\* The server writes a frame; nobody reads what a finished socket gets.
Write(k, f) == down' = [down EXCEPT ![k] = IF sock[k] = "open" THEN Append(@, f) ELSE @]

\* Faults kept for the checks: an interval in place of a timeout, a timer that
\* is cleared twice.
Repeats(c) == UNCHANGED timers
DisarmTwice(c) == timers' = [timers EXCEPT ![c] = @ - 2]

\* The timer has fired.
Disarm(c) == timers' = [timers EXCEPT ![c] = @ - 1]

\* Faults kept for the checks: a close that forgets it was asked for, a state
\* that is overwritten before it is read.
Unasked(c) == state[c] = "connected"
ReadLate(c) == ~intentionalClose[c] /\ state'[c] = "connected"

\* A close event is followed by a retry.
WasConnected(c) == ~intentionalClose[c] /\ state[c] = "connected"

\* A fault kept for the checks: a frame may go to a socket that is opening.
SendableEarly(k) == sock[k] \in {"connecting", "open"}

\* send() looks at readyState.
Sendable(k) == sock[k] = "open"

\* A fault kept for the checks: reads without a deadline or a context.
GoneUnnoticed(k) == FALSE

\* The server's read fails: the browser's end is closing or closed.
Gone(k) == sock[k] \in {"closing", "closed"}

----------------------------------------------------------------------------
(* The page *)

\* The sign-in screen is there while no user is shown.
SignIn(u) ==
    /\ currentUser = None /\ shown = None
    /\ currentUser' = u
    /\ UNCHANGED << shown, lobby, fields, retry, calls, net >>

SignOut ==
    /\ currentUser # None /\ shown = currentUser
    /\ currentUser' = None
    /\ UNCHANGED << shown, lobby, fields, retry, calls, net >>

\* The page learns of a sign-in: a Lobby is mounted with a new client.
LobbyMounts(c) ==
    /\ shown = None /\ currentUser # None
    /\ Unused(c)
    /\ shown' = currentUser /\ lobby' = c
    /\ Connect(c, "mount")
    /\ UNCHANGED << currentUser, state, ws, uid, retry, net >>

\* It learns of a sign-out: the Lobby goes and closes its client.
LobbyGoes ==
    /\ shown # None /\ currentUser = None
    /\ shown' = None /\ lobby' = None
    /\ intentionalClose' = [intentionalClose EXCEPT ![lobby] = TRUE]
    /\ IF ws[lobby] = None THEN UNCHANGED sock ELSE Close(ws[lobby])
    /\ UNCHANGED << currentUser, state, ws, uid, retry, calls, srv, up, down >>

----------------------------------------------------------------------------
(* The client *)

Waiting(k) == k \in Made /\ calls[k].promise = "pending" /\ sock[k] = "none"

\* getIdToken answers with a token: the socket is made.
GetsToken(k) ==
    /\ Waiting(k) /\ calls[k].token # None
    /\ state' = [state EXCEPT ![Owner(k)] = "connecting"]
    /\ ws' = [ws EXCEPT ![Owner(k)] = k]
    /\ sock' = [sock EXCEPT ![k] = "connecting"]
    /\ UNCHANGED << page, uid, intentionalClose, retry, calls, srv, up, down >>

\* Nobody is signed in, or the token cannot be had: connect() throws.
NoToken(k) ==
    /\ Waiting(k)
    /\ calls[k].token = None \/ "token" \in Faults
    /\ Settle(k, "rejected")
    /\ Caught(k)
    /\ UNCHANGED << page, fields, refreshes, net >>

OnOpen(k) ==
    /\ sock[k] = "connecting" /\ srv[k] # "none"
    /\ sock' = [sock EXCEPT ![k] = "open"]
    /\ state' = [state EXCEPT ![Owner(k)] = "authenticating"]
    /\ up' = [up EXCEPT ![k] = Append(@, "AUTH_REQUEST")]
    /\ UNCHANGED << page, ws, uid, intentionalClose, retry, calls, srv, down >>

\* A frame arrives.  The answer to AUTH_REQUEST counts only while the client is
\* authenticating; anything else goes to the listeners.
OnMessage(k) ==
    LET c == Owner(k)
        f == Head(down[k])
        answer == state[c] = "authenticating" /\ f \in {"OK", "INVALID_TOKEN"}
    IN  /\ sock[k] = "open" /\ down[k] # << >>
        /\ down' = [down EXCEPT ![k] = Tail(@)]
        /\ \/ /\ answer /\ f = "OK"
              /\ uid' = [uid EXCEPT ![c] = calls[k].token]
              /\ state' = [state EXCEPT ![c] = "connected"]
              /\ Settle(k, "resolved")
              /\ UNCHANGED << sock, timers >>
           \/ /\ answer /\ f = "INVALID_TOKEN"
              /\ state' = [state EXCEPT ![c] = "closed"]
              /\ Close(k)
              /\ Settle(k, "rejected")
              /\ Caught(k)
              /\ UNCHANGED uid
           \/ ~answer /\ UNCHANGED << uid, state, calls, sock, timers >>
        /\ UNCHANGED << page, ws, intentionalClose, refreshes, srv, up >>

\* Why the browser may report a socket closed.
Over(k) ==
    \/ sock[k] = "closing"
    \/ sock[k] = "connecting" /\ "refused" \in Faults
    \/ sock[k] = "open" /\ srv[k] = "ended" /\ down[k] = << >>
    \/ sock[k] = "open" /\ "lost" \in Faults

\* The close event.  The branch that rejects asks for a state that the line
\* before it has overwritten.
OnClose(k) ==
    LET c == Owner(k)
    IN  /\ Over(k)
        /\ sock' = [sock EXCEPT ![k] = "closed"]
        /\ down' = [down EXCEPT ![k] = << >>]
        /\ state' = [state EXCEPT ![c] = "closed"]
        /\ ws' = [ws EXCEPT ![c] = None]
        /\ IF WasConnected(c) THEN ScheduleReconnect(c) ELSE UNCHANGED timers
        /\ IF ~intentionalClose[c] /\ state[c] # "connected" /\ state'[c] = "connecting"
             THEN Settle(k, "rejected") ELSE UNCHANGED calls
        /\ UNCHANGED << page, uid, intentionalClose, refreshes, srv, up >>

\* send(): only through the current socket, only while it is open.
Send(c) ==
    /\ ws[c] # None
    /\ Sendable(ws[c])
    /\ Len(up[ws[c]]) + Len(down[ws[c]]) < MaxFrames
    /\ up' = [up EXCEPT ![ws[c]] = Append(@, "PING")]
    /\ UNCHANGED << page, fields, retry, calls, sock, srv, down >>

\* A backoff timer fires: the token is refreshed.
BackoffElapses(c) ==
    /\ timers[c] > 0
    /\ Disarm(c)
    /\ refreshes' = [refreshes EXCEPT ![c] = @ + 1]
    /\ UNCHANGED << page, fields, calls, net >>

\* The refresh answers, with a token or with null: connect() again.
Refreshed(c) ==
    /\ refreshes[c] > 0
    /\ refreshes' = [refreshes EXCEPT ![c] = @ - 1]
    /\ Connect(c, "retry")
    /\ UNCHANGED << page, state, ws, uid, timers, net >>

\* The refresh fails: the rejection is not caught.
RefreshFails(c) ==
    /\ refreshes[c] > 0 /\ "token" \in Faults
    /\ refreshes' = [refreshes EXCEPT ![c] = @ - 1]
    /\ UNCHANGED << page, fields, timers, calls, net >>

----------------------------------------------------------------------------
(* The server *)

Accept(k) ==
    /\ sock[k] = "connecting" /\ srv[k] = "none"
    /\ srv' = [srv EXCEPT ![k] = "handshake"]
    /\ UNCHANGED << page, fields, retry, calls, sock, up, down >>

\* The first frame is an AUTH_REQUEST: its token is verified, the answer
\* written, and the connection served or closed.
Authenticate(k) ==
    /\ srv[k] = "handshake" /\ up[k] # << >> /\ Head(up[k]) = "AUTH_REQUEST"
    /\ up' = [up EXCEPT ![k] = Tail(@)]
    /\ \/ srv' = [srv EXCEPT ![k] = "served"] /\ Write(k, "OK")
       \/ /\ "rejected" \in Faults
          /\ srv' = [srv EXCEPT ![k] = "ended"] /\ Write(k, "INVALID_TOKEN")
    /\ UNCHANGED << page, fields, retry, calls, sock >>

\* No first frame: the socket is gone or HandshakeTimeout runs out; or another
\* frame came first.  Closed without an answer.
HandshakeFails(k) ==
    /\ srv[k] = "handshake"
    /\ \/ Gone(k)
       \/ "slow" \in Faults
       \/ up[k] # << >> /\ Head(up[k]) # "AUTH_REQUEST"
    /\ srv' = [srv EXCEPT ![k] = "ended"]
    /\ UNCHANGED << page, fields, retry, calls, sock, up, down >>

\* One turn of the read loop of a served connection (Hub has the dispatch).
Serve(k) ==
    /\ srv[k] = "served" /\ up[k] # << >>
    /\ up' = [up EXCEPT ![k] = Tail(@)]
    /\ Write(k, "PONG")
    /\ UNCHANGED << page, fields, retry, calls, sock, srv >>

\* The read loop returns: the socket is gone, or an error or the idle timeout
\* ends it.  (Bound: not when no call is left for the client to come back.)
ReadLoopEnds(k) ==
    /\ srv[k] = "served"
    /\ \/ Gone(k)
       \/ "dropped" \in Faults /\ Len(calls) < MaxCalls
    /\ srv' = [srv EXCEPT ![k] = "ended"]
    /\ UNCHANGED << page, fields, retry, calls, sock, up, down >>

----------------------------------------------------------------------------

Next ==
    \/ \E u \in Users : SignIn(u)
    \/ SignOut \/ LobbyGoes
    \/ \E c \in Clients :
          LobbyMounts(c) \/ Send(c) \/ BackoffElapses(c) \/ Refreshed(c) \/ RefreshFails(c)
    \/ \E k \in Sockets :
          \/ GetsToken(k) \/ NoToken(k) \/ OnOpen(k) \/ OnMessage(k) \/ OnClose(k)
          \/ Accept(k) \/ Authenticate(k) \/ HandshakeFails(k) \/ Serve(k) \/ ReadLoopEnds(k)

Spec == Init /\ [][Next]_vars

\* The event loop, the timers, the network and the server's goroutines go on;
\* the user, the bounds and the faults owe nothing.
LiveSpec ==
    /\ Spec
    /\ WF_vars(LobbyGoes)
    /\ \A c \in Clients : WF_vars(BackoffElapses(c)) /\ WF_vars(Refreshed(c))
    /\ \A k \in Sockets :
          /\ WF_vars(GetsToken(k) \/ NoToken(k))
          /\ WF_vars(Accept(k)) /\ WF_vars(OnOpen(k))
          /\ WF_vars(OnMessage(k)) /\ WF_vars(OnClose(k))
          /\ WF_vars(Authenticate(k) \/ HandshakeFails(k))
          /\ WF_vars(ReadLoopEnds(k) /\ Gone(k))

----------------------------------------------------------------------------
(* Properties *)

\* The server reads AUTH_REQUEST as the first frame of every socket, and never
\* again: what the page sends waits for the handshake or is not sent
\* (ws.js onopen and send(), handshake.go).
AuthFirstAndOnce ==
    \A k \in Made : \A i \in DOMAIN up[k] :
        /\ up[k][i] = "AUTH_REQUEST" => i = 1 /\ srv[k] # "served"
        /\ i = 1 /\ srv[k] = "handshake" => up[k][i] = "AUTH_REQUEST"

\* No token that c sent was refused.  (The late close of a refused socket
\* overwrites the state of the next one.)
Trusted(c) ==
    \A k \in Made : Owner(k) = c /\ calls[k].promise = "rejected" => sock[k] = "none"

\* A client keeps at most one socket alive, whatever breaks or hangs, as long as
\* no token is refused: the retries form one chain (ws.js connect(), onclose,
\* scheduleReconnect()).
OneSocket ==
    \A j, k \in Made :
        /\ Owner(j) = Owner(k) /\ Trusted(Owner(k))
        /\ {sock[j], sock[k]} \subseteq {"connecting", "open", "closing"}
        => j = k

\* "WS: connected" speaks of the client's current socket: the server accepted
\* that one, and its connect() has resolved, unless a token was refused before
\* (ws.js onmessage, onclose).
ConnectedIsServed ==
    \A c \in Clients :
        state[c] = "connected" /\ Trusted(c) =>
            /\ ws[c] # None
            /\ calls[ws[c]].promise = "resolved"
            /\ srv[ws[c]] \in {"served", "ended"}

\* A mounted Lobby that is connected is connected as the user the page shows,
\* also when users follow one another (Lobby.svelte, ws.js, auth.svelte.js).
ConnectedAsShown ==
    \A c \in Clients : lobby = c /\ state[c] = "connected" => uid[c] = shown

\* c awaits nothing.
Idle(c) == /\ timers[c] = 0 /\ refreshes[c] = 0
           /\ \A k \in Made : Owner(k) = c => ~Waiting(k)

\* c was closed and no socket of it is open or opening.
Closed(c) == /\ lobby # c /\ intentionalClose[c] /\ Idle(c)
             /\ \A k \in Made :
                   Owner(k) = c => sock[k] \in {"none", "closing", "closed"}

\* A client closed while it awaited nothing gives up its socket at once and
\* starts nothing again: no timer, no token, no socket, whatever the sockets it
\* had still report, if no token of it was refused (Lobby.svelte onDestroy, ws.js
\* close(), onclose).
ClosedStaysClosed ==
    [][\A c \in Clients :
          Trusted(c) /\ (Closed(c) \/ (lobby = c /\ lobby' # c /\ Idle(c)))
            => Closed(c)']_vars

\* The sockets of such a client come down, and their connections at the server
\* with them (ws.js close(), handshake.go, conn.go readLoop).
ClosedIsLetGo ==
    \A c \in Clients :
        Closed(c) ~> \A k \in Made : Owner(k) = c =>
                         sock[k] \in {"none", "closed"} /\ srv[k] \in {"none", "ended"}

\* When only served connections break, a mounted Lobby is always connected again
\* or goes (ws.js scheduleReconnect()).
Reconnects == \A c \in Clients : lobby = c ~> state[c] = "connected" \/ lobby # c

----------------------------------------------------------------------------
(* The inductive invariant behind the properties above (see SessionProofs) *)

\* The page shows a user while a Lobby is mounted; the user it shows is signed in,
\* or nobody is.
PageInv ==
    /\ lobby = None <=> shown = None
    /\ shown # None => currentUser \in {None, shown}

\* A client that made no call has done nothing.
UnusedIsNew ==
    \A c \in Clients : Unused(c) =>
        /\ lobby # c /\ ws[c] = None /\ uid[c] = None /\ ~intentionalClose[c]
        /\ timers[c] = 0 /\ refreshes[c] = 0

\* A socket belongs to a call that got a token.
SocketsOfCalls ==
    \A k \in Sockets : sock[k] # "none" => k \in Made /\ calls[k].token # None

\* A client's current socket is one of its own.
OwnSocket == \A c \in Clients : ws[c] # None => ws[c] \in Made /\ Owner(ws[c]) = c

\* What the two ends of a socket know of each other.
Wire ==
    \A k \in Sockets :
        /\ sock[k] = "none" => srv[k] = "none"
        /\ sock[k] \in {"none", "connecting"} => up[k] = << >> /\ srv[k] # "served"
        /\ sock[k] = "open" => srv[k] # "none" /\ (srv[k] = "handshake" => up[k] # << >>)
        /\ down[k] # << >> => srv[k] \in {"served", "ended"}

\* A refused token closes its socket.
RefusedCloses ==
    \A k \in Made :
        calls[k].promise = "rejected" => sock[k] \in {"none", "closing", "closed"}

\* The calls that are still about something.
Alive(k)  == sock[k] \in {"connecting", "open", "closing"}
Active(k) == Waiting(k) \/ Alive(k)

\* A trusted client does one thing at a time: it waits for a timer, for a refresh,
\* for the token of a call, or has a socket, which is then its current one.
OneThread ==
    \A c \in Clients : Trusted(c) =>
        /\ timers[c] + refreshes[c] \in {0, 1}
        /\ \A k \in Made : Owner(k) = c /\ Active(k) =>
              /\ timers[c] + refreshes[c] = 0
              /\ Alive(k) => ws[c] = k
              /\ \A j \in Made : Owner(j) = c /\ Active(j) => j = k

\* The mounted client asks for the tokens of the user shown.
TokensOfShown ==
    \A c \in Clients :
        /\ lobby = c => /\ uid[c] \in {None, shown}
                        /\ \A k \in Made : Owner(k) = c => calls[k].token \in {None, shown}
        /\ state[c] = "connected" => uid[c] # None

IInv ==
    /\ TypeOK
    /\ PageInv /\ UnusedIsNew /\ SocketsOfCalls /\ OwnSocket
    /\ Wire /\ AuthFirstAndOnce
    /\ RefusedCloses /\ OneThread /\ ConnectedIsServed
    /\ TokensOfShown

=============================================================================
