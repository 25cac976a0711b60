---------------------------- MODULE SessionProofs ----------------------------
(***************************************************************************)
(* Proofs about Session, for any users, clients, number of calls and       *)
(* frames, and any faults: types, that AUTH_REQUEST is the first frame and *)
(* comes once, that a trusted client keeps one socket, what "connected"    *)
(* says of the server and of the user shown, and that a closed client      *)
(* stays closed.                                                           *)
(***************************************************************************)
EXTENDS Session, TLAPS

\* A call is added at the end and changes no other.
LEMMA ConnectAdds ==
    ASSUME TypeOK, NEW c \in Clients, NEW by \in {"mount", "retry"}, Connect(c, by)
    PROVE  \E n \in Sockets :
             /\ n \notin Made /\ Made' = Made \cup {n}
             /\ calls' \in Seq(Call) /\ Len(calls') <= MaxCalls
             /\ \A k \in Made : calls'[k] = calls[k]
             /\ calls'[n] = [client |-> c, by |-> by, token |-> currentUser,
                             promise |-> "pending"]
             /\ intentionalClose' = [intentionalClose EXCEPT ![c] = FALSE]
<1> DEFINE r == [client |-> c, by |-> by, token |-> currentUser, promise |-> "pending"]
           n == Len(calls) + 1
<1>1. calls \in Seq(Call) /\ Len(calls) \in Nat /\ Len(calls) < MaxCalls /\ MaxCalls \in Nat
  BY SessionAssumption DEF TypeOK, Connect
<1>2. r \in Call
  BY DEF TypeOK, Call
<1>3. calls' = Append(calls, r)
  BY DEF Connect
<1> HIDE DEF r
<1>4. /\ calls' \in Seq(Call) /\ Len(calls') = Len(calls) + 1
      /\ \A k \in 1 .. Len(calls) : calls'[k] = calls[k]
      /\ calls'[Len(calls) + 1] = r
  BY <1>1, <1>2, <1>3
<1>5. n \in Sockets /\ n \notin Made /\ Made' = Made \cup {n} /\ Len(calls') <= MaxCalls
  BY <1>1, <1>4 DEF Sockets, Made
<1>6. \A k \in Made : calls'[k] = calls[k]
  BY <1>1, <1>4 DEF Made
<1> HIDE DEF n
<1>7. calls'[n] = r
  BY <1>4 DEF n
<1>8. QED
  BY <1>4, <1>5, <1>6, <1>7 DEF Connect, r

\* Settling a call changes its promise and nothing else.
LEMMA SettleChanges ==
    ASSUME TypeOK, NEW k \in Made, NEW how \in {"resolved", "rejected"}, Settle(k, how)
    PROVE  /\ Made' = Made /\ calls' \in Seq(Call) /\ Len(calls') <= MaxCalls
           /\ \A j \in Made : /\ calls'[j].client = calls[j].client
                              /\ calls'[j].by = calls[j].by
                              /\ calls'[j].token = calls[j].token
                              /\ calls'[j].promise = IF j = k THEN how ELSE calls[j].promise
<1> DEFINE r == [calls[k] EXCEPT !.promise = how]
<1>1. calls \in Seq(Call) /\ calls[k] \in Call
  BY DEF TypeOK, Made
<1>2. r \in Call /\ r.client = calls[k].client /\ r.by = calls[k].by
      /\ r.token = calls[k].token /\ r.promise = how
  BY <1>1 DEF Call
<1>3. calls' = [calls EXCEPT ![k] = r]
  BY DEF Settle
<1> HIDE DEF r
<1>4. calls' \in Seq(Call) /\ Len(calls') = Len(calls) /\ Made' = Made
  BY <1>1, <1>2, <1>3 DEF Made
<1>5. calls'[k] = r /\ \A j \in Made \ {k} : calls'[j] = calls[j]
  BY <1>1, <1>3 DEF Made
<1>6. QED
  BY <1>2, <1>4, <1>5 DEF TypeOK

\* A call has an owner.
LEMMA OwnerIsClient ==
    ASSUME TypeOK, NEW k \in Made
    PROVE  /\ calls[k] \in Call /\ Owner(k) \in Clients /\ k \in Sockets
           /\ calls[k].token \in Users \cup {None}
<1>1. calls[k] \in Call /\ k \in Nat /\ 1 <= k /\ k <= MaxCalls
  BY SessionAssumption DEF TypeOK, Made
<1>2. QED
  BY <1>1 DEF Call, Owner, Sockets
-----------------------------------------------------------------------------
(* The first state *)

\* Nothing was called.
LEMMA InitInv == Init => IInv
<1> SUFFICES ASSUME Init PROVE IInv
  OBVIOUS
<1>1. Made = {} /\ Len(calls) = 0 /\ calls \in Seq(Call)
  BY DEF Init, Made
<1>2. TypeOK
  BY <1>1, SessionAssumption DEF Init, TypeOK
<1>3. PageInv /\ SocketsOfCalls /\ OwnSocket /\ Wire /\ TokensOfShown /\ ConnectedIsServed
  BY <1>1 DEF Init, PageInv, SocketsOfCalls, OwnSocket, Wire, TokensOfShown, ConnectedIsServed
<1>4. UnusedIsNew
  BY SessionAssumption DEF Init, UnusedIsNew
<1>5. AuthFirstAndOnce /\ RefusedCloses /\ OneThread
  BY <1>1 DEF Init, AuthFirstAndOnce, RefusedCloses, OneThread
<1>6. QED
  BY <1>2, <1>3, <1>4, <1>5 DEF IInv
-----------------------------------------------------------------------------
(* The server, and the frames *)

\* A step that only the server and the frames notice.
LEMMA NetStep ==
    ASSUME IInv, UNCHANGED << page, fields, retry, calls, sock >>,
           TypeOK', Wire', AuthFirstAndOnce',
           \A k \in Sockets : srv[k] \in {"served", "ended"} => srv'[k] \in {"served", "ended"}
    PROVE  IInv'
<1> USE DEF IInv, page, fields, retry
<1>1. \A c \in Clients : Trusted(c)' <=> Trusted(c)
  BY DEF Trusted, Made, Owner
<1>2. PageInv' /\ UnusedIsNew' /\ SocketsOfCalls' /\ OwnSocket' /\ RefusedCloses'
  BY DEF PageInv, UnusedIsNew, Unused, SocketsOfCalls, OwnSocket, RefusedCloses, Made, Owner
<1>3. OneThread'
  BY <1>1 DEF OneThread, Active, Alive, Waiting, Made, Owner
<1>4. ConnectedIsServed'
  <2>1. \A c \in Clients : ws[c] # None => ws[c] \in Sockets
    BY DEF TypeOK
  <2>2. QED
    BY <1>1, <2>1 DEF ConnectedIsServed
<1>5. TokensOfShown'
  BY DEF TokensOfShown, Made, Owner
<1>6. QED
  BY <1>2, <1>3, <1>4, <1>5

\* Accepting, answering, serving, ending, and sending through the current socket.
LEMMA NetActions ==
    ASSUME IInv, NEW k \in Sockets,
           \/ Accept(k) \/ Authenticate(k) \/ HandshakeFails(k) \/ Serve(k) \/ ReadLoopEnds(k)
           \/ \E c \in Clients : ws[c] = k /\ Send(c)
    PROVE  IInv'
<1> USE DEF IInv, page, fields, retry
<1>1. /\ srv \in [Sockets -> {"none", "handshake", "served", "ended"}]
      /\ up \in [Sockets -> Seq({"AUTH_REQUEST", "PING"})]
      /\ down \in [Sockets -> Seq({"OK", "INVALID_TOKEN", "PONG"})]
      /\ sock \in [Sockets -> {"none", "connecting", "open", "closing", "closed"}]
  BY DEF TypeOK
<1>2. UNCHANGED << page, fields, retry, calls, sock >>
  BY DEF Accept, Authenticate, HandshakeFails, Serve, ReadLoopEnds, Send
<1>3. \A j \in Sockets \ {k} : srv'[j] = srv[j] /\ up'[j] = up[j] /\ down'[j] = down[j]
  BY <1>1 DEF Accept, Authenticate, HandshakeFails, Serve, ReadLoopEnds, Send, Write
<1>4. CASE Accept(k)
  <2>1. sock[k] = "connecting" /\ srv[k] = "none" /\ srv' = [srv EXCEPT ![k] = "handshake"]
        /\ UNCHANGED << up, down >>
    BY <1>4 DEF Accept
  <2>2. TypeOK' /\ Wire' /\ AuthFirstAndOnce'
    BY <1>1, <1>2, <2>1 DEF TypeOK, Wire, AuthFirstAndOnce, Made
  <2>3. QED
    BY <1>1, <1>2, <2>1, <2>2, NetStep
<1>5. CASE HandshakeFails(k) \/ ReadLoopEnds(k)
  <2>1. srv[k] \in {"handshake", "served"} /\ srv' = [srv EXCEPT ![k] = "ended"]
        /\ UNCHANGED << up, down >>
    BY <1>5 DEF HandshakeFails, ReadLoopEnds
  <2>2. TypeOK' /\ Wire' /\ AuthFirstAndOnce'
    BY <1>1, <1>2, <2>1 DEF TypeOK, Wire, AuthFirstAndOnce, Made
  <2>3. QED
    BY <1>1, <1>2, <2>1, <2>2, NetStep
<1>6. ASSUME up[k] # << >>, up' = [up EXCEPT ![k] = Tail(@)],
             srv[k] \in {"handshake", "served"}, srv' \in [Sockets -> {"none", "handshake", "served", "ended"}],
             srv'[k] \in {"served", "ended"},
             NEW f \in {"OK", "INVALID_TOKEN", "PONG"}, Write(k, f)
      PROVE  IInv'
  <2>1. up[k] \in Seq({"AUTH_REQUEST", "PING"}) /\ down[k] \in Seq({"OK", "INVALID_TOKEN", "PONG"})
    BY <1>1
  <2>2. /\ Tail(up[k]) \in Seq({"AUTH_REQUEST", "PING"})
        /\ Append(down[k], f) \in Seq({"OK", "INVALID_TOKEN", "PONG"})
        /\ DOMAIN Tail(up[k]) = 1 .. Len(up[k]) - 1 /\ DOMAIN up[k] = 1 .. Len(up[k])
        /\ Len(up[k]) \in Nat \ {0}
        /\ \A i \in 1 .. Len(up[k]) - 1 : Tail(up[k])[i] = up[k][i + 1]
    BY <1>6, <2>1
  <2>3. up'[k] = Tail(up[k]) /\ up' \in [Sockets -> Seq({"AUTH_REQUEST", "PING"})]
    BY <1>1, <1>6, <2>2
  <2>4. down' \in [Sockets -> Seq({"OK", "INVALID_TOKEN", "PONG"})]
    BY <1>1, <1>6, <2>1, <2>2 DEF Write
  <2>5. TypeOK'
    BY <1>2, <1>6, <2>3, <2>4 DEF TypeOK
  <2>6. sock[k] \notin {"none", "connecting"}
    BY <1>6 DEF Wire
  <2>7. Wire'
    BY <1>2, <1>3, <1>6, <2>6 DEF Wire
  <2>8. \A i \in DOMAIN up'[k] : k \in Made => up'[k][i] # "AUTH_REQUEST"
    <3>1. \A i \in 1 .. Len(up[k]) - 1 : i + 1 \in DOMAIN up[k] /\ i + 1 # 1
      BY <2>2
    <3>2. QED
      BY <2>2, <2>3, <3>1 DEF AuthFirstAndOnce
  <2>9. AuthFirstAndOnce'
    <3> SUFFICES ASSUME NEW j \in Made, NEW i \in DOMAIN up'[j]
                 PROVE  /\ up'[j][i] = "AUTH_REQUEST" => i = 1 /\ srv'[j] # "served"
                        /\ i = 1 /\ srv'[j] = "handshake" => up'[j][i] = "AUTH_REQUEST"
      BY <1>2 DEF AuthFirstAndOnce, Made
    <3>1. CASE j = k
      BY <1>6, <2>8, <3>1
    <3>2. CASE j # k
      <4>1. j \in Sockets
        BY OwnerIsClient
      <4>2. QED
        BY <1>3, <3>2, <4>1 DEF AuthFirstAndOnce
    <3>3. QED
      BY <3>1, <3>2
  <2>10. QED
    BY <1>2, <1>3, <1>6, <2>5, <2>7, <2>9, NetStep
<1>7. CASE Authenticate(k)
  <2>1. /\ srv[k] = "handshake" /\ up[k] # << >> /\ up' = [up EXCEPT ![k] = Tail(@)]
        /\ \E s \in {"served", "ended"} : srv' = [srv EXCEPT ![k] = s]
        /\ \E f \in {"OK", "INVALID_TOKEN"} : Write(k, f)
    BY <1>7 DEF Authenticate
  <2>2. srv' \in [Sockets -> {"none", "handshake", "served", "ended"}] /\ srv'[k] \in {"served", "ended"}
    BY <1>1, <2>1
  <2>3. QED
    BY <1>6, <2>1, <2>2
<1>8. CASE Serve(k)
  BY <1>1, <1>6, <1>8 DEF Serve
<1>9. ASSUME NEW c \in Clients, ws[c] = k, Send(c) PROVE IInv'
  <2>1. sock[k] = "open" /\ up' = [up EXCEPT ![k] = Append(@, "PING")] /\ UNCHANGED << srv, down >>
    BY <1>9 DEF Send, Sendable
  <2>2. /\ up[k] \in Seq({"AUTH_REQUEST", "PING"})
        /\ Append(up[k], "PING") \in Seq({"AUTH_REQUEST", "PING"})
        /\ DOMAIN Append(up[k], "PING") = 1 .. Len(up[k]) + 1 /\ DOMAIN up[k] = 1 .. Len(up[k])
        /\ Len(up[k]) \in Nat /\ Append(up[k], "PING") # << >>
        /\ \A i \in 1 .. Len(up[k]) : Append(up[k], "PING")[i] = up[k][i]
        /\ Append(up[k], "PING")[Len(up[k]) + 1] = "PING"
    <3>1. up[k] \in Seq({"AUTH_REQUEST", "PING"})
      BY <1>1
    <3>2. QED
      BY <3>1
  <2>3. up'[k] = Append(up[k], "PING") /\ up' \in [Sockets -> Seq({"AUTH_REQUEST", "PING"})]
    BY <1>1, <2>1, <2>2
  <2>4. TypeOK'
    BY <1>2, <2>1, <2>3 DEF TypeOK
  <2>5. Wire'
    BY <1>2, <1>3, <2>1, <2>2, <2>3 DEF Wire
  <2>6. srv[k] = "handshake" => Len(up[k]) # 0
    BY <2>1, <2>2 DEF Wire
  <2>7. AuthFirstAndOnce'
    <3> SUFFICES ASSUME NEW j \in Made, NEW i \in DOMAIN up'[j]
                 PROVE  /\ up'[j][i] = "AUTH_REQUEST" => i = 1 /\ srv[j] # "served"
                        /\ i = 1 /\ srv[j] = "handshake" => up'[j][i] = "AUTH_REQUEST"
      BY <1>2, <2>1 DEF AuthFirstAndOnce, Made
    <3>1. CASE j = k /\ i \in DOMAIN up[k]
      BY <2>2, <2>3, <3>1 DEF AuthFirstAndOnce
    <3>2. CASE j = k /\ i = Len(up[k]) + 1
      BY <2>2, <2>3, <2>6, <3>2
    <3>3. CASE j # k
      <4>1. j \in Sockets
        BY OwnerIsClient
      <4>2. QED
        BY <1>3, <3>3, <4>1 DEF AuthFirstAndOnce
    <3>4. j = k => i \in DOMAIN up[k] \/ i = Len(up[k]) + 1
      BY <2>2, <2>3
    <3>5. QED
      BY <3>1, <3>2, <3>3, <3>4
  <2>8. QED
    BY <1>2, <2>1, <2>4, <2>5, <2>7, NetStep
<1>10. QED
  BY <1>4, <1>5, <1>7, <1>8, <1>9
-----------------------------------------------------------------------------
(* The page, the timers and the refreshes *)

\* A token once refused stays refused.
LEMMA TrustKept ==
    ASSUME Made \subseteq Made',
           \A k \in Made : /\ calls'[k].client = calls[k].client
                           /\ sock[k] # "none" => sock'[k] # "none"
                           /\ calls[k].promise = "rejected" /\ sock[k] # "none"
                                => calls'[k].promise = "rejected",
           NEW c \in Clients, Trusted(c)'
    PROVE  Trusted(c)
  BY DEF Trusted, Owner

\* Users sign in and out before the page knows.
LEMMA SignInOut ==
    ASSUME IInv, SignOut \/ \E u \in Users : SignIn(u)
    PROVE  IInv'
<1> USE DEF IInv, fields, retry, net
<1>1. /\ UNCHANGED << shown, lobby, fields, retry, calls, net >>
      /\ currentUser' \in Users \cup {None}
      /\ shown # None => currentUser' \in {None, shown}
  BY DEF SignIn, SignOut
<1>2. TypeOK' /\ PageInv'
  BY <1>1 DEF TypeOK, PageInv
<1>3. UnusedIsNew' /\ SocketsOfCalls' /\ OwnSocket' /\ Wire' /\ RefusedCloses' /\ AuthFirstAndOnce'
  BY <1>1 DEF UnusedIsNew, Unused, SocketsOfCalls, OwnSocket, Wire, RefusedCloses,
              AuthFirstAndOnce, Made, Owner
<1>4. OneThread' /\ ConnectedIsServed' /\ TokensOfShown'
  BY <1>1 DEF OneThread, Active, Alive, Waiting, ConnectedIsServed, TokensOfShown, Trusted, Made, Owner
<1>5. QED
  BY <1>2, <1>3, <1>4

\* A new call has no socket yet; what is said of the others stays true.
LEMMA ConnectStep ==
    ASSUME IInv, NEW c \in Clients, NEW by \in {"mount", "retry"}, Connect(c, by),
           UNCHANGED << state, ws, uid, net >>
    PROVE  /\ SocketsOfCalls' /\ OwnSocket' /\ Wire' /\ AuthFirstAndOnce'
           /\ RefusedCloses' /\ ConnectedIsServed'
           /\ \A d \in Clients : Trusted(d)' => Trusted(d)
           /\ \E n \in Sockets :
                /\ n \notin Made /\ Made' = Made \cup {n}
                /\ calls' \in Seq(Call) /\ Len(calls') <= MaxCalls
                /\ \A k \in Made : calls'[k] = calls[k] /\ (Active(k)' <=> Active(k))
                /\ calls'[n].client = c /\ calls'[n].token = currentUser
                /\ ~Alive(n)' /\ sock[n] = "none"
                /\ intentionalClose' = [intentionalClose EXCEPT ![c] = FALSE]
<1> USE DEF IInv, net
<1>1. PICK n \in Sockets :
        /\ n \notin Made /\ Made' = Made \cup {n}
        /\ calls' \in Seq(Call) /\ Len(calls') <= MaxCalls
        /\ \A k \in Made : calls'[k] = calls[k]
        /\ calls'[n] = [client |-> c, by |-> by, token |-> currentUser, promise |-> "pending"]
        /\ intentionalClose' = [intentionalClose EXCEPT ![c] = FALSE]
  BY ConnectAdds
<1>2. sock[n] = "none" /\ up[n] = << >>
  BY <1>1 DEF SocketsOfCalls, Wire
<1>3. SocketsOfCalls' /\ OwnSocket' /\ Wire'
  BY <1>1 DEF SocketsOfCalls, OwnSocket, Wire, Owner
<1>4. AuthFirstAndOnce'
  BY <1>1, <1>2 DEF AuthFirstAndOnce
<1>5. RefusedCloses'
  BY <1>1 DEF RefusedCloses
<1>6. \A d \in Clients : Trusted(d)' => Trusted(d)
  BY <1>1, TrustKept
<1>7. ConnectedIsServed'
  BY <1>1, <1>6 DEF ConnectedIsServed, OwnSocket
<1>8. \A k \in Made : Active(k)' <=> Active(k)
  BY <1>1 DEF Active, Alive, Waiting
<1>9. ~Alive(n)'
  BY <1>2 DEF Alive
<1>10. QED
  BY <1>1, <1>2, <1>3, <1>4, <1>5, <1>6, <1>7, <1>8, <1>9

\* A Lobby is mounted with a client that never did anything.
LEMMA MountStep == ASSUME IInv, NEW c \in Clients, LobbyMounts(c) PROVE IInv'
<1> USE DEF IInv, retry, net
<1>1. /\ Unused(c) /\ currentUser # None /\ shown' = currentUser /\ lobby' = c
      /\ Connect(c, "mount") /\ UNCHANGED << currentUser, state, ws, uid, retry, net >>
  BY DEF LobbyMounts
<1>2. PICK n \in Sockets :
        /\ n \notin Made /\ Made' = Made \cup {n}
        /\ calls' \in Seq(Call) /\ Len(calls') <= MaxCalls
        /\ \A k \in Made : calls'[k] = calls[k] /\ (Active(k)' <=> Active(k))
        /\ calls'[n].client = c /\ calls'[n].token = currentUser
        /\ ~Alive(n)' /\ sock[n] = "none"
        /\ intentionalClose' = [intentionalClose EXCEPT ![c] = FALSE]
  BY <1>1, ConnectStep
<1>3. /\ SocketsOfCalls' /\ OwnSocket' /\ Wire' /\ AuthFirstAndOnce'
      /\ RefusedCloses' /\ ConnectedIsServed' /\ \A d \in Clients : Trusted(d)' => Trusted(d)
  BY <1>1, ConnectStep
<1>4. TypeOK'
  BY <1>1, <1>2 DEF TypeOK
<1>5. PageInv'
  BY <1>1, SessionAssumption DEF PageInv
<1>6. UnusedIsNew'
  <2> SUFFICES ASSUME NEW d \in Clients, Unused(d)'
               PROVE  /\ lobby' # d /\ ws[d] = None /\ uid[d] = None /\ ~intentionalClose'[d]
                      /\ timers[d] = 0 /\ refreshes[d] = 0
    BY <1>1 DEF UnusedIsNew
  <2>1. d # c /\ Unused(d)
    BY <1>2 DEF Unused, Owner
  <2>2. QED
    BY <1>1, <1>2, <2>1 DEF UnusedIsNew, TypeOK
<1>7. OneThread'
  <2> SUFFICES ASSUME NEW d \in Clients, Trusted(d)'
               PROVE  /\ timers[d] + refreshes[d] \in {0, 1}
                      /\ \A k \in Made' : Owner(k)' = d /\ Active(k)' =>
                            /\ timers[d] + refreshes[d] = 0
                            /\ Alive(k)' => ws[d] = k
                            /\ \A j \in Made' : Owner(j)' = d /\ Active(j)' => j = k
    BY <1>1 DEF OneThread
  <2>1. Trusted(d) /\ \A k \in Made : Owner(k)' = Owner(k) /\ (Alive(k)' <=> Alive(k))
    BY <1>1, <1>2, <1>3 DEF Owner, Alive
  <2>2. CASE d = c
    <3>1. \A k \in Made' : Owner(k)' = c => k = n
      BY <1>1, <1>2, <2>1 DEF Unused, Owner
    <3>2. timers[c] = 0 /\ refreshes[c] = 0
      BY <1>1 DEF UnusedIsNew
    <3>3. QED
      BY <1>2, <2>2, <3>1, <3>2
  <2>3. CASE d # c
    <3>1. \A k \in Made' : Owner(k)' = d => k \in Made
      BY <1>2, <2>3 DEF Owner
    <3>2. QED
      BY <1>1, <1>2, <2>1, <3>1 DEF OneThread
  <2>4. QED
    BY <2>2, <2>3
<1>8. TokensOfShown'
  <2>1. uid[c] = None /\ \A k \in Made' : Owner(k)' = c => k = n
    BY <1>1, <1>2 DEF Unused, UnusedIsNew, Owner
  <2>2. QED
    BY <1>1, <1>2, <2>1 DEF TokensOfShown
<1>9. QED
  BY <1>3, <1>4, <1>5, <1>6, <1>7, <1>8

\* A refresh answers: the retry calls connect() in its place.
LEMMA RefreshedStep == ASSUME IInv, NEW c \in Clients, Refreshed(c) PROVE IInv'
<1> USE DEF IInv, page, net
<1>1. /\ refreshes[c] > 0 /\ refreshes' = [refreshes EXCEPT ![c] = @ - 1]
      /\ Connect(c, "retry") /\ UNCHANGED << page, state, ws, uid, timers, net >>
  BY DEF Refreshed
<1>2. PICK n \in Sockets :
        /\ n \notin Made /\ Made' = Made \cup {n}
        /\ calls' \in Seq(Call) /\ Len(calls') <= MaxCalls
        /\ \A k \in Made : calls'[k] = calls[k] /\ (Active(k)' <=> Active(k))
        /\ calls'[n].client = c /\ calls'[n].token = currentUser
        /\ ~Alive(n)' /\ sock[n] = "none"
        /\ intentionalClose' = [intentionalClose EXCEPT ![c] = FALSE]
  BY <1>1, ConnectStep
<1>3. /\ SocketsOfCalls' /\ OwnSocket' /\ Wire' /\ AuthFirstAndOnce'
      /\ RefusedCloses' /\ ConnectedIsServed' /\ \A d \in Clients : Trusted(d)' => Trusted(d)
  BY <1>1, ConnectStep
<1>4. /\ \A d \in Clients : timers[d] \in Nat /\ refreshes[d] \in Nat
      /\ refreshes' \in [Clients -> Nat] /\ refreshes'[c] = refreshes[c] - 1
      /\ \A d \in Clients \ {c} : refreshes'[d] = refreshes[d]
  BY <1>1 DEF TypeOK
<1>5. TypeOK' /\ PageInv'
  BY <1>1, <1>2, <1>4 DEF TypeOK, PageInv
<1>6. ~Unused(c)
  BY <1>1, <1>4 DEF UnusedIsNew
<1>7. UnusedIsNew'
  <2> SUFFICES ASSUME NEW d \in Clients, Unused(d)'
               PROVE  /\ lobby # d /\ ws[d] = None /\ uid[d] = None /\ ~intentionalClose'[d]
                      /\ timers[d] = 0 /\ refreshes'[d] = 0
    BY <1>1 DEF UnusedIsNew
  <2>1. d # c /\ Unused(d)
    BY <1>2 DEF Unused, Owner
  <2>2. QED
    BY <1>1, <1>2, <1>4, <2>1 DEF UnusedIsNew, TypeOK
<1>8. OneThread'
  <2> SUFFICES ASSUME NEW d \in Clients, Trusted(d)'
               PROVE  /\ timers[d] + refreshes'[d] \in {0, 1}
                      /\ \A k \in Made' : Owner(k)' = d /\ Active(k)' =>
                            /\ timers[d] + refreshes'[d] = 0
                            /\ Alive(k)' => ws[d] = k
                            /\ \A j \in Made' : Owner(j)' = d /\ Active(j)' => j = k
    BY <1>1 DEF OneThread
  <2>1. Trusted(d) /\ \A k \in Made : Owner(k)' = Owner(k) /\ (Alive(k)' <=> Alive(k))
    BY <1>1, <1>2, <1>3 DEF Owner, Alive
  <2>2. CASE d = c
    <3>1. timers[c] + refreshes[c] = 1 /\ timers[c] + refreshes'[c] = 0
      BY <1>1, <1>4, <2>1, <2>2 DEF OneThread
    <3>2. \A k \in Made : Owner(k) = c => ~Active(k)
      BY <2>1, <2>2, <3>1 DEF OneThread
    <3>3. \A k \in Made' : Owner(k)' = c /\ Active(k)' => k = n
      BY <1>2, <2>1, <3>2
    <3>4. QED
      BY <1>2, <2>2, <3>1, <3>3
  <2>3. CASE d # c
    <3>1. \A k \in Made' : Owner(k)' = d => k \in Made
      BY <1>2, <2>3 DEF Owner
    <3>2. QED
      BY <1>1, <1>2, <1>4, <2>1, <2>3, <3>1 DEF OneThread
  <2>4. QED
    BY <2>2, <2>3
<1>9. TokensOfShown'
  BY <1>1, <1>2, SessionAssumption DEF TokensOfShown, PageInv, Owner
<1>10. QED
  BY <1>3, <1>5, <1>7, <1>8, <1>9

\* A timer fires, or a refresh fails.
LEMMA TimerSteps ==
    ASSUME IInv, NEW c \in Clients, BackoffElapses(c) \/ RefreshFails(c)
    PROVE  IInv'
<1> USE DEF IInv, page, fields, net
<1>1. UNCHANGED << page, fields, calls, net >>
  BY DEF BackoffElapses, RefreshFails
<1>2. \A d \in Clients : timers[d] \in Nat /\ refreshes[d] \in Nat
  BY DEF TypeOK
<1>3. /\ timers' \in [Clients -> Nat] /\ refreshes' \in [Clients -> Nat]
      /\ timers[c] + refreshes[c] # 0
      /\ timers'[c] + refreshes'[c] <= timers[c] + refreshes[c]
      /\ \A d \in Clients \ {c} : timers'[d] = timers[d] /\ refreshes'[d] = refreshes[d]
  <2>0. timers \in [Clients -> Nat] /\ refreshes \in [Clients -> Nat]
    BY DEF TypeOK
  <2>1. CASE BackoffElapses(c)
    <3>1. /\ timers[c] > 0 /\ timers' = [timers EXCEPT ![c] = timers[c] - 1]
          /\ refreshes' = [refreshes EXCEPT ![c] = refreshes[c] + 1]
      BY <2>1 DEF BackoffElapses, Disarm
    <3>2. timers[c] - 1 \in Nat /\ refreshes[c] + 1 \in Nat
      BY <1>2, <3>1
    <3>3. QED
      BY <1>2, <2>0, <3>1, <3>2
  <2>2. CASE RefreshFails(c)
    <3>1. /\ refreshes[c] > 0 /\ timers' = timers
          /\ refreshes' = [refreshes EXCEPT ![c] = refreshes[c] - 1]
      BY <2>2 DEF RefreshFails
    <3>2. refreshes[c] - 1 \in Nat
      BY <1>2, <3>1
    <3>3. QED
      BY <1>2, <2>0, <3>1, <3>2
  <2>3. QED
    BY <2>1, <2>2
<1>4. TypeOK' /\ PageInv' /\ TokensOfShown'
  BY <1>1, <1>3 DEF TypeOK, PageInv, TokensOfShown, Made, Owner
<1>5. SocketsOfCalls' /\ OwnSocket' /\ Wire' /\ RefusedCloses' /\ AuthFirstAndOnce'
  BY <1>1 DEF SocketsOfCalls, OwnSocket, Wire, RefusedCloses, AuthFirstAndOnce, Made, Owner
<1>6. \A d \in Clients : (Trusted(d)' <=> Trusted(d)) /\ (Unused(d)' <=> Unused(d))
  BY <1>1 DEF Trusted, Unused, Made, Owner
<1>7. ConnectedIsServed'
  BY <1>1, <1>6 DEF ConnectedIsServed
<1>8. UnusedIsNew'
  BY <1>1, <1>2, <1>3, <1>6 DEF UnusedIsNew
<1>9. OneThread'
  <2> SUFFICES ASSUME NEW d \in Clients, Trusted(d)
               PROVE  /\ timers'[d] + refreshes'[d] \in {0, 1}
                      /\ \A k \in Made : Owner(k) = d /\ Active(k) =>
                            /\ timers'[d] + refreshes'[d] = 0
                            /\ Alive(k) => ws[d] = k
                            /\ \A j \in Made : Owner(j) = d /\ Active(j) => j = k
    BY <1>1, <1>6 DEF OneThread, Active, Alive, Waiting, Made, Owner
  <2>1. timers'[d] + refreshes'[d] \in Nat
        /\ timers'[d] + refreshes'[d] <= timers[d] + refreshes[d]
    BY <1>2, <1>3
  <2>2. QED
    BY <1>2, <2>1 DEF OneThread
<1>10. QED
  BY <1>4, <1>5, <1>7, <1>8, <1>9
-----------------------------------------------------------------------------
(* What happens to one call and its socket *)

\* The one thing a client does goes on or ends, or is followed by a timer.
LEMMA ThreadStep ==
    ASSUME IInv, NEW k \in Made, Active(k), NEW c \in Clients, Owner(k) = c,
           Made' = Made, \A j \in Made : calls'[j].client = calls[j].client,
           \A j \in Made \ {k} : Active(j)' => Active(j) /\ (Alive(j)' => Alive(j)),
           \A d \in Clients \ {c} :
              timers'[d] = timers[d] /\ refreshes'[d] = refreshes[d] /\ ws'[d] = ws[d],
           \A d \in Clients : Trusted(d)' => Trusted(d),
           refreshes'[c] = refreshes[c],
           \/ ~Trusted(c)'
           \/ /\ Active(k)' /\ (Trusted(c) /\ Alive(k)' => ws'[c] = k)
              /\ timers'[c] = timers[c]
           \/ ~Active(k)' /\ timers'[c] \in {timers[c], timers[c] + 1}
    PROVE  OneThread'
<1> USE DEF IInv
<1>1. \A j \in Made : Owner(j)' = Owner(j)
  BY DEF Owner
<1>2. \A d \in Clients : timers[d] \in Nat /\ refreshes[d] \in Nat
  BY DEF TypeOK
<1> SUFFICES ASSUME NEW d \in Clients, Trusted(d)'
             PROVE  /\ timers'[d] + refreshes'[d] \in {0, 1}
                    /\ \A i \in Made : Owner(i) = d /\ Active(i)' =>
                          /\ timers'[d] + refreshes'[d] = 0
                          /\ Alive(i)' => ws'[d] = i
                          /\ \A j \in Made : Owner(j) = d /\ Active(j)' => j = i
  BY <1>1 DEF OneThread
<1>3. CASE d # c
  <2>1. \A i \in Made : Owner(i) = d /\ Active(i)' => Active(i) /\ (Alive(i)' => Alive(i))
    BY <1>3
  <2>2. QED
    BY <1>3, <2>1 DEF OneThread
<1>4. CASE d = c
  <2>1. timers[d] + refreshes[d] = 0 /\ \A j \in Made : Owner(j) = d /\ Active(j) => j = k
    BY <1>4 DEF OneThread
  <2>2. \A j \in Made : Owner(j) = d /\ Active(j)' => j = k
    BY <2>1
  <2>3. CASE Active(k)'
    BY <1>2, <1>4, <2>1, <2>2, <2>3
  <2>4. CASE ~Active(k)'
    BY <1>2, <1>4, <2>1, <2>2, <2>4
  <2>5. QED
    BY <2>3, <2>4
<1>5. QED
  BY <1>3, <1>4

\* A retry that fails arms a timer; the Lobby's first call does not.
LEMMA CaughtTimers ==
    ASSUME TypeOK, NEW k \in Made, Caught(k)
    PROVE  /\ timers' \in [Clients -> Nat]
           /\ timers'[Owner(k)] \in {timers[Owner(k)], timers[Owner(k)] + 1}
           /\ \A d \in Clients \ {Owner(k)} : timers'[d] = timers[d]
<1>1. timers \in [Clients -> Nat] /\ Owner(k) \in Clients
  BY OwnerIsClient DEF TypeOK
<1>2. timers[Owner(k)] + 1 \in Nat
  BY <1>1
<1>3. timers' = timers \/ timers' = [timers EXCEPT ![Owner(k)] = timers[Owner(k)] + 1]
  BY DEF Caught, ScheduleReconnect
<1>4. QED
  BY <1>1, <1>2, <1>3

\* A call gets its token: the socket of the client is now its own.
LEMMA GetsTokenStep == ASSUME IInv, NEW k \in Sockets, GetsToken(k) PROVE IInv'
<1> USE DEF IInv, page, retry
<1>1. /\ k \in Made /\ calls[k].promise = "pending" /\ sock[k] = "none" /\ calls[k].token # None
      /\ Owner(k) \in Clients
      /\ state' = [state EXCEPT ![Owner(k)] = "connecting"]
      /\ ws' = [ws EXCEPT ![Owner(k)] = k]
      /\ sock' = [sock EXCEPT ![k] = "connecting"]
      /\ UNCHANGED << page, uid, intentionalClose, retry, calls, srv, up, down >>
  BY OwnerIsClient DEF GetsToken, Waiting
<1>2. \A j \in Sockets : j # k => sock'[j] = sock[j]
  BY <1>1 DEF TypeOK
<1>3. sock'[k] = "connecting" /\ ws'[Owner(k)] = k /\ state'[Owner(k)] = "connecting"
      /\ \A d \in Clients \ {Owner(k)} : ws'[d] = ws[d] /\ state'[d] = state[d]
  BY <1>1 DEF TypeOK
<1>4. Made \subseteq Sockets
  BY OwnerIsClient
<1>5. \A d \in Clients : Trusted(d)' => Trusted(d)
  BY <1>1, <1>2, <1>3, <1>4, TrustKept DEF Made
<1>6. TypeOK' /\ PageInv'
  BY <1>1 DEF TypeOK, PageInv
<1>7. UnusedIsNew' /\ SocketsOfCalls' /\ OwnSocket'
  BY <1>1, <1>2, <1>3 DEF UnusedIsNew, Unused, SocketsOfCalls, OwnSocket, Made, Owner
<1>8. Wire' /\ AuthFirstAndOnce' /\ RefusedCloses'
  BY <1>1, <1>2, <1>3, <1>4 DEF Wire, AuthFirstAndOnce, RefusedCloses, Made
<1>9. OneThread'
  <2>1. Active(k) /\ Active(k)' /\ Alive(k)'
    BY <1>1, <1>3 DEF Active, Alive, Waiting
  <2>2. \A j \in Made \ {k} : Active(j)' => Active(j) /\ (Alive(j)' => Alive(j))
    BY <1>1, <1>2, <1>4 DEF Active, Alive, Waiting, Made
  <2>3. QED
    BY <1>1, <1>3, <1>5, <2>1, <2>2, ThreadStep DEF Made
<1>10. ConnectedIsServed'
  BY <1>1, <1>3, <1>5 DEF ConnectedIsServed
<1>11. TokensOfShown'
  BY <1>1, <1>3 DEF TokensOfShown, Made, Owner
<1>12. QED
  BY <1>6, <1>7, <1>8, <1>9, <1>10, <1>11

\* A call that gets no token is over; a retry is followed by a timer.
LEMMA NoTokenStep == ASSUME IInv, NEW k \in Sockets, NoToken(k) PROVE IInv'
<1> USE DEF IInv, page, fields, net
<1>1. /\ k \in Made /\ calls[k].promise = "pending" /\ sock[k] = "none"
      /\ Owner(k) \in Clients /\ Settle(k, "rejected")
      /\ UNCHANGED << page, fields, refreshes, net >>
  BY OwnerIsClient DEF NoToken, Waiting
<1>2. /\ timers' \in [Clients -> Nat]
      /\ timers'[Owner(k)] \in {timers[Owner(k)], timers[Owner(k)] + 1}
      /\ \A d \in Clients \ {Owner(k)} : timers'[d] = timers[d]
  BY <1>1, CaughtTimers DEF NoToken
<1>3. /\ Made' = Made /\ calls' \in Seq(Call) /\ Len(calls') <= MaxCalls
      /\ \A j \in Made : /\ calls'[j].client = calls[j].client
                         /\ calls'[j].token = calls[j].token
                         /\ calls'[j].promise = IF j = k THEN "rejected" ELSE calls[j].promise
  BY <1>1, SettleChanges
<1>4. \A d \in Clients : Trusted(d)' => Trusted(d)
  BY <1>1, <1>3, TrustKept
<1>5. TypeOK' /\ PageInv'
  BY <1>1, <1>2, <1>3 DEF TypeOK, PageInv
<1>6. \A d \in Clients : Unused(d)' => Unused(d) /\ d # Owner(k)
  BY <1>1, <1>3 DEF Unused, Owner
<1>7. UnusedIsNew'
  BY <1>1, <1>2, <1>6 DEF UnusedIsNew
<1>8. SocketsOfCalls' /\ OwnSocket' /\ Wire' /\ AuthFirstAndOnce' /\ RefusedCloses'
  BY <1>1, <1>3 DEF SocketsOfCalls, OwnSocket, Wire, AuthFirstAndOnce, RefusedCloses, Owner
<1>9. OneThread'
  <2>1. Active(k) /\ ~Active(k)'
    BY <1>1, <1>3 DEF Active, Alive, Waiting
  <2>2. \A j \in Made \ {k} : Active(j)' => Active(j) /\ (Alive(j)' => Alive(j))
    BY <1>1, <1>3 DEF Active, Alive, Waiting
  <2>3. QED
    BY <1>1, <1>2, <1>3, <1>4, <2>1, <2>2, ThreadStep
<1>10. ConnectedIsServed'
  <2> SUFFICES ASSUME NEW d \in Clients, state[d] = "connected", Trusted(d)'
               PROVE  ws[d] # None /\ calls'[ws[d]].promise = "resolved"
                      /\ srv[ws[d]] \in {"served", "ended"}
    BY <1>1 DEF ConnectedIsServed
  <2>1. ws[d] # None /\ calls[ws[d]].promise = "resolved" /\ srv[ws[d]] \in {"served", "ended"}
    BY <1>4 DEF ConnectedIsServed
  <2>2. ws[d] \in Made /\ ws[d] # k
    BY <1>1, <2>1 DEF OwnSocket
  <2>3. QED
    BY <1>3, <2>1, <2>2
<1>11. TokensOfShown'
  BY <1>1, <1>3 DEF TokensOfShown, Owner
<1>12. QED
  BY <1>5, <1>7, <1>8, <1>9, <1>10, <1>11

\* A socket opens, and the first frame on it is AUTH_REQUEST.
LEMMA OnOpenStep == ASSUME IInv, NEW k \in Sockets, OnOpen(k) PROVE IInv'
<1> USE DEF IInv, page, retry
<1>1. /\ sock[k] = "connecting" /\ srv[k] # "none" /\ up[k] = << >> /\ srv[k] # "served"
      /\ k \in Made /\ Owner(k) \in Clients
      /\ sock' = [sock EXCEPT ![k] = "open"]
      /\ state' = [state EXCEPT ![Owner(k)] = "authenticating"]
      /\ up' = [up EXCEPT ![k] = Append(@, "AUTH_REQUEST")]
      /\ UNCHANGED << page, ws, uid, intentionalClose, retry, calls, srv, down >>
  BY OwnerIsClient DEF OnOpen, SocketsOfCalls, Wire
<1>2. /\ up'[k] = << "AUTH_REQUEST" >> /\ up' \in [Sockets -> Seq({"AUTH_REQUEST", "PING"})]
      /\ \A j \in Sockets : j # k => sock'[j] = sock[j] /\ up'[j] = up[j]
  BY <1>1 DEF TypeOK
<1>3. sock'[k] = "open" /\ state'[Owner(k)] = "authenticating"
      /\ \A d \in Clients \ {Owner(k)} : state'[d] = state[d]
  BY <1>1 DEF TypeOK
<1>4. Made \subseteq Sockets
  BY OwnerIsClient
<1>5. \A d \in Clients : Trusted(d)' => Trusted(d)
  BY <1>1, <1>2, <1>3, <1>4, TrustKept DEF Made
<1>6. TypeOK' /\ PageInv'
  BY <1>1, <1>2 DEF TypeOK, PageInv
<1>7. UnusedIsNew' /\ SocketsOfCalls' /\ OwnSocket'
  BY <1>1, <1>2, <1>3 DEF UnusedIsNew, Unused, SocketsOfCalls, OwnSocket, Made, Owner
<1>8. Wire'
  <2>1. << "AUTH_REQUEST" >> # << >>
    OBVIOUS
  <2>2. QED
    BY <1>1, <1>2, <1>3, <2>1 DEF Wire
<1>9. AuthFirstAndOnce' /\ RefusedCloses'
  BY <1>1, <1>2, <1>3, <1>4 DEF AuthFirstAndOnce, RefusedCloses, Made
<1>10. OneThread'
  <2>1. Active(k) /\ Alive(k) /\ Active(k)'
    BY <1>1, <1>3 DEF Active, Alive, Waiting
  <2>2. \A j \in Made \ {k} : Active(j)' => Active(j) /\ (Alive(j)' => Alive(j))
    BY <1>1, <1>2, <1>4 DEF Active, Alive, Waiting, Made
  <2>3. Trusted(Owner(k)) => ws[Owner(k)] = k
    BY <1>1, <2>1 DEF OneThread
  <2>4. QED
    BY <1>1, <1>3, <1>5, <2>1, <2>2, <2>3, ThreadStep DEF Made
<1>11. ConnectedIsServed'
  BY <1>1, <1>3, <1>5 DEF ConnectedIsServed
<1>12. TokensOfShown'
  BY <1>1, <1>3 DEF TokensOfShown, Made, Owner
<1>13. QED
  BY <1>6, <1>7, <1>8, <1>9, <1>10, <1>11, <1>12

\* A frame arrives: the socket is connected, refused, or as it was.
LEMMA OnMessageStep == ASSUME IInv, NEW k \in Sockets, OnMessage(k) PROVE IInv'
<1> USE DEF IInv, page, retry
<1>1. PICK c \in Clients : c = Owner(k)
  BY OwnerIsClient DEF OnMessage, SocketsOfCalls
<1>2. /\ k \in Made /\ sock[k] = "open" /\ down[k] # << >> /\ srv[k] \in {"served", "ended"}
      /\ calls[k].promise # "rejected" /\ calls[k].token \in Users
      /\ down' = [down EXCEPT ![k] = Tail(@)]
      /\ UNCHANGED << page, ws, intentionalClose, refreshes, srv, up >>
  BY OwnerIsClient DEF OnMessage, SocketsOfCalls, Wire, RefusedCloses
<1>3. down' \in [Sockets -> Seq({"OK", "INVALID_TOKEN", "PONG"})]
  <2>1. down[k] \in Seq({"OK", "INVALID_TOKEN", "PONG"})
    BY DEF TypeOK
  <2>2. Tail(down[k]) \in Seq({"OK", "INVALID_TOKEN", "PONG"})
    BY <1>2, <2>1
  <2>3. QED
    BY <1>2, <2>2 DEF TypeOK
<1>4. \A j \in Sockets : down'[j] # << >> => srv'[j] \in {"served", "ended"}
  BY <1>2 DEF Wire, TypeOK
<1>5. Made \subseteq Sockets /\ Active(k) /\ Alive(k)
  BY <1>2, OwnerIsClient DEF Active, Alive
<1>6. CASE UNCHANGED << uid, state, calls, sock, timers >>
  <2>1. TypeOK' /\ Wire' /\ AuthFirstAndOnce'
    BY <1>2, <1>3, <1>4, <1>6 DEF TypeOK, Wire, AuthFirstAndOnce, Made
  <2>2. QED
    BY <1>2, <1>6, <2>1, NetStep DEF fields
<1>7. CASE /\ uid' = [uid EXCEPT ![c] = calls[k].token] /\ state' = [state EXCEPT ![c] = "connected"]
           /\ Settle(k, "resolved") /\ UNCHANGED << sock, timers >>
  <2>1. /\ Made' = Made /\ calls' \in Seq(Call) /\ Len(calls') <= MaxCalls
        /\ \A j \in Made : /\ calls'[j].client = calls[j].client
                           /\ calls'[j].token = calls[j].token
                           /\ calls'[j].promise = IF j = k THEN "resolved" ELSE calls[j].promise
    BY <1>2, <1>7, SettleChanges
  <2>2. \A d \in Clients : Trusted(d)' => Trusted(d)
    BY <1>2, <1>7, <2>1, TrustKept
  <2>3. /\ uid'[c] = calls[k].token /\ state'[c] = "connected"
        /\ \A d \in Clients \ {c} : uid'[d] = uid[d] /\ state'[d] = state[d]
    BY <1>7 DEF TypeOK
  <2>4. TypeOK' /\ PageInv'
    BY <1>2, <1>3, <1>7, <2>1 DEF TypeOK, PageInv
  <2>5. UnusedIsNew'
    <3>1. \A d \in Clients : Unused(d)' => Unused(d) /\ d # c
      BY <1>1, <1>2, <2>1 DEF Unused, Owner
    <3>2. QED
      BY <1>2, <1>7, <2>3, <3>1 DEF UnusedIsNew
  <2>6. SocketsOfCalls' /\ OwnSocket' /\ AuthFirstAndOnce' /\ RefusedCloses'
    BY <1>2, <1>7, <2>1 DEF SocketsOfCalls, OwnSocket, AuthFirstAndOnce, RefusedCloses, Owner
  <2>7. Wire'
    BY <1>2, <1>4, <1>7 DEF Wire
  <2>8. Trusted(c) => ws[c] = k
    BY <1>1, <1>2, <1>5 DEF OneThread
  <2>9. OneThread'
    <3>1. \A j \in Made \ {k} : Active(j)' => Active(j) /\ (Alive(j)' => Alive(j))
      BY <1>7, <2>1 DEF Active, Alive, Waiting
    <3>2. Active(k)' /\ Alive(k)'
      BY <1>2, <1>7 DEF Active, Alive
    <3>3. QED
      BY <1>1, <1>2, <1>5, <1>7, <2>1, <2>2, <2>8, <3>1, <3>2, ThreadStep
  <2>10. ConnectedIsServed'
    <3> SUFFICES ASSUME NEW d \in Clients, state'[d] = "connected", Trusted(d)'
                 PROVE  ws[d] # None /\ calls'[ws[d]].promise = "resolved"
                        /\ srv[ws[d]] \in {"served", "ended"}
      BY <1>2 DEF ConnectedIsServed
    <3>0. Trusted(d)
      BY <2>2
    <3>1. CASE d = c
      <4>1. ws[d] = k /\ k # None
        BY <2>8, <3>0, <3>1, SessionAssumption DEF Sockets
      <4>2. QED
        BY <1>2, <2>1, <4>1
    <3>2. CASE d # c
      <4>1. ws[d] # None /\ calls[ws[d]].promise = "resolved" /\ srv[ws[d]] \in {"served", "ended"}
        BY <2>3, <3>0, <3>2 DEF ConnectedIsServed
      <4>2. ws[d] \in Made /\ ws[d] # k
        BY <1>1, <3>2, <4>1 DEF OwnSocket
      <4>3. QED
        BY <2>1, <4>1, <4>2
    <3>3. QED
      BY <3>1, <3>2
  <2>11. TokensOfShown'
    BY <1>1, <1>2, <2>1, <2>3, SessionAssumption DEF TokensOfShown, Owner
  <2>12. QED
    BY <2>4, <2>5, <2>6, <2>7, <2>9, <2>10, <2>11
<1>8. CASE /\ state' = [state EXCEPT ![c] = "closed"] /\ Close(k) /\ Settle(k, "rejected")
           /\ Caught(k) /\ UNCHANGED uid
  <2>1. /\ Made' = Made /\ calls' \in Seq(Call) /\ Len(calls') <= MaxCalls
        /\ \A j \in Made : /\ calls'[j].client = calls[j].client
                           /\ calls'[j].token = calls[j].token
                           /\ calls'[j].promise = IF j = k THEN "rejected" ELSE calls[j].promise
    BY <1>2, <1>8, SettleChanges
  <2>2. /\ sock' = [sock EXCEPT ![k] = "closing"] /\ sock'[k] = "closing"
        /\ \A j \in Sockets : j # k => sock'[j] = sock[j]
    BY <1>2, <1>8 DEF Close, TypeOK
  <2>3. /\ timers' \in [Clients -> Nat]
        /\ \A d \in Clients \ {c} : timers'[d] = timers[d]
    BY <1>1, <1>2, <1>8, CaughtTimers
  <2>4. state'[c] = "closed" /\ \A d \in Clients \ {c} : state'[d] = state[d]
    BY <1>8 DEF TypeOK
  <2>5. (\A d \in Clients : Trusted(d)' => Trusted(d)) /\ ~Trusted(c)'
    <3>1. \A j \in Made : sock[j] # "none" => sock'[j] # "none"
      BY <1>5, <2>2
    <3>2. ~Trusted(c)'
      BY <1>1, <1>2, <2>1, <2>2 DEF Trusted, Owner
    <3>3. QED
      BY <1>2, <2>1, <3>1, <3>2, TrustKept
  <2>6. TypeOK' /\ PageInv'
    BY <1>2, <1>3, <1>8, <2>1, <2>2, <2>3 DEF TypeOK, PageInv
  <2>7. UnusedIsNew'
    <3>1. \A d \in Clients : Unused(d)' => Unused(d) /\ d # c
      BY <1>1, <1>2, <2>1 DEF Unused, Owner
    <3>2. QED
      BY <1>2, <1>8, <2>3, <3>1 DEF UnusedIsNew
  <2>8. SocketsOfCalls' /\ OwnSocket' /\ AuthFirstAndOnce' /\ RefusedCloses'
    BY <1>2, <1>5, <2>1, <2>2 DEF SocketsOfCalls, OwnSocket, AuthFirstAndOnce, RefusedCloses, Owner
  <2>9. Wire'
    BY <1>2, <1>4, <2>2 DEF Wire
  <2>10. OneThread'
    <3>1. \A j \in Made \ {k} : Active(j)' => Active(j) /\ (Alive(j)' => Alive(j))
      BY <1>5, <2>1, <2>2 DEF Active, Alive, Waiting
    <3>2. QED
      BY <1>1, <1>2, <1>5, <2>1, <2>3, <2>5, <3>1, ThreadStep
  <2>11. ConnectedIsServed'
    <3> SUFFICES ASSUME NEW d \in Clients, state'[d] = "connected", Trusted(d)'
                 PROVE  ws[d] # None /\ calls'[ws[d]].promise = "resolved"
                        /\ srv[ws[d]] \in {"served", "ended"}
      BY <1>2 DEF ConnectedIsServed
    <3>1. d # c /\ ws[d] # None /\ calls[ws[d]].promise = "resolved"
          /\ srv[ws[d]] \in {"served", "ended"}
      BY <2>4, <2>5 DEF ConnectedIsServed
    <3>2. ws[d] \in Made /\ ws[d] # k
      BY <1>1, <3>1 DEF OwnSocket
    <3>3. QED
      BY <2>1, <3>1, <3>2
  <2>12. TokensOfShown'
    BY <1>2, <1>8, <2>1, <2>4 DEF TokensOfShown, Owner
  <2>13. QED
    BY <2>6, <2>7, <2>8, <2>9, <2>10, <2>11, <2>12
<1>9. QED
  BY <1>1, <1>6, <1>7, <1>8 DEF OnMessage

\* A socket is closed: the client has none, and perhaps a timer.
LEMMA OnCloseStep == ASSUME IInv, NEW k \in Sockets, OnClose(k) PROVE IInv'
<1> USE DEF IInv, page
<1>1. PICK c \in Clients : c = Owner(k)
  BY OwnerIsClient DEF OnClose, Over, SocketsOfCalls
<1>2. /\ k \in Made /\ Alive(k) /\ Active(k) /\ sock[k] # "none"
      /\ sock' = [sock EXCEPT ![k] = "closed"] /\ down' = [down EXCEPT ![k] = << >>]
      /\ state' = [state EXCEPT ![c] = "closed"] /\ ws' = [ws EXCEPT ![c] = None]
      /\ UNCHANGED << page, uid, intentionalClose, refreshes, srv, up >>
  BY <1>1 DEF OnClose, Over, SocketsOfCalls, Alive, Active
<1>3. /\ sock'[k] = "closed" /\ down'[k] = << >>
      /\ \A j \in Sockets : j # k => sock'[j] = sock[j] /\ down'[j] = down[j]
      /\ state'[c] = "closed" /\ ws'[c] = None
      /\ \A d \in Clients \ {c} : state'[d] = state[d] /\ ws'[d] = ws[d]
  BY <1>2 DEF TypeOK
<1>4. calls' = calls /\ Made \subseteq Sockets
  BY <1>1, <1>3, OwnerIsClient DEF OnClose
<1>5. /\ timers' \in [Clients -> Nat] /\ timers'[c] \in {timers[c], timers[c] + 1}
      /\ \A d \in Clients \ {c} : timers'[d] = timers[d]
  <2>1. timers' = timers \/ timers' = [timers EXCEPT ![c] = timers[c] + 1]
    BY <1>1 DEF OnClose, ScheduleReconnect
  <2>2. timers \in [Clients -> Nat] /\ timers[c] + 1 \in Nat
    BY DEF TypeOK
  <2>3. QED
    BY <2>1, <2>2
<1>6. \A d \in Clients : Trusted(d)' => Trusted(d)
  BY <1>2, <1>3, <1>4, TrustKept DEF Made
<1>7. TypeOK' /\ PageInv'
  <2>1. << >> \in Seq({"OK", "INVALID_TOKEN", "PONG"})
    OBVIOUS
  <2>2. QED
    BY <1>2, <1>4, <1>5, <2>1 DEF TypeOK, PageInv
<1>8. UnusedIsNew'
  <2>1. \A d \in Clients : Unused(d)' => Unused(d) /\ d # c
    BY <1>1, <1>2, <1>4 DEF Unused, Owner, Made
  <2>2. QED
    BY <1>2, <1>3, <1>5, <2>1 DEF UnusedIsNew
<1>9. SocketsOfCalls' /\ OwnSocket' /\ RefusedCloses' /\ AuthFirstAndOnce'
  BY <1>2, <1>3, <1>4 DEF SocketsOfCalls, OwnSocket, RefusedCloses, AuthFirstAndOnce, Made, Owner
<1>10. Wire'
  BY <1>2, <1>3 DEF Wire
<1>11. OneThread'
  <2>1. ~Active(k)'
    BY <1>3 DEF Active, Alive, Waiting
  <2>2. \A j \in Made \ {k} : Active(j)' => Active(j) /\ (Alive(j)' => Alive(j))
    BY <1>3, <1>4 DEF Active, Alive, Waiting, Made
  <2>3. QED
    BY <1>1, <1>2, <1>3, <1>4, <1>5, <1>6, <2>1, <2>2, ThreadStep DEF Made
<1>12. ConnectedIsServed'
  BY <1>2, <1>3, <1>4, <1>6 DEF ConnectedIsServed
<1>13. TokensOfShown'
  BY <1>2, <1>3, <1>4 DEF TokensOfShown, Made, Owner
<1>14. QED
  BY <1>7, <1>8, <1>9, <1>10, <1>11, <1>12, <1>13

\* The Lobby goes: what it had is closing or keeps waiting.
LEMMA LobbyGoesStep == ASSUME IInv, LobbyGoes PROVE IInv'
<1> USE DEF IInv
<1>1. /\ lobby \in Clients /\ shown' = None /\ lobby' = None /\ currentUser = None
      /\ intentionalClose' = [intentionalClose EXCEPT ![lobby] = TRUE]
      /\ UNCHANGED << currentUser, state, ws, uid, retry, calls, srv, up, down >>
  BY DEF LobbyGoes, PageInv, TypeOK
<1>2. /\ sock' \in [Sockets -> {"none", "connecting", "open", "closing", "closed"}]
      /\ \A k \in Sockets : \/ sock'[k] = sock[k]
                            \/ sock[k] \in {"connecting", "open"} /\ sock'[k] = "closing"
  <2>1. ws[lobby] # None => ws[lobby] \in Sockets
    BY <1>1 DEF TypeOK
  <2>2. QED
    BY <2>1 DEF LobbyGoes, Close, TypeOK
<1>3. Made' = Made /\ Made \subseteq Sockets /\ None \notin Clients
  BY <1>1, OwnerIsClient, SessionAssumption DEF Made
<1>4. \A d \in Clients : Trusted(d)' => Trusted(d)
  BY <1>1, <1>2, <1>3, TrustKept
<1>5. TypeOK' /\ PageInv'
  BY <1>1, <1>2 DEF TypeOK, PageInv, retry
<1>6. UnusedIsNew'
  <2>1. \A d \in Clients : Unused(d)' => Unused(d) /\ d # lobby
    BY <1>1, <1>3 DEF Unused, UnusedIsNew, Owner
  <2>2. QED
    BY <1>1, <1>3, <2>1 DEF UnusedIsNew, retry, TypeOK
<1>7. SocketsOfCalls' /\ OwnSocket' /\ Wire'
  BY <1>1, <1>2, <1>3 DEF SocketsOfCalls, OwnSocket, Wire, Owner
<1>8. AuthFirstAndOnce' /\ RefusedCloses'
  BY <1>1, <1>2, <1>3 DEF AuthFirstAndOnce, RefusedCloses
<1>9. OneThread'
  <2>1. \A k \in Made : (Active(k)' <=> Active(k)) /\ (Alive(k)' <=> Alive(k)) /\ Owner(k)' = Owner(k)
    BY <1>1, <1>2, <1>3 DEF Active, Alive, Waiting, Owner
  <2>2. QED
    BY <1>1, <1>3, <1>4, <2>1 DEF OneThread, retry
<1>10. ConnectedIsServed'
  BY <1>1, <1>4 DEF ConnectedIsServed
<1>11. TokensOfShown'
  BY <1>1, <1>3 DEF TokensOfShown
<1>12. QED
  BY <1>5, <1>6, <1>7, <1>8, <1>9, <1>10, <1>11
-----------------------------------------------------------------------------
(* The theorems *)

\* Every step keeps the invariant.
LEMMA StepInv == IInv /\ [Next]_vars => IInv'
<1> SUFFICES ASSUME IInv, [Next]_vars PROVE IInv'
  OBVIOUS
<1>1. CASE UNCHANGED vars
  <2>1. /\ UNCHANGED << page, fields, retry, calls, sock >>
        /\ UNCHANGED << page, fields, retry, calls, net >>
    BY <1>1 DEF vars, net
  <2>2. TypeOK' /\ Wire' /\ AuthFirstAndOnce'
    BY <2>1 DEF IInv, page, fields, retry, net, TypeOK, Wire, AuthFirstAndOnce, Made
  <2>3. QED
    BY <2>1, <2>2, NetStep DEF net
<1>2. ASSUME NEW c \in Clients, Send(c) PROVE IInv'
  <2>1. ws[c] \in Sockets
    BY <1>2 DEF Send, IInv, TypeOK
  <2>2. QED
    BY <1>2, <2>1, NetActions
<1>3. QED
  BY <1>1, <1>2, NetActions, SignInOut, MountStep, RefreshedStep, TimerSteps, GetsTokenStep,
     NoTokenStep, OnOpenStep, OnMessageStep, OnCloseStep, LobbyGoesStep DEF Next

\* What the page, its clients, their sockets and the server know of each other, in
\* every reachable state.
THEOREM Invariance == Spec => []IInv
  BY InitInv, StepInv, PTL DEF Spec

\* The session of page and server is always well-typed (ws.js, handshake.go).
THEOREM SessionTypeCorrect == Spec => []TypeOK
<1>1. IInv => TypeOK
  BY DEF IInv
<1>2. QED
  BY <1>1, Invariance, PTL

\* For any faults: AUTH_REQUEST is the first frame the server reads of a socket,
\* and comes once (ws.js onopen and send(), handshake.go).
THEOREM AuthFirst == Spec => []AuthFirstAndOnce
<1>1. IInv => AuthFirstAndOnce
  BY DEF IInv
<1>2. QED
  BY <1>1, Invariance, PTL

\* For any number of calls and faults: a client none of whose tokens was refused
\* keeps at most one socket alive (ws.js connect(), onclose, scheduleReconnect()).
THEOREM SingleSocket == Spec => []OneSocket
<1>1. ASSUME IInv PROVE OneSocket
  BY <1>1, OwnerIsClient DEF IInv, OneThread, OneSocket, Active, Alive
<1>2. QED
  BY <1>1, Invariance, PTL

\* "Connected" speaks of a socket the server served (ws.js onmessage, onclose).
THEOREM ConnectedServed == Spec => []ConnectedIsServed
<1>1. IInv => ConnectedIsServed
  BY DEF IInv
<1>2. QED
  BY <1>1, Invariance, PTL

\* A mounted Lobby is connected as the user shown, whoever signed in before
\* (Lobby.svelte, ws.js, auth.svelte.js).
THEOREM ConnectedUser == Spec => []ConnectedAsShown
<1>1. IInv => ConnectedAsShown
  BY DEF IInv, TokensOfShown, ConnectedAsShown
<1>2. QED
  BY <1>1, Invariance, PTL
-----------------------------------------------------------------------------
(* Closed clients *)

\* A step keeps a client closed that is not called upon, arms no timer for it and
\* opens no socket of it.
LEMMA ClosedKept ==
    ASSUME TypeOK, NEW c \in Clients, Closed(c), lobby' # c, intentionalClose'[c],
           timers'[c] = 0, refreshes'[c] = 0,
           \A k \in Made' : Owner(k)' = c =>
              /\ k \in Made /\ Owner(k) = c
              /\ calls'[k].promise = "pending" => calls[k].promise = "pending"
              /\ \/ sock'[k] = sock[k]
                 \/ sock[k] # "none" /\ sock'[k] \in {"closing", "closed"}
    PROVE  Closed(c)'
<1>1. \A k \in Made' : Owner(k)' = c => ~Waiting(k)'
  BY DEF Closed, Idle, Waiting
<1>2. \A k \in Made' : Owner(k)' = c => sock'[k] \in {"none", "closing", "closed"}
  BY DEF Closed
<1>3. QED
  BY <1>1, <1>2 DEF Closed, Idle

\* No step opens or retries anything for a closed client.
LEMMA ClosedStep == ASSUME IInv, Next, NEW c \in Clients, Closed(c) PROVE Closed(c)'
<1> USE DEF IInv, page, fields, retry, net
<1>0. /\ lobby # c /\ intentionalClose[c] /\ timers[c] = 0 /\ refreshes[c] = 0 /\ ~Unused(c)
      /\ \A k \in Made : Owner(k) = c => ~Waiting(k) /\ sock[k] \in {"none", "closing", "closed"}
  BY DEF Closed, Idle, UnusedIsNew
<1>1. CASE SignOut \/ \E u \in Users : SignIn(u)
  BY <1>0, <1>1, ClosedKept DEF SignOut, SignIn, Made, Owner
<1>2. CASE LobbyGoes
  <2>1. /\ lobby \in Clients /\ lobby' = None /\ c # None
        /\ intentionalClose' = [intentionalClose EXCEPT ![lobby] = TRUE]
        /\ UNCHANGED << retry, calls >>
    BY <1>2, SessionAssumption DEF LobbyGoes, PageInv, TypeOK
  <2>2. \A k \in Sockets : sock'[k] = sock[k] \/ (sock[k] # "none" /\ sock'[k] \in {"closing", "closed"})
    <3>1. ws[lobby] # None => ws[lobby] \in Sockets
      BY <2>1 DEF TypeOK
    <3>2. QED
      BY <1>2, <3>1 DEF LobbyGoes, Close, TypeOK
  <2>3. intentionalClose'[c]
    BY <1>0, <2>1 DEF TypeOK
  <2>4. Made \subseteq Sockets
    BY OwnerIsClient
  <2>5. QED
    BY <1>0, <2>1, <2>2, <2>3, <2>4, ClosedKept DEF Made, Owner
<1>3. ASSUME NEW d \in Clients, LobbyMounts(d) \/ Refreshed(d) PROVE Closed(c)'
  <2>1. d # c
    BY <1>0, <1>3 DEF LobbyMounts, Refreshed
  <2>2. PICK by \in {"mount", "retry"} : Connect(d, by)
    BY <1>3 DEF LobbyMounts, Refreshed
  <2>3. PICK n \in Sockets :
          /\ n \notin Made /\ Made' = Made \cup {n}
          /\ \A k \in Made : calls'[k] = calls[k]
          /\ calls'[n] = [client |-> d, by |-> by, token |-> currentUser,
                          promise |-> "pending"]
          /\ intentionalClose' = [intentionalClose EXCEPT ![d] = FALSE]
    BY <2>2, ConnectAdds
  <2>4. /\ intentionalClose'[c] /\ refreshes'[c] = 0 /\ lobby' # c
        /\ UNCHANGED << timers, sock >>
    BY <1>0, <1>3, <2>1, <2>3 DEF LobbyMounts, Refreshed, TypeOK
  <2>5. QED
    BY <1>0, <2>1, <2>3, <2>4, ClosedKept DEF Owner
<1>4. ASSUME NEW d \in Clients, Send(d) PROVE Closed(c)'
  BY <1>0, <1>4, ClosedKept DEF Send, Made, Owner
<1>5. ASSUME NEW d \in Clients, BackoffElapses(d) \/ RefreshFails(d) PROVE Closed(c)'
  <2>1. d # c
    BY <1>0, <1>5 DEF BackoffElapses, RefreshFails
  <2>2. timers'[c] = 0 /\ refreshes'[c] = 0 /\ UNCHANGED << page, fields, calls, net >>
    BY <1>0, <1>5, <2>1 DEF BackoffElapses, RefreshFails, Disarm, TypeOK
  <2>3. QED
    BY <1>0, <2>2, ClosedKept DEF Made, Owner
<1>6. ASSUME NEW k \in Sockets, GetsToken(k) \/ OnOpen(k) PROVE Closed(c)'
  <2>1. k \in Made /\ Owner(k) # c /\ UNCHANGED << page, intentionalClose, retry, calls >>
        /\ \A j \in Sockets : j # k => sock'[j] = sock[j]
    BY <1>0, <1>6 DEF GetsToken, OnOpen, Waiting, SocketsOfCalls, TypeOK
  <2>2. Made \subseteq Sockets
    BY OwnerIsClient
  <2>3. QED
    BY <1>0, <2>1, <2>2, ClosedKept DEF Made, Owner
<1>7. ASSUME NEW k \in Sockets, NoToken(k) PROVE Closed(c)'
  <2>1. k \in Made /\ Owner(k) # c /\ Settle(k, "rejected") /\ Caught(k)
        /\ UNCHANGED << page, fields, refreshes, net >>
    BY <1>0, <1>7 DEF NoToken, Waiting
  <2>2. timers'[c] = 0
    BY <1>0, <2>1, CaughtTimers
  <2>3. /\ Made' = Made
        /\ \A j \in Made : /\ calls'[j].client = calls[j].client
                           /\ calls'[j].promise = IF j = k THEN "rejected" ELSE calls[j].promise
    BY <2>1, SettleChanges
  <2>4. QED
    BY <1>0, <2>1, <2>2, <2>3, ClosedKept DEF Owner
<1>8. ASSUME NEW k \in Sockets, OnMessage(k) PROVE Closed(c)'
  <2>1. k \in Made /\ Owner(k) # c /\ sock[k] = "open"
        /\ UNCHANGED << page, intentionalClose, refreshes >>
    BY <1>0, <1>8 DEF OnMessage, SocketsOfCalls
  <2>2. calls' = calls \/ \E how \in {"resolved", "rejected"} : Settle(k, how)
    BY <1>8 DEF OnMessage
  <2>3. /\ Made' = Made
        /\ \A j \in Made : /\ calls'[j].client = calls[j].client
                           /\ calls'[j].promise = "pending" => calls[j].promise = "pending"
    BY <2>1, <2>2, SettleChanges DEF Made
  <2>4. timers'[c] = 0
    BY <1>0, <1>8, <2>1, CaughtTimers DEF OnMessage
  <2>5. \A j \in Sockets : j # k => sock'[j] = sock[j]
    BY <1>8 DEF OnMessage, Close, TypeOK
  <2>6. Made \subseteq Sockets
    BY OwnerIsClient
  <2>7. QED
    BY <1>0, <2>1, <2>3, <2>4, <2>5, <2>6, ClosedKept DEF Owner
<1>9. ASSUME NEW k \in Sockets, OnClose(k) PROVE Closed(c)'
  <2>1. k \in Made /\ Owner(k) \in Clients /\ sock[k] # "none"
        /\ UNCHANGED << page, intentionalClose, refreshes >>
    BY <1>9, OwnerIsClient DEF OnClose, Over, SocketsOfCalls
  <2>2. sock'[k] = "closed" /\ \A j \in Sockets : j # k => sock'[j] = sock[j]
    BY <1>9 DEF OnClose, TypeOK
  <2>3. timers'[c] = 0
    <3>1. CASE Owner(k) = c
      BY <1>0, <1>9, <3>1 DEF OnClose, WasConnected
    <3>2. CASE Owner(k) # c
      BY <1>0, <1>9, <2>1, <3>2 DEF OnClose, ScheduleReconnect, TypeOK
    <3>3. QED
      BY <3>1, <3>2
  <2>4. calls' = calls
    <3>1. state'[Owner(k)] = "closed"
      BY <1>9, <2>1 DEF OnClose, TypeOK
    <3>2. QED
      BY <1>9, <3>1 DEF OnClose
  <2>5. Made \subseteq Sockets
    BY OwnerIsClient
  <2>6. QED
    BY <1>0, <2>1, <2>2, <2>3, <2>4, <2>5, ClosedKept DEF Made, Owner
<1>10. ASSUME NEW k \in Sockets,
              Accept(k) \/ Authenticate(k) \/ HandshakeFails(k) \/ Serve(k) \/ ReadLoopEnds(k)
       PROVE  Closed(c)'
  <2>1. UNCHANGED << page, fields, retry, calls, sock >>
    BY <1>10 DEF Accept, Authenticate, HandshakeFails, Serve, ReadLoopEnds
  <2>2. QED
    BY <1>0, <2>1, ClosedKept DEF Made, Owner
<1>11. QED
  BY <1>1, <1>2, <1>3, <1>4, <1>5, <1>6, <1>7, <1>8, <1>9, <1>10 DEF Next

\* Only the Lobby's going takes its client from the page, and it gives up the only
\* socket there is.
LEMMA ClosingStep ==
    ASSUME IInv, Next, NEW c \in Clients, Trusted(c), lobby = c, lobby' # c, Idle(c)
    PROVE  Closed(c)'
<1> USE DEF IInv, page, fields, retry, net
<1>1. LobbyGoes
  BY SessionAssumption
  DEF Next, SignIn, SignOut, LobbyMounts, Send, BackoffElapses, Refreshed, RefreshFails, GetsToken,
      NoToken, OnOpen, OnMessage, OnClose, Accept, Authenticate, HandshakeFails, Serve,
      ReadLoopEnds, PageInv
<1>2. /\ intentionalClose'[c] /\ UNCHANGED << ws, retry, calls >>
      /\ IF ws[c] = None THEN UNCHANGED sock ELSE Close(ws[c])
  BY <1>1 DEF LobbyGoes, TypeOK
<1>3. timers'[c] = 0 /\ refreshes'[c] = 0
  BY <1>2 DEF Idle
<1>4. ASSUME NEW k \in Made, Owner(k) = c
      PROVE  sock'[k] \in {"none", "closing", "closed"} /\ (sock'[k] = "none" => sock[k] = "none")
  <2>1. k \in Sockets
    BY OwnerIsClient
  <2>2. CASE Alive(k)
    <3>1. ws[c] = k
      BY <1>4, <2>2 DEF OneThread, Active
    <3>2. k # None
      BY <2>1, SessionAssumption DEF Sockets
    <3>3. QED
      BY <1>2, <2>1, <2>2, <3>1, <3>2 DEF Close, TypeOK, Alive
  <2>3. CASE ~Alive(k)
    <3>1. sock[k] \in {"none", "closed"}
      BY <2>1, <2>3 DEF Alive, TypeOK
    <3>2. sock'[k] = sock[k]
      BY <1>2, <2>1, <3>1 DEF Close, TypeOK
    <3>3. QED
      BY <3>1, <3>2
  <2>4. QED
    BY <2>2, <2>3
<1>5. \A k \in Made : Owner(k) = c => ~Waiting(k)'
  BY <1>2, <1>4 DEF Idle, Waiting
<1>6. QED
  BY <1>2, <1>3, <1>4, <1>5 DEF Closed, Idle, Made, Owner

\* A client closed while it awaited nothing stays closed, whatever its sockets
\* still report (Lobby.svelte onDestroy, ws.js close(), onclose).
THEOREM ClosedForGood == Spec => ClosedStaysClosed
<1>1. ASSUME IInv, [Next]_vars
      PROVE  [\A c \in Clients :
                Trusted(c) /\ (Closed(c) \/ (lobby = c /\ lobby' # c /\ Idle(c)))
                  => Closed(c)']_vars
  BY <1>1, ClosedStep, ClosingStep
<1>2. QED
  BY <1>1, Invariance, PTL DEF Spec, ClosedStaysClosed
=============================================================================
