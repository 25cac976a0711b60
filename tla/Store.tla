------------------------------- MODULE Store -------------------------------
(***************************************************************************)
(* The contract of store.Store, the seam between the server and its data   *)
(* layer (server/internal/store/store.go): what a handler may count on     *)
(* whichever backend it is given.  A call takes effect at one instant of   *)
(* its duration and `answer' is the answer of the last call to return.     *)
(*                                                                         *)
(* The contract leaves open what the backends do differently and no caller *)
(* in the repository depends on: whether an entry still counts at the very *)
(* instant of its expiry, the order of equals in a list, what a list of no *)
(* or a negative length is, and whether a call that fails was applied.     *)
(***************************************************************************)
EXTENDS StoreTypes

VARIABLES
  now,        \* the wall clock
  open,       \* Close has not been called
  users, puzzles, attempts, matches,  \* the documents of a key, or None
  boards,     \* the score of a user on a board, or None
  presence,   \* the instant until which a user is online, or None
  cache,      \* the value of a key with its expiry, or None
  answer      \* the answer of the last call

docVars  == << users, puzzles, attempts, matches >>
ttlVars  == << presence, cache >>
dataVars == << docVars, boards, ttlVars >>
vars     == << now, open, dataVars, answer >>

Init ==
  /\ now = 0 /\ open = TRUE
  /\ users    = [u \in Users |-> None]
  /\ puzzles  = [d \in Dates |-> None]
  /\ attempts = [k \in Users \X Dates |-> None]
  /\ matches  = [id \in MatchIds |-> None]
  /\ boards   = [b \in Boards |-> [u \in Users |-> None]]
  /\ presence = [u \in Users |-> None]
  /\ cache    = [k \in CacheKeys |-> None]
  /\ answer   = None

\* The call returns res, or fails; it may have been applied either way.
Returns(op, arg, res) ==
  /\ open /\ answer' \in {Ans(op, arg, res), Error}
  /\ UNCHANGED << now, open >>

Finds(op, arg, doc) ==
  /\ open /\ answer' \in {IF doc = None THEN ErrNotFound ELSE Ans(op, arg, << doc >>), Error}
  /\ UNCHANGED << now, open, dataVars >>

\* The call fails and was not applied.
Fails == open /\ answer' = Error /\ UNCHANGED << now, open, dataVars >>

Refused == ~open /\ answer' = ErrClosed /\ UNCHANGED << now, open, dataVars >>
-----------------------------------------------------------------------------
(***************************************************************************)
(* Persistent documents.                                                   *)
(***************************************************************************)
\* The beginnings of a record are those of the first authentication; the clock
\* is read at the latest when the call takes effect.
UpsertUserOnFirstAuth(u, p, at) ==
  /\ at <= now
  /\ users' = [users EXCEPT ![u] =
       [profile |-> p, lastSeen |-> at,
        createdAt |-> IF @ = None THEN at ELSE @.createdAt]]
  /\ Returns("UpsertUserOnFirstAuth", << u, p >>, << users'[u] >>)
  /\ UNCHANGED << puzzles, attempts, matches, boards, ttlVars >>

GetUser(u) == Finds("GetUser", << u >>, users[u])

TouchLastSeen(u, at) ==
  /\ users[u] # None
  /\ users' = [users EXCEPT ![u].lastSeen = at]
  /\ Returns("TouchLastSeen", << u, at >>, << >>)
  /\ UNCHANGED << puzzles, attempts, matches, boards, ttlVars >>

TouchNobody(u) ==
  /\ open /\ users[u] = None
  /\ answer' = ErrNotFound
  /\ UNCHANGED << now, open, dataVars >>

GetPuzzle(d) == Finds("GetPuzzle", << d >>, puzzles[d])

PutPuzzle(d, doc) ==
  /\ puzzles' = [puzzles EXCEPT ![d] = doc]
  /\ Returns("PutPuzzle", << d, doc >>, << >>)
  /\ UNCHANGED << users, attempts, matches, boards, ttlVars >>

GetAttempt(u, d) == Finds("GetAttempt", << u, d >>, attempts[<< u, d >>])

UpsertAttempt(u, d, doc) ==
  /\ attempts' = [attempts EXCEPT ![<< u, d >>] = doc]
  /\ Returns("UpsertAttempt", << u, d, doc >>, << >>)
  /\ UNCHANGED << users, puzzles, matches, boards, ttlVars >>

GetMatch(id) == Finds("GetMatch", << id >>, matches[id])

UpsertMatch(id, doc) ==
  /\ matches' = [matches EXCEPT ![id] = doc]
  /\ Returns("UpsertMatch", << id, doc >>, << >>)
  /\ UNCHANGED << users, puzzles, attempts, boards, ttlVars >>

\* The IDs of the matches a user plays in, the newest first.
ListUserMatches(u, n, r) ==
  /\ Lists(r, CreatedOf(matches, u), n)
  /\ Returns("ListUserMatches", << u, n >>, r)
  /\ UNCHANGED dataVars
-----------------------------------------------------------------------------
(***************************************************************************)
(* Leaderboards, presence and cache.                                       *)
(***************************************************************************)
SubmitScore(b, u, score) ==
  /\ boards' = [boards EXCEPT ![b][u] = IF @ # None /\ @ >= score THEN @ ELSE score]
  /\ Returns("SubmitScore", << b, u, score >>, << >>)
  /\ UNCHANGED << docVars, ttlVars >>

TopN(b, n, r) ==
  /\ Lists(r, Entries(boards[b]), n)
  /\ Returns("TopN", << b, n >>, Ranks(boards[b], r))
  /\ UNCHANGED dataVars

MarkOnline(u, ttl) ==
  /\ presence' = [presence EXCEPT ![u] = now + ttl]
  /\ Returns("MarkOnline", << u, ttl >>, << >>)
  /\ UNCHANGED << docVars, boards, cache >>

\* No entry, or one that expires at this very instant.
Absent(entry, expiry) == entry = None \/ (expiry # None /\ expiry <= now)

IsOnline(u, is) ==
  /\ \/ is = << u >> /\ presence[u] # None
     \/ is = << >> /\ Absent(presence[u], presence[u])
  /\ Returns("IsOnline", << u >>, is)
  /\ UNCHANGED dataVars

CacheGet(k, hit) ==
  /\ \/ cache[k] # None /\ hit = << cache[k].val >>
     \/ hit = << >> /\ Absent(cache[k], Expiry(cache[k]))
  /\ Returns("CacheGet", << k >>, hit)
  /\ UNCHANGED dataVars

\* The expiry is that of this call: a time to live of none is for ever.
CacheSet(k, val, ttl) ==
  /\ cache' = [cache EXCEPT ![k] =
                 [val |-> val, expiry |-> IF ttl > 0 THEN now + ttl ELSE None]]
  /\ Returns("CacheSet", << k, val, ttl >>, << >>)
  /\ UNCHANGED << docVars, boards, presence >>
-----------------------------------------------------------------------------
(***************************************************************************)
(* Time, and the end.                                                      *)
(***************************************************************************)
\* Nothing is left of an entry once its expiry is past.
Tick ==
  /\ now < MaxTime /\ now' = now + 1
  /\ presence' = [u \in Users |-> LeftAt(presence[u], presence[u], now')]
  /\ cache' = [k \in CacheKeys |->
                 LeftAt(cache[k], Expiry(cache[k]), now')]
  /\ UNCHANGED << open, docVars, boards, answer >>

\* At the instant of expiry an entry may go at any time.
Lapse ==
  /\ \/ /\ \E u \in Users : presence[u] = now /\ presence' = [presence EXCEPT ![u] = None]
        /\ UNCHANGED cache
     \/ /\ \E k \in CacheKeys : Expiry(cache[k]) = now /\ cache' = [cache EXCEPT ![k] = None]
        /\ UNCHANGED presence
  /\ UNCHANGED << now, open, docVars, boards, answer >>

Ping == Returns("Ping", << >>, << >>) /\ UNCHANGED dataVars

Close ==
  /\ open' = FALSE
  /\ answer' \in {Ans("Close", << >>, << >>), Error}
  /\ UNCHANGED << now, dataVars >>

UserCalls ==
  \E u \in Users :
    \/ GetUser(u) \/ TouchNobody(u)
    \/ \E at \in Times : TouchLastSeen(u, at) \/ \E p \in Profiles : UpsertUserOnFirstAuth(u, p, at)

DocCalls ==
  \/ \E d \in Dates :
       \/ GetPuzzle(d)
       \/ \E doc \in Docs : PutPuzzle(d, doc)
       \/ \E u \in Users : GetAttempt(u, d) \/ \E doc \in Docs : UpsertAttempt(u, d, doc)
  \/ \E id \in MatchIds : GetMatch(id) \/ \E doc \in Matches : UpsertMatch(id, doc)

ListCalls ==
  \E n \in Counts :
    \/ \E u \in Users, r \in Listings(MatchIds) : ListUserMatches(u, n, r)
    \/ \E b \in Boards, r \in Listings(Users) : TopN(b, n, r)

TtlCalls ==
  \/ \E u \in Users :
       \/ \E ttl \in Ttls : MarkOnline(u, ttl)
       \/ \E is \in {<< >>, << u >>} : IsOnline(u, is)
  \/ \E k \in CacheKeys :
       \/ \E hit \in {<< >>} \union {<< val >> : val \in Values} : CacheGet(k, hit)
       \/ \E val \in Values, ttl \in Ttls : CacheSet(k, val, ttl)

Next ==
  \/ UserCalls \/ DocCalls \/ ListCalls \/ TtlCalls
  \/ \E b \in Boards, u \in Users, score \in Scores : SubmitScore(b, u, score)
  \/ Tick \/ Lapse
  \/ Ping \/ Close \/ Fails \/ Refused

Spec == Init /\ [][Next]_vars
=============================================================================
