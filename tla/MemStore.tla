------------------------------ MODULE MemStore ------------------------------
(***************************************************************************)
(* The in-memory backend (server/internal/store/memstore).  One mutex      *)
(* guards everything, so a call is one step; none fails before Close.      *)
(* Entries that expire are deleted when they are next asked for.           *)
(***************************************************************************)
EXTENDS StoreTypes

VARIABLES now, closed, users, puzzles, attempts, matches, leaderboards,
          presence, cache, answer

docVars  == << users, puzzles, attempts, matches >>
ttlVars  == << presence, cache >>
dataVars == << docVars, leaderboards, ttlVars >>
vars     == << now, closed, dataVars, answer >>

\* New returns an empty store.
Init ==
  /\ now = 0 /\ closed = FALSE
  /\ users    = [u \in Users |-> None]
  /\ puzzles  = [d \in Dates |-> None]
  /\ attempts = [k \in Users \X Dates |-> None]
  /\ matches  = [id \in MatchIds |-> None]
  /\ leaderboards = [b \in Boards |-> [u \in Users |-> None]]
  /\ presence = [u \in Users |-> None]
  /\ cache    = [k \in CacheKeys |-> None]
  /\ answer   = None

Returns(op, arg, res) ==
  /\ ~closed /\ answer' = Ans(op, arg, res)
  /\ UNCHANGED << now, closed >>

Finds(op, arg, doc) ==
  /\ ~closed /\ answer' = IF doc = None THEN ErrNotFound ELSE Ans(op, arg, << doc >>)
  /\ UNCHANGED << now, closed, dataVars >>

\* Every call begins with this test.
Refused == closed /\ answer' = ErrClosed /\ UNCHANGED << now, closed, dataVars >>
-----------------------------------------------------------------------------
\* The record of a first authentication, or of a later one.
Stamped(u, p) ==
  IF users[u] = None THEN [profile |-> p, createdAt |-> now, lastSeen |-> now]
  ELSE [users[u] EXCEPT !.profile = p, !.lastSeen = now]

UpsertUserOnFirstAuth(u, p) ==
  /\ users' = [users EXCEPT ![u] = Stamped(u, p)]
  /\ Returns("UpsertUserOnFirstAuth", << u, p >>, << Stamped(u, p) >>)
  /\ UNCHANGED << puzzles, attempts, matches, leaderboards, ttlVars >>

GetUser(u) == Finds("GetUser", << u >>, users[u])

TouchLastSeen(u, at) ==
  IF users[u] = None THEN Finds("TouchLastSeen", << u, at >>, None)
  ELSE /\ users' = [users EXCEPT ![u].lastSeen = at]
       /\ Returns("TouchLastSeen", << u, at >>, << >>)
       /\ UNCHANGED << puzzles, attempts, matches, leaderboards, ttlVars >>

GetPuzzle(d) == Finds("GetPuzzle", << d >>, puzzles[d])

PutPuzzle(d, doc) ==
  /\ puzzles' = [puzzles EXCEPT ![d] = doc]
  /\ Returns("PutPuzzle", << d, doc >>, << >>)
  /\ UNCHANGED << users, attempts, matches, leaderboards, ttlVars >>

GetAttempt(u, d) == Finds("GetAttempt", << u, d >>, attempts[<< u, d >>])

UpsertAttempt(u, d, doc) ==
  /\ attempts' = [attempts EXCEPT ![<< u, d >>] = doc]
  /\ Returns("UpsertAttempt", << u, d, doc >>, << >>)
  /\ UNCHANGED << users, puzzles, matches, leaderboards, ttlVars >>

GetMatch(id) == Finds("GetMatch", << id >>, matches[id])

UpsertMatch(id, doc) ==
  /\ matches' = [matches EXCEPT ![id] = doc]
  /\ Returns("UpsertMatch", << id, doc >>, << >>)
  /\ UNCHANGED << users, puzzles, attempts, leaderboards, ttlVars >>

\* A fault kept for the checks: a list is not cut.
Uncut(r, n) == r

\* A list is cut to a positive length only.
Cut(r, n) == IF n > 0 THEN First(r, n) ELSE r

\* The sort is not stable and starts from the order of a map.
ListUserMatches(u, n) ==
  \E r \in Sorted(CreatedOf(matches, u)) :
    Returns("ListUserMatches", << u, n >>, Cut(r, n)) /\ UNCHANGED dataVars
-----------------------------------------------------------------------------
\* Only a strictly higher score counts.
Higher(old, new) == IF old # None /\ old >= new THEN old ELSE new

SubmitScore(b, u, score) ==
  /\ leaderboards' = [leaderboards EXCEPT ![b][u] = Higher(@, score)]
  /\ Returns("SubmitScore", << b, u, score >>, << >>)
  /\ UNCHANGED << docVars, ttlVars >>

\* Equal scores are in the order of uids.
TopN(b, n) ==
  LET board == leaderboards[b]
  IN  \E r \in Sorted(Entries(board)) :
        /\ \A i, j \in DOMAIN r : i < j /\ board[r[i]] = board[r[j]] => r[i] < r[j]
        /\ Returns("TopN", << b, n >>, Ranks(board, Cut(r, n)))
        /\ UNCHANGED dataVars

MarkOnline(u, ttl) ==
  /\ presence' = [presence EXCEPT ![u] = now + ttl]
  /\ Returns("MarkOnline", << u, ttl >>, << >>)
  /\ UNCHANGED << docVars, leaderboards, cache >>

\* A fault kept for the checks: what has expired is found.
NeverPast(expiry) == FALSE

\* Past, and not at, the instant of expiry.
Past(expiry) == expiry # None /\ now > expiry

IsOnline(u) ==
  LET gone == presence[u] = None \/ Past(presence[u])
  IN  /\ presence' = [presence EXCEPT ![u] = IF gone THEN None ELSE @]
      /\ Returns("IsOnline", << u >>, IF gone THEN << >> ELSE << u >>)
      /\ UNCHANGED << docVars, leaderboards, cache >>

CacheGet(k) ==
  LET gone == cache[k] = None \/ Past(Expiry(cache[k]))
  IN  /\ cache' = [cache EXCEPT ![k] = IF gone THEN None ELSE @]
      /\ Returns("CacheGet", << k >>, IF gone THEN << >> ELSE << cache[k].val >>)
      /\ UNCHANGED << docVars, leaderboards, presence >>

CacheSet(k, val, ttl) ==
  /\ cache' = [cache EXCEPT ![k] =
                 [val |-> val, expiry |-> IF ttl > 0 THEN now + ttl ELSE None]]
  /\ Returns("CacheSet", << k, val, ttl >>, << >>)
  /\ UNCHANGED << docVars, leaderboards, presence >>
-----------------------------------------------------------------------------
\* The clock the store reads.
Tick == now < MaxTime /\ now' = now + 1 /\ UNCHANGED << closed, dataVars, answer >>

Ping == Returns("Ping", << >>, << >>) /\ UNCHANGED dataVars

Close == closed' = TRUE /\ answer' = Ans("Close", << >>, << >>) /\ UNCHANGED << now, dataVars >>

UserCalls ==
  \E u \in Users :
    \/ GetUser(u)
    \/ \E p \in Profiles : UpsertUserOnFirstAuth(u, p)
    \/ \E at \in Times : TouchLastSeen(u, at)

DocCalls ==
  \/ \E d \in Dates :
       \/ GetPuzzle(d)
       \/ \E doc \in Docs : PutPuzzle(d, doc)
       \/ \E u \in Users : GetAttempt(u, d) \/ \E doc \in Docs : UpsertAttempt(u, d, doc)
  \/ \E id \in MatchIds : GetMatch(id) \/ \E doc \in Matches : UpsertMatch(id, doc)

BoardCalls ==
  \/ \E n \in Counts : (\E u \in Users : ListUserMatches(u, n)) \/ \E b \in Boards : TopN(b, n)
  \/ \E b \in Boards, u \in Users, score \in Scores : SubmitScore(b, u, score)

TtlCalls ==
  \/ \E u \in Users : IsOnline(u) \/ \E ttl \in Ttls : MarkOnline(u, ttl)
  \/ \E k \in CacheKeys :
       \/ CacheGet(k)
       \/ \E val \in Values, ttl \in Ttls : CacheSet(k, val, ttl)

Next ==
  \/ UserCalls \/ DocCalls \/ BoardCalls \/ TtlCalls
  \/ Tick \/ Ping \/ Close \/ Refused

Spec == Init /\ [][Next]_vars
-----------------------------------------------------------------------------
\* What each collection holds under a key.
TypeOK ==
  /\ now \in Times /\ closed \in BOOLEAN
  /\ users \in [Users -> User \union {None}]
  /\ puzzles \in [Dates -> Docs \union {None}]
  /\ attempts \in [Users \X Dates -> Docs \union {None}]
  /\ matches \in [MatchIds -> Matches \union {None}]
  /\ leaderboards \in [Boards -> [Users -> Scores \union {None}]]
  /\ presence \in [Users -> Nat \union {None}]
  /\ cache \in [CacheKeys -> Cached \union {None}]

\* The contract, the expired entries that nobody has asked for left out.
Promise == INSTANCE Store WITH
  open     <- ~closed,
  boards   <- leaderboards,
  presence <- [u \in Users |-> LeftAt(presence[u], presence[u], now)],
  cache    <- [k \in CacheKeys |-> LeftAt(cache[k], Expiry(cache[k]), now)]

\* The in-memory store is a store.Store: every call answers as the contract
\* says, and what it leaves behind is what the contract's next calls find.
IsAStore == Promise!Spec
=============================================================================
