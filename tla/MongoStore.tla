----------------------------- MODULE MongoStore -----------------------------
(***************************************************************************)
(* The MongoDB backend (server/internal/store/mongodb).  Each call is one  *)
(* operation of the server on one document, which MongoDB applies as a     *)
(* whole, except an upsert that finds no document: another may insert one  *)
(* before it does.  Any call may fail, at the latest by its timeout, with  *)
(* the operation applied or not.  Documents with a time to live are purged *)
(* in the background, some time after they expire; reads filter them.      *)
(*                                                                         *)
(* Other than in an upsert that waits to insert, reading the clock and     *)
(* applying the operation count as one instant.                            *)
(***************************************************************************)
EXTENDS StoreTypes

VARIABLES
  now,
  connected,  \* the client's handle on the database is not nil
  users, puzzles, attempts, matches, leaderboards,  \* the collections
  presence,   \* the expireAt of a user's document, or None
  cache,      \* the document of a key with its expireAt, or None
  inserting,  \* upserts of users that found no document
  answer

docVars  == << users, puzzles, attempts, matches >>
ttlVars  == << presence, cache >>
dataVars == << docVars, leaderboards, ttlVars >>
vars     == << now, connected, dataVars, inserting, answer >>

Insert == [uid : Users, profile : Profiles, at : Times]

Init ==
  /\ now = 0 /\ connected = TRUE
  /\ users    = [u \in Users |-> None]
  /\ puzzles  = [d \in Dates |-> None]
  /\ attempts = [k \in Users \X Dates |-> None]
  /\ matches  = [id \in MatchIds |-> None]
  /\ leaderboards = [b \in Boards |-> [u \in Users |-> None]]
  /\ presence = [u \in Users |-> None]
  /\ cache    = [k \in CacheKeys |-> None]
  /\ inserting = {}
  /\ answer   = None

\* The operation is applied; the call returns its result, or an error.
Returns(op, arg, res) ==
  /\ connected /\ answer' \in {Ans(op, arg, res), Error}
  /\ UNCHANGED << now, connected >>

\* FindOne, with ErrNoDocuments turned into ErrNotFound.
Finds(op, arg, doc) ==
  /\ connected /\ answer' \in {IF doc = None THEN ErrNotFound ELSE Ans(op, arg, << doc >>), Error}
  /\ UNCHANGED << now, connected, dataVars, inserting >>

\* The operation is not applied: no server, or the call's timeout.
Fails ==
  /\ connected /\ answer' = Error
  /\ UNCHANGED << now, connected, dataVars, inserting >>

\* Every call but Close begins with this test.
Refused ==
  /\ ~connected /\ answer' = ErrClosed
  /\ UNCHANGED << now, connected, dataVars, inserting >>
-----------------------------------------------------------------------------
\* $setOnInsert and $set.
Upserted(doc, p, at) ==
  [profile |-> p, lastSeen |-> at, createdAt |-> IF doc = None THEN at ELSE doc.createdAt]

UpsertReturns(u, p, doc) ==
  /\ users' = [users EXCEPT ![u] = doc]
  /\ Returns("UpsertUserOnFirstAuth", << u, p >>, << doc >>)
  /\ UNCHANGED << puzzles, attempts, matches, leaderboards, ttlVars >>

UpsertUserOnFirstAuth(u, p) ==
  /\ users[u] # None
  /\ UpsertReturns(u, p, Upserted(users[u], p, now))
  /\ UNCHANGED inserting

UpsertFindsNone(u, p) ==
  /\ connected /\ users[u] = None
  /\ inserting' = inserting \union {[uid |-> u, profile |-> p, at |-> now]}
  /\ UNCHANGED << now, connected, dataVars, answer >>

\* A fault kept for the checks: without the index both inserts stay, and the
\* later document is the one that is found.
InsertedTwice(i) == [profile |-> i.profile, lastSeen |-> i.at, createdAt |-> i.at]

\* The unique index on uid turns the second of two inserts into an update.
Inserted(i) == Upserted(users[i.uid], i.profile, i.at)

UpsertInserts(i) ==
  /\ inserting' = inserting \ {i}
  /\ UpsertReturns(i.uid, i.profile, Inserted(i))

\* The client gives up, and the insert is not applied.
InsertFails(i) ==
  /\ connected /\ inserting' = inserting \ {i}
  /\ answer' = Error
  /\ UNCHANGED << now, connected, dataVars >>

GetUser(u) == Finds("GetUser", << u >>, users[u])

\* The update matches one document, or none.
TouchLastSeen(u, at) ==
  IF users[u] = None THEN Finds("TouchLastSeen", << u, at >>, None)
  ELSE /\ users' = [users EXCEPT ![u].lastSeen = at]
       /\ Returns("TouchLastSeen", << u, at >>, << >>)
       /\ UNCHANGED << puzzles, attempts, matches, leaderboards, ttlVars, inserting >>

GetPuzzle(d) == Finds("GetPuzzle", << d >>, puzzles[d])

PutPuzzle(d, doc) ==
  /\ puzzles' = [puzzles EXCEPT ![d] = doc]
  /\ Returns("PutPuzzle", << d, doc >>, << >>)
  /\ UNCHANGED << users, attempts, matches, leaderboards, ttlVars, inserting >>

GetAttempt(u, d) == Finds("GetAttempt", << u, d >>, attempts[<< u, d >>])

UpsertAttempt(u, d, doc) ==
  /\ attempts' = [attempts EXCEPT ![<< u, d >>] = doc]
  /\ Returns("UpsertAttempt", << u, d, doc >>, << >>)
  /\ UNCHANGED << users, puzzles, matches, leaderboards, ttlVars, inserting >>

GetMatch(id) == Finds("GetMatch", << id >>, matches[id])

UpsertMatch(id, doc) ==
  /\ matches' = [matches EXCEPT ![id] = doc]
  /\ Returns("UpsertMatch", << id, doc >>, << >>)
  /\ UNCHANGED << users, puzzles, attempts, leaderboards, ttlVars, inserting >>

\* A fault kept for the checks: the limit is one short.
ShortLimit(r, n) == IF n <= 0 THEN << >> ELSE First(r, n - 1)

\* Nothing is asked for n <= 0; the server sorts, then limits.
Limit(r, n) == IF n <= 0 THEN << >> ELSE First(r, n)

ListUserMatches(u, n) ==
  \E r \in Sorted(CreatedOf(matches, u)) :
    Returns("ListUserMatches", << u, n >>, Limit(r, n)) /\ UNCHANGED << dataVars, inserting >>
-----------------------------------------------------------------------------
\* A fault kept for the checks: $inc in place of $max.
IncScore(old, new) == IF old = None THEN new ELSE old + new

MaxScore(old, new) == IF old = None \/ new > old THEN new ELSE old

SubmitScore(b, u, score) ==
  /\ leaderboards' = [leaderboards EXCEPT ![b][u] = MaxScore(@, score)]
  /\ Returns("SubmitScore", << b, u, score >>, << >>)
  /\ UNCHANGED << docVars, ttlVars, inserting >>

TopN(b, n) ==
  \E r \in Sorted(Entries(leaderboards[b])) :
    /\ Returns("TopN", << b, n >>, Ranks(leaderboards[b], Limit(r, n)))
    /\ UNCHANGED << dataVars, inserting >>

MarkOnline(u, ttl) ==
  /\ presence' = [presence EXCEPT ![u] = now + ttl]
  /\ Returns("MarkOnline", << u, ttl >>, << >>)
  /\ UNCHANGED << docVars, leaderboards, cache, inserting >>

\* A fault kept for the checks: reads rely on the purge.
Unfiltered(expireAt) == TRUE

\* The query-side filter: $gt now.
NotExpired(expireAt) == expireAt > now

IsOnline(u) ==
  LET found == presence[u] # None /\ NotExpired(presence[u])
  IN  /\ Returns("IsOnline", << u >>, IF found THEN << u >> ELSE << >>)
      /\ UNCHANGED << dataVars, inserting >>

CacheGet(k) ==
  LET found == cache[k] # None /\ (cache[k].expiry = None \/ NotExpired(cache[k].expiry))
  IN  /\ Returns("CacheGet", << k >>, IF found THEN << cache[k].val >> ELSE << >>)
      /\ UNCHANGED << dataVars, inserting >>

\* A fault kept for the checks: a key that is to stay keeps its old expiry.
KeptExpiry(k, ttl) == IF ttl > 0 THEN now + ttl ELSE Expiry(cache[k])

\* $set expireAt, or $unset it.
NewExpiry(k, ttl) == IF ttl > 0 THEN now + ttl ELSE None

CacheSet(k, val, ttl) ==
  /\ cache' = [cache EXCEPT ![k] = [val |-> val, expiry |-> NewExpiry(k, ttl)]]
  /\ Returns("CacheSet", << k, val, ttl >>, << >>)
  /\ UNCHANGED << docVars, leaderboards, presence, inserting >>
-----------------------------------------------------------------------------
Tick ==
  /\ now < MaxTime /\ now' = now + 1
  /\ UNCHANGED << connected, dataVars, inserting, answer >>

\* The TTL indexes: a document may be purged from its expireAt on.
PurgePresence(u) ==
  /\ presence[u] # None /\ presence[u] <= now
  /\ presence' = [presence EXCEPT ![u] = None]
  /\ UNCHANGED << now, connected, docVars, leaderboards, cache, inserting, answer >>

PurgeCache(k) ==
  /\ Expiry(cache[k]) # None /\ Expiry(cache[k]) <= now
  /\ cache' = [cache EXCEPT ![k] = None]
  /\ UNCHANGED << now, connected, docVars, leaderboards, presence, inserting, answer >>

Ping == Returns("Ping", << >>, << >>) /\ UNCHANGED << dataVars, inserting >>

\* Disconnect waits for the operations under way.
Close ==
  /\ inserting = {}
  /\ connected' = FALSE
  /\ answer' \in {Ans("Close", << >>, << >>), Error}
  /\ UNCHANGED << now, dataVars, inserting >>

UserCalls ==
  \E u \in Users :
    \/ GetUser(u)
    \/ \E p \in Profiles : UpsertUserOnFirstAuth(u, p) \/ UpsertFindsNone(u, p)
    \/ \E i \in inserting : UpsertInserts(i) \/ InsertFails(i)
    \/ \E at \in Times : TouchLastSeen(u, at)

DocCalls ==
  \/ \E d \in Dates :
       \/ GetPuzzle(d)
       \/ \E doc \in Docs : PutPuzzle(d, doc)
       \/ \E u \in Users : GetAttempt(u, d) \/ \E doc \in Docs : UpsertAttempt(u, d, doc)
  \/ \E id \in MatchIds : GetMatch(id) \/ \E doc \in Matches : UpsertMatch(id, doc)

BoardCalls ==
  \/ \E n \in Counts : (\E u \in Users : ListUserMatches(u, n)) \/ \E b \in Boards : TopN(b, n)
  \/ \E b \in Boards, u \in Users, score \in Scores : SubmitScore(b, u, score)

TtlCalls ==
  \/ \E u \in Users :
       IsOnline(u) \/ PurgePresence(u) \/ \E ttl \in Ttls : MarkOnline(u, ttl)
  \/ \E k \in CacheKeys :
       \/ CacheGet(k) \/ PurgeCache(k)
       \/ \E val \in Values, ttl \in Ttls : CacheSet(k, val, ttl)

Next ==
  \/ UserCalls \/ DocCalls \/ BoardCalls \/ TtlCalls
  \/ Tick \/ Ping \/ Close \/ Fails \/ Refused

Spec == Init /\ [][Next]_vars
-----------------------------------------------------------------------------
\* What each collection holds under a key.
TypeOK ==
  /\ now \in Times /\ connected \in BOOLEAN
  /\ users \in [Users -> User \union {None}]
  /\ puzzles \in [Dates -> Docs \union {None}]
  /\ attempts \in [Users \X Dates -> Docs \union {None}]
  /\ matches \in [MatchIds -> Matches \union {None}]
  /\ leaderboards \in [Boards -> [Users -> Scores \union {None}]]
  /\ presence \in [Users -> Nat \union {None}]
  /\ cache \in [CacheKeys -> Cached \union {None}]
  /\ inserting \in SUBSET Insert /\ \A i \in inserting : i.at <= now

\* The contract, the documents that have expired and are not yet purged left out.
Promise == INSTANCE Store WITH
  open     <- connected,
  boards   <- leaderboards,
  presence <- [u \in Users |-> LeftAt(presence[u], presence[u], now)],
  cache    <- [k \in CacheKeys |-> LeftAt(cache[k], Expiry(cache[k]), now)]

\* MongoDB is a store.Store whenever the purge comes, whichever call fails and
\* however two first authentications of a user interleave: every call answers
\* as the contract says, and the next ones find what it left behind.
IsAStore == Promise!Spec
=============================================================================
