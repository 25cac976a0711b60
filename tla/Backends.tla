------------------------------ MODULE Backends ------------------------------
(***************************************************************************)
(* The two backends given the same calls, in lockstep: what a test that    *)
(* passes with memstore says of production.  The clock is one for both,    *)
(* and so are puzzles, attempts and matches, which both put and get alike; *)
(* what each keeps of users, boards, presence and cache, and what each     *)
(* answers, is its own.  (Upserts of users that interleave are in          *)
(* MongoStore.)                                                            *)
(***************************************************************************)
EXTENDS StoreTypes

VARIABLES
  now, puzzles, attempts, matches,
  memUsers, memBoards, memPresence, memCache, closed, memAnswer,
  mongoUsers, mongoBoards, mongoPresence, mongoCache, connected, mongoAnswer,
  inserting  \* as at the beginning

docVars   == << puzzles, attempts, matches >>
memVars   == << memUsers, memBoards, memPresence, memCache, closed, memAnswer >>
mongoVars == << mongoUsers, mongoBoards, mongoPresence, mongoCache, connected, mongoAnswer >>
vars      == << now, docVars, memVars, mongoVars, inserting >>

Mem == INSTANCE MemStore WITH
  users <- memUsers, leaderboards <- memBoards, presence <- memPresence,
  cache <- memCache, answer <- memAnswer

Mongo == INSTANCE MongoStore WITH
  users <- mongoUsers, leaderboards <- mongoBoards, presence <- mongoPresence,
  cache <- mongoCache, answer <- mongoAnswer

Init == Mem!Init /\ Mongo!Init

\* MongoDB's upsert in one step: nobody else is inserting.
Upsert(u, p) ==
  /\ Mem!UpsertUserOnFirstAuth(u, p)
  /\ Mongo!UpsertReturns(u, p, Mongo!Upserted(mongoUsers[u], p, now))
  /\ UNCHANGED inserting

UserCalls ==
  \E u \in Users :
    \/ Mem!GetUser(u) /\ Mongo!GetUser(u)
    \/ \E p \in Profiles : Upsert(u, p)
    \/ \E at \in Times : Mem!TouchLastSeen(u, at) /\ Mongo!TouchLastSeen(u, at)

DocCalls ==
  \/ \E d \in Dates :
       \/ Mem!GetPuzzle(d) /\ Mongo!GetPuzzle(d)
       \/ \E doc \in Docs : Mem!PutPuzzle(d, doc) /\ Mongo!PutPuzzle(d, doc)
  \/ \E u \in Users, d \in Dates :
       \/ Mem!GetAttempt(u, d) /\ Mongo!GetAttempt(u, d)
       \/ \E doc \in Docs : Mem!UpsertAttempt(u, d, doc) /\ Mongo!UpsertAttempt(u, d, doc)
  \/ \E id \in MatchIds :
       \/ Mem!GetMatch(id) /\ Mongo!GetMatch(id)
       \/ \E doc \in Matches : Mem!UpsertMatch(id, doc) /\ Mongo!UpsertMatch(id, doc)

BoardCalls ==
  \/ \E b \in Boards, u \in Users, score \in Scores :
       Mem!SubmitScore(b, u, score) /\ Mongo!SubmitScore(b, u, score)
  \/ \E n \in Counts, u \in Users : Mem!ListUserMatches(u, n) /\ Mongo!ListUserMatches(u, n)
  \/ \E n \in Counts, b \in Boards : Mem!TopN(b, n) /\ Mongo!TopN(b, n)

TtlCalls ==
  \/ \E u \in Users, ttl \in Ttls : Mem!MarkOnline(u, ttl) /\ Mongo!MarkOnline(u, ttl)
  \/ \E u \in Users : Mem!IsOnline(u) /\ Mongo!IsOnline(u)
  \/ \E k \in CacheKeys : Mem!CacheGet(k) /\ Mongo!CacheGet(k)
  \/ \E k \in CacheKeys, val \in Values, ttl \in Ttls :
       Mem!CacheSet(k, val, ttl) /\ Mongo!CacheSet(k, val, ttl)

Lifetime ==
  \/ Mem!Ping /\ Mongo!Ping
  \/ Mem!Close /\ Mongo!Close
  \/ Mem!Refused /\ Mongo!Refused

Purge ==
  /\ \/ \E u \in Users : Mongo!PurgePresence(u)
     \/ \E k \in CacheKeys : Mongo!PurgeCache(k)
  /\ UNCHANGED memVars

Next ==
  \/ UserCalls \/ DocCalls \/ BoardCalls \/ TtlCalls
  \/ Lifetime \/ Purge \/ (Mem!Tick /\ Mongo!Tick)

Spec == Init /\ [][Next]_vars
-----------------------------------------------------------------------------
Asked == memAnswer'.op
Arg(i) == memAnswer'.arg[i]

\* The entry asked for expires at this very instant.
AtExpiry ==
  \/ Asked = "IsOnline" /\ memPresence[Arg(1)] = now
  \/ Asked = "CacheGet" /\ Expiry(memCache[Arg(1)]) = now

\* The lists differ in nothing but the order of equals or, cut among equals, in
\* which of them they name.
SameUpToEquals ==
  LET r == memAnswer'.res  s == mongoAnswer'.res
  IN  /\ Len(r) = Len(s)
      /\ Asked = "TopN" => \A i \in DOMAIN r : r[i].score = s[i].score
      /\ Asked = "ListUserMatches" =>
           \A i \in DOMAIN r : matches[r[i]].createdAt = matches[s[i]].createdAt

OpenQuestion ==
  \/ AtExpiry
  \/ Asked \in {"TopN", "ListUserMatches"} /\ (Arg(2) <= 0 \/ SameUpToEquals)

Answers == << memAnswer, mongoAnswer >>

\* "Any concrete impl (memstore for tests, mongodb for prod) plugs in
\* identically": after any history of the same calls, with any purge so far, a
\* call that MongoDB does not fail is answered alike by both, but for what the
\* contract leaves open.
AnswersAlike ==
  [][Answers' # Answers /\ mongoAnswer' # Error /\ memAnswer' # mongoAnswer' => OpenQuestion]_vars

\* The in-memory store is a store.Store: every call answers as the contract
\* says, and what it leaves behind is what the contract's next calls find.
MemIsAStore == Mem!IsAStore
=============================================================================
