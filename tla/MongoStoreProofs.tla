-------------------------- MODULE MongoStoreProofs --------------------------
(***************************************************************************)
(* The MongoDB backend implements the contract of the data layer.  A       *)
(* document that has expired is gone in the contract and, in MongoDB,      *)
(* still there until it is purged; an upsert takes effect when it finds    *)
(* the document or inserts it.                                             *)
(***************************************************************************)
EXTENDS MongoStore, FiniteSetTheorems, TLAPS

\* What the contract keeps in place of presence and cache.
KeptPresence == [u \in Users |-> LeftAt(presence[u], presence[u], now)]
KeptCache    == [k \in CacheKeys |-> LeftAt(cache[k], Expiry(cache[k]), now)]

\* What a call that leaves a variable alone leaves alone in the contract.
USE DEF docVars, ttlVars, dataVars, Promise!docVars, Promise!ttlVars, Promise!dataVars

\* The initial state is well-typed.
LEMMA InitType == Init => TypeOK
<1> SUFFICES ASSUME Init PROVE TypeOK
  OBVIOUS
<1>1. now \in Times /\ connected \in BOOLEAN
  <2>1. 0 \in 0..MaxTime
    BY StoreAssumption
  <2>2. connected \in BOOLEAN
    BY DEF Init
  <2> QED BY <2>1, <2>2 DEF Init, Times
<1>2. /\ users \in [Users -> User \union {None}]
      /\ puzzles \in [Dates -> Docs \union {None}]
      /\ attempts \in [Users \X Dates -> Docs \union {None}]
      /\ matches \in [MatchIds -> Matches \union {None}]
  BY DEF Init
<1>3. leaderboards \in [Boards -> [Users -> Scores \union {None}]]
  BY DEF Init
<1>4. presence \in [Users -> Nat \union {None}] /\ cache \in [CacheKeys -> Cached \union {None}]
  BY DEF Init
<1>5. inserting \in SUBSET Insert /\ \A i \in inserting : i.at <= now
  BY DEF Init
<1> QED BY <1>1, <1>2, <1>3, <1>4, <1>5 DEF TypeOK

\* An upsert leaves a user's record whole.
LEMMA UpsertType ==
  ASSUME TypeOK, NEW u \in Users, NEW p \in Profiles, NEW at \in Times
  PROVE  Upserted(users[u], p, at) \in User
<1>1. users[u] # None => users[u] \in User
  BY DEF TypeOK
<1> QED BY <1>1 DEF Upserted, User

\* Calls about users keep the types.
LEMMA UserCallsType == TypeOK /\ UserCalls => TypeOK'
<1> SUFFICES ASSUME TypeOK, UserCalls PROVE TypeOK'
  OBVIOUS
<1> USE DEF TypeOK
<1>1. ASSUME NEW u \in Users, GetUser(u) PROVE TypeOK'
  BY <1>1 DEF GetUser, Finds
<1>2. ASSUME NEW u \in Users, NEW p \in Profiles, UpsertUserOnFirstAuth(u, p) PROVE TypeOK'
  BY <1>2, UpsertType DEF UpsertUserOnFirstAuth, UpsertReturns, Returns
<1>3. ASSUME NEW u \in Users, NEW p \in Profiles, UpsertFindsNone(u, p) PROVE TypeOK'
  <2>1. [uid |-> u, profile |-> p, at |-> now] \in Insert /\ now <= now
    BY DEF Insert, Times
  <2> QED BY <1>3, <2>1 DEF UpsertFindsNone
<1>4. ASSUME NEW i \in inserting, UpsertInserts(i) PROVE TypeOK'
  <2>1. i.uid \in Users /\ Inserted(i) \in User
    BY UpsertType DEF Insert, Inserted
  <2> QED BY <1>4, <2>1 DEF UpsertInserts, UpsertReturns, Returns
<1>5. ASSUME NEW i \in inserting, InsertFails(i) PROVE TypeOK'
  BY <1>5 DEF InsertFails
<1>6. ASSUME NEW u \in Users, NEW at \in Times, TouchLastSeen(u, at) PROVE TypeOK'
  <2>1. CASE users[u] = None
    BY <1>6, <2>1 DEF TouchLastSeen, Finds
  <2>2. CASE users[u] # None
    <3>1. users[u] \in User
      BY <2>2
    <3>2. [users[u] EXCEPT !.lastSeen = at] \in User
      BY <3>1 DEF User
    <3>3. users' = [users EXCEPT ![u] = [users[u] EXCEPT !.lastSeen = at]]
      BY <1>6, <2>2 DEF TouchLastSeen
    <3> QED BY <1>6, <2>2, <3>2, <3>3 DEF TouchLastSeen, Returns
  <2> QED BY <2>1, <2>2
<1> QED BY <1>1, <1>2, <1>3, <1>4, <1>5, <1>6 DEF UserCalls

\* Calls about documents keep the types.
LEMMA DocCallsType == TypeOK /\ DocCalls => TypeOK'
<1> SUFFICES ASSUME TypeOK, DocCalls PROVE TypeOK'
  OBVIOUS
<1> USE DEF TypeOK, Finds, Returns
<1>1. ASSUME NEW d \in Dates, GetPuzzle(d) PROVE TypeOK'
  BY <1>1 DEF GetPuzzle
<1>2. ASSUME NEW d \in Dates, NEW doc \in Docs, PutPuzzle(d, doc) PROVE TypeOK'
  BY <1>2 DEF PutPuzzle
<1>3. ASSUME NEW u \in Users, NEW d \in Dates, GetAttempt(u, d) PROVE TypeOK'
  BY <1>3 DEF GetAttempt
<1>4. ASSUME NEW u \in Users, NEW d \in Dates, NEW doc \in Docs, UpsertAttempt(u, d, doc)
      PROVE  TypeOK'
  BY <1>4 DEF UpsertAttempt
<1>5. ASSUME NEW id \in MatchIds, GetMatch(id) PROVE TypeOK'
  BY <1>5 DEF GetMatch
<1>6. ASSUME NEW id \in MatchIds, NEW doc \in Matches, UpsertMatch(id, doc) PROVE TypeOK'
  BY <1>6 DEF UpsertMatch
<1> QED BY <1>1, <1>2, <1>3, <1>4, <1>5, <1>6 DEF DocCalls

\* Calls about boards keep the types.
LEMMA BoardCallsType == TypeOK /\ BoardCalls => TypeOK'
<1> SUFFICES ASSUME TypeOK, BoardCalls PROVE TypeOK'
  OBVIOUS
<1> USE DEF TypeOK, Returns
<1>1. ASSUME NEW u \in Users, NEW n \in Counts, ListUserMatches(u, n) PROVE TypeOK'
  BY <1>1 DEF ListUserMatches
<1>2. ASSUME NEW b \in Boards, NEW n \in Counts, TopN(b, n) PROVE TypeOK'
  BY <1>2 DEF TopN
<1>3. ASSUME NEW b \in Boards, NEW u \in Users, NEW score \in Scores, SubmitScore(b, u, score)
      PROVE  TypeOK'
  BY <1>3 DEF SubmitScore, MaxScore
<1> QED BY <1>1, <1>2, <1>3 DEF BoardCalls

\* Calls about presence and cache keep the types.
LEMMA TtlCallsType == TypeOK /\ TtlCalls => TypeOK'
<1> SUFFICES ASSUME TypeOK, TtlCalls PROVE TypeOK'
  OBVIOUS
<1> USE StoreAssumption DEF TypeOK, Returns, Times
<1>1. ASSUME NEW u \in Users, IsOnline(u) PROVE TypeOK'
  BY <1>1 DEF IsOnline
<1>2. ASSUME NEW u \in Users, NEW ttl \in Ttls, MarkOnline(u, ttl) PROVE TypeOK'
  BY <1>2 DEF MarkOnline
<1>3. ASSUME NEW k \in CacheKeys, CacheGet(k) PROVE TypeOK'
  BY <1>3 DEF CacheGet
<1>5. ASSUME NEW u \in Users, PurgePresence(u) PROVE TypeOK'
  BY <1>5 DEF PurgePresence
<1>6. ASSUME NEW k \in CacheKeys, PurgeCache(k) PROVE TypeOK'
  BY <1>6 DEF PurgeCache
<1>4. ASSUME NEW k \in CacheKeys, NEW val \in Values, NEW ttl \in Ttls, CacheSet(k, val, ttl)
      PROVE  TypeOK'
  <2>1. [val |-> val, expiry |-> NewExpiry(k, ttl)] \in Cached
    <3>1. now + ttl \in Nat
      OBVIOUS
    <3> QED BY <3>1 DEF Cached, NewExpiry
  <2> QED BY <1>4, <2>1 DEF CacheSet
<1> QED BY <1>1, <1>2, <1>3, <1>4, <1>5, <1>6 DEF TtlCalls

\* Every step keeps the types.
LEMMA NextType == TypeOK /\ [Next]_vars => TypeOK'
<1> SUFFICES ASSUME TypeOK, [Next]_vars PROVE TypeOK'
  OBVIOUS
<1>1. CASE Tick
  <2>1. now \in Nat /\ now' = now + 1 /\ now' \in Times
    BY <1>1, StoreAssumption DEF Tick, TypeOK, Times
  <2>2. \A i \in inserting : i.at <= now'
    BY <2>1 DEF TypeOK, Insert, Times
  <2> QED BY <1>1, <2>1, <2>2 DEF Tick, TypeOK
<1>2. CASE Ping        BY <1>2 DEF Ping, Returns, TypeOK
<1>3. CASE Close       BY <1>3 DEF Close, TypeOK
<1>4. CASE Refused     BY <1>4 DEF Refused, TypeOK
<1>5. CASE Fails       BY <1>5 DEF Fails, TypeOK
<1>6. CASE UNCHANGED vars  BY <1>6 DEF vars, TypeOK
<1> QED BY <1>1, <1>2, <1>3, <1>4, <1>5, <1>6, UserCallsType, DocCallsType, BoardCallsType,
           TtlCallsType DEF Next

\* Every collection of MongoDB keeps documents of its kind.
THEOREM MongoStoreTypeCorrect == Spec => []TypeOK
<1>1. Init => TypeOK
  BY InitType
<1>2. TypeOK /\ [Next]_vars => TypeOK'
  BY NextType
<1> QED BY <1>1, <1>2, PTL DEF Spec
-----------------------------------------------------------------------------
\* An empty store is the empty store of the contract.
LEMMA InitKept == Init => Promise!Init
BY StoreAssumption DEF Init, Promise!Init, LeftAt, Expiry

\* A step that changes neither the entries nor the time changes nothing of what
\* is kept of them.
LEMMA SameKept ==
  /\ UNCHANGED << presence, now >> => UNCHANGED KeptPresence
  /\ UNCHANGED << cache, now >> => UNCHANGED KeptCache
BY DEF KeptPresence, KeptCache

\* Finding the document, or inserting it, is the contract's upsert, with the
\* clock read at the time at.
LEMMA UpsertKept ==
  ASSUME TypeOK, NEW u \in Users, NEW p \in Profiles, NEW at \in Times, at <= now,
         UpsertReturns(u, p, Upserted(users[u], p, at))
  PROVE  Promise!UpsertUserOnFirstAuth(u, p, at)
<1> DEFINE doc == Upserted(users[u], p, at)
<1>1. users' = [users EXCEPT ![u] = doc] /\ users'[u] = doc
  BY DEF UpsertReturns, TypeOK
<1>2. users' = [users EXCEPT ![u] = [profile |-> p, lastSeen |-> at,
                  createdAt |-> IF @ = None THEN at ELSE @.createdAt]]
  BY <1>1 DEF Upserted
<1> HIDE DEF doc
<1>3. answer' \in {Ans("UpsertUserOnFirstAuth", << u, p >>, << users'[u] >>), Error}
  BY <1>1 DEF UpsertReturns, Returns, doc
<1> QED BY <1>2, <1>3, SameKept DEF UpsertReturns, Returns, KeptPresence, KeptCache, Ans,
           Promise!Ans, Promise!UpsertUserOnFirstAuth, Promise!Returns

\* Calls about users do what the contract says.
LEMMA UserCallsKept == TypeOK /\ UserCalls => Promise!Next \/ UNCHANGED Promise!vars
<1> SUFFICES ASSUME TypeOK, UserCalls PROVE Promise!Next \/ UNCHANGED Promise!vars
  OBVIOUS
<1> USE SameKept DEF KeptPresence, KeptCache, Ans, Promise!Ans
<1>0. now \in Times /\ now <= now /\ Times = Promise!Times
  BY DEF TypeOK, Times, Promise!Times
<1>1. ASSUME NEW u \in Users, GetUser(u) PROVE Promise!GetUser(u)
  BY <1>1 DEF GetUser, Finds, Promise!GetUser, Promise!Finds
<1>2. ASSUME NEW u \in Users, NEW p \in Profiles, UpsertUserOnFirstAuth(u, p)
      PROVE  Promise!UpsertUserOnFirstAuth(u, p, now)
  BY <1>0, <1>2, UpsertKept DEF UpsertUserOnFirstAuth
<1>3. ASSUME NEW u \in Users, NEW p \in Profiles, UpsertFindsNone(u, p)
      PROVE  UNCHANGED Promise!vars
  BY <1>3 DEF UpsertFindsNone, Promise!vars
<1>4. ASSUME NEW i \in inserting, UpsertInserts(i)
      PROVE  /\ i.uid \in Users /\ i.profile \in Profiles /\ i.at \in Times
             /\ Promise!UpsertUserOnFirstAuth(i.uid, i.profile, i.at)
  <2>1. i.uid \in Users /\ i.profile \in Profiles /\ i.at \in Times /\ i.at <= now
    BY DEF TypeOK, Insert
  <2> QED BY <1>4, <2>1, UpsertKept DEF UpsertInserts, Inserted
<1>5. ASSUME NEW i \in inserting, InsertFails(i) PROVE Promise!Fails
  BY <1>5 DEF InsertFails, Promise!Fails
<1>6. ASSUME NEW u \in Users, NEW at \in Times, TouchLastSeen(u, at)
      PROVE  Promise!TouchLastSeen(u, at) \/ Promise!TouchNobody(u) \/ Promise!Fails
  <2>1. CASE users[u] = None
    BY <1>6, <2>1 DEF TouchLastSeen, Finds, Promise!TouchNobody, Promise!Fails
  <2>2. CASE users[u] # None
    BY <1>6, <2>2 DEF TouchLastSeen, Returns, Promise!TouchLastSeen, Promise!Returns
  <2> QED BY <2>1, <2>2
<1> QED BY <1>0, <1>1, <1>2, <1>3, <1>4, <1>5, <1>6
        DEF UserCalls, Promise!UserCalls, Promise!Next

\* Calls about documents do what the contract says.
LEMMA DocCallsKept == DocCalls => Promise!Next
<1> SUFFICES ASSUME DocCalls PROVE Promise!DocCalls
  BY DEF Promise!Next
<1> USE SameKept DEF KeptPresence, KeptCache, Ans, Promise!Ans,
                     Finds, Promise!Finds, Returns, Promise!Returns
<1>1. ASSUME NEW d \in Dates, GetPuzzle(d) PROVE Promise!GetPuzzle(d)
  BY <1>1 DEF GetPuzzle, Promise!GetPuzzle
<1>2. ASSUME NEW d \in Dates, NEW doc \in Docs, PutPuzzle(d, doc) PROVE Promise!PutPuzzle(d, doc)
  BY <1>2 DEF PutPuzzle, Promise!PutPuzzle
<1>3. ASSUME NEW u \in Users, NEW d \in Dates, GetAttempt(u, d) PROVE Promise!GetAttempt(u, d)
  BY <1>3 DEF GetAttempt, Promise!GetAttempt
<1>4. ASSUME NEW u \in Users, NEW d \in Dates, NEW doc \in Docs, UpsertAttempt(u, d, doc)
      PROVE  Promise!UpsertAttempt(u, d, doc)
  BY <1>4 DEF UpsertAttempt, Promise!UpsertAttempt
<1>5. ASSUME NEW id \in MatchIds, GetMatch(id) PROVE Promise!GetMatch(id)
  BY <1>5 DEF GetMatch, Promise!GetMatch
<1>6. ASSUME NEW id \in MatchIds, NEW doc \in Matches, UpsertMatch(id, doc)
      PROVE  Promise!UpsertMatch(id, doc)
  BY <1>6 DEF UpsertMatch, Promise!UpsertMatch
<1> QED BY <1>1, <1>2, <1>3, <1>4, <1>5, <1>6 DEF DocCalls, Promise!DocCalls

\* What the limit of a query leaves of a sorted list is a list.
LEMMA LimitLists ==
  ASSUME NEW S, IsFiniteSet(S), NEW key, DOMAIN key \subseteq S,
         \A d \in DOMAIN key : key[d] \in Int, NEW r \in Sorted(key), NEW n \in Counts
  PROVE  Limit(r, n) \in Listings(S) /\ Lists(Limit(r, n), key, n)
<1> DEFINE c == Cardinality(DOMAIN key)
           k == IF n < 0 THEN 0 ELSE IF n < c THEN n ELSE c
           f == Limit(r, n)
<1>1. n \in Int /\ c \in Nat /\ Cardinality(S) \in Nat /\ c <= Cardinality(S)
  BY StoreAssumption, FS_Subset, FS_CardinalityType
<1>2. /\ r \in [1..c -> DOMAIN key]
      /\ \A i, j \in 1..c : i < j => r[i] # r[j] /\ key[r[i]] >= key[r[j]]
      /\ \A d \in DOMAIN key : \E i \in 1..c : r[i] = d
  BY DEF Sorted
<1>3. Len(r) = c /\ r \in Seq(DOMAIN key)
  BY <1>1, <1>2
<1>4. /\ k \in 0..c
      /\ n > 0 => k <= n
      /\ n > 0 /\ k < c => k = n
      /\ ~(n > 0) => k = 0
  BY <1>1
<1>5. f \in Seq(DOMAIN key) /\ Len(f) = k /\ DOMAIN f = 1..k /\ \A i \in 1..k : f[i] = r[i]
  <2>1. CASE n > 0
    <3>1. k = IF n < Len(r) THEN n ELSE Len(r)
      BY <1>1, <1>3, <2>1
    <3>2. f = SubSeq(r, 1, k)
      BY <1>1, <2>1, <3>1 DEF Limit, First
    <3> QED BY <1>1, <1>3, <1>4, <3>2
  <2>2. CASE ~(n > 0)
    <3>1. f = << >> /\ k = 0
      BY <1>1, <1>4, <2>2 DEF Limit
    <3> QED BY <3>1
  <2> QED BY <2>1, <2>2
<1> HIDE DEF c, k, f
<1>6. f \in Listings(S)
  BY <1>1, <1>4, <1>5 DEF Listings
<1>7. \A i, j \in DOMAIN f : i < j => f[i] # f[j] /\ key[f[i]] >= key[f[j]]
  BY <1>1, <1>2, <1>4, <1>5
<1>8. ASSUME NEW d \in DOMAIN key, n > 0, \A i \in DOMAIN f : f[i] # d
      PROVE  Len(f) = n /\ \A i \in DOMAIN f : key[f[i]] >= key[d]
  <2>1. PICK j \in 1..c : r[j] = d
    BY <1>2
  <2>2. k < j
    BY <1>1, <1>4, <1>5, <1>8, <2>1
  <2> QED BY <1>1, <1>2, <1>4, <1>5, <1>8, <2>1, <2>2
<1>9. n <= 0 => f = << >>
  BY <1>1, <1>4, <1>5
<1> QED BY <1>1, <1>4, <1>5, <1>6, <1>7, <1>8, <1>9 DEF Lists, f

\* Calls about boards do what the contract says.
LEMMA BoardCallsKept == TypeOK /\ BoardCalls => Promise!Next
<1> SUFFICES ASSUME TypeOK, BoardCalls PROVE Promise!Next
  OBVIOUS
<1> USE SameKept DEF KeptPresence, KeptCache, Ans, Promise!Ans, Returns, Promise!Returns
<1>1. ASSUME NEW u \in Users, NEW n \in Counts, ListUserMatches(u, n) PROVE Promise!ListCalls
  <2>1. PICK r \in Sorted(CreatedOf(matches, u)) :
          Returns("ListUserMatches", << u, n >>, Limit(r, n)) /\ UNCHANGED dataVars
    BY <1>1 DEF ListUserMatches
  <2>2. /\ DOMAIN CreatedOf(matches, u) \subseteq MatchIds
        /\ \A id \in DOMAIN CreatedOf(matches, u) : CreatedOf(matches, u)[id] \in Int
    BY StoreAssumption DEF CreatedOf, TypeOK, Match
  <2>3. Limit(r, n) \in Listings(MatchIds) /\ Lists(Limit(r, n), CreatedOf(matches, u), n)
    BY <2>2, LimitLists, StoreAssumption
  <2>4. Promise!ListUserMatches(u, n, Limit(r, n))
    BY <2>1, <2>3 DEF Promise!ListUserMatches, Lists, Promise!Lists, CreatedOf, Promise!CreatedOf
  <2>5. Limit(r, n) \in Promise!Listings(MatchIds)
    BY <2>3 DEF Listings, Promise!Listings, Cardinality, Promise!Cardinality
  <2> QED BY <2>4, <2>5 DEF Promise!ListCalls
<1>2. ASSUME NEW b \in Boards, NEW n \in Counts, TopN(b, n) PROVE Promise!ListCalls
  <2> DEFINE key == Entries(leaderboards[b])
  <2>1. PICK r \in Sorted(key) :
          /\ Returns("TopN", << b, n >>, Ranks(leaderboards[b], Limit(r, n)))
          /\ UNCHANGED dataVars
    BY <1>2 DEF TopN
  <2>2. DOMAIN key \subseteq Users /\ \A u \in DOMAIN key : key[u] \in Int
    <3>1. leaderboards[b] \in [Users -> Scores \union {None}]
      BY DEF TypeOK
    <3>2. DOMAIN key \subseteq Users /\ \A u \in DOMAIN key : leaderboards[b][u] # None
      BY DEF Entries
    <3>3. \A u \in DOMAIN key : key[u] = leaderboards[b][u]
      BY DEF Entries
    <3>4. \A u \in DOMAIN key : key[u] \in Scores
      BY <3>1, <3>2, <3>3
    <3>5. Scores \subseteq Int
      BY StoreAssumption
    <3> QED BY <3>2, <3>4, <3>5
  <2>3. Limit(r, n) \in Listings(Users) /\ Lists(Limit(r, n), key, n)
    BY <2>2, LimitLists, StoreAssumption
  <2>4. Promise!TopN(b, n, Limit(r, n))
    BY <2>1, <2>3 DEF Promise!TopN, Lists, Promise!Lists, Entries, Promise!Entries, Ranks, Promise!Ranks
  <2>5. Limit(r, n) \in Promise!Listings(Users)
    BY <2>3 DEF Listings, Promise!Listings, Cardinality, Promise!Cardinality
  <2> QED BY <2>4, <2>5 DEF Promise!ListCalls
<1>3. ASSUME NEW b \in Boards, NEW u \in Users, NEW score \in Scores, SubmitScore(b, u, score)
      PROVE  Promise!SubmitScore(b, u, score)
  <2>1. leaderboards[b][u] \in Int \union {None} /\ score \in Int
    <3>1. leaderboards[b] \in [Users -> Scores \union {None}] /\ Scores \subseteq Int
      BY StoreAssumption DEF TypeOK
    <3> QED BY <3>1
  <2>2. MaxScore(leaderboards[b][u], score)
          = IF leaderboards[b][u] # None /\ leaderboards[b][u] >= score
            THEN leaderboards[b][u] ELSE score
    BY <2>1 DEF MaxScore
  <2>3. leaderboards' = [leaderboards EXCEPT ![b][u] =
                           IF @ # None /\ @ >= score THEN @ ELSE score]
    BY <1>3, <2>2 DEF SubmitScore
  <2> QED BY <1>3, <2>3 DEF SubmitScore, Promise!SubmitScore
<1> QED BY <1>1, <1>2, <1>3 DEF BoardCalls, Promise!Next

\* Calls about presence and cache do what the contract says.
LEMMA TtlCallsKept == TypeOK /\ TtlCalls => Promise!Next \/ UNCHANGED Promise!vars
<1> SUFFICES ASSUME TypeOK, TtlCalls PROVE Promise!Next \/ UNCHANGED Promise!vars
  OBVIOUS
<1> USE SameKept, StoreAssumption DEF Ans, Promise!Ans, Returns, Promise!Returns
<1>0. now \in Nat
  BY DEF TypeOK, Times
<1>1. ASSUME NEW u \in Users, IsOnline(u)
      PROVE  \E is \in {<< >>, << u >>} : Promise!IsOnline(u, is)
  <2> DEFINE found == presence[u] # None /\ NotExpired(presence[u])
             is == IF found THEN << u >> ELSE << >>
  <2>1. presence[u] \in Nat \union {None}
    BY DEF TypeOK
  <2>2. \/ is = << u >> /\ KeptPresence[u] # None
        \/ is = << >> /\ Promise!Absent(KeptPresence[u], KeptPresence[u])
    BY <2>1, <1>0 DEF KeptPresence, LeftAt, NotExpired, Promise!Absent
  <2>3. answer' \in {Ans("IsOnline", << u >>, is), Error}
    BY <1>1 DEF IsOnline
  <2> HIDE DEF is
  <2>4. Promise!IsOnline(u, is)
    BY <1>1, <2>2, <2>3 DEF IsOnline, Promise!IsOnline, KeptPresence, KeptCache
  <2> QED BY <2>2, <2>4
<1>2. ASSUME NEW u \in Users, NEW ttl \in Ttls, MarkOnline(u, ttl) PROVE Promise!MarkOnline(u, ttl)
  <2>1. LeftAt(now + ttl, now + ttl, now) = now + ttl
    BY <1>0 DEF LeftAt
  <2>2. KeptPresence' = [KeptPresence EXCEPT ![u] = now + ttl]
    BY <1>2, <2>1 DEF MarkOnline, Returns, KeptPresence, TypeOK
  <2> QED BY <1>2, <2>2 DEF MarkOnline, Promise!MarkOnline, KeptPresence, KeptCache
<1>3. ASSUME NEW k \in CacheKeys, CacheGet(k)
      PROVE  \E hit \in {<< >>} \union {<< val >> : val \in Values} : Promise!CacheGet(k, hit)
  <2> DEFINE found == cache[k] # None /\ (cache[k].expiry = None \/ NotExpired(cache[k].expiry))
             hit == IF found THEN << cache[k].val >> ELSE << >>
  <2>1. /\ cache[k] \in Cached \union {None}
        /\ Expiry(cache[k]) \in Nat \union {None}
        /\ cache[k] # None => Expiry(cache[k]) = cache[k].expiry /\ cache[k].val \in Values
    BY DEF TypeOK, Expiry, Cached
  <2>2. \/ /\ hit = << KeptCache[k].val >> /\ KeptCache[k] # None
           /\ KeptCache[k].val \in Values
        \/ hit = << >> /\ Promise!Absent(KeptCache[k], Expiry(KeptCache[k]))
    <3>1. CASE found
      <4>1. KeptCache[k] = cache[k]
        BY <3>1, <2>1, <1>0 DEF KeptCache, LeftAt, NotExpired
      <4> QED BY <3>1, <4>1, <2>1
    <3>2. CASE cache[k] # None /\ ~found
      <4>1. Expiry(cache[k]) # None /\ Expiry(cache[k]) <= now
        BY <3>2, <2>1, <1>0 DEF NotExpired
      <4>2. KeptCache[k] = None \/ KeptCache[k] = cache[k]
        BY DEF KeptCache, LeftAt
      <4> QED BY <3>2, <4>1, <4>2 DEF Promise!Absent
    <3>3. CASE cache[k] = None
      <4>1. KeptCache[k] = None
        BY <3>3 DEF KeptCache, LeftAt
      <4> QED BY <3>3, <4>1 DEF Promise!Absent
    <3> QED BY <3>1, <3>2, <3>3
  <2>3. answer' \in {Ans("CacheGet", << k >>, hit), Error}
    BY <1>3 DEF CacheGet
  <2> HIDE DEF hit
  <2>4. Promise!CacheGet(k, hit)
    BY <1>3, <2>2, <2>3 DEF CacheGet, Promise!CacheGet, Promise!Expiry, Expiry, KeptPresence, KeptCache
  <2> QED BY <2>2, <2>4
<1>4. ASSUME NEW k \in CacheKeys, NEW val \in Values, NEW ttl \in Ttls, CacheSet(k, val, ttl)
      PROVE  Promise!CacheSet(k, val, ttl)
  <2> DEFINE entry == [val |-> val, expiry |-> IF ttl > 0 THEN now + ttl ELSE None]
  <2>1. entry # None /\ entry.expiry \in Nat \union {None}
    BY <1>0 DEF Cached
  <2>2. LeftAt(entry, Expiry(entry), now) = entry
    BY <2>1, <1>0 DEF LeftAt, Expiry
  <2>3. KeptCache' = [KeptCache EXCEPT ![k] = entry]
    BY <1>4, <2>2 DEF CacheSet, NewExpiry, Returns, KeptCache, TypeOK
  <2> QED BY <1>4, <2>3 DEF CacheSet, Promise!CacheSet, KeptPresence, KeptCache
<1>5. ASSUME NEW u \in Users, PurgePresence(u) PROVE Promise!Lapse \/ UNCHANGED Promise!vars
  <2>1. presence[u] \in Nat /\ presence[u] <= now /\ None \notin Nat
    BY <1>5 DEF PurgePresence, TypeOK
  <2>2. KeptPresence' = [KeptPresence EXCEPT ![u] = None]
    BY <1>5, <2>1 DEF PurgePresence, KeptPresence, LeftAt, TypeOK
  <2>3. CASE presence[u] = now
    <3>1. KeptPresence[u] = now
      BY <2>1, <2>3, <1>0 DEF KeptPresence, LeftAt
    <3> QED BY <1>5, <2>2, <3>1 DEF PurgePresence, Promise!Lapse, KeptPresence, KeptCache
  <2>4. CASE presence[u] # now
    <3>1. KeptPresence[u] = None
      BY <2>1, <2>4, <1>0 DEF KeptPresence, LeftAt
    <3>2. KeptPresence' = KeptPresence
      BY <2>2, <3>1 DEF KeptPresence
    <3> QED BY <1>5, <3>2 DEF PurgePresence, Promise!vars, KeptPresence, KeptCache
  <2> QED BY <2>3, <2>4
<1>6. ASSUME NEW k \in CacheKeys, PurgeCache(k) PROVE Promise!Lapse \/ UNCHANGED Promise!vars
  <2>1. Expiry(cache[k]) \in Nat /\ Expiry(cache[k]) <= now /\ Expiry(None) = None
    BY <1>6 DEF PurgeCache, TypeOK, Expiry, Cached
  <2>2. KeptCache' = [KeptCache EXCEPT ![k] = None]
    BY <1>6, <2>1 DEF PurgeCache, KeptCache, LeftAt, TypeOK
  <2>3. CASE Expiry(cache[k]) = now
    <3>1. Expiry(KeptCache[k]) = now
      BY <2>1, <2>3, <1>0 DEF KeptCache, LeftAt
    <3> QED BY <1>6, <2>2, <3>1 DEF PurgeCache, Promise!Lapse, Promise!Expiry, Expiry,
               KeptPresence, KeptCache
  <2>4. CASE Expiry(cache[k]) # now
    <3>1. KeptCache[k] = None
      BY <2>1, <2>4, <1>0 DEF KeptCache, LeftAt
    <3>2. KeptCache' = KeptCache
      BY <2>2, <3>1 DEF KeptCache
    <3> QED BY <1>6, <3>2 DEF PurgeCache, Promise!vars, KeptPresence, KeptCache
  <2> QED BY <2>3, <2>4
<1> QED BY <1>1, <1>2, <1>3, <1>4, <1>5, <1>6 DEF TtlCalls, Promise!TtlCalls, Promise!Next

\* Time passes alike.
LEMMA TickKept == TypeOK /\ Tick => Promise!Tick
<1> SUFFICES ASSUME TypeOK, Tick PROVE Promise!Tick
  OBVIOUS
<1>1. now \in Nat /\ now' = now + 1 /\ now < MaxTime
  BY DEF TypeOK, Times, Tick
<1>2. KeptPresence' = [u \in Users |-> LeftAt(KeptPresence[u], KeptPresence[u], now')]
  <2>1. ASSUME NEW u \in Users
        PROVE  LeftAt(presence[u], presence[u], now')
                 = LeftAt(KeptPresence[u], KeptPresence[u], now')
    BY <1>1, StoreAssumption DEF KeptPresence, TypeOK, LeftAt
  <2> QED BY <2>1 DEF KeptPresence, Tick
<1>3. KeptCache' = [k \in CacheKeys |-> LeftAt(KeptCache[k], Expiry(KeptCache[k]), now')]
  <2>1. ASSUME NEW k \in CacheKeys
        PROVE  LeftAt(cache[k], Expiry(cache[k]), now')
                 = LeftAt(KeptCache[k], Expiry(KeptCache[k]), now')
    BY <1>1, StoreAssumption DEF KeptCache, TypeOK, LeftAt, Expiry, Cached
  <2> QED BY <2>1 DEF KeptCache, Tick
<1> QED BY <1>1, <1>2, <1>3 DEF Tick, Promise!Tick, KeptPresence, KeptCache,
             LeftAt, Promise!LeftAt, Expiry, Promise!Expiry

\* Every step is one the contract allows.
LEMMA StepKept == TypeOK /\ [Next]_vars => [Promise!Next]_(Promise!vars)
<1> SUFFICES ASSUME TypeOK, [Next]_vars PROVE [Promise!Next]_(Promise!vars)
  OBVIOUS
<1> USE SameKept DEF KeptPresence, KeptCache, Ans, Promise!Ans
<1>1. CASE Ping
  BY <1>1 DEF Ping, Returns, Promise!Next, Promise!Ping, Promise!Returns
<1>2. CASE Close
  BY <1>2 DEF Close, Promise!Next, Promise!Close
<1>3. CASE Refused
  BY <1>3 DEF Refused, Promise!Next, Promise!Refused
<1>4. CASE UNCHANGED vars
  BY <1>4 DEF vars, Promise!vars
<1>5. CASE Tick
  BY <1>5, TickKept DEF Promise!Next
<1>6. CASE Fails
  BY <1>6 DEF Fails, Promise!Next, Promise!Fails
<1> QED BY <1>1, <1>2, <1>3, <1>4, <1>5, <1>6, UserCallsKept, DocCallsKept, BoardCallsKept,
           TtlCallsKept DEF Next

\* MongoDB is a store.Store: each of its steps is the contract's, or changes
\* nothing of what the contract speaks about.
THEOREM MongoStoreIsAStore == Spec => IsAStore
<1>1. Init => Promise!Init
  BY InitKept
<1>2. TypeOK /\ [Next]_vars => [Promise!Next]_(Promise!vars)
  BY StepKept
<1> QED BY <1>1, <1>2, MongoStoreTypeCorrect, PTL DEF Spec, IsAStore, Promise!Spec
=============================================================================
