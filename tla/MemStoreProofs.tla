--------------------------- MODULE MemStoreProofs ---------------------------
(***************************************************************************)
(* The in-memory backend implements the contract of the data layer.  The   *)
(* two keep the same documents; an entry that has expired is gone in the   *)
(* contract and, in memstore, still there until it is next asked for.      *)
(***************************************************************************)
EXTENDS MemStore, FiniteSetTheorems, TLAPS

\* What the contract keeps in place of presence and cache.
KeptPresence == [u \in Users |-> LeftAt(presence[u], presence[u], now)]
KeptCache    == [k \in CacheKeys |-> LeftAt(cache[k], Expiry(cache[k]), now)]

\* What a call that leaves a variable alone leaves alone in the contract.
USE DEF docVars, ttlVars, dataVars, Promise!docVars, Promise!ttlVars, Promise!dataVars

\* The initial state is well-typed.
LEMMA InitType == Init => TypeOK
<1> SUFFICES ASSUME Init PROVE TypeOK
  OBVIOUS
<1>1. now \in Times /\ closed \in BOOLEAN
  <2>1. 0 \in 0..MaxTime
    BY StoreAssumption
  <2>2. closed \in BOOLEAN
    BY DEF Init
  <2> QED BY <2>1, <2>2 DEF Init, Times
<1>2. /\ users \in [Users -> User \union {None}]
      /\ puzzles \in [Dates -> Docs \union {None}]
      /\ attempts \in [Users \X Dates -> Docs \union {None}]
      /\ matches \in [MatchIds -> Matches \union {None}]
  BY DEF Init
<1>3. leaderboards \in [Boards -> [Users -> Scores \union {None}]]
  BY DEF Init
<1>4. presence \in [Users -> Nat \union {None}] /\ cache \in [CacheKeys -> Cached \union {None}]
  BY DEF Init
<1> QED BY <1>1, <1>2, <1>3, <1>4 DEF TypeOK

\* Calls about users keep the types.
LEMMA UserCallsType == TypeOK /\ UserCalls => TypeOK'
<1> SUFFICES ASSUME TypeOK, NEW u \in Users,
                    \/ GetUser(u)
                    \/ \E p \in Profiles : UpsertUserOnFirstAuth(u, p)
                    \/ \E at \in Times : TouchLastSeen(u, at)
             PROVE  TypeOK'
  BY DEF UserCalls
<1> USE DEF TypeOK
<1>1. CASE GetUser(u)
  BY <1>1 DEF GetUser, Finds
<1>2. ASSUME NEW p \in Profiles, UpsertUserOnFirstAuth(u, p) PROVE TypeOK'
  <2>1. Stamped(u, p) \in User
    <3>1. users[u] \in User \union {None} /\ now \in Times
      OBVIOUS
    <3>2. CASE users[u] = None
      BY <3>1, <3>2 DEF Stamped, User
    <3>3. CASE users[u] # None
      <4>1. users[u] \in User
        BY <3>1, <3>3
      <4>2. [users[u] EXCEPT !.profile = p, !.lastSeen = now] \in User
        BY <3>1, <4>1 DEF User
      <4> QED BY <3>3, <4>2 DEF Stamped
    <3> QED BY <3>2, <3>3
  <2> QED BY <1>2, <2>1 DEF UpsertUserOnFirstAuth, Returns
<1>3. ASSUME NEW at \in Times, TouchLastSeen(u, at) PROVE TypeOK'
  <2>1. CASE users[u] = None
    BY <1>3, <2>1 DEF TouchLastSeen, Finds
  <2>2. CASE users[u] # None
    <3>1. users[u] \in User
      BY <2>2
    <3>2. [users[u] EXCEPT !.lastSeen = at] \in User
      BY <3>1 DEF User
    <3>3. users' = [users EXCEPT ![u] = [users[u] EXCEPT !.lastSeen = at]]
      BY <1>3, <2>2 DEF TouchLastSeen
    <3> QED BY <1>3, <2>2, <3>2, <3>3 DEF TouchLastSeen, Returns
  <2> QED BY <2>1, <2>2
<1> QED BY <1>1, <1>2, <1>3

\* Calls about documents keep the types.
LEMMA DocCallsType == TypeOK /\ DocCalls => TypeOK'
<1> SUFFICES ASSUME TypeOK, DocCalls PROVE TypeOK'
  OBVIOUS
<1> USE DEF TypeOK, Finds, Returns
<1>1. ASSUME NEW d \in Dates, GetPuzzle(d) PROVE TypeOK'
  BY <1>1 DEF GetPuzzle
<1>2. ASSUME NEW d \in Dates, NEW doc \in Docs, PutPuzzle(d, doc) PROVE TypeOK'
  BY <1>2 DEF PutPuzzle
<1>3. ASSUME NEW u \in Users, NEW d \in Dates, GetAttempt(u, d) PROVE TypeOK'
  BY <1>3 DEF GetAttempt
<1>4. ASSUME NEW u \in Users, NEW d \in Dates, NEW doc \in Docs, UpsertAttempt(u, d, doc)
      PROVE  TypeOK'
  BY <1>4 DEF UpsertAttempt
<1>5. ASSUME NEW id \in MatchIds, GetMatch(id) PROVE TypeOK'
  BY <1>5 DEF GetMatch
<1>6. ASSUME NEW id \in MatchIds, NEW doc \in Matches, UpsertMatch(id, doc) PROVE TypeOK'
  BY <1>6 DEF UpsertMatch
<1> QED BY <1>1, <1>2, <1>3, <1>4, <1>5, <1>6 DEF DocCalls

\* Calls about boards keep the types.
LEMMA BoardCallsType == TypeOK /\ BoardCalls => TypeOK'
<1> SUFFICES ASSUME TypeOK, BoardCalls PROVE TypeOK'
  OBVIOUS
<1> USE DEF TypeOK, Returns
<1>1. ASSUME NEW u \in Users, NEW n \in Counts, ListUserMatches(u, n) PROVE TypeOK'
  BY <1>1 DEF ListUserMatches
<1>2. ASSUME NEW b \in Boards, NEW n \in Counts, TopN(b, n) PROVE TypeOK'
  BY <1>2 DEF TopN
<1>3. ASSUME NEW b \in Boards, NEW u \in Users, NEW score \in Scores, SubmitScore(b, u, score)
      PROVE  TypeOK'
  BY <1>3 DEF SubmitScore, Higher
<1> QED BY <1>1, <1>2, <1>3 DEF BoardCalls

\* Calls about presence and cache keep the types.
LEMMA TtlCallsType == TypeOK /\ TtlCalls => TypeOK'
<1> SUFFICES ASSUME TypeOK, TtlCalls PROVE TypeOK'
  OBVIOUS
<1> USE StoreAssumption DEF TypeOK, Returns, Times
<1>1. ASSUME NEW u \in Users, IsOnline(u) PROVE TypeOK'
  BY <1>1 DEF IsOnline
<1>2. ASSUME NEW u \in Users, NEW ttl \in Ttls, MarkOnline(u, ttl) PROVE TypeOK'
  BY <1>2 DEF MarkOnline
<1>3. ASSUME NEW k \in CacheKeys, CacheGet(k) PROVE TypeOK'
  BY <1>3 DEF CacheGet
<1>4. ASSUME NEW k \in CacheKeys, NEW val \in Values, NEW ttl \in Ttls, CacheSet(k, val, ttl)
      PROVE  TypeOK'
  <2>1. [val |-> val, expiry |-> IF ttl > 0 THEN now + ttl ELSE None] \in Cached
    <3>1. now + ttl \in Nat
      OBVIOUS
    <3> QED BY <3>1 DEF Cached
  <2> QED BY <1>4, <2>1 DEF CacheSet
<1> QED BY <1>1, <1>2, <1>3, <1>4 DEF TtlCalls

\* Every step keeps the types.
LEMMA NextType == TypeOK /\ [Next]_vars => TypeOK'
<1> SUFFICES ASSUME TypeOK, [Next]_vars PROVE TypeOK'
  OBVIOUS
<1>1. CASE Tick        BY <1>1, StoreAssumption DEF Tick, TypeOK, Times
<1>2. CASE Ping        BY <1>2 DEF Ping, Returns, TypeOK
<1>3. CASE Close       BY <1>3 DEF Close, TypeOK
<1>4. CASE Refused     BY <1>4 DEF Refused, TypeOK
<1>5. CASE UNCHANGED vars  BY <1>5 DEF vars, TypeOK
<1> QED BY <1>1, <1>2, <1>3, <1>4, <1>5, UserCallsType, DocCallsType, BoardCallsType,
           TtlCallsType DEF Next

\* Every collection of memstore keeps documents of its kind.
THEOREM MemStoreTypeCorrect == Spec => []TypeOK
<1>1. Init => TypeOK
  BY InitType
<1>2. TypeOK /\ [Next]_vars => TypeOK'
  BY NextType
<1> QED BY <1>1, <1>2, PTL DEF Spec
-----------------------------------------------------------------------------
\* An empty store is the empty store of the contract.
LEMMA InitKept == Init => Promise!Init
BY StoreAssumption DEF Init, Promise!Init, LeftAt, Expiry

\* A step that changes neither the entries nor the time changes nothing of what
\* is kept of them.
LEMMA SameKept ==
  /\ UNCHANGED << presence, now >> => UNCHANGED KeptPresence
  /\ UNCHANGED << cache, now >> => UNCHANGED KeptCache
BY DEF KeptPresence, KeptCache

\* Calls about users do what the contract says.
LEMMA UserCallsKept == TypeOK /\ UserCalls => Promise!Next
<1> SUFFICES ASSUME TypeOK, NEW u \in Users,
                    \/ GetUser(u)
                    \/ \E p \in Profiles : UpsertUserOnFirstAuth(u, p)
                    \/ \E at \in Times : TouchLastSeen(u, at)
             PROVE  Promise!UserCalls
  BY DEF UserCalls, Promise!Next
<1> USE SameKept DEF KeptPresence, KeptCache, Ans, Promise!Ans
<1>1. ASSUME GetUser(u) PROVE Promise!GetUser(u)
  BY <1>1 DEF GetUser, Finds, Promise!GetUser, Promise!Finds
<1>2. ASSUME NEW p \in Profiles, UpsertUserOnFirstAuth(u, p)
      PROVE  Promise!UpsertUserOnFirstAuth(u, p, now)
  <2> DEFINE doc == [profile |-> p, lastSeen |-> now,
                     createdAt |-> IF users[u] = None THEN now ELSE users[u].createdAt]
  <2>1. users[u] # None => users[u] \in User
    BY DEF TypeOK
  <2>2. Stamped(u, p) = doc
    BY <2>1 DEF Stamped, User
  <2>3. users' = [users EXCEPT ![u] = doc] /\ users'[u] = doc
    BY <1>2, <2>2 DEF UpsertUserOnFirstAuth, TypeOK
  <2>4. now <= now
    BY DEF TypeOK, Times
  <2> HIDE DEF doc
  <2>5. users' = [users EXCEPT ![u] = doc] /\ answer' = Ans("UpsertUserOnFirstAuth", << u, p >>, << users'[u] >>)
    BY <1>2, <2>2, <2>3 DEF UpsertUserOnFirstAuth, Returns
  <2> QED BY <1>2, <2>3, <2>4, <2>5 DEF doc, UpsertUserOnFirstAuth, Returns,
             Promise!UpsertUserOnFirstAuth, Promise!Returns
<1>3. ASSUME NEW at \in Times, TouchLastSeen(u, at)
      PROVE  Promise!TouchLastSeen(u, at) \/ Promise!TouchNobody(u)
  <2>1. CASE users[u] = None
    BY <1>3, <2>1 DEF TouchLastSeen, Finds, Promise!TouchNobody
  <2>2. CASE users[u] # None
    BY <1>3, <2>2 DEF TouchLastSeen, Returns, Promise!TouchLastSeen, Promise!Returns
  <2> QED BY <2>1, <2>2
<1>4. now \in Times
  BY DEF TypeOK
<1> QED BY <1>1, <1>2, <1>3, <1>4 DEF Promise!UserCalls, Promise!Times, Times

\* Calls about documents do what the contract says.
LEMMA DocCallsKept == DocCalls => Promise!Next
<1> SUFFICES ASSUME DocCalls PROVE Promise!DocCalls
  BY DEF Promise!Next
<1> USE SameKept DEF KeptPresence, KeptCache, Ans, Promise!Ans,
                     Finds, Promise!Finds, Returns, Promise!Returns
<1>1. ASSUME NEW d \in Dates, GetPuzzle(d) PROVE Promise!GetPuzzle(d)
  BY <1>1 DEF GetPuzzle, Promise!GetPuzzle
<1>2. ASSUME NEW d \in Dates, NEW doc \in Docs, PutPuzzle(d, doc) PROVE Promise!PutPuzzle(d, doc)
  BY <1>2 DEF PutPuzzle, Promise!PutPuzzle
<1>3. ASSUME NEW u \in Users, NEW d \in Dates, GetAttempt(u, d) PROVE Promise!GetAttempt(u, d)
  BY <1>3 DEF GetAttempt, Promise!GetAttempt
<1>4. ASSUME NEW u \in Users, NEW d \in Dates, NEW doc \in Docs, UpsertAttempt(u, d, doc)
      PROVE  Promise!UpsertAttempt(u, d, doc)
  BY <1>4 DEF UpsertAttempt, Promise!UpsertAttempt
<1>5. ASSUME NEW id \in MatchIds, GetMatch(id) PROVE Promise!GetMatch(id)
  BY <1>5 DEF GetMatch, Promise!GetMatch
<1>6. ASSUME NEW id \in MatchIds, NEW doc \in Matches, UpsertMatch(id, doc)
      PROVE  Promise!UpsertMatch(id, doc)
  BY <1>6 DEF UpsertMatch, Promise!UpsertMatch
<1> QED BY <1>1, <1>2, <1>3, <1>4, <1>5, <1>6 DEF DocCalls, Promise!DocCalls

\* A sorted list is a list, as long as the set at most.
LEMMA SortedLists ==
  ASSUME NEW S, IsFiniteSet(S), NEW key, DOMAIN key \subseteq S,
         NEW r \in Sorted(key)
  PROVE  /\ r \in Listings(S)
         /\ Len(r) \in Nat /\ DOMAIN r = 1..Len(r)
         /\ r \in Seq(DOMAIN key)
         /\ \A n \in Int : n <= 0 => Lists(r, key, n)
<1>1. /\ IsFiniteSet(DOMAIN key)
      /\ Cardinality(DOMAIN key) <= Cardinality(S)
      /\ Cardinality(DOMAIN key) \in Nat /\ Cardinality(S) \in Nat
  BY FS_Subset, FS_CardinalityType
<1> DEFINE c == Cardinality(DOMAIN key)
<1>2. r \in [1..c -> DOMAIN key]
  BY DEF Sorted
<1>3. Len(r) = c /\ DOMAIN r = 1..c /\ r \in Seq(DOMAIN key)
  BY <1>1, <1>2
<1>4. r \in Listings(S)
  BY <1>1, <1>2 DEF Listings
<1>5. \A n \in Int : n <= 0 => Lists(r, key, n)
  BY <1>3 DEF Lists, Sorted
<1> QED BY <1>1, <1>3, <1>4, <1>5

\* So is what a positive limit leaves of it.
LEMMA FirstLists ==
  ASSUME NEW S, IsFiniteSet(S), NEW key, DOMAIN key \subseteq S,
         \A d \in DOMAIN key : key[d] \in Int,
         NEW r \in Sorted(key), NEW n \in Int, n > 0
  PROVE  First(r, n) \in Listings(S) /\ Lists(First(r, n), key, n)
<1> DEFINE k == IF n < Len(r) THEN n ELSE Len(r)
           f == First(r, n)
<1>1. /\ Len(r) \in Nat /\ DOMAIN r = 1..Len(r) /\ r \in Seq(DOMAIN key)
      /\ Cardinality(S) \in Nat
  BY SortedLists, FS_CardinalityType
<1>2. Len(r) <= Cardinality(S)
  <2>1. DOMAIN r = 1..Cardinality(DOMAIN key) /\ Cardinality(DOMAIN key) \in Nat
        /\ Cardinality(DOMAIN key) <= Cardinality(S)
    BY FS_Subset, FS_CardinalityType DEF Sorted
  <2> QED BY <2>1, <1>1
<1>3. f \in Seq(DOMAIN key) /\ Len(f) = k /\ k \in Nat /\ k <= Len(r) /\ DOMAIN f = 1..k
      /\ \A i \in 1..k : f[i] = r[i]
  BY <1>1 DEF First
<1>4. f \in [1..k -> S] /\ k \in 0..Cardinality(S)
  BY <1>1, <1>2, <1>3
<1>5. f \in Listings(S)
  BY <1>4 DEF Listings
<1>6. /\ \A i, j \in 1..Len(r) : i < j => r[i] # r[j] /\ key[r[i]] >= key[r[j]]
      /\ \A d \in DOMAIN key : \E i \in 1..Len(r) : r[i] = d
  BY <1>1 DEF Sorted
<1>7. k <= n /\ (k < Len(r) => k = n)
  <2>1. CASE n < Len(r)       BY <2>1
  <2>2. CASE ~(n < Len(r))
    <3>1. Len(r) \in Nat           BY <1>1
    <3>2. k = Len(r)               BY <2>2
    <3>3. Len(r) <= n              BY <2>2, <3>1
    <3> QED BY <3>1, <3>2, <3>3
  <2> QED BY <2>1, <2>2
<1> HIDE DEF f, k
<1>8. \A i, j \in DOMAIN f : i < j => f[i] # f[j] /\ key[f[i]] >= key[f[j]]
  BY <1>1, <1>3, <1>6
<1>9. ASSUME NEW d \in DOMAIN key, \A i \in DOMAIN f : f[i] # d
      PROVE  Len(f) = n /\ \A i \in DOMAIN f : key[f[i]] >= key[d]
  <2>1. PICK j \in 1..Len(r) : r[j] = d
    BY <1>6
  <2>2. j > k
    BY <2>1, <1>1, <1>3, <1>9
  <2>3. \A i \in 1..k : key[r[i]] >= key[r[j]]
    BY <2>2, <1>1, <1>3, <1>6
  <2> QED BY <2>1, <2>2, <2>3, <1>1, <1>3, <1>7
<1>10. Lists(f, key, n)
  BY <1>3, <1>7, <1>8, <1>9 DEF Lists
<1> QED BY <1>5, <1>10 DEF f

\* A sorted list, cut or not, is a list of the contract.
LEMMA CutLists ==
  ASSUME NEW S, IsFiniteSet(S), NEW key, DOMAIN key \subseteq S,
         \A d \in DOMAIN key : key[d] \in Int, NEW r \in Sorted(key), NEW n \in Counts
  PROVE  Cut(r, n) \in Listings(S) /\ Lists(Cut(r, n), key, n)
<1>1. n \in Int
  BY StoreAssumption
<1>2. CASE n > 0
  BY <1>1, <1>2, FirstLists DEF Cut
<1>3. CASE ~(n > 0)
  <2>1. n <= 0
    BY <1>1, <1>3
  <2> QED BY <1>1, <1>3, <2>1, SortedLists DEF Cut
<1> QED BY <1>2, <1>3

\* Calls about boards do what the contract says.
LEMMA BoardCallsKept == TypeOK /\ BoardCalls => Promise!Next
<1> SUFFICES ASSUME TypeOK, BoardCalls PROVE Promise!Next
  OBVIOUS
<1> USE SameKept DEF KeptPresence, KeptCache, Ans, Promise!Ans, Returns, Promise!Returns
<1>1. ASSUME NEW u \in Users, NEW n \in Counts, ListUserMatches(u, n) PROVE Promise!ListCalls
  <2>1. PICK r \in Sorted(CreatedOf(matches, u)) :
          Returns("ListUserMatches", << u, n >>, Cut(r, n)) /\ UNCHANGED dataVars
    BY <1>1 DEF ListUserMatches
  <2>2. /\ DOMAIN CreatedOf(matches, u) \subseteq MatchIds
        /\ \A id \in DOMAIN CreatedOf(matches, u) : CreatedOf(matches, u)[id] \in Int
    BY StoreAssumption DEF CreatedOf, TypeOK, Match
  <2>3. Cut(r, n) \in Listings(MatchIds) /\ Lists(Cut(r, n), CreatedOf(matches, u), n)
    BY <2>2, CutLists, StoreAssumption
  <2>4. Promise!ListUserMatches(u, n, Cut(r, n))
    BY <2>1, <2>3 DEF Promise!ListUserMatches, Lists, Promise!Lists, CreatedOf, Promise!CreatedOf
  <2>5. Cut(r, n) \in Promise!Listings(MatchIds)
    BY <2>3 DEF Listings, Promise!Listings, Cardinality, Promise!Cardinality
  <2> QED BY <2>4, <2>5 DEF Promise!ListCalls
<1>2. ASSUME NEW b \in Boards, NEW n \in Counts, TopN(b, n) PROVE Promise!ListCalls
  <2> DEFINE key == Entries(leaderboards[b])
  <2>1. PICK r \in Sorted(key) :
          /\ Returns("TopN", << b, n >>, Ranks(leaderboards[b], Cut(r, n)))
          /\ UNCHANGED dataVars
    BY <1>2 DEF TopN
  <2>2. DOMAIN key \subseteq Users /\ \A u \in DOMAIN key : key[u] \in Int
    <3>1. leaderboards[b] \in [Users -> Scores \union {None}]
      BY DEF TypeOK
    <3>2. DOMAIN key \subseteq Users /\ \A u \in DOMAIN key : leaderboards[b][u] # None
      BY DEF Entries
    <3>3. \A u \in DOMAIN key : key[u] = leaderboards[b][u]
      BY DEF Entries
    <3>4. \A u \in DOMAIN key : key[u] \in Scores
      BY <3>1, <3>2, <3>3
    <3>5. Scores \subseteq Int
      BY StoreAssumption
    <3> QED BY <3>2, <3>4, <3>5
  <2>3. Cut(r, n) \in Listings(Users) /\ Lists(Cut(r, n), key, n)
    BY <2>2, CutLists, StoreAssumption
  <2>4. Promise!TopN(b, n, Cut(r, n))
    BY <2>1, <2>3 DEF Promise!TopN, Lists, Promise!Lists, Entries, Promise!Entries, Ranks, Promise!Ranks
  <2>5. Cut(r, n) \in Promise!Listings(Users)
    BY <2>3 DEF Listings, Promise!Listings, Cardinality, Promise!Cardinality
  <2> QED BY <2>4, <2>5 DEF Promise!ListCalls
<1>3. ASSUME NEW b \in Boards, NEW u \in Users, NEW score \in Scores, SubmitScore(b, u, score)
      PROVE  Promise!SubmitScore(b, u, score)
  BY <1>3 DEF SubmitScore, Higher, Promise!SubmitScore
<1> QED BY <1>1, <1>2, <1>3 DEF BoardCalls, Promise!Next

\* Calls about presence and cache do what the contract says.
LEMMA TtlCallsKept == TypeOK /\ TtlCalls => Promise!Next
<1> SUFFICES ASSUME TypeOK, TtlCalls PROVE Promise!TtlCalls
  BY DEF Promise!Next
<1> USE SameKept, StoreAssumption DEF Ans, Promise!Ans, Returns, Promise!Returns
<1>0. now \in Nat
  BY DEF TypeOK, Times
<1>1. ASSUME NEW u \in Users, IsOnline(u)
      PROVE  \E is \in {<< >>, << u >>} : Promise!IsOnline(u, is)
  <2> DEFINE gone == presence[u] = None \/ Past(presence[u])
             is == IF gone THEN << >> ELSE << u >>
  <2>1. presence[u] \in Nat \union {None}
    BY DEF TypeOK
  <2>2. KeptPresence[u] = IF gone THEN None ELSE presence[u]
    BY <2>1, <1>0 DEF KeptPresence, LeftAt, Past
  <2>3. KeptPresence' = KeptPresence
    BY <1>1, <2>1, <1>0 DEF IsOnline, KeptPresence, LeftAt, Past, TypeOK
  <2>4. \/ is = << u >> /\ KeptPresence[u] # None
        \/ is = << >> /\ KeptPresence[u] = None
    BY <2>1, <2>2
  <2>5. Promise!IsOnline(u, is)
    BY <1>1, <2>3, <2>4 DEF IsOnline, Promise!IsOnline, Promise!Absent, KeptPresence, KeptCache
  <2> QED BY <2>5
<1>2. ASSUME NEW u \in Users, NEW ttl \in Ttls, MarkOnline(u, ttl) PROVE Promise!MarkOnline(u, ttl)
  <2>1. LeftAt(now + ttl, now + ttl, now) = now + ttl
    BY <1>0 DEF LeftAt
  <2>2. KeptPresence' = [KeptPresence EXCEPT ![u] = now + ttl]
    BY <1>2, <2>1 DEF MarkOnline, Returns, KeptPresence, TypeOK
  <2> QED BY <1>2, <2>2 DEF MarkOnline, Promise!MarkOnline, KeptPresence, KeptCache
<1>3. ASSUME NEW k \in CacheKeys, CacheGet(k)
      PROVE  \E hit \in {<< >>} \union {<< val >> : val \in Values} : Promise!CacheGet(k, hit)
  <2> DEFINE gone == cache[k] = None \/ Past(Expiry(cache[k]))
             hit == IF gone THEN << >> ELSE << cache[k].val >>
  <2>1. cache[k] \in Cached \union {None} /\ Expiry(cache[k]) \in Nat \union {None}
    BY DEF TypeOK, Expiry, Cached
  <2>2. KeptCache[k] = IF gone THEN None ELSE cache[k]
    BY <2>1, <1>0 DEF KeptCache, LeftAt, Past, Expiry
  <2>3. KeptCache' = KeptCache
    BY <1>3, <2>1, <1>0 DEF CacheGet, KeptCache, LeftAt, Past, Expiry, TypeOK
  <2>4. \/ hit = << KeptCache[k].val >> /\ KeptCache[k] # None /\ KeptCache[k].val \in Values
        \/ hit = << >> /\ KeptCache[k] = None
    BY <2>1, <2>2 DEF Cached
  <2>5. answer' = Ans("CacheGet", << k >>, hit) /\ ~closed /\ UNCHANGED << now, closed >>
    BY <1>3 DEF CacheGet
  <2> HIDE DEF hit
  <2>6. Promise!CacheGet(k, hit)
    BY <1>3, <2>3, <2>4, <2>5 DEF CacheGet, Promise!CacheGet, Promise!Absent, KeptPresence, KeptCache
  <2> QED BY <2>4, <2>6
<1>4. ASSUME NEW k \in CacheKeys, NEW val \in Values, NEW ttl \in Ttls, CacheSet(k, val, ttl)
      PROVE  Promise!CacheSet(k, val, ttl)
  <2> DEFINE entry == [val |-> val, expiry |-> IF ttl > 0 THEN now + ttl ELSE None]
  <2>1. entry # None /\ entry.expiry \in Nat \union {None}
    BY <1>0 DEF Cached
  <2>2. LeftAt(entry, Expiry(entry), now) = entry
    <3>1. ttl > 0 => entry.expiry = now + ttl
      OBVIOUS
    <3>2. ~(ttl > 0) => entry.expiry = None
      OBVIOUS
    <3>3. Expiry(entry) = entry.expiry
      BY <2>1 DEF Expiry
    <3>4. ~(entry.expiry # None /\ entry.expiry < now)
      BY <3>1, <3>2, <1>0
    <3> QED BY <3>3, <3>4, Zenon DEF LeftAt
  <2>3. KeptCache' = [KeptCache EXCEPT ![k] = entry]
    BY <1>4, <2>2 DEF CacheSet, Returns, KeptCache, TypeOK
  <2> QED BY <1>4, <2>3 DEF CacheSet, Promise!CacheSet, KeptPresence, KeptCache
<1> QED BY <1>1, <1>2, <1>3, <1>4 DEF TtlCalls, Promise!TtlCalls

\* Time passes alike.
LEMMA TickKept == TypeOK /\ Tick => Promise!Tick
<1> SUFFICES ASSUME TypeOK, Tick PROVE Promise!Tick
  OBVIOUS
<1>1. now \in Nat /\ now' = now + 1 /\ now < MaxTime
  BY DEF TypeOK, Times, Tick
<1>2. KeptPresence' = [u \in Users |-> LeftAt(KeptPresence[u], KeptPresence[u], now')]
  <2>1. ASSUME NEW u \in Users
        PROVE  LeftAt(presence[u], presence[u], now')
                 = LeftAt(KeptPresence[u], KeptPresence[u], now')
    BY <1>1, StoreAssumption DEF KeptPresence, TypeOK, LeftAt
  <2> QED BY <2>1 DEF KeptPresence, Tick
<1>3. KeptCache' = [k \in CacheKeys |-> LeftAt(KeptCache[k], Expiry(KeptCache[k]), now')]
  <2>1. ASSUME NEW k \in CacheKeys
        PROVE  LeftAt(cache[k], Expiry(cache[k]), now')
                 = LeftAt(KeptCache[k], Expiry(KeptCache[k]), now')
    BY <1>1, StoreAssumption DEF KeptCache, TypeOK, LeftAt, Expiry, Cached
  <2> QED BY <2>1 DEF KeptCache, Tick
<1> QED BY <1>1, <1>2, <1>3 DEF Tick, Promise!Tick, KeptPresence, KeptCache,
             LeftAt, Promise!LeftAt, Expiry, Promise!Expiry

\* Every step is one the contract allows.
LEMMA StepKept == TypeOK /\ [Next]_vars => [Promise!Next]_(Promise!vars)
<1> SUFFICES ASSUME TypeOK, [Next]_vars PROVE [Promise!Next]_(Promise!vars)
  OBVIOUS
<1> USE SameKept DEF KeptPresence, KeptCache, Ans, Promise!Ans
<1>1. CASE Ping
  BY <1>1 DEF Ping, Returns, Promise!Next, Promise!Ping, Promise!Returns
<1>2. CASE Close
  BY <1>2 DEF Close, Promise!Next, Promise!Close
<1>3. CASE Refused
  BY <1>3 DEF Refused, Promise!Next, Promise!Refused
<1>4. CASE UNCHANGED vars
  BY <1>4 DEF vars, Promise!vars
<1>5. CASE Tick
  BY <1>5, TickKept DEF Promise!Next
<1> QED BY <1>1, <1>2, <1>3, <1>4, <1>5, UserCallsKept, DocCallsKept, BoardCallsKept,
           TtlCallsKept DEF Next

\* memstore is a store.Store: each of its steps is the contract's, or changes
\* nothing of what the contract speaks about.
THEOREM MemStoreIsAStore == Spec => IsAStore
<1>1. Init => Promise!Init
  BY InitKept
<1>2. TypeOK /\ [Next]_vars => [Promise!Next]_(Promise!vars)
  BY StepKept
<1> QED BY <1>1, <1>2, MemStoreTypeCorrect, PTL DEF Spec, IsAStore, Promise!Spec
=============================================================================
