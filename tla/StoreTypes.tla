----------------------------- MODULE StoreTypes -----------------------------
(***************************************************************************)
(* What the data layer keeps and answers (server/internal/store/store.go), *)
(* shared by its contract (Store) and by the two backends (MemStore and    *)
(* MongoStore).  A uid is a number, its rank among the uids in the order   *)
(* of strings; times are numbers too.  A document whose content no caller  *)
(* of the store looks into is a value.                                     *)
(***************************************************************************)
EXTENDS Integers, FiniteSets, Sequences

CONSTANTS
  Users,        \* uids
  Profiles,     \* email, display name and provider of a verified token
  Dates,        \* puzzle dates
  Docs,         \* contents of puzzles and attempts
  MatchIds, Matches,  \* IDs and contents of matches
  Boards, Scores,     \* leaderboards, and the scores submitted to them
  CacheKeys, Values,
  Ttls,         \* times to live callers ask for
  Counts,       \* the n callers ask for in TopN and ListUserMatches
  MaxTime,      \* bound on the time that passes
  None,         \* no such document, no expiry
  Error, ErrNotFound, ErrClosed

Times == 0..MaxTime
Match == [players : SUBSET Users, createdAt : Nat]
User  == [profile : Profiles, createdAt : Times, lastSeen : Times]
Cached == [val : Values, expiry : Nat \union {None}]

ASSUME StoreAssumption ==
  /\ MaxTime \in Nat
  /\ Users \subseteq Nat /\ IsFiniteSet(Users)
  /\ Scores \subseteq Nat
  /\ Ttls \subseteq Nat /\ Counts \subseteq Int
  /\ Matches \subseteq Match /\ IsFiniteSet(MatchIds)
  /\ None \notin Nat \union Docs \union Matches \union User \union Cached

\* A call's answer names the call, so that an answer tells which call it is of.
Ans(op, arg, res) == [op |-> op, arg |-> arg, res |-> res]

\* The orders of the whole domain of key in which key descends.
Sorted(key) ==
  {r \in [1..Cardinality(DOMAIN key) -> DOMAIN key] :
     /\ \A i, j \in DOMAIN r : i < j => r[i] # r[j] /\ key[r[i]] >= key[r[j]]
     /\ \A d \in DOMAIN key : \E i \in DOMAIN r : r[i] = d}

\* r lists members of key's domain once each, the greatest first, n of them or
\* all there are, and leaves nobody out who is greater than one it names.
Lists(r, key, n) ==
  /\ r \in Seq(DOMAIN key)
  /\ n > 0 => Len(r) <= n
  /\ \A i, j \in DOMAIN r : i < j => r[i] # r[j] /\ key[r[i]] >= key[r[j]]
  /\ \A d \in DOMAIN key :
       \/ \E i \in DOMAIN r : r[i] = d
       \/ n > 0 /\ Len(r) = n /\ \A i \in DOMAIN r : key[r[i]] >= key[d]
       \/ n <= 0 /\ r = << >>

\* Lists as long as S at most.
Listings(S) == UNION {[1..k -> S] : k \in 0..Cardinality(S)}

First(r, n) == SubSeq(r, 1, IF n < Len(r) THEN n ELSE Len(r))

\* The scores on a board, and when the matches of a player were created.
Entries(board) == [u \in {v \in Users : board[v] # None} |-> board[u]]
CreatedOf(ms, u) ==
  [id \in {i \in MatchIds : ms[i] # None /\ u \in ms[i].players} |-> ms[id].createdAt]

Ranks(board, r) == [i \in DOMAIN r |-> [uid |-> r[i], score |-> board[r[i]]]]

\* The instant at which an entry of the cache expires, or None.
Expiry(entry) == IF entry = None THEN None ELSE entry.expiry

\* What is left of an entry at the time t.
LeftAt(entry, expiry, t) == IF expiry # None /\ expiry < t THEN None ELSE entry
=============================================================================
