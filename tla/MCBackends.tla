----------------------------- MODULE MCBackends -----------------------------
(***************************************************************************)
(* An instance of Backends for TLC.  No operation needs more than two keys *)
(* of a collection, and no call depends on two collections.                *)
(***************************************************************************)
EXTENDS Backends

CONSTANTS p1, p2, d1, x1, x2, m1, m2, v1, v2, b1, k1

\* A match created earlier and one created later, the first of both players.
TwoMatches == {[players |-> Users, createdAt |-> 0], [players |-> {1}, createdAt |-> 1]}
AnyCount   == {-1, 1, 5}

UsersKept   == \E u \in Users : memUsers[u] # None
PuzzlesKept == \E d \in Dates : puzzles[d] # None
AttemptKept == \E k \in Users \X Dates : attempts[k] # None
MatchesKept == \E id \in MatchIds : matches[id] # None
ScoresKept  == \E b \in Boards, u \in Users : memBoards[b][u] # None
OnlineKept  == \E u \in Users : {memPresence[u], mongoPresence[u]} # {None}
CacheKept   == \E k \in CacheKeys : {memCache[k], mongoCache[k]} # {None}

\* At most one collection is in use, and the clock runs only where it matters.
Untimed == << PuzzlesKept, AttemptKept, MatchesKept, ScoresKept >>
Kept    == Untimed \o << UsersKept, OnlineKept, CacheKept >>

OneAtATime ==
  /\ Cardinality({i \in DOMAIN Kept : Kept[i]}) <= 1
  /\ (\E i \in DOMAIN Untimed : Untimed[i]) => now = 0
  /\ UsersKept => memUsers[2] = None /\ now <= 1
  /\ {memPresence[2], mongoPresence[2]} = {None}
=============================================================================
