-------------------------------- MODULE Room --------------------------------
(***************************************************************************)
(* The room of one sync-PvP match (server/internal/ws/rooms.go) and the    *)
(* lookups on a match's player list (match_lifecycle.go).  A room keeps    *)
(* its connections in a slice, so its members are a sequence: `add`        *)
(* appends, `remove` closes the gap, and a fan-out visits them in order.   *)
(***************************************************************************)
EXTENDS SequencesExt

\* A fault kept for the checks: add without the scan for a present conn.
AddBlindly(members, c) == Append(members, c)

\* (*Room).add: append c unless it is already there.
RoomAdd(members, c) ==
  IF Contains(members, c) THEN members ELSE Append(members, c)

\* A fault kept for the checks: the slot of a removed conn stays, set to nil.
RemoveToNil(members, c) ==
  [i \in DOMAIN members |-> IF members[i] = c THEN "nil" ELSE members[i]]

\* A fault kept for the checks: nothing is removed.
RemoveNothing(members, c) == members

\* (*Room).remove: cut c out, if it is there; add keeps it single.
RoomRemove(members, c) ==
  IF Contains(members, c)
  THEN RemoveAt(members, CHOOSE i \in DOMAIN members : members[i] = c)
  ELSE members

\* (*Room).empty
RoomEmpty(members) == members = << >>

\* roleOf: "" for a user who is not a player.
roleOf(user, players) ==
  IF ~Contains(players, user) THEN ""
  ELSE IF players[1] = user THEN "p1" ELSE "p2"
=============================================================================
