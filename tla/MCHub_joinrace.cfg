\* A disconnect between the two steps of a JOIN_ROOM.
CONSTANTS
  c1 = c1  c2 = c2  c3 = c3
  u1 = u1  u2 = u2  u3 = u3
  m1 = m1  m2 = m2
  r1 = r1  r2 = r2  r3 = r3  r4 = r4
  None = None
  Conns = {c1, c2}
  Users = {u1, u2}
  Matches = {m1}
  Players <- OneMatch
  RoomObjs = {r1, r2}
  HasStore = TRUE
  HasVerifier = TRUE
  MaxFrames = 2
SPECIFICATION Spec
INVARIANT JoinedConnIsInRoom
CHECK_DEADLOCK FALSE
