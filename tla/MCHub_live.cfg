\* One user in two matches, two connections, under the fairness of scheduler
\* and timeouts.
CONSTANTS
  c1 = c1  c2 = c2  c3 = c3
  u1 = u1  u2 = u2  u3 = u3
  m1 = m1  m2 = m2
  r1 = r1  r2 = r2  r3 = r3  r4 = r4
  None = None
  Conns = {c1, c2}
  Users = {u1, u2, u3}
  Matches = {m1, m2}
  Players <- SharedPlayer
  RoomObjs = {r1, r2, r3}
  HasStore = TRUE
  HasVerifier = TRUE
  MaxFrames = 3
SPECIFICATION FairSpec
INVARIANT RelayedInsideMatch
PROPERTY DeadConnsUnregistered
CHECK_DEADLOCK FALSE
