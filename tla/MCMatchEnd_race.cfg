\* Two players join a match and both report its end, with one of three results.
CONSTANTS
  c1 = c1  c2 = c2
  u1 = u1  u2 = u2
  m1 = m1  m2 = m2
  r1 = r1  r2 = r2
  d1 = d1  d2 = d2
  None = None
  Conns = {c1, c2}
  Users = {u1, u2}
  Matches = {m1}
  Players <- OneMatch
  RoomObjs = {r1, r2}
  HasStore = TRUE
  HasVerifier = TRUE
  MaxFrames = 4
  Dates = {d1}
  DateOf <- OneDate
  Global = Global
  Outsider = Outsider
  Reports <- ThreeReports
SPECIFICATION ESpec
SYMMETRY ConnSymmetry
INVARIANTS
  ETypeOK
  ToldOnlyAfterStored
  StoredResultWasReported
  BoardScoresWereReported
  BoardsReflectToldResults
CHECK_DEADLOCK FALSE
