\* MongoDB against the contract of the data layer, collection by collection.
CONSTANTS
  p1 = p1  p2 = p2  d1 = d1  x1 = x1  x2 = x2  m1 = m1  m2 = m2
  v1 = v1  v2 = v2  b1 = b1  k1 = k1
  None = None  Error = Error  ErrNotFound = ErrNotFound  ErrClosed = ErrClosed
  Users = {1, 2}
  Profiles = {p1, p2}
  Dates = {d1}
  Docs = {x1}
  MatchIds = {m1, m2}
  Matches <- TwoMatches
  Boards = {b1}
  Scores = {0, 1, 2}
  CacheKeys = {k1}
  Values = {v1, v2}
  Ttls = {0, 1, 2}
  Counts <- AnyCount
  MaxTime = 3
SPECIFICATION Spec
CONSTRAINT OneAtATime
INVARIANT TypeOK
PROPERTY IsAStore
CHECK_DEADLOCK FALSE
