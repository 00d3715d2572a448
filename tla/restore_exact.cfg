\* One package of another manager is enough.
SPECIFICATION Spec
CONSTANTS
  f = f
  p = p
  v1 = v1
  v2 = v2
  Name = {f, p}
  Version = {v1, v2}
  NoVersion = NoVersion
  Prefixed <- Apart
  Rank <- Listing
  FpmNames = {f}
  PipNames = {p}
  Wheel <- Exact
  Conf = {c1}
  Tag = {rel}
  Nothing = Nothing
  MaxNow = 1
  MaxOps = 4
PROPERTY RestoreExact
CHECK_DEADLOCK FALSE
