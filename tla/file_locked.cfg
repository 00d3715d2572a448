\* Two processes with the right to lock and one without; any may die.
SPECIFICATION FairSpec
CONSTANTS
  p1 = p1
  p2 = p2
  p3 = p3
  g1 = g1
  g2 = g2
  Empty = Empty
  Torn = Torn
  Nobody = Nobody
  Client = {p1, p2, p3}
  Unprivileged = {p3}
  Value = {Empty, g1, g2}
INVARIANTS
  TypeOK
PROPERTIES
  AtomicSpec
  SaveReturns
