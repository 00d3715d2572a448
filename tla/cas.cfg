\* Two installs of two wheels at a time, in two environments; maintenance runs
\* alone and is not killed in the middle of an entry.
SPECIFICATION Spec
CONSTANTS
  Key = {k1, k2}
  Env = {e1, e2}
  Global = {}
  Proc = {p1, p2}
  Careful = TRUE
  Nothing = Nothing
SYMMETRY AllInterchangeable
INVARIANTS TypeOK LinkedWhole RefsBacked
