\* Two installs at a time.
SPECIFICATION Spec
CONSTANTS
  a = a
  b = b
  c = c
  Pkg = {a, b, c}
  Installers = {p1, p2}
  Editors = {}
  NoProc = NoProc
  Deps <- SmallDeps
  Unreadable = {}
  Interactive = FALSE
  Prefixed <- NoPrefixes
  Exact = TRUE
INVARIANTS
  InstallExclusive
  Tracked
