\* pip uninstalls a package the graph calls an orphan.
SPECIFICATION FairOpenSpec
CONSTANTS
  a = a
  b = b
  c = c
  Pkg = {a, b}
  Installers = {p1}
  Editors = {p1}
  NoProc = NoProc
  Deps <- PairDeps
  Unreadable = {}
  Interactive = FALSE
  Prefixed <- NoPrefixes
  Exact = FALSE
PROPERTIES
  PurgeTerminates
