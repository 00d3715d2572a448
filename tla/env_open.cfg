\* One fpm process at a time among sync, pip, failed swaps and crashes, and
\* with a METADATA that may not be readable.
SPECIFICATION OpenSpec
CONSTANTS
  a = a
  b = b
  c = c
  Pkg = {a, b}
  Installers = {p1}
  Editors = {p1}
  NoProc = NoProc
  Deps <- PairDeps
  Unreadable = {a}
  Interactive = TRUE
  Prefixed <- PairPrefixes
  Exact = FALSE
PROPERTIES
  FallbackKeepsDeclared
