\* One person runs one command after another and answers its questions;
\* nobody else touches the environment.
SPECIFICATION FairSpec
CONSTANTS
  a = a
  b = b
  c = c
  Pkg = {a, b, c}
  Installers = {p1}
  Editors = {p1}
  NoProc = NoProc
  Deps <- CyclicDeps
  Unreadable = {}
  Interactive = TRUE
  Prefixed <- CyclicPrefixes
  Exact = TRUE
INVARIANTS
  TypeOK
  Tracked
  NoGhosts
  NoGarbage
PROPERTIES
  AutoremoveSafe
  MarkProtects
  ForeignKept
  NeverDemoted
  CleanUpAdvances
  PurgeTerminates
