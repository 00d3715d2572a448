\* Nine snapshots, every first bad one, every order of commands.
SPECIFICATION Spec
CONSTANTS
  N = 9
  Restate = FALSE
INVARIANTS
  TypeOK
  FoundFirstBad
PROPERTIES
  Halves
