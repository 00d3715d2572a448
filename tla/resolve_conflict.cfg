\* A package and the same package below 2, in both orders.
SPECIFICATION Spec
CONSTANTS
  a = a
  b = b
  c = c
  Name = {a, b, c}
  Pages <- AllPages
  Worlds <- TwoRequirements
  Environments <- Envs
  Variables <- Vars
  TagSet <- LinuxTags
  NoPage = NoPage
  NoFile = NoFile
  MaxRounds = 1
INVARIANT FailsOnlyUnsatisfiable
CHECK_DEADLOCK FALSE
