\* Three projects on two indexes, with ranges, pins, markers, yanked and foreign
\* wheels, two resolutions one after the other, and a network that may fail.
SPECIFICATION FairSpec
CONSTANTS
  a = a
  b = b
  c = c
  Name = {a, b, c}
  Pages <- AllPages
  Worlds <- ManyWorlds
  Environments <- Envs
  Variables <- Vars
  TagSet <- LinuxTags
  NoPage = NoPage
  NoFile = NoFile
  MaxRounds = 2
INVARIANTS TypeOK Consistent Newest OrderFree MarkersRead VersionsReread
PROPERTIES Terminates ResolutionAdvances
CHECK_DEADLOCK FALSE
