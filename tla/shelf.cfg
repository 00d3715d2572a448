\* One project, two versions of two packages, four commands in any order.
SPECIFICATION Spec
CONSTANTS
  flask = flask
  flask_cors = flask_cors
  v1 = v1
  v2 = v2
  Name = {flask, flask_cors}
  Version = {v1, v2}
  NoVersion = NoVersion
  AnyVersion = AnyVersion
  NoFile = NoFile
  Dotted = {flask_cors}
  Prefixed <- Prefixes
  Rank <- Listing
  Available <- Wheels
  Requests <- Asked
  PipWheels <- Wheels
  Deps <- CorsDeps
  MaxOps = 4
  Branch = {main, exp}
  Main = main
INVARIANTS TypeOK FpmRemovable SyncMatches
PROPERTIES TakesOwn PutAsideListed InstallSynced
CHECK_DEADLOCK FALSE
