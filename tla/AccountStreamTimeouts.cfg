SPECIFICATION Spec
CONSTANTS
  alice = alice
  empty = empty
  None = None
  Keys = {alice}
  Accounts = {empty}
  Updates <- UpdatesHere
  MaxWrites = 1
  MaxStreams = 4
  MaxDeaths = 4
CHECK_DEADLOCK FALSE
INVARIANTS StreamTypeOK OpenIsWatched
PROPERTIES Heals
