SPECIFICATION FeedSpec
CONSTANTS
  alice = alice
  bob = bob
  empty = empty
  order = order
  sync = sync
  None = None
  Keys = {alice, bob}
  Accounts = {empty, order}
  Updates <- UpdatesHere
  MaxWrites = 2
  MaxStreams = 2
  MaxDeaths = 0
  Response <- ResponseHere
  ResponseSlot = 1
  Callbacks = {sync}
CHECK_DEADLOCK FALSE
INVARIANTS FeedTypeOK AnnouncedUnlessFirst LastReadIsKept
PROPERTIES SlotForward
