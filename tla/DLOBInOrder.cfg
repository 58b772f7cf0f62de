SPECIFICATION FairSpec
CONSTANTS
  alice = alice
  bob = bob
  auction = auction
  market = market
  maker = maker
  below = below
  above = above
  None = None
  Updater = updater
  Orders = {auction, maker, below}
  Owner <- OwnerHere
  Kind <- KindHere
  Size <- SizeHere
  MaxSlot = 3
  MaxWrites = 4
  Word = 16
  Accounts = TRUE
  Handlers = {}
  BatchMax = 1
  Finders = {}
  FindSlots = {}
  Tidy = TRUE
CHECK_DEADLOCK FALSE
INVARIANTS InPlace
PROPERTIES EventuallyMirrored
