SPECIFICATION Spec
CONSTANTS
  alice = alice
  bob = bob
  auction = auction
  market = market
  maker = maker
  below = below
  above = above
  None = None
  Updater = updater
  Orders = {below, maker, market}
  Owner <- OwnerHere
  Kind <- KindHere
  Size <- SizeHere
  MaxSlot = 2
  MaxWrites = 3
  Word = 16
  Accounts = TRUE
  Handlers = {h1, h2}
  BatchMax = 2
  Finders = {}
  FindSlots = {}
  Tidy = FALSE
SYMMETRY HandlerSymmetry
CHECK_DEADLOCK FALSE
INVARIANTS TypeOK TrackedIsListed StaticInPlace StampCoversContent
PROPERTIES SlotNeverRegresses
