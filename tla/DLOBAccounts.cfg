SPECIFICATION Spec
CONSTANTS
  alice = alice
  bob = bob
  auction = auction
  market = market
  maker = maker
  below = below
  above = above
  None = None
  Updater = updater
  Orders = {auction, above}
  Owner <- OwnerHere
  Kind <- KindHere
  Size <- SizeHere
  MaxSlot = 3
  MaxWrites = 3
  Word = 16
  Accounts = TRUE
  Handlers = {}
  BatchMax = 1
  Finders = {f1, f2}
  FindSlots = {2, 3}
  Tidy = FALSE
SYMMETRY FinderSymmetry
CHECK_DEADLOCK FALSE
INVARIANTS TrackedIsListed
PROPERTIES FilledNeverRegresses
