SPECIFICATION Spec
CONSTANTS
  placed = placed
  filled = filled
  settled = settled
  cancelled = cancelled
  None = None
  Transactions <- TransactionsHere
  OrderEvents = {placed, filled, cancelled}
  MaxEventCache = 2
  MaxListeners = 2
  MaxCallbacks = 2
CHECK_DEADLOCK FALSE
INVARIANTS TypeOK PanicNeedsSecondListener OnceUnlessOverwritten AsManyAsAppended
PROPERTIES CacheIsEmptied
