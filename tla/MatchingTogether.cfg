SPECIFICATION FairSpec
CONSTANTS
  None = None
  Orders = {1, 2, 3}
  Books <- Auctions
  Prices = {1}
  Sizes = {1, 2}
  Finders = {f1, f2}
  SearchSlots = {3, 4}
  Fresh = FALSE
  Spot = TRUE
  FallbackBid = 1
  FallbackAsk = 2
  BidBuffered = 1
  AskBuffered = 2
  MinDuration = 1
  Word = 16
  Ahead = 2
CHECK_DEADLOCK FALSE
INVARIANTS TypeOK NeverOverfilled KeepsConfirmed
PROPERTIES SearchEnds
