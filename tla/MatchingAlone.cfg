SPECIFICATION Spec
CONSTANTS
  None = None
  Orders = {1, 2, 3, 4, 5}
  Books <- Makers
  Prices = {1, 2}
  Sizes = {1, 2}
  Finders = {f1}
  SearchSlots = {3}
  Fresh = TRUE
  Spot = FALSE
  FallbackBid = 1
  FallbackAsk = 2
  BidBuffered = 1
  AskBuffered = 2
  MinDuration = 1
  Word = 16
  Ahead = 2
INVARIANTS WithinSize LeftForAMM EveryMatchFills
PROPERTIES NothingOverlooked MakerMayMake
