SPECIFICATION Spec
CONSTANTS
  None = None
  Orders = {1, 2}
  Books <- Market
  Prices = {1, 2}
  Sizes = {1, 2}
  Finders = {f1}
  SearchSlots = {3}
  Fresh = TRUE
  Spot = FALSE
  FallbackBid = 1
  FallbackAsk = 2
  BidBuffered = 1
  AskBuffered = 2
  MinDuration = 1
  Word = 16
  Ahead = 2
PROPERTIES MarketByTime
