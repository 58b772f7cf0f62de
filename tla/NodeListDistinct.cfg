SPECIFICATION Spec
CONSTANTS
  alice = alice
  bob = bob
  Nodes = {n1, n2, n3, n4}
  Nil = Nil
  Signatures <- DistinctSignatures
  Price <- PriceById
  Slot <- SlotById
  Ascending = TRUE
  MaxFilled = 1
  MaxTries = 1
SYMMETRY HeapSymmetry
INVARIANTS TypeOK WellLinked PriceTimeOrder NothingLost
PROPERTIES ImplementsQueue
