SPECIFICATION Spec
CONSTANTS
  alice = alice
  bob = bob
  Nodes = {n1, n2, n3, n4, n5}
  Nil = Nil
  Signatures <- SharedSignatures
  Price <- PriceShared
  Slot <- SlotById
  Ascending = FALSE
  MaxFilled = 0
  MaxTries = 0
SYMMETRY HeapSymmetry
INVARIANTS MapConsistent WalkInOrder WalkTerminates
