----------------------------- MODULE MCNodeList -----------------------------
(* Small lists of orders for TLC. *)
EXTENDS NodeList, TLC

CONSTANTS alice, bob

\* Four orders with four different ids: two share price and slot, two share
\* the price only, one has a price of its own.
DistinctSignatures == {<<alice, 1>>, <<bob, 2>>, <<alice, 3>>, <<bob, 4>>}

\* Two users who both reached ids 1 and 2.
SharedSignatures == {alice, bob} \X {1, 2}

PriceById == [s \in Signatures |-> IF s[2] = 4 THEN 5 ELSE 7]
SlotById == [s \in Signatures |-> IF s[2] = 3 THEN 1 ELSE 2]

PriceShared ==
  [s \in Signatures |-> CASE s = <<alice, 1>> -> 5 [] s = <<bob, 2>> -> 6 [] OTHER -> 7]

HeapSymmetry == Permutations(Nodes)
=============================================================================
