------------------------------ MODULE NodeList ------------------------------
(***************************************************************************)
(* dlob/NodeList.go and the nodes of dlob/DLOBNode.go: one side of one     *)
(* order list, a doubly linked list of nodes threaded in price-time order  *)
(* and a map from order signatures to nodes.  Every caller holds the       *)
(* DLOB's lock, so an operation is one step.                               *)
(*                                                                         *)
(* A node object is an element of Nodes.  A Go object nobody points to any *)
(* more can be handed out again, which is what Unreferenced says; the heap *)
(* is therefore finite although the list lives for ever.                   *)
(*                                                                         *)
(* The price and the slot of an order never change under one order id (the *)
(* program issues a new id when an order is modified, and one that is      *)
(* triggered goes to another list), so they are functions of the           *)
(* signature, and a node's sortValue with them.                            *)
(***************************************************************************)
EXTENDS Integers, Sequences, FiniteSets

CONSTANTS
  Signatures,   \* orders that may enter the list: <<user, orderId>>
  Price,        \* Price[s]: order.Price, what GetSortValue returns
  Slot,         \* Slot[s]: order.Slot
  Ascending,    \* sortDirection = SortDirectionAsc
  MaxFilled,    \* bound on order.BaseAssetAmountFilled
  MaxTries,     \* bound on tryFillCount
  Nodes,        \* the heap
  Nil

ASSUME ListAssumption ==
  /\ Price \in [Signatures -> Int]
  /\ Slot \in [Signatures -> Nat]
  /\ Ascending \in BOOLEAN
  /\ MaxFilled \in Nat
  /\ MaxTries \in Nat
  /\ Signatures # {}
  /\ Nil \notin Nodes

VARIABLES
  head,       \* p.head
  length,     \* p.length
  nodeMap,    \* p.nodeMap, Nil for an absent key
  order,      \* order[n]: the order the node carries
  next,       \* next[n]: node.next
  previous,   \* previous[n]: node.previous
  tries       \* tries[n]: node.tryFillCount

vars == <<head, length, nodeMap, order, next, previous, tries>>

Order == [sig: Signatures, filled: 0..MaxFilled]
OrderId(s) == s[2]
Sig(n) == order[n].sig

\* GetOrderSignature keys the map by user and order id.
Has(s) == nodeMap[s] # Nil

Mapped == {n \in Nodes : \E s \in Signatures : nodeMap[s] = n}

Unreferenced(n) ==
  /\ n # head
  /\ n \notin Mapped
  /\ \A m \in Nodes : next[m] # n /\ previous[m] # n

\* Mutant: the slots of two orders at one price are not compared.
PrependByPrice(n, s) ==
  IF Ascending THEN Price[s] < Price[Sig(n)] ELSE Price[s] > Price[Sig(n)]

\* PrependNode: the new order goes in front of this node.
PrependNode(n, s) ==
  IF Price[s] = Price[Sig(n)] THEN Slot[s] < Slot[Sig(n)]
  ELSE IF Ascending THEN Price[s] < Price[Sig(n)] ELSE Price[s] > Price[Sig(n)]

\* The nodes a walk from the head meets while it stays inside P.
WalkWithin(P) ==
  {n \in P : \A S \in SUBSET P :
     /\ head \in S
     /\ \A m \in S : next[m] \in P => next[m] \in S
     => n \in S}

-----------------------------------------------------------------------------
Init ==
  /\ head = Nil
  /\ length = 0
  /\ nodeMap = [s \in Signatures |-> Nil]
  /\ order = [n \in Nodes |-> CHOOSE o \in Order : TRUE]   \* not in use
  /\ next = [n \in Nodes |-> Nil]
  /\ previous = [n \in Nodes |-> Nil]
  /\ tries = [n \in Nodes |-> 0]

\* CreateNode and the bookkeeping every insertion does.
CreateNode(n, s, filled) ==
  /\ ~Has(s)
  /\ Unreferenced(n)
  /\ order' = [order EXCEPT ![n] = [sig |-> s, filled |-> filled]]
  /\ tries' = [tries EXCEPT ![n] = 0]
  /\ nodeMap' = [nodeMap EXCEPT ![s] = n]
  /\ length' = length + 1

InsertFirst(n, s, filled) ==
  /\ head = Nil
  /\ CreateNode(n, s, filled)
  /\ head' = n
  /\ next' = [next EXCEPT ![n] = Nil]
  /\ previous' = [previous EXCEPT ![n] = Nil]

\* Mutant: p.head is overwritten before the new node is linked to it.
InsertAtHeadTooSoon(n, s, filled) ==
  /\ head # Nil
  /\ PrependNode(head, s)
  /\ CreateNode(n, s, filled)
  /\ previous' = [previous EXCEPT ![n] = n]
  /\ next' = [next EXCEPT ![n] = n]
  /\ head' = n

InsertAtHead(n, s, filled) ==
  /\ head # Nil
  /\ PrependNode(head, s)
  /\ CreateNode(n, s, filled)
  /\ previous' = [previous EXCEPT ![head] = n, ![n] = Nil]
  /\ next' = [next EXCEPT ![n] = head]
  /\ head' = n

\* Mutant: the loop of Insert is left after its first round.
LoopStopsAtOnce(current, s) == current = head

\* The loop stops at the first node whose successor goes behind the new one.
LoopStops(current, s) ==
  /\ current \in WalkWithin({m \in Nodes : ~PrependNode(m, s)})
  /\ next[current] # Nil => PrependNode(next[current], s)

InsertAfter(n, current, s, filled) ==
  /\ head # Nil
  /\ ~PrependNode(head, s)
  /\ LoopStops(current, s)
  /\ CreateNode(n, s, filled)
  /\ next' = [next EXCEPT ![n] = next[current], ![current] = n]
  /\ previous' = [m \in Nodes |->
                    IF m = n THEN current
                    ELSE IF m = next[current] THEN n
                    ELSE previous[m]]
  /\ UNCHANGED head

Insert(s, filled) ==
  \E n \in Nodes :
    \/ InsertFirst(n, s, filled)
    \/ InsertAtHead(n, s, filled)
    \/ \E current \in Nodes : InsertAfter(n, current, s, filled)

\* Mutant: the attempts survive a fill.
UpdateKeepsTries(s, filled) ==
  /\ Has(s)
  /\ order' = [order EXCEPT ![nodeMap[s]] = [sig |-> s, filled |-> filled]]
  /\ UNCHANGED <<head, length, nodeMap, next, previous, tries>>

\* The carried order is replaced where it stands; a different filled amount
\* resets the attempts.
Update(s, filled) ==
  /\ Has(s)
  /\ LET n == nodeMap[s]
     IN /\ order' = [order EXCEPT ![n] = [sig |-> s, filled |-> filled]]
        /\ tries' = [tries EXCEPT ![n] = IF order[n].filled = filled THEN @ ELSE 0]
  /\ UNCHANGED <<head, length, nodeMap, next, previous>>

ResetTryFill(s) ==
  /\ Has(s)
  /\ tries' = [tries EXCEPT ![nodeMap[s]] = 0]
  /\ UNCHANGED <<head, length, nodeMap, order, next, previous>>

TryFill(s) ==
  /\ Has(s)
  /\ tries[nodeMap[s]] < MaxTries
  /\ tries' = [tries EXCEPT ![nodeMap[s]] = @ + 1]
  /\ UNCHANGED <<head, length, nodeMap, order, next, previous>>

\* Mutant: the head test compares the users.
SameUserAsHead(n) == head # Nil /\ Sig(n)[1] = Sig(head)[1]

\* The head test of Remove compares order ids only.
SameAsHead(n) == head # Nil /\ OrderId(Sig(n)) = OrderId(Sig(head))

\* The links once node n is bridged.
NextWithout(n) ==
  [m \in Nodes |-> IF m = n THEN Nil ELSE IF m = previous[n] THEN next[n] ELSE next[m]]

\* Mutant: the successor keeps pointing back at the removed node.
PreviousKept(n) == [previous EXCEPT ![n] = Nil]

PreviousWithout(n) ==
  [m \in Nodes |-> IF m = n THEN Nil ELSE IF m = next[n] THEN previous[n] ELSE previous[m]]

\* Mutant: the counter is not decremented.
RemoveUncounted(s) ==
  /\ Has(s)
  /\ next' = NextWithout(nodeMap[s])
  /\ previous' = PreviousWithout(nodeMap[s])
  /\ head' = IF SameAsHead(nodeMap[s]) THEN next[nodeMap[s]] ELSE head
  /\ nodeMap' = [nodeMap EXCEPT ![s] = Nil]
  /\ UNCHANGED <<length, order, tries>>

Remove(s) ==
  /\ Has(s)
  /\ LET n == nodeMap[s]
     IN /\ next' = NextWithout(n)
        /\ previous' = PreviousWithout(n)
        /\ head' = IF SameAsHead(n) THEN next[n] ELSE head
  /\ nodeMap' = [nodeMap EXCEPT ![s] = Nil]
  /\ length' = length - 1
  /\ UNCHANGED <<order, tries>>

\* Mutant: the map survives a clearing of the list.
ClearKeepsMap ==
  /\ head' = Nil
  /\ length' = 0
  /\ next' = [n \in Nodes |-> Nil]
  /\ previous' = [n \in Nodes |-> Nil]
  /\ UNCHANGED <<nodeMap, order, tries>>

\* The dropped nodes are garbage: forgetting their links lets them be reused.
Clear ==
  /\ head' = Nil
  /\ length' = 0
  /\ nodeMap' = [s \in Signatures |-> Nil]
  /\ next' = [n \in Nodes |-> Nil]
  /\ previous' = [n \in Nodes |-> Nil]
  /\ UNCHANGED <<order, tries>>

Next ==
  \/ \E s \in Signatures, filled \in 0..MaxFilled : Insert(s, filled)
  \/ \E s \in Signatures, filled \in 0..MaxFilled : Update(s, filled)
  \/ \E s \in Signatures : ResetTryFill(s)
  \/ \E s \in Signatures : TryFill(s)
  \/ \E s \in Signatures : Remove(s)
  \/ Clear

Spec == Init /\ [][Next]_vars

-----------------------------------------------------------------------------
\* Every field of NodeList and OrderNode holds a value of its Go type; the
\* counter does not run below zero although Remove decrements unconditionally.
TypeOK ==
  /\ head \in Nodes \cup {Nil}
  /\ length \in Nat
  /\ nodeMap \in [Signatures -> Nodes \cup {Nil}]
  /\ order \in [Nodes -> Order]
  /\ next \in [Nodes -> Nodes \cup {Nil}]
  /\ previous \in [Nodes -> Nodes \cup {Nil}]
  /\ tries \in [Nodes -> 0..MaxTries]

\* The users whose orders share the list issued different order ids.  Ids are
\* counted per user, so this is a condition on the list's content.
DistinctOrderIds ==
  \A s, t \in Signatures : OrderId(s) = OrderId(t) => s = t

\* GetGenerator: the nodes an iteration over the list yields.
Visited == IF head = Nil THEN {} ELSE WalkWithin(Nodes)

\* The map finds the order under its own key, and length counts the keys.
\* Insert and Remove maintain the two separately from the links.
MapConsistent ==
  /\ \A s \in Signatures : Has(s) => Sig(nodeMap[s]) = s
  /\ length = Cardinality({s \in Signatures : Has(s)})

\* The chain that starts at the head, seen node by node: forward and backward
\* links are inverse, and only the head has nothing in front of it.
WellLinked ==
  /\ head = Nil <=> Mapped = {}
  /\ head # Nil => head \in Mapped
  /\ \A n \in Mapped :
       /\ next[n] # Nil => next[n] \in Mapped /\ previous[next[n]] = n
       /\ previous[n] # Nil => previous[n] \in Mapped /\ next[previous[n]] = n
       /\ previous[n] = Nil <=> n = head

\* An iteration yields exactly the orders the map holds: no order is cut off
\* from the head, no removed node is still threaded in.
NothingLost == Visited = Mapped

\* GetGenerator: the node an iteration yields after i others, Nil at its end.
Yielded[i \in Nat] ==
  IF i = 0 THEN head
  ELSE LET n == Yielded[i-1] IN IF n = Nil THEN Nil ELSE next[n]

Entry(n) == [sig |-> Sig(n), filled |-> order[n].filled, tries |-> tries[n]]

\* The orders in the sequence in which an iteration meets them.
Traversal == [i \in 1..Cardinality(Visited) |-> Entry(Yielded[i-1])]

Queue == INSTANCE PriceTimeQueue WITH queue <- Traversal

\* Neighbours are in price-time order although insertions, in-place updates
\* and removals came in any order: the queries that stop at the first order
\* that does not cross rely on it.
PriceTimeOrder ==
  \A n \in Mapped : next[n] # Nil => ~Queue!Precedes(Sig(next[n]), Sig(n))

\* Also with shared order ids: an iteration meets prices in order, ...
WalkInOrder ==
  \A n \in Visited : next[n] # Nil => ~Queue!Precedes(Sig(next[n]), Sig(n))

\* ... and it ends, so that neither a query nor the loop of Insert spins with
\* the DLOB's lock held.
WalkTerminates == head # Nil => \E n \in Visited : next[n] = Nil

\* The linked list implements the price-time queue, operation by operation.
ImplementsQueue == Queue!Spec
=============================================================================
