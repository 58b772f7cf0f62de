--------------------------- MODULE NodeListProofs ---------------------------
(***************************************************************************)
(* Proofs about NodeList: the map and the counter agree, and an iteration  *)
(* is in order and ends, for every content of the list; with distinct      *)
(* order ids the links, the order and the completeness of an iteration     *)
(* follow, and the list implements the price-time queue.                   *)
(***************************************************************************)
EXTENDS NodeList, FiniteSetTheorems, SequenceTheorems, WellFoundedInduction, TLAPS

Keys == {s \in Signatures : Has(s)}

\* MapConsistent alone is not inductive: the counter stays a natural number
\* only because it counts a finite set.
MapInv == TypeOK /\ MapConsistent /\ IsFiniteSet(Keys)

\* What creating a node does to the map side of the state.
LEMMA CreateNodeKeepsMap ==
  ASSUME MapInv, NEW n \in Nodes, NEW s \in Signatures,
         NEW filled \in 0..MaxFilled, CreateNode(n, s, filled)
  PROVE  /\ length' \in Nat
         /\ nodeMap' \in [Signatures -> Nodes \cup {Nil}]
         /\ order' \in [Nodes -> Order]
         /\ tries' \in [Nodes -> 0..MaxTries]
         /\ MapConsistent'
         /\ IsFiniteSet(Keys')
<1> USE ListAssumption DEF ListAssumption, MapInv, TypeOK
<1>1. Keys' = Keys \cup {s} /\ s \notin Keys
  BY DEF CreateNode, Keys, Has
<1>2. IsFiniteSet(Keys') /\ Cardinality(Keys') = Cardinality(Keys) + 1
  BY <1>1, FS_AddElement
<1>3. order' \in [Nodes -> Order] /\ tries' \in [Nodes -> 0..MaxTries]
  BY DEF CreateNode, Order
<1>4. length' \in Nat /\ nodeMap' \in [Signatures -> Nodes \cup {Nil}]
  BY DEF CreateNode
<1>5. ASSUME NEW t \in Signatures, Has(t)' PROVE Sig(nodeMap[t])' = t
  <2>1. CASE t = s
    BY <2>1 DEF CreateNode, Sig
  <2>2. CASE t # s
    <3>1. nodeMap'[t] = nodeMap[t] /\ nodeMap[t] \in Mapped
      BY <1>5, <2>2 DEF CreateNode, Has, Mapped
    <3>2. nodeMap[t] # n
      BY <3>1 DEF CreateNode, Unreferenced
    <3> QED
      BY <1>5, <3>1, <3>2 DEF CreateNode, Sig, MapConsistent, Has
  <2> QED BY <2>1, <2>2
<1>6. length' = Cardinality(Keys')
  BY <1>2 DEF CreateNode, MapConsistent, Keys
<1> QED BY <1>2, <1>3, <1>4, <1>5, <1>6 DEF MapConsistent, Keys

\* What removing a key does to the map side of the state.
LEMMA RemoveKeepsMap ==
  ASSUME MapInv, NEW s \in Signatures, Remove(s)
  PROVE  MapInv'
<1> USE ListAssumption DEF ListAssumption, MapInv, TypeOK
<1>1. Keys' = Keys \ {s} /\ s \in Keys
  BY DEF Remove, Keys, Has
<1>2. IsFiniteSet(Keys') /\ Cardinality(Keys') = Cardinality(Keys) - 1
  BY <1>1, FS_RemoveElement
<1>3. length' = Cardinality(Keys')
  BY <1>2 DEF Remove, MapConsistent, Keys
<1>4. length' \in Nat
  BY <1>2, <1>3, FS_CardinalityType
<1>5. nodeMap[s] \in Nodes
  BY DEF Remove, Has
<1>6. /\ head' \in Nodes \cup {Nil}
      /\ next' \in [Nodes -> Nodes \cup {Nil}]
      /\ previous' \in [Nodes -> Nodes \cup {Nil}]
  BY <1>5 DEF Remove, NextWithout, PreviousWithout
<1>7. /\ nodeMap' \in [Signatures -> Nodes \cup {Nil}]
      /\ order' \in [Nodes -> Order]
      /\ tries' \in [Nodes -> 0..MaxTries]
  BY DEF Remove
<1>8. \A t \in Signatures : Has(t)' => Sig(nodeMap[t])' = t
  BY DEF Remove, Has, Sig, MapConsistent
<1> QED BY <1>2, <1>3, <1>4, <1>6, <1>7, <1>8 DEF MapConsistent, Keys

\* The list CreateNodeList returns satisfies the invariant of the map.
THEOREM MapInvInit == Init => MapInv
<1> USE ListAssumption DEF ListAssumption
<1> SUFFICES ASSUME Init PROVE MapInv
  OBVIOUS
<1>1. Keys = {}
  BY DEF Init, Keys, Has
<1>2. IsFiniteSet(Keys) /\ Cardinality(Keys) = 0
  BY <1>1, FS_EmptySet
<1>3. PICK o \in Order : TRUE
  <2>1. PICK s \in Signatures : TRUE
    OBVIOUS
  <2>2. [sig |-> s, filled |-> 0] \in Order
    BY DEF Order
  <2> QED BY <2>2
<1>4. order \in [Nodes -> Order]
  BY <1>3 DEF Init
<1>5. TypeOK
  BY <1>4 DEF Init, TypeOK
<1>6. MapConsistent
  BY <1>2 DEF Init, MapConsistent, Keys, Has
<1> QED BY <1>2, <1>5, <1>6 DEF MapInv

\* Every operation of the list preserves the invariant of the map: Insert and
\* Remove move the counter and the key together, Clear resets both.
THEOREM MapInvNext == MapInv /\ [Next]_vars => MapInv'
<1> USE ListAssumption DEF ListAssumption
<1> SUFFICES ASSUME MapInv, [Next]_vars PROVE MapInv'
  OBVIOUS
<1>1. ASSUME NEW s \in Signatures, NEW filled \in 0..MaxFilled, Insert(s, filled)
      PROVE  MapInv'
  <2>1. PICK n \in Nodes :
          \/ InsertFirst(n, s, filled)
          \/ InsertAtHead(n, s, filled)
          \/ \E current \in Nodes : InsertAfter(n, current, s, filled)
    BY <1>1 DEF Insert
  <2>2. CreateNode(n, s, filled)
    BY <2>1 DEF InsertFirst, InsertAtHead, InsertAfter
  <2>3. /\ head' \in Nodes \cup {Nil}
        /\ next' \in [Nodes -> Nodes \cup {Nil}]
        /\ previous' \in [Nodes -> Nodes \cup {Nil}]
    <3> USE DEF MapInv, TypeOK
    <3>1. CASE InsertFirst(n, s, filled)
      BY <3>1 DEF InsertFirst
    <3>2. CASE InsertAtHead(n, s, filled)
      BY <3>2 DEF InsertAtHead
    <3>3. ASSUME NEW current \in Nodes, InsertAfter(n, current, s, filled)
          PROVE  /\ head' \in Nodes \cup {Nil}
                 /\ next' \in [Nodes -> Nodes \cup {Nil}]
                 /\ previous' \in [Nodes -> Nodes \cup {Nil}]
      <4>1. next[current] \in Nodes \cup {Nil}
        OBVIOUS
      <4> QED BY <3>3, <4>1 DEF InsertAfter
    <3> QED BY <2>1, <3>1, <3>2, <3>3
  <2> QED BY <2>2, <2>3, CreateNodeKeepsMap DEF MapInv, TypeOK
<1>2. ASSUME NEW s \in Signatures, NEW filled \in 0..MaxFilled, Update(s, filled)
      PROVE  MapInv'
  <2> USE <1>2 DEF MapInv, TypeOK
  <2>1. nodeMap[s] \in Nodes
    BY DEF Update, Has
  <2>2. order' \in [Nodes -> Order] /\ tries' \in [Nodes -> 0..MaxTries]
    BY <2>1 DEF Update, Order
  <2>3. \A n \in Nodes : Sig(n)' = IF n = nodeMap[s] THEN s ELSE Sig(n)
    BY <2>1 DEF Update, Sig
  <2>4. \A t \in Signatures : Has(t)' => Sig(nodeMap[t])' = t
    BY <2>1, <2>3 DEF Update, Has, MapConsistent
  <2>5. Keys' = Keys
    BY DEF Update, Keys, Has
  <2> QED BY <2>2, <2>4, <2>5 DEF Update, MapConsistent, Keys
<1>3. ASSUME NEW s \in Signatures, ResetTryFill(s) \/ TryFill(s)
      PROVE  MapInv'
  <2> USE <1>3 DEF MapInv, TypeOK
  <2>1. tries' \in [Nodes -> 0..MaxTries]
    <3>1. CASE ResetTryFill(s)
      <4>1. /\ nodeMap[s] \in Nodes
            /\ tries' = [tries EXCEPT ![nodeMap[s]] = 0]
        BY <3>1 DEF ResetTryFill, Has
      <4> QED BY <4>1
    <3>2. CASE TryFill(s)
      <4>1. nodeMap[s] \in Nodes
        BY <3>2 DEF TryFill, Has
      <4> QED BY <3>2, <4>1 DEF TryFill
    <3> QED BY <3>1, <3>2
  <2>2. UNCHANGED <<head, length, nodeMap, order, next, previous>>
    BY DEF ResetTryFill, TryFill
  <2> QED BY <2>1, <2>2 DEF MapConsistent, Keys, Has, Sig
<1>4. ASSUME NEW s \in Signatures, Remove(s) PROVE MapInv'
  BY <1>4, RemoveKeepsMap
<1>5. CASE Clear
  <2>1. Keys' = {}
    BY <1>5 DEF Clear, Keys, Has
  <2>2. IsFiniteSet(Keys') /\ Cardinality(Keys') = 0
    BY <2>1, FS_EmptySet
  <2>3. TypeOK'
    BY <1>5 DEF Clear, MapInv, TypeOK
  <2>4. MapConsistent'
    BY <1>5, <2>2 DEF Clear, MapConsistent, Keys, Has
  <2> QED BY <2>2, <2>3, <2>4 DEF MapInv
<1>6. CASE UNCHANGED vars
  BY <1>6 DEF vars, MapInv, TypeOK, MapConsistent, Keys, Has, Sig
<1> QED BY <1>1, <1>2, <1>3, <1>4, <1>5, <1>6 DEF Next

\* Every reachable state is well typed: the counter never goes negative and
\* no link leaves the heap.
THEOREM TypeCorrect == Spec => []TypeOK
<1>1. MapInv => TypeOK
  BY DEF MapInv
<1> QED BY <1>1, MapInvInit, MapInvNext, PTL DEF Spec

\* The map keys are the nodes' own signatures and length counts them, whatever
\* order ids meet in the list.
THEOREM MapCorrect == Spec => []MapConsistent
<1>1. MapInv => MapConsistent
  BY DEF MapInv
<1> QED BY <1>1, MapInvInit, MapInvNext, PTL DEF Spec

-----------------------------------------------------------------------------
\* No node is behind itself: the nodes can be numbered along the links.
Numbers(rank) ==
  \A m \in Mapped : next[m] # Nil => rank[m] < rank[next[m]]

Acyclic == \E rank \in [Nodes -> Int] : Numbers(rank)

\* WellLinked alone admits a ring of nodes beside the chain; Acyclic excludes
\* it, and the two give each insertion point and each removal its neighbours.
ListInv == MapInv /\ WellLinked /\ PriceTimeOrder /\ Acyclic

\* The comparison of the insertion loop is the abstract priority.
LEMMA PrependIsPriority ==
  ASSUME NEW m, NEW s
  PROVE  PrependNode(m, s) <=> Queue!Precedes(s, Sig(m))
BY DEF PrependNode, Queue!Precedes

\* Two orders are never each in front of the other in PrependNode's comparison.
LEMMA PriorityAsymmetric ==
  ASSUME NEW a \in Signatures, NEW b \in Signatures
  PROVE  ~(Queue!Precedes(a, b) /\ Queue!Precedes(b, a))
BY ListAssumption DEF ListAssumption, Queue!Precedes

\* PrependNode's comparison is transitive on "not in front of", so comparing
\* with one neighbour decides about all those behind it.
LEMMA PriorityTransitive ==
  ASSUME NEW a \in Signatures, NEW b \in Signatures, NEW c \in Signatures,
         ~Queue!Precedes(b, a), ~Queue!Precedes(c, b)
  PROVE  ~Queue!Precedes(c, a)
BY ListAssumption DEF ListAssumption, Queue!Precedes

\* A node in the map is the one its signature leads to.
LEMMA MappedNode ==
  ASSUME MapInv, NEW n \in Mapped
  PROVE  n \in Nodes /\ Sig(n) \in Signatures /\ nodeMap[Sig(n)] = n
<1>1. n \in Nodes /\ n # Nil
  BY ListAssumption DEF ListAssumption, Mapped
<1>2. PICK s \in Signatures : nodeMap[s] = n
  BY DEF Mapped
<1>3. Sig(n) = s
  BY <1>1, <1>2 DEF MapInv, MapConsistent, Has
<1> QED BY <1>1, <1>2, <1>3

\* With distinct order ids the head test of Remove recognises the head.
LEMMA HeadTest ==
  ASSUME DistinctOrderIds, MapInv, WellLinked, NEW n \in Mapped
  PROVE  SameAsHead(n) <=> n = head
<1>1. CASE head = Nil
  BY <1>1, ListAssumption DEF SameAsHead, ListAssumption, Mapped
<1>2. CASE head # Nil
  <2>1. head \in Mapped
    BY <1>2 DEF WellLinked
  <2>2. /\ Sig(n) \in Signatures /\ nodeMap[Sig(n)] = n
        /\ Sig(head) \in Signatures /\ nodeMap[Sig(head)] = head
    BY <2>1, MappedNode
  <2>3. OrderId(Sig(n)) = OrderId(Sig(head)) => Sig(n) = Sig(head)
    BY <2>2 DEF DistinctOrderIds
  <2> QED BY <1>2, <2>2, <2>3 DEF SameAsHead
<1> QED BY <1>1, <1>2

\* The nodes the insertion loop passes are in the map and stay in front.
LEMMA WalkStaysMapped ==
  ASSUME MapInv, WellLinked, head # Nil, NEW s \in Signatures,
         ~PrependNode(head, s),
         NEW current \in WalkWithin({m \in Nodes : ~PrependNode(m, s)})
  PROVE  current \in Mapped /\ ~PrependNode(current, s)
<1> DEFINE P == {m \in Nodes : ~PrependNode(m, s)}
           S == {m \in Mapped : ~PrependNode(m, s)}
<1>1. S \in SUBSET P
  BY DEF Mapped
<1>2. head \in S
  BY DEF WellLinked
<1>3. \A m \in S : next[m] \in P => next[m] \in S
  <2> TAKE m \in S
  <2> HAVE next[m] \in P
  <2>1. next[m] # Nil
    BY ListAssumption DEF ListAssumption
  <2> QED BY <2>1 DEF WellLinked
<1>4. current \in S
  BY <1>1, <1>2, <1>3 DEF WalkWithin
<1> QED BY <1>4

\* What creating a node does to the set of mapped nodes.
LEMMA CreateNodeMapped ==
  ASSUME MapInv, NEW n \in Nodes, NEW s \in Signatures,
         NEW filled \in 0..MaxFilled, CreateNode(n, s, filled)
  PROVE  /\ Mapped' = Mapped \cup {n}
         /\ n \notin Mapped
         /\ Sig(n)' = s
         /\ \A m \in Nodes : m # n => Sig(m)' = Sig(m)
<1> USE ListAssumption DEF ListAssumption, MapInv, TypeOK
<1>1. n \notin Mapped
  BY DEF CreateNode, Unreferenced
<1>2. Mapped' = Mapped \cup {n}
  BY DEF CreateNode, Mapped, Has
<1>3. Sig(n)' = s /\ \A m \in Nodes : m # n => Sig(m)' = Sig(m)
  BY DEF CreateNode, Sig
<1> QED BY <1>1, <1>2, <1>3

\* Insertion into an empty list.
LEMMA FirstKeepsLinks ==
  ASSUME ListInv, NEW n \in Nodes, NEW s \in Signatures,
         NEW filled \in 0..MaxFilled, InsertFirst(n, s, filled)
  PROVE  WellLinked' /\ PriceTimeOrder' /\ Acyclic'
<1> USE ListAssumption DEF ListAssumption, ListInv, MapInv, TypeOK
<1>1. CreateNode(n, s, filled) /\ Mapped = {}
  BY DEF InsertFirst, WellLinked
<1>2. Mapped' = {n}
  BY <1>1, CreateNodeMapped
<1>3. head' = n /\ next'[n] = Nil /\ previous'[n] = Nil /\ n # Nil
  BY DEF InsertFirst
<1>4. WellLinked' /\ PriceTimeOrder'
  BY <1>2, <1>3 DEF WellLinked, PriceTimeOrder
<1>5. Numbers([m \in Nodes |-> 0])'
  BY <1>2, <1>3 DEF Numbers
<1>6. [m \in Nodes |-> 0] \in [Nodes -> Int]
  OBVIOUS
<1> QED BY <1>4, <1>5, <1>6 DEF Acyclic

\* Insertion in front of the head.
LEMMA HeadKeepsLinks ==
  ASSUME ListInv, NEW n \in Nodes, NEW s \in Signatures,
         NEW filled \in 0..MaxFilled, InsertAtHead(n, s, filled)
  PROVE  WellLinked' /\ PriceTimeOrder' /\ Acyclic'
<1> USE ListAssumption DEF ListAssumption, ListInv, MapInv, TypeOK
<1>1. CreateNode(n, s, filled) /\ head # Nil /\ PrependNode(head, s)
  BY DEF InsertAtHead
<1>2. /\ Mapped' = Mapped \cup {n} /\ n \notin Mapped
      /\ Sig(n)' = s
      /\ \A m \in Nodes : m # n => Sig(m)' = Sig(m)
  BY <1>1, CreateNodeMapped
<1>3. head \in Mapped /\ Mapped \subseteq Nodes
  BY <1>1 DEF WellLinked, Mapped
<1>4. /\ head' = n
      /\ \A m \in Nodes : next'[m] = IF m = n THEN head ELSE next[m]
      /\ \A m \in Nodes : previous'[m] = IF m = n THEN Nil
                                         ELSE IF m = head THEN n ELSE previous[m]
  BY DEF InsertAtHead
<1>5. WellLinked'
  BY <1>2, <1>3, <1>4 DEF WellLinked
<1>6. PriceTimeOrder'
  <2> SUFFICES ASSUME NEW m \in Mapped', next'[m] # Nil
               PROVE  ~Queue!Precedes(Sig(next[m]), Sig(m))'
    BY DEF PriceTimeOrder
  <2>1. CASE m = n
    <3>1. Queue!Precedes(s, Sig(head)) /\ Sig(head) \in Signatures
      BY <1>1, <1>3, PrependIsPriority, MappedNode
    <3>2. ~Queue!Precedes(Sig(head), s)
      BY <3>1, PriorityAsymmetric
    <3>3. next'[m] = head /\ Sig(next[m])' = Sig(head) /\ Sig(m)' = s
      BY <1>2, <1>3, <1>4, <2>1 DEF Sig
    <3> QED BY <3>2, <3>3 DEF Queue!Precedes
  <2>2. CASE m # n
    <3>1. m \in Mapped /\ next'[m] = next[m] /\ next[m] \in Mapped
      BY <1>2, <1>3, <1>4, <2>2 DEF WellLinked
    <3>2. Sig(next[m])' = Sig(next[m]) /\ Sig(m)' = Sig(m)
      BY <1>2, <1>3, <3>1 DEF Sig
    <3>3. ~Queue!Precedes(Sig(next[m]), Sig(m))
      BY <3>1 DEF PriceTimeOrder
    <3> QED BY <3>2, <3>3 DEF Queue!Precedes
  <2> QED BY <2>1, <2>2
<1>7. Acyclic'
  <2>1. PICK rank \in [Nodes -> Int] : Numbers(rank)
    BY DEF Acyclic
  <2>0. PICK h \in Nodes : h = head
    BY <1>3
  <2> DEFINE r == [m \in Nodes |-> IF m = n THEN rank[h] - 1 ELSE rank[m]]
  <2>2. r \in [Nodes -> Int]
    OBVIOUS
  <2>3. ASSUME NEW m \in Mapped', next'[m] # Nil
        PROVE  r[m] < r[next'[m]]
    <3>1. CASE m = n
      BY <1>2, <1>3, <1>4, <2>0, <3>1
    <3>2. CASE m # n
      <4>1. m \in Mapped /\ next'[m] = next[m] /\ next[m] \in Mapped
        BY <1>2, <1>3, <1>4, <2>3, <3>2 DEF WellLinked
      <4>2. rank[m] < rank[next[m]]
        BY <2>1, <2>3, <4>1 DEF Numbers
      <4> QED BY <1>2, <1>3, <3>2, <4>1, <4>2
    <3> QED BY <3>1, <3>2
  <2>4. Numbers(r)'
    BY <2>3 DEF Numbers
  <2> QED BY <2>2, <2>4 DEF Acyclic
<1> QED BY <1>5, <1>6, <1>7

\* Insertion behind the node the loop stopped at.
LEMMA AfterKeepsLinks ==
  ASSUME ListInv, NEW n \in Nodes, NEW s \in Signatures, NEW c \in Nodes,
         NEW filled \in 0..MaxFilled, InsertAfter(n, c, s, filled)
  PROVE  WellLinked' /\ PriceTimeOrder' /\ Acyclic'
<1> USE ListAssumption DEF ListAssumption, ListInv, MapInv, TypeOK
<1>1. /\ CreateNode(n, s, filled)
      /\ next[c] # Nil => PrependNode(next[c], s)
  BY DEF InsertAfter, LoopStops
<1>2. /\ Mapped' = Mapped \cup {n} /\ n \notin Mapped
      /\ Sig(n)' = s
      /\ \A m \in Nodes : m # n => Sig(m)' = Sig(m)
  BY <1>1, CreateNodeMapped
<1>3. c \in Mapped /\ ~PrependNode(c, s) /\ Mapped \subseteq Nodes
  BY WalkStaysMapped DEF InsertAfter, LoopStops, Mapped
<1>4. /\ head' = head
      /\ \A m \in Nodes : next'[m] = IF m = c THEN n
                                     ELSE IF m = n THEN next[c] ELSE next[m]
      /\ \A m \in Nodes : previous'[m] = IF m = n THEN c
                                         ELSE IF m = next[c] THEN n ELSE previous[m]
  BY <1>2, <1>3 DEF InsertAfter
<1>5. next[c] # Nil => next[c] \in Mapped /\ previous[next[c]] = c
  BY <1>3 DEF WellLinked
<1>6. WellLinked'
  <2>1. (head = Nil <=> Mapped = {})' /\ (head # Nil => head \in Mapped)'
    BY <1>2, <1>3, <1>4 DEF WellLinked
  <2>2. ASSUME NEW m \in Mapped'
        PROVE  /\ next'[m] # Nil => next'[m] \in Mapped' /\ previous'[next'[m]] = m
               /\ previous'[m] # Nil => previous'[m] \in Mapped' /\ next'[previous'[m]] = m
               /\ previous'[m] = Nil <=> m = head'
    <3>1. CASE m = n
      BY <1>2, <1>3, <1>4, <1>5, <3>1 DEF WellLinked
    <3>2. CASE m # n /\ m = c
      BY <1>2, <1>3, <1>4, <1>5, <3>2 DEF WellLinked
    <3>3. CASE m # n /\ m # c
      <4>1. m \in Mapped
        BY <1>2, <3>3
      <4>2. next'[m] = next[m]
        BY <1>3, <1>4, <3>3, <4>1
      <4>3. next[m] # Nil => next[m] \in Mapped /\ next[m] # n /\ next[m] # next[c]
        BY <1>2, <1>5, <3>3, <4>1 DEF WellLinked
      <4>4. next'[m] # Nil => next'[m] \in Mapped' /\ previous'[next'[m]] = m
        BY <1>2, <1>3, <1>4, <4>1, <4>2, <4>3 DEF WellLinked
      <4>5. CASE m = next[c]
        BY <1>2, <1>3, <1>4, <1>5, <3>3, <4>1, <4>4, <4>5 DEF WellLinked
      <4>6. CASE m # next[c]
        <5>1. previous'[m] = previous[m]
          BY <1>3, <1>4, <3>3, <4>1, <4>6
        <5>2. previous[m] # Nil => previous[m] \in Mapped /\ previous[m] # c /\ next[previous[m]] = m
          BY <4>1, <4>6 DEF WellLinked
        <5> QED BY <1>2, <1>3, <1>4, <4>1, <4>4, <5>1, <5>2 DEF WellLinked
      <4> QED BY <4>5, <4>6
    <3> QED BY <3>1, <3>2, <3>3
  <2> QED BY <2>1, <2>2 DEF WellLinked
<1>7. PriceTimeOrder'
  <2> SUFFICES ASSUME NEW m \in Mapped', next'[m] # Nil
               PROVE  ~Queue!Precedes(Sig(next[m]), Sig(m))'
    BY DEF PriceTimeOrder
  <2>1. CASE m = n
    <3>1. next'[m] = next[c] /\ next[c] \in Mapped /\ c # n
      BY <1>2, <1>3, <1>4, <1>5, <2>1
    <3>2. Queue!Precedes(s, Sig(next[c])) /\ Sig(next[c]) \in Signatures
      BY <1>1, <1>3, <3>1, PrependIsPriority, MappedNode
    <3>3. ~Queue!Precedes(Sig(next[c]), s)
      BY <3>2, PriorityAsymmetric
    <3>4. Sig(next[m])' = Sig(next[c]) /\ Sig(m)' = s
      BY <1>2, <1>3, <2>1, <3>1 DEF Sig
    <3> QED BY <3>3, <3>4 DEF Queue!Precedes
  <2>2. CASE m # n /\ m = c
    <3>1. next'[m] = n /\ Sig(next[m])' = s /\ Sig(m)' = Sig(c)
      BY <1>2, <1>3, <1>4, <2>2 DEF Sig
    <3>2. ~Queue!Precedes(s, Sig(c))
      BY <1>3, PrependIsPriority
    <3> QED BY <3>1, <3>2 DEF Queue!Precedes
  <2>3. CASE m # n /\ m # c
    <3>1. m \in Mapped /\ next'[m] = next[m] /\ next[m] \in Mapped
      BY <1>2, <1>3, <1>4, <2>3 DEF WellLinked
    <3>2. Sig(next[m])' = Sig(next[m]) /\ Sig(m)' = Sig(m)
      BY <1>2, <1>3, <3>1 DEF Sig
    <3>3. ~Queue!Precedes(Sig(next[m]), Sig(m))
      BY <3>1 DEF PriceTimeOrder
    <3> QED BY <3>2, <3>3 DEF Queue!Precedes
  <2> QED BY <2>1, <2>2, <2>3
<1>8. Acyclic'
  <2>1. PICK rank \in [Nodes -> Int] : Numbers(rank)
    BY DEF Acyclic
  <2> DEFINE r == [m \in Nodes |-> IF m = n THEN rank[c] + 1
                                   ELSE IF rank[m] > rank[c] THEN rank[m] + 1
                                   ELSE rank[m]]
  <2>2. r \in [Nodes -> Int]
    OBVIOUS
  <2>3. ASSUME NEW m \in Mapped', next'[m] # Nil
        PROVE  r[m] < r[next'[m]]
    <3>1. CASE m = n
      <4>1. next'[m] = next[c] /\ next[c] \in Mapped /\ next[c] # n
        BY <1>2, <1>3, <1>4, <1>5, <2>3, <3>1
      <4>2. rank[c] < rank[next[c]]
        BY <1>3, <2>1, <4>1 DEF Numbers
      <4> QED BY <1>3, <3>1, <4>1, <4>2
    <3>2. CASE m # n /\ m = c
      <4>1. next'[m] = n
        BY <1>3, <1>4, <3>2
      <4> QED BY <3>2, <4>1
    <3>3. CASE m # n /\ m # c
      <4>1. m \in Mapped /\ next'[m] = next[m] /\ next[m] \in Mapped
        BY <1>2, <1>3, <1>4, <2>3, <3>3 DEF WellLinked
      <4>2. rank[m] < rank[next[m]]
        BY <2>1, <2>3, <4>1 DEF Numbers
      <4>3. next[m] # n /\ m \in Nodes /\ next[m] \in Nodes
        BY <1>2, <1>3, <4>1
      <4> QED BY <3>3, <4>1, <4>2, <4>3
    <3> QED BY <3>1, <3>2, <3>3
  <2>4. Numbers(r)'
    BY <2>3 DEF Numbers
  <2> QED BY <2>2, <2>4 DEF Acyclic
<1> QED BY <1>6, <1>7, <1>8

\* Any set of mapped nodes has a first one: the chain has no rings and no
\* infinite tails.
LEMMA FirstOfSet ==
  ASSUME MapInv, WellLinked, Acyclic, NEW X \in SUBSET Mapped, X # {}
  PROVE  \E m \in X : previous[m] \notin X
<1>1. IsFiniteSet(Mapped)
  <2> DEFINE f == [s \in Keys |-> nodeMap[s]]
  <2>1. f \in Surjection(Keys, Mapped)
    <3>1. \A s \in Keys : nodeMap[s] \in Mapped
      BY DEF MapInv, TypeOK, Mapped, Keys, Has
    <3>2. \A n \in Mapped : \E s \in Keys : nodeMap[s] = n
      BY ListAssumption DEF ListAssumption, Mapped, Keys, Has
    <3> QED BY <3>1, <3>2 DEF Surjection
  <2>2. IsFiniteSet(Keys)
    BY DEF MapInv
  <2> HIDE DEF f
  <2> QED BY <2>1, <2>2, FS_Surjection
<1>2. PICK rank \in [Nodes -> Int] : Numbers(rank)
  BY DEF Acyclic
<1>3. X \subseteq Nodes /\ IsFiniteSet(X)
  BY <1>1, FS_Subset DEF Mapped
<1> DEFINE below(m) == {k \in X : rank[k] < rank[m]}
           B == {below(m) : m \in X}
<1>4. B \subseteq FiniteSubsetsOf(X) /\ B # {}
  <2>1. FiniteSubsetsOf(X) = SUBSET X
    BY <1>3, FS_FiniteSubsetsOfFinite
  <2>2. \A m \in X : below(m) \subseteq X
    OBVIOUS
  <2>3. B \subseteq SUBSET X
    BY <2>2
  <2>4. B # {}
    OBVIOUS
  <2> HIDE DEF B
  <2> QED BY <2>1, <2>3, <2>4
<1>5. PICK Y \in B : \A Z \in B : <<Z, Y>> \notin StrictSubsetOrdering(X)
  <2> HIDE DEF B
  <2> QED BY <1>4, FS_StrictSubsetOrderingWellFounded, WFMin
<1>6. PICK m \in X : Y = below(m)
  OBVIOUS
<1>7. ASSUME NEW k \in X, rank[k] < rank[m] PROVE FALSE
  <2>1. below(k) \subseteq below(m) /\ k \in below(m) /\ k \notin below(k)
    BY <1>2, <1>3, <1>7
  <2>2. <<below(k), below(m)>> \in StrictSubsetOrdering(X)
    BY <2>1 DEF StrictSubsetOrdering
  <2> QED BY <1>5, <1>6, <2>2
<1>8. previous[m] \notin X
  <2> SUFFICES ASSUME previous[m] \in X PROVE FALSE
    OBVIOUS
  <2>1. m \in Mapped /\ previous[m] \in Mapped /\ previous[m] # Nil
    BY ListAssumption DEF ListAssumption, Mapped
  <2>2. next[previous[m]] = m /\ m # Nil
    BY <2>1, ListAssumption DEF ListAssumption, WellLinked, Mapped
  <2>3. rank[previous[m]] < rank[m]
    BY <1>2, <2>1, <2>2 DEF Numbers
  <2> QED BY <1>7, <2>3
<1> QED BY <1>8

\* What removing a key does to the set of mapped nodes.
LEMMA RemoveMapped ==
  ASSUME MapInv, NEW s \in Signatures, Remove(s)
  PROVE  /\ nodeMap[s] \in Mapped
         /\ Mapped' = Mapped \ {nodeMap[s]}
<1> USE ListAssumption DEF ListAssumption, MapInv, TypeOK
<1>1. PICK n \in Nodes : n = nodeMap[s]
  BY DEF Remove, Has
<1>2. \A t \in Signatures : nodeMap[t] = n => t = s
  BY <1>1 DEF MapConsistent, Has
<1>3. \A t \in Signatures : nodeMap'[t] = IF t = s THEN Nil ELSE nodeMap[t]
  BY DEF Remove
<1> QED BY <1>1, <1>2, <1>3 DEF Mapped

\* The node Remove unlinks is the mapped one, and it leaves nobody's link.
LEMMA RemoveKeepsLinks ==
  ASSUME DistinctOrderIds, ListInv, NEW s \in Signatures, Remove(s)
  PROVE  WellLinked' /\ PriceTimeOrder' /\ Acyclic'
<1> USE ListAssumption DEF ListAssumption, ListInv, MapInv, TypeOK
<1>1. PICK n \in Nodes : n = nodeMap[s]
  BY DEF Remove, Has
<1>2. n \in Mapped /\ Sig(n) = s /\ Mapped \subseteq Nodes
  BY <1>1 DEF Mapped, MapConsistent, Has
<1>3. SameAsHead(n) <=> n = head
  BY <1>2, HeadTest
<1>4. /\ head' = IF n = head THEN next[n] ELSE head
      /\ \A m \in Nodes : previous'[m] = IF m = n THEN Nil
                                         ELSE IF m = next[n] THEN previous[n]
                                         ELSE previous[m]
      /\ \A m \in Nodes : next'[m] = IF m = n THEN Nil
                                     ELSE IF m = previous[n] THEN next[n]
                                     ELSE next[m]
      /\ nodeMap' = [nodeMap EXCEPT ![s] = Nil]
      /\ order' = order
  BY <1>1, <1>3 DEF Remove, NextWithout, PreviousWithout
<1>5. Mapped' = Mapped \ {n}
  BY <1>1, RemoveMapped
<1>6. /\ next[n] # Nil => next[n] \in Mapped /\ previous[next[n]] = n
      /\ previous[n] # Nil => previous[n] \in Mapped /\ next[previous[n]] = n
      /\ previous[n] = Nil <=> n = head
  BY <1>2 DEF WellLinked
<1>7. next[n] # n /\ previous[n] # n
  <2>1. PICK rank \in [Nodes -> Int] : Numbers(rank)
    BY DEF Acyclic
  <2>2. next[n] # n
    BY <1>2, <2>1 DEF Numbers
  <2> QED BY <1>6, <2>2
<1>8. ASSUME NEW m \in Mapped'
      PROVE  /\ m \in Mapped /\ m # n /\ m \in Nodes
             /\ m = previous[n] => next'[m] = next[n]
             /\ m # previous[n] => next'[m] = next[m] /\ next[m] # n
             /\ m = next[n] => previous'[m] = previous[n]
             /\ m # next[n] => previous'[m] = previous[m] /\ previous[m] # n
  <2>1. m \in Mapped /\ m # n /\ m \in Nodes
    BY <1>2, <1>5
  <2>2. next[m] = n => previous[n] = m
    BY <2>1 DEF WellLinked
  <2>3. previous[m] = n => next[n] = m
    BY <2>1 DEF WellLinked
  <2> QED BY <1>4, <2>1, <2>2, <2>3
<1>9. WellLinked'
  <2>1. head' = Nil => Mapped' = {}
    <3> SUFFICES ASSUME head' = Nil, Mapped' # {} PROVE FALSE
      OBVIOUS
    <3>1. n = head /\ next[n] = Nil
      BY <1>2, <1>4 DEF WellLinked
    <3>2. PICK m \in Mapped' : previous[m] \notin Mapped'
      BY <1>5, FirstOfSet
    <3>3. m \in Mapped /\ m # n /\ previous[m] # n
      BY <1>8, <3>1
    <3>4. previous[m] # Nil
      BY <3>1, <3>3 DEF WellLinked
    <3> QED BY <1>5, <3>2, <3>3, <3>4 DEF WellLinked
  <2>2. head' # Nil => head' \in Mapped'
    BY <1>2, <1>4, <1>5, <1>6, <1>7 DEF WellLinked
  <2>3. ASSUME NEW m \in Mapped'
        PROVE  /\ next'[m] # Nil => next'[m] \in Mapped' /\ previous'[next'[m]] = m
               /\ previous'[m] # Nil => previous'[m] \in Mapped' /\ next'[previous'[m]] = m
               /\ previous'[m] = Nil <=> m = head'
    <3>1. next'[m] # Nil => next'[m] \in Mapped' /\ previous'[next'[m]] = m
      <4>1. CASE m = previous[n]
        BY <1>2, <1>4, <1>5, <1>6, <1>7, <1>8, <4>1
      <4>2. CASE m # previous[n]
        <5>1. next[m] # Nil => next[m] \in Mapped' /\ previous[next[m]] = m /\ next[m] # next[n]
          BY <1>5, <1>6, <1>8, <4>2 DEF WellLinked
        <5> QED BY <1>8, <4>2, <5>1
      <4> QED BY <4>1, <4>2
    <3>2. previous'[m] # Nil => previous'[m] \in Mapped' /\ next'[previous'[m]] = m
      <4>1. CASE m = next[n]
        BY <1>2, <1>4, <1>5, <1>6, <1>7, <1>8, <4>1
      <4>2. CASE m # next[n]
        <5>1. previous[m] # Nil => previous[m] \in Mapped' /\ next[previous[m]] = m /\ previous[m] # previous[n]
          BY <1>5, <1>6, <1>8, <4>2 DEF WellLinked
        <5> QED BY <1>8, <4>2, <5>1
      <4> QED BY <4>1, <4>2
    <3>3. previous'[m] = Nil <=> m = head'
      <4>1. CASE m = next[n]
        BY <1>4, <1>6, <1>8, <4>1 DEF WellLinked
      <4>2. CASE m # next[n]
        BY <1>4, <1>8, <4>2 DEF WellLinked
      <4> QED BY <4>1, <4>2
    <3> QED BY <3>1, <3>2, <3>3
  <2>4. head' = Nil <=> Mapped' = {}
    BY <2>1, <2>2
  <2> QED BY <2>2, <2>3, <2>4 DEF WellLinked
<1>10. PriceTimeOrder'
  <2> SUFFICES ASSUME NEW m \in Mapped', next'[m] # Nil
               PROVE  ~Queue!Precedes(Sig(next[m]), Sig(m))'
    BY DEF PriceTimeOrder
  <2>1. m \in Mapped /\ next'[m] \in Mapped
    BY <1>5, <1>9 DEF WellLinked
  <2>2. Sig(next[m])' = Sig(next'[m]) /\ Sig(m)' = Sig(m)
    BY <1>4 DEF Sig
  <2>3. ~Queue!Precedes(Sig(next'[m]), Sig(m))
    <3>1. CASE m = previous[n]
      <4>1. next'[m] = next[n] /\ next[m] = n
        BY <1>6, <1>8, <2>1, <3>1, ListAssumption DEF ListAssumption
      <4>2. ~Queue!Precedes(Sig(n), Sig(m)) /\ ~Queue!Precedes(Sig(next[n]), Sig(n))
        BY <1>2, <2>1, <4>1 DEF PriceTimeOrder
      <4>3. Sig(m) \in Signatures /\ Sig(n) \in Signatures /\ Sig(next[n]) \in Signatures
        BY <1>2, <2>1, <4>1, MappedNode
      <4> QED BY <4>1, <4>2, <4>3, PriorityTransitive
    <3>2. CASE m # previous[n]
      BY <1>8, <2>1, <3>2 DEF PriceTimeOrder
    <3> QED BY <3>1, <3>2
  <2> QED BY <2>2, <2>3 DEF Queue!Precedes
<1>11. Acyclic'
  <2>1. PICK rank \in [Nodes -> Int] : Numbers(rank)
    BY DEF Acyclic
  <2>2. ASSUME NEW m \in Mapped', next'[m] # Nil
        PROVE  rank[m] < rank[next'[m]]
    <3>1. CASE m = previous[n]
      <4>1. next'[m] = next[n] /\ next[m] = n /\ m \in Mapped /\ next[n] \in Mapped
        BY <1>6, <1>8, <2>2, <3>1
      <4>2. rank[m] < rank[n] /\ rank[n] < rank[next[n]]
        BY <1>2, <2>1, <4>1 DEF Numbers
      <4> QED BY <1>2, <4>1, <4>2
    <3>2. CASE m # previous[n]
      BY <1>8, <2>1, <2>2, <3>2 DEF Numbers
    <3> QED BY <3>1, <3>2
  <2>3. Numbers(rank)'
    BY <2>2 DEF Numbers
  <2> QED BY <2>3 DEF Acyclic
<1> QED BY <1>9, <1>10, <1>11

\* Operations that leave the links and the signatures where they are.
LEMMA LinksUntouched ==
  ASSUME ListInv, UNCHANGED <<head, nodeMap, next, previous>>,
         \A m \in Mapped : Sig(m)' = Sig(m)
  PROVE  WellLinked' /\ PriceTimeOrder' /\ Acyclic'
<1>1. Mapped' = Mapped
  BY DEF Mapped
<1>2. WellLinked'
  BY <1>1 DEF ListInv, WellLinked
<1>3. PriceTimeOrder'
  <2> SUFFICES ASSUME NEW m \in Mapped, next[m] # Nil
               PROVE  ~Queue!Precedes(Sig(next[m]), Sig(m))'
    BY <1>1 DEF PriceTimeOrder
  <2>1. Sig(next[m])' = Sig(next[m]) /\ Sig(m)' = Sig(m)
    BY DEF ListInv, WellLinked, Sig
  <2>2. ~Queue!Precedes(Sig(next[m]), Sig(m))
    BY DEF ListInv, PriceTimeOrder
  <2> QED BY <2>1, <2>2 DEF Queue!Precedes
<1>4. Acyclic'
  BY <1>1 DEF ListInv, Acyclic, Numbers
<1> QED BY <1>2, <1>3, <1>4

\* The empty list satisfies the invariant of the links.
THEOREM ListInvInit == Init => ListInv
<1> SUFFICES ASSUME Init PROVE ListInv
  OBVIOUS
<1> USE ListAssumption DEF ListAssumption
<1>1. Mapped = {}
  BY DEF Init, Mapped
<1>2. WellLinked /\ PriceTimeOrder
  BY <1>1 DEF Init, WellLinked, PriceTimeOrder
<1>3. Acyclic
  <2>1. [m \in Nodes |-> 0] \in [Nodes -> Int]
    OBVIOUS
  <2> QED BY <1>1, <2>1 DEF Acyclic, Numbers
<1> QED BY <1>2, <1>3, MapInvInit DEF ListInv

\* Every operation of the list preserves the invariant of the links, provided
\* that the head test of Remove is not deceived by equal order ids.
THEOREM ListInvNext == DistinctOrderIds /\ ListInv /\ [Next]_vars => ListInv'
<1> SUFFICES ASSUME DistinctOrderIds, ListInv, [Next]_vars PROVE ListInv'
  OBVIOUS
<1> USE ListAssumption DEF ListAssumption
<1>1. MapInv'
  BY MapInvNext DEF ListInv
<1>2. ASSUME NEW s \in Signatures, NEW filled \in 0..MaxFilled, Insert(s, filled)
      PROVE  WellLinked' /\ PriceTimeOrder' /\ Acyclic'
  BY <1>2, FirstKeepsLinks, HeadKeepsLinks, AfterKeepsLinks DEF Insert
<1>3. ASSUME NEW s \in Signatures, NEW filled \in 0..MaxFilled, Update(s, filled)
      PROVE  WellLinked' /\ PriceTimeOrder' /\ Acyclic'
  <2>1. UNCHANGED <<head, nodeMap, next, previous>>
    BY <1>3 DEF Update
  <2>2. \A m \in Mapped : Sig(m)' = Sig(m)
    <3> TAKE m \in Mapped
    <3>1. m \in Nodes /\ order \in [Nodes -> Order]
      BY DEF Mapped, ListInv, MapInv, TypeOK
    <3>2. nodeMap[s] # Nil /\ Sig(nodeMap[s]) = s
      BY <1>3 DEF Update, Has, ListInv, MapInv, MapConsistent
    <3> QED BY <1>3, <3>1, <3>2 DEF Update, Sig
  <2> QED BY <2>1, <2>2, LinksUntouched
<1>4. ASSUME NEW s \in Signatures, ResetTryFill(s) \/ TryFill(s)
      PROVE  WellLinked' /\ PriceTimeOrder' /\ Acyclic'
  <2>1. UNCHANGED <<head, nodeMap, next, previous>> /\ order' = order
    BY <1>4 DEF ResetTryFill, TryFill
  <2> QED BY <2>1, LinksUntouched DEF Sig
<1>5. ASSUME NEW s \in Signatures, Remove(s)
      PROVE  WellLinked' /\ PriceTimeOrder' /\ Acyclic'
  BY <1>5, RemoveKeepsLinks
<1>6. ASSUME Clear PROVE WellLinked' /\ PriceTimeOrder' /\ Acyclic'
  <2>1. Mapped' = {}
    BY <1>6 DEF Clear, Mapped
  <2>2. WellLinked' /\ PriceTimeOrder'
    BY <1>6, <2>1 DEF Clear, WellLinked, PriceTimeOrder
  <2>3. [m \in Nodes |-> 0] \in [Nodes -> Int]
    OBVIOUS
  <2> QED BY <2>1, <2>2, <2>3 DEF Acyclic, Numbers
<1>7. ASSUME UNCHANGED vars PROVE WellLinked' /\ PriceTimeOrder' /\ Acyclic'
  BY <1>7, LinksUntouched DEF vars, Sig
<1> QED BY <1>1, <1>2, <1>3, <1>4, <1>5, <1>6, <1>7 DEF Next, ListInv

\* As long as no two orders of the list share an order id, the links of every
\* reachable state form one chain from the head through the whole map.
THEOREM LinksCorrect ==
  ASSUME DistinctOrderIds PROVE Spec => []WellLinked
<1>1. Init => ListInv
  BY ListInvInit
<1>2. ListInv /\ [Next]_vars => ListInv'
  BY ListInvNext
<1>3. ListInv => WellLinked
  BY DEF ListInv
<1> QED BY <1>1, <1>2, <1>3, PTL DEF Spec

\* ... and the chain is in price-time order: a query may stop at the first
\* order that does not cross.
THEOREM OrderCorrect ==
  ASSUME DistinctOrderIds PROVE Spec => []PriceTimeOrder
<1>1. Init => ListInv
  BY ListInvInit
<1>2. ListInv /\ [Next]_vars => ListInv'
  BY ListInvNext
<1>3. ListInv => PriceTimeOrder
  BY DEF ListInv
<1> QED BY <1>1, <1>2, <1>3, PTL DEF Spec

\* Following the links from the head reaches the nodes of the map and no other.
LEMMA WalkIsMap ==
  ASSUME ListInv PROVE NothingLost
<1> USE DEF ListInv
<1>1. CASE head = Nil
  BY <1>1 DEF NothingLost, Visited, WellLinked
<1>2. CASE head # Nil
  <2>1. head \in Mapped /\ Mapped \in SUBSET Nodes
    BY <1>2 DEF WellLinked, Mapped
  <2>2. \A m \in Mapped : next[m] \in Nodes => next[m] \in Mapped
    BY ListAssumption DEF ListAssumption, WellLinked
  <2>3. WalkWithin(Nodes) \subseteq Mapped
    BY <2>1, <2>2 DEF WalkWithin
  <2>4. ASSUME NEW S \in SUBSET Nodes, head \in S,
               \A m \in S : next[m] \in Nodes => next[m] \in S
        PROVE  Mapped \subseteq S
    <3> SUFFICES ASSUME Mapped \ S # {} PROVE FALSE
      OBVIOUS
    <3>1. PICK m \in Mapped \ S : previous[m] \notin Mapped \ S
      BY FirstOfSet
    <3>2. previous[m] # Nil
      BY <2>4, <3>1 DEF WellLinked
    <3>3. previous[m] \in S /\ next[previous[m]] = m
      BY <3>1, <3>2 DEF WellLinked
    <3> QED BY <2>1, <2>4, <3>1, <3>3
  <2>5. Mapped \subseteq WalkWithin(Nodes)
    BY <2>1, <2>4 DEF WalkWithin
  <2> QED BY <1>2, <2>3, <2>5 DEF NothingLost, Visited
<1> QED BY <1>1, <1>2

\* A generator over the list yields the orders of the map, all of them and no
\* removed one.
THEOREM IterationComplete ==
  ASSUME DistinctOrderIds PROVE Spec => []NothingLost
<1>1. Init => ListInv
  BY ListInvInit
<1>2. ListInv /\ [Next]_vars => ListInv'
  BY ListInvNext
<1> QED BY <1>1, <1>2, WalkIsMap, PTL DEF Spec

-----------------------------------------------------------------------------
\* The k nodes of the list in the sequence of the links.  Pairwise order and
\* not just that of neighbours, so that a step needs no induction.
Chain(k, w) ==
  /\ w \in [1..k -> Nodes]
  /\ head = IF k = 0 THEN Nil ELSE w[1]
  /\ \A i \in 1..k : next[w[i]] = IF i = k THEN Nil ELSE w[i+1]
  /\ \A i, j \in 1..k : i < j => /\ w[i] # w[j]
                                 /\ ~Queue!Precedes(Sig(w[j]), Sig(w[i]))
  /\ Mapped = {w[i] : i \in 1..k}

ChainInv == ListInv /\ \E k \in Nat : \E w \in [1..k -> Nodes] : Chain(k, w)

Entries(k, w) == [i \in 1..k |-> Entry(w[i])]

\* Two sequences of length k with x put behind the first p, and with the p-th
\* one taken out.
PutIn(k, w, p, x) ==
  [i \in 1..k+1 |-> IF i <= p THEN w[i] ELSE IF i = p+1 THEN x ELSE w[i-1]]
TakenOut(k, w, p) == [i \in 1..k-1 |-> IF i < p THEN w[i] ELSE w[i+1]]

\* The queue's insertion and removal, which are written with SubSeq, do that.
LEMMA PutInIsConcat ==
  ASSUME NEW S, NEW k \in Nat, NEW q \in [1..k -> S], NEW p \in 0..k, NEW x \in S
  PROVE  SubSeq(q, 1, p) \o <<x>> \o SubSeq(q, p+1, Len(q)) = PutIn(k, q, p, x)
<1>1. q \in Seq(S) /\ Len(q) = k
  OBVIOUS
<1> DEFINE a == SubSeq(q, 1, p)
           b == SubSeq(q, p+1, k)
<1>2. a \in Seq(S) /\ Len(a) = p /\ \A i \in 1..p : a[i] = q[i]
  BY <1>1, SubSeqProperties
<1>3. b \in Seq(S) /\ Len(b) = k-p /\ \A i \in 1..k-p : b[i] = q[p+i]
  BY <1>1, SubSeqProperties
<1>4. <<x>> \in Seq(S) /\ Len(<<x>>) = 1 /\ <<x>>[1] = x
  OBVIOUS
<1> HIDE DEF a, b
<1>5. /\ a \o <<x>> \in Seq(S) /\ Len(a \o <<x>>) = p+1
      /\ \A i \in 1..p+1 : (a \o <<x>>)[i] = IF i <= p THEN q[i] ELSE x
  BY <1>2, <1>4, ConcatProperties
<1>6. /\ (a \o <<x>>) \o b \in Seq(S) /\ Len((a \o <<x>>) \o b) = k+1
      /\ \A i \in 1..k+1 : ((a \o <<x>>) \o b)[i] = PutIn(k, q, p, x)[i]
  <2> DEFINE c == a \o <<x>>
  <2>1. c \in Seq(S) /\ Len(c) = p+1
    BY <1>5
  <2> HIDE DEF c
  <2>2. /\ c \o b \in Seq(S) /\ Len(c \o b) = k+1
        /\ \A i \in 1..k+1 : (c \o b)[i] = IF i <= p+1 THEN c[i] ELSE b[i-(p+1)]
    <3>1. Len(c) + Len(b) = k+1
      BY <1>3, <2>1
    <3>2. /\ c \o b \in Seq(S) /\ Len(c \o b) = Len(c) + Len(b)
          /\ \A i \in 1..Len(c) + Len(b) :
               (c \o b)[i] = IF i <= Len(c) THEN c[i] ELSE b[i-Len(c)]
      BY <1>3, <2>1, ConcatProperties, Zenon
    <3> QED BY <2>1, <3>1, <3>2
  <2>3. \A i \in 1..k+1 : i > p+1 => b[i-(p+1)] = q[i-1]
    BY <1>3
  <2>4. \A i \in 1..p+1 : c[i] = IF i <= p THEN q[i] ELSE x
    BY <1>5 DEF c
  <2>5. \A i \in 1..k+1 : (c \o b)[i] = PutIn(k, q, p, x)[i]
    BY <2>2, <2>3, <2>4 DEF PutIn
  <2> QED BY <2>2, <2>5 DEF c
<1>7. (a \o <<x>>) \o b = PutIn(k, q, p, x)
  <2> DEFINE d == (a \o <<x>>) \o b
             e == PutIn(k, q, p, x)
  <2>1. e \in [1..k+1 -> S]
    BY DEF PutIn
  <2>2. e \in Seq(S) /\ Len(e) = k+1
    <3> HIDE DEF e
    <3> QED BY <2>1
  <2>3. d \in Seq(S) /\ Len(d) = k+1 /\ \A i \in 1..k+1 : d[i] = e[i]
    BY <1>6
  <2> HIDE DEF d, e
  <2>4. d = e
    BY <2>2, <2>3, SeqEqual
  <2> QED BY <2>4 DEF d, e
<1> QED BY <1>1, <1>7 DEF a, b

LEMMA TakenOutIsConcat ==
  ASSUME NEW S, NEW k \in Nat, NEW q \in [1..k -> S], NEW p \in 1..k
  PROVE  SubSeq(q, 1, p-1) \o SubSeq(q, p+1, Len(q)) = TakenOut(k, q, p)
<1>1. q \in Seq(S) /\ Len(q) = k
  OBVIOUS
<1> DEFINE a == SubSeq(q, 1, p-1)
           b == SubSeq(q, p+1, k)
<1>2. a \in Seq(S) /\ Len(a) = p-1 /\ \A i \in 1..p-1 : a[i] = q[i]
  BY <1>1, SubSeqProperties
<1>3. b \in Seq(S) /\ Len(b) = k-p /\ \A i \in 1..k-p : b[i] = q[p+i]
  BY <1>1, SubSeqProperties
<1> HIDE DEF a, b
<1>4. /\ a \o b \in Seq(S) /\ Len(a \o b) = k-1
      /\ \A i \in 1..k-1 : (a \o b)[i] = IF i <= p-1 THEN a[i] ELSE b[i-(p-1)]
  BY <1>2, <1>3, ConcatProperties
<1>5. \A i \in 1..k-1 : i > p-1 => b[i-(p-1)] = q[i+1]
  BY <1>3
<1>6. \A i \in 1..k-1 : (a \o b)[i] = TakenOut(k, q, p)[i]
  BY <1>2, <1>4, <1>5 DEF TakenOut
<1>7. a \o b = TakenOut(k, q, p)
  <2> DEFINE d == a \o b
             e == TakenOut(k, q, p)
  <2>1. e \in [1..k-1 -> S] /\ k-1 \in Nat
    BY DEF TakenOut
  <2>2. e \in Seq(S) /\ Len(e) = k-1
    <3> HIDE DEF e
    <3> QED BY <2>1
  <2>3. d \in Seq(S) /\ Len(d) = k-1 /\ \A i \in 1..k-1 : d[i] = e[i]
    BY <1>4, <1>6
  <2> HIDE DEF d, e
  <2>4. d = e
    BY <2>2, <2>3, SeqEqual
  <2> QED BY <2>4 DEF d, e
<1> QED BY <1>1, <1>7 DEF a, b

\* Following the links from the head meets the nodes of the chain in turn.
LEMMA ChainIsYielded ==
  ASSUME NEW k \in Nat, NEW w \in [1..k -> Nodes], Chain(k, w), NEW j \in Nat
  PROVE  Yielded[j] = IF j < k THEN w[j+1] ELSE Nil
<1> DEFINE From(f) == [i \in Nat |-> IF i = 0 THEN head
                         ELSE LET n == f[i-1] IN IF n = Nil THEN Nil ELSE next[n]]
           g == [i \in Nat |-> IF i < k THEN w[i+1] ELSE Nil]
<1>1. g = From(g)
  <2>1. \A i \in Nat : g[i] = From(g)[i]
    <3> TAKE i \in Nat
    <3>1. CASE i = 0
      BY <3>1 DEF Chain
    <3>2. CASE i # 0
      <4>1. i-1 \in Nat /\ g[i-1] = IF i-1 < k THEN w[i] ELSE Nil
        BY <3>2
      <4>2. CASE i-1 < k
        <5>1. i \in 1..k /\ w[i] # Nil /\ next[w[i]] = IF i = k THEN Nil ELSE w[i+1]
          BY <3>2, <4>2, ListAssumption DEF ListAssumption, Chain
        <5> QED BY <3>2, <4>1, <4>2, <5>1
      <4>3. CASE ~(i-1 < k)
        BY <3>2, <4>1, <4>3
      <4> QED BY <4>2, <4>3
    <3> QED BY <3>1, <3>2
  <2> HIDE DEF g
  <2>2. g \in [Nat -> Nodes \cup {Nil}]
    BY DEF g
  <2> QED BY <2>1, <2>2
<1>2. Yielded = From(Yielded)
  <2>1. Yielded = CHOOSE f : f = From(f)
    BY DEF Yielded
  <2> HIDE DEF From, g
  <2> QED BY <1>1, <2>1
<1>3. \A i \in Nat : Yielded[i] = g[i]
  <2> DEFINE T == {i \in Nat : Yielded[i] # g[i]}
  <2> SUFFICES ASSUME T # {} PROVE FALSE
    OBVIOUS
  <2>1. PICK i \in T : \A m \in T : <<m, i>> \notin OpToRel(<, Nat)
    <3>1. T \subseteq Nat
      OBVIOUS
    <3> HIDE DEF T
    <3> QED BY <3>1, NatLessThanWellFounded, WFMin
  <2>2. i \in Nat /\ Yielded[i] # g[i]
    OBVIOUS
  <2>3. i # 0 => Yielded[i-1] = g[i-1]
    <3> SUFFICES ASSUME i # 0, i-1 \in T PROVE FALSE
      BY <2>2
    <3>1. <<i-1, i>> \in OpToRel(<, Nat)
      BY <2>2 DEF OpToRel
    <3> QED BY <2>1, <3>1
  <2> HIDE DEF T, g
  <2>4. Yielded[i] = From(Yielded)[i] /\ g[i] = From(g)[i]
    BY <1>1, <1>2
  <2>5. From(Yielded)[i] = From(g)[i]
    BY <2>2, <2>3
  <2> QED BY <2>2, <2>4, <2>5
<1> QED BY <1>3

\* The refinement mapping, read off the chain.
LEMMA TraversalIsChain ==
  ListInv => \A k \in Nat : \A w \in [1..k -> Nodes] :
               Chain(k, w) => Traversal = Entries(k, w)
<1> SUFFICES ASSUME ListInv, NEW k \in Nat, NEW w \in [1..k -> Nodes], Chain(k, w)
             PROVE  Traversal = Entries(k, w)
  OBVIOUS
<1>1. Visited = {w[i] : i \in 1..k}
  BY WalkIsMap DEF NothingLost, Chain
<1>2. Cardinality(Visited) = k
  <2>1. w \in Bijection(1..k, Visited)
    <3>1. \A i, j \in 1..k : w[i] = w[j] => i = j
      BY DEF Chain
    <3> QED BY <1>1, <3>1 DEF Bijection, Injection, Surjection, IsInjective
  <2>2. IsFiniteSet(1..k) /\ Cardinality(1..k) = k
    BY FS_Interval
  <2> QED BY <2>1, <2>2, FS_Bijection DEF ExistsBijection
<1>3. \A i \in 1..k : Yielded[i-1] = w[i]
  BY ChainIsYielded
<1> QED BY <1>2, <1>3 DEF Traversal, Entries

\* ... and after a step.
LEMMA TraversalIsChainNext ==
  (ListInv => \A k \in Nat : \A w \in [1..k -> Nodes] :
                Chain(k, w) => Traversal = Entries(k, w))'
BY TraversalIsChain, PTL

\* The new node stands in the chain where its neighbours say, and the sequence
\* stays in order.
LEMMA ChainWithNode ==
  ASSUME ListInv, NEW k \in Nat, NEW w \in [1..k -> Nodes], Chain(k, w),
         NEW p \in 0..k, NEW n \in Nodes, NEW s \in Signatures,
         NEW filled \in 0..MaxFilled, CreateNode(n, s, filled),
         \A j \in 1..p : ~Queue!Precedes(s, Sig(w[j])),
         \A j \in p+1..k : Queue!Precedes(s, Sig(w[j])),
         head' = IF p = 0 THEN n ELSE head,
         \A m \in Nodes : next'[m] = IF m = n THEN (IF p = k THEN Nil ELSE w[p+1])
                                     ELSE IF p # 0 /\ m = w[p] THEN n ELSE next[m]
  PROVE  Chain(k+1, PutIn(k, w, p, n))'
<1> DEFINE v == PutIn(k, w, p, n)
<1>1. /\ Mapped' = Mapped \cup {n} /\ n \notin Mapped
      /\ Sig(n)' = s
      /\ \A m \in Nodes : m # n => Sig(m)' = Sig(m)
  BY CreateNodeMapped DEF ListInv
<1>2. /\ v \in [1..k+1 -> Nodes]
      /\ \A i \in 1..p : v[i] = w[i]
      /\ v[p+1] = n
      /\ \A i \in p+2..k+1 : v[i] = w[i-1]
  BY DEF PutIn
<1>3. \A i \in 1..k : w[i] \in Mapped /\ w[i] # n /\ Sig(w[i])' = Sig(w[i]) /\ Sig(w[i]) \in Signatures
  <2> TAKE i \in 1..k
  <2>1. w[i] \in Mapped /\ w[i] \in Nodes
    BY DEF Chain
  <2> QED BY <1>1, <2>1, MappedNode DEF ListInv
<1>4. \A i, j \in 1..k : i # j => w[i] # w[j]
  BY DEF Chain
<1> HIDE DEF v
<1>5. head' = IF k+1 = 0 THEN Nil ELSE v[1]
  BY <1>2 DEF Chain
<1>6. ASSUME NEW i \in 1..k+1
      PROVE  next'[v[i]] = IF i = k+1 THEN Nil ELSE v[i+1]
  <2>1. CASE i < p
    <3>1. i \in 1..k /\ i+1 \in 1..p /\ p \in 1..k /\ i # p
      BY <2>1
    <3>2. v[i] = w[i] /\ v[i+1] = w[i+1] /\ w[i] # n /\ w[i] # w[p] /\ w[i] \in Nodes
      BY <1>2, <1>3, <1>4, <2>1, <3>1
    <3>3. next'[w[i]] = next[w[i]] /\ next[w[i]] = w[i+1]
      BY <2>1, <3>1, <3>2 DEF Chain
    <3> QED BY <2>1, <3>2, <3>3
  <2>2. CASE i = p
    <3>1. p \in 1..k /\ v[i] = w[p] /\ w[p] # n /\ w[p] \in Nodes
      BY <1>2, <1>3, <2>2
    <3> QED BY <1>2, <2>2, <3>1
  <2>3. CASE i = p+1
    <3>1. p # k => p+2 \in p+2..k+1 /\ v[p+2] = w[p+1]
      BY <1>2
    <3> QED BY <1>2, <2>3, <3>1
  <2>4. CASE i > p+1
    <3>1. i \in p+2..k+1 /\ i-1 \in 1..k /\ i-1 # p /\ i # k+1 => i+1 \in p+2..k+1
      BY <2>4
    <3>2. v[i] = w[i-1] /\ w[i-1] # n /\ (p # 0 => w[i-1] # w[p]) /\ w[i-1] \in Nodes
      BY <1>2, <1>3, <1>4, <2>4, <3>1
    <3>3. next'[v[i]] = next[w[i-1]]
      BY <3>2
    <3>4. next[w[i-1]] = IF i-1 = k THEN Nil ELSE w[i]
      BY <2>4, <3>1 DEF Chain
    <3>5. i # k+1 => v[i+1] = w[i]
      BY <1>2, <2>4, <3>1
    <3> QED BY <2>4, <3>3, <3>4, <3>5
  <2> QED BY <2>1, <2>2, <2>3, <2>4
<1>7. ASSUME NEW i \in 1..k+1, NEW j \in 1..k+1, i < j
      PROVE  v[i] # v[j] /\ ~Queue!Precedes(Sig(v[j]), Sig(v[i]))'
  <2>1. CASE j < p+1
    <3>1. i \in 1..k /\ j \in 1..k /\ v[i] = w[i] /\ v[j] = w[j]
      BY <1>2, <1>7, <2>1
    <3>2. w[i] # w[j] /\ ~Queue!Precedes(Sig(w[j]), Sig(w[i]))
      BY <1>7, <3>1 DEF Chain
    <3> QED BY <1>3, <3>1, <3>2 DEF Queue!Precedes
  <2>2. CASE j = p+1
    <3>1. i \in 1..p /\ i \in 1..k /\ v[i] = w[i] /\ v[j] = n
      BY <1>2, <1>7, <2>2
    <3>2. ~Queue!Precedes(s, Sig(w[i]))
      BY <3>1
    <3> QED BY <1>1, <1>3, <3>1, <3>2 DEF Queue!Precedes
  <2>3. CASE i < p+1 /\ j > p+1
    <3>a. i \in 1..k /\ j-1 \in 1..k /\ i < j-1 /\ i \in 1..p /\ j \in p+2..k+1
      BY <1>7, <2>3
    <3>1. i \in 1..k /\ j-1 \in 1..k /\ i < j-1 /\ v[i] = w[i] /\ v[j] = w[j-1]
      BY <1>2, <3>a
    <3>2. w[i] # w[j-1] /\ ~Queue!Precedes(Sig(w[j-1]), Sig(w[i]))
      BY <3>1 DEF Chain
    <3> QED BY <1>3, <3>1, <3>2 DEF Queue!Precedes
  <2>4. CASE i = p+1
    <3>1. j-1 \in p+1..k /\ j-1 \in 1..k /\ v[i] = n /\ v[j] = w[j-1]
      BY <1>2, <1>7, <2>4
    <3>2. Queue!Precedes(s, Sig(w[j-1]))
      BY <3>1
    <3>3. ~Queue!Precedes(Sig(w[j-1]), s)
      BY <1>3, <3>1, <3>2, PriorityAsymmetric
    <3> QED BY <1>1, <1>3, <3>1, <3>3 DEF Queue!Precedes
  <2>5. CASE i > p+1
    <3>1. i-1 \in 1..k /\ j-1 \in 1..k /\ i-1 < j-1 /\ v[i] = w[i-1] /\ v[j] = w[j-1]
      BY <1>2, <1>7, <2>5
    <3>2. w[i-1] # w[j-1] /\ ~Queue!Precedes(Sig(w[j-1]), Sig(w[i-1]))
      BY <3>1 DEF Chain
    <3> QED BY <1>3, <3>1, <3>2 DEF Queue!Precedes
  <2> QED BY <1>7, <2>1, <2>2, <2>3, <2>4, <2>5
<1>8. Mapped' = {v[i] : i \in 1..k+1}
  <2>1. \A i \in 1..k : \E j \in 1..k+1 : v[j] = w[i]
    <3> TAKE i \in 1..k
    <3>1. CASE i <= p
      BY <1>2, <3>1
    <3>2. CASE i > p
      <4>1. i+1 \in p+2..k+1 /\ i+1 \in 1..k+1
        BY <3>2
      <4>2. v[i+1] = w[i]
        BY <1>2, <4>1
      <4> QED BY <4>1, <4>2
    <3> QED BY <3>1, <3>2
  <2>2. \A j \in 1..k+1 : v[j] = n \/ \E i \in 1..k : v[j] = w[i]
    <3> TAKE j \in 1..k+1
    <3>1. CASE j <= p
      BY <1>2, <3>1
    <3>2. CASE j > p+1
      <4>1. j \in p+2..k+1 /\ j-1 \in 1..k
        BY <3>2
      <4> QED BY <1>2, <4>1
    <3> QED BY <1>2, <3>1, <3>2
  <2>3. Mapped = {w[i] : i \in 1..k} /\ p+1 \in 1..k+1
    BY DEF Chain
  <2> QED BY <1>1, <1>2, <2>1, <2>2, <2>3
<1> QED BY <1>2, <1>5, <1>6, <1>7, <1>8 DEF Chain, v

\* Where an insertion puts the new node: behind every order it does not
\* precede, before all the others.
LEMMA InsertPlace ==
  ASSUME ListInv, NEW k \in Nat, NEW w \in [1..k -> Nodes], Chain(k, w),
         NEW n \in Nodes, NEW s \in Signatures, NEW filled \in 0..MaxFilled,
         \/ InsertFirst(n, s, filled)
         \/ InsertAtHead(n, s, filled)
         \/ \E current \in Nodes : InsertAfter(n, current, s, filled)
  PROVE  /\ CreateNode(n, s, filled)
         /\ \E p \in 0..k :
              /\ \A j \in 1..p : ~Queue!Precedes(s, Sig(w[j]))
              /\ \A j \in p+1..k : Queue!Precedes(s, Sig(w[j]))
              /\ Chain(k+1, PutIn(k, w, p, n))'
<1> USE ListAssumption DEF ListAssumption
<1>1. CreateNode(n, s, filled)
  BY DEF InsertFirst, InsertAtHead, InsertAfter
<1>2. /\ next \in [Nodes -> Nodes \cup {Nil}] /\ n # Nil
      /\ \A i \in 1..k : w[i] \in Mapped /\ w[i] # Nil /\ Sig(w[i]) \in Signatures
      /\ \A i, j \in 1..k : i < j => ~Queue!Precedes(Sig(w[j]), Sig(w[i]))
  BY MappedNode DEF Chain, ListInv, MapInv, TypeOK
<1> SUFFICES \E p \in 0..k :
               /\ \A j \in 1..p : ~Queue!Precedes(s, Sig(w[j]))
               /\ \A j \in p+1..k : Queue!Precedes(s, Sig(w[j]))
               /\ head' = IF p = 0 THEN n ELSE head
               /\ \A m \in Nodes :
                    next'[m] = IF m = n THEN (IF p = k THEN Nil ELSE w[p+1])
                               ELSE IF p # 0 /\ m = w[p] THEN n ELSE next[m]
  BY <1>1, ChainWithNode
<1>3. CASE InsertFirst(n, s, filled)
  <2>1. k = 0
    <3> SUFFICES ASSUME k # 0 PROVE FALSE
      OBVIOUS
    <3>1. 1 \in 1..k
      OBVIOUS
    <3> QED BY <1>2, <1>3, <3>1 DEF InsertFirst, Chain
  <2>2. /\ head' = n
        /\ \A m \in Nodes : next'[m] = IF m = n THEN Nil ELSE next[m]
    BY <1>2, <1>3 DEF InsertFirst
  <2> WITNESS 0 \in 0..k
  <2> QED BY <2>1, <2>2
<1>4. CASE InsertAtHead(n, s, filled)
  <2>1. k # 0 /\ head = w[1] /\ Queue!Precedes(s, Sig(w[1]))
    BY <1>4, PrependIsPriority DEF InsertAtHead, Chain
  <2>2. ASSUME NEW j \in 1..k PROVE Queue!Precedes(s, Sig(w[j]))
    <3>1. 1 \in 1..k /\ (j # 1 => 1 < j)
      BY <2>1
    <3>2. j # 1 => ~Queue!Precedes(Sig(w[j]), Sig(w[1]))
      BY <1>2, <3>1
    <3> QED BY <1>2, <2>1, <3>1, <3>2, PriorityTransitive
  <2>3. /\ head' = n
        /\ \A m \in Nodes : next'[m] = IF m = n THEN w[1] ELSE next[m]
    BY <1>2, <1>4, <2>1 DEF InsertAtHead
  <2> WITNESS 0 \in 0..k
  <2> QED BY <2>1, <2>2, <2>3
<1>5. ASSUME NEW c \in Nodes, InsertAfter(n, c, s, filled)
      PROVE  \E p \in 0..k :
               /\ \A j \in 1..p : ~Queue!Precedes(s, Sig(w[j]))
               /\ \A j \in p+1..k : Queue!Precedes(s, Sig(w[j]))
               /\ head' = IF p = 0 THEN n ELSE head
               /\ \A m \in Nodes :
                    next'[m] = IF m = n THEN (IF p = k THEN Nil ELSE w[p+1])
                               ELSE IF p # 0 /\ m = w[p] THEN n ELSE next[m]
  <2>1. c \in Mapped /\ ~Queue!Precedes(s, Sig(c))
    BY <1>5, WalkStaysMapped, PrependIsPriority DEF InsertAfter, LoopStops, ListInv
  <2>2. next[c] # Nil => Queue!Precedes(s, Sig(next[c]))
    BY <1>5, PrependIsPriority DEF InsertAfter, LoopStops
  <2>3. PICK p \in 1..k : c = w[p]
    BY <2>1 DEF Chain
  <2>4. next[c] = IF p = k THEN Nil ELSE w[p+1]
    BY <2>3 DEF Chain
  <2>5. ASSUME NEW j \in 1..p PROVE ~Queue!Precedes(s, Sig(w[j]))
    <3>1. j \in 1..k /\ (j # p => j < p)
      OBVIOUS
    <3>2. j # p => ~Queue!Precedes(Sig(w[p]), Sig(w[j]))
      BY <1>2, <3>1
    <3> QED BY <1>2, <2>1, <2>3, <3>1, <3>2, PriorityTransitive
  <2>6. ASSUME NEW j \in p+1..k PROVE Queue!Precedes(s, Sig(w[j]))
    <3>1. p # k /\ p+1 \in 1..k /\ j \in 1..k /\ (j # p+1 => p+1 < j)
      OBVIOUS
    <3>2. Queue!Precedes(s, Sig(w[p+1]))
      BY <1>2, <2>2, <2>4, <3>1
    <3>3. j # p+1 => ~Queue!Precedes(Sig(w[j]), Sig(w[p+1]))
      BY <1>2, <3>1
    <3> QED BY <1>2, <3>1, <3>2, <3>3, PriorityTransitive
  <2>7. \A m \in Nodes : next'[m] = IF m = c THEN n
                                    ELSE IF m = n THEN next[c] ELSE next[m]
    BY <1>2, <1>5 DEF InsertAfter
  <2>8. c # n
    BY <1>1, <2>1 DEF CreateNode, Unreferenced
  <2>9. head' = head
    BY <1>5 DEF InsertAfter
  <2>10. p \in 0..k /\ p # 0
    OBVIOUS
  <2> WITNESS p \in 0..k
  <2> QED BY <2>3, <2>4, <2>5, <2>6, <2>7, <2>8, <2>9, <2>10
<1> QED BY <1>3, <1>4, <1>5

\* The removed node leaves the chain and the others keep their sequence.
LEMMA ChainWithoutNode ==
  ASSUME DistinctOrderIds, ListInv, NEW k \in Nat, NEW w \in [1..k -> Nodes],
         Chain(k, w), NEW s \in Signatures, Remove(s)
  PROVE  \E p \in 1..k : w[p] = nodeMap[s] /\ Chain(k-1, TakenOut(k, w, p))'
<1> USE ListAssumption DEF ListAssumption
<1>1. /\ nodeMap[s] \in Mapped /\ Mapped' = Mapped \ {nodeMap[s]}
      /\ order' = order
  BY RemoveMapped DEF ListInv, Remove
<1>2. PICK p \in 1..k : w[p] = nodeMap[s]
  BY <1>1 DEF Chain
<1> DEFINE v == TakenOut(k, w, p)
<1>3. /\ v \in [1..k-1 -> Nodes]
      /\ \A i \in 1..p-1 : v[i] = w[i]
      /\ \A i \in p..k-1 : v[i] = w[i+1]
  BY DEF TakenOut
<1> HIDE DEF v
<1>4. /\ \A i \in 1..k : w[i] \in Mapped /\ w[i] \in Nodes /\ w[i] # Nil
      /\ \A i, j \in 1..k : i # j => w[i] # w[j]
      /\ \A i \in 1..k : next[w[i]] = IF i = k THEN Nil ELSE w[i+1]
  BY DEF Chain
<1>5. previous[w[p]] = IF p = 1 THEN Nil ELSE w[p-1]
  <2>1. p = 1 => w[p] = head
    BY DEF Chain
  <2>2. p # 1 => p-1 \in 1..k /\ next[w[p-1]] = w[p]
    BY <1>4
  <2> QED BY <1>4, <2>1, <2>2 DEF ListInv, WellLinked
<1>6. \A m \in Nodes : next'[m] = IF m = w[p] THEN Nil
                                  ELSE IF m = previous[w[p]] THEN next[w[p]]
                                  ELSE next[m]
  BY <1>2 DEF Remove, NextWithout
<1>7. head' = IF k-1 = 0 THEN Nil ELSE v[1]
  <2>1. SameAsHead(w[p]) <=> w[p] = head
    BY <1>4, HeadTest DEF ListInv
  <2>2. head = w[1] /\ 1 \in 1..k
    BY DEF Chain
  <2>3. head' = IF p = 1 THEN next[w[1]] ELSE w[1]
    BY <1>2, <1>4, <2>1, <2>2 DEF Remove
  <2>4. CASE p = 1
    <3>1. next[w[1]] = IF 1 = k THEN Nil ELSE w[1+1]
      BY <1>4, <2>2
    <3>2. k # 1 => 1 \in p..k-1 /\ v[1] = w[1+1]
      BY <1>3, <2>4
    <3> QED BY <2>3, <2>4, <3>1, <3>2
  <2>5. CASE p # 1
    BY <1>3, <2>3, <2>5
  <2> QED BY <2>4, <2>5
<1>8. ASSUME NEW i \in 1..k-1
      PROVE  next'[v[i]] = IF i = k-1 THEN Nil ELSE v[i+1]
  <2>1. CASE i < p-1
    <3>1. i \in 1..k /\ i # p /\ i # p-1 /\ p-1 \in 1..k /\ i # k
      BY <2>1
    <3>2. v[i] = w[i] /\ v[i+1] = w[i+1]
      BY <1>3, <2>1
    <3>3. next'[w[i]] = next[w[i]]
      BY <1>4, <1>5, <1>6, <3>1
    <3> QED BY <1>4, <2>1, <3>1, <3>2, <3>3
  <2>2. CASE i = p-1
    <3>1. i \in 1..k /\ p # 1
      BY <2>2
    <3>2. next'[w[i]] = next[w[p]] /\ v[i] = w[i]
      BY <1>3, <1>4, <1>5, <1>6, <2>2, <3>1
    <3>3. i # k-1 => p \in p..k-1 /\ v[p] = w[p+1]
      BY <1>3, <2>2
    <3> QED BY <1>4, <2>2, <3>1, <3>2, <3>3
  <2>3. CASE i >= p
    <3>1. i+1 \in 1..k /\ i+1 # p /\ i+1 # p-1 /\ (p # 1 => p-1 \in 1..k)
      BY <2>3
    <3>2. v[i] = w[i+1]
      BY <1>3, <2>3
    <3>3. next'[w[i+1]] = next[w[i+1]]
      BY <1>4, <1>5, <1>6, <3>1
    <3>4. i # k-1 => i+1 \in p..k-1 /\ v[i+1] = w[i+2]
      BY <1>3, <2>3
    <3> QED BY <1>4, <3>1, <3>2, <3>3, <3>4
  <2> QED BY <2>1, <2>2, <2>3
<1>9. ASSUME NEW i \in 1..k-1, NEW j \in 1..k-1, i < j
      PROVE  v[i] # v[j] /\ ~Queue!Precedes(Sig(v[j]), Sig(v[i]))'
  <2>1. PICK a \in 1..k, b \in 1..k : a < b /\ v[i] = w[a] /\ v[j] = w[b]
    <3>1. CASE j < p
      <4>1. i \in 1..k /\ j \in 1..k /\ v[i] = w[i] /\ v[j] = w[j]
        BY <1>3, <1>9, <3>1
      <4> QED BY <1>9, <4>1
    <3>2. CASE i < p /\ j >= p
      <4>1. i \in 1..k /\ j+1 \in 1..k /\ i < j+1 /\ v[i] = w[i] /\ v[j] = w[j+1]
        BY <1>3, <1>9, <3>2
      <4> QED BY <4>1
    <3>3. CASE i >= p
      <4>1. i+1 \in 1..k /\ j+1 \in 1..k /\ i+1 < j+1 /\ v[i] = w[i+1] /\ v[j] = w[j+1]
        BY <1>3, <1>9, <3>3
      <4> QED BY <4>1
    <3> QED BY <1>9, <3>1, <3>2, <3>3
  <2>2. w[a] # w[b] /\ ~Queue!Precedes(Sig(w[b]), Sig(w[a]))
    BY <2>1 DEF Chain
  <2> QED BY <1>1, <2>1, <2>2 DEF Queue!Precedes, Sig
<1>10. Mapped' = {v[i] : i \in 1..k-1}
  <2>1. \A i \in 1..k : i # p => \E j \in 1..k-1 : v[j] = w[i]
    <3> TAKE i \in 1..k
    <3>1. CASE i < p
      BY <1>3, <3>1
    <3>2. CASE i > p
      <4>1. i-1 \in p..k-1 /\ i-1 \in 1..k-1 /\ (i-1)+1 = i
        BY <3>2
      <4>2. v[i-1] = w[i]
        BY <1>3, <4>1
      <4> QED BY <4>1, <4>2
    <3> QED BY <3>1, <3>2
  <2>2. \A j \in 1..k-1 : \E i \in 1..k : i # p /\ v[j] = w[i]
    <3> TAKE j \in 1..k-1
    <3>1. CASE j < p
      BY <1>3, <3>1
    <3>2. CASE j >= p
      <4>1. j+1 \in 1..k /\ j+1 # p /\ v[j] = w[j+1]
        BY <1>3, <3>2
      <4> QED BY <4>1
    <3> QED BY <3>1, <3>2
  <2>3. Mapped = {w[i] : i \in 1..k}
    BY DEF Chain
  <2>4. ASSUME NEW m \in Mapped' PROVE m \in {v[i] : i \in 1..k-1}
    <3>1. PICK i \in 1..k : m = w[i] /\ i # p
      BY <1>1, <1>2, <2>3
    <3> QED BY <2>1, <3>1
  <2>5. ASSUME NEW j \in 1..k-1 PROVE v[j] \in Mapped'
    <3>1. PICK i \in 1..k : i # p /\ v[j] = w[i]
      BY <2>2
    <3> QED BY <1>1, <1>2, <1>4, <3>1
  <2> QED BY <2>4, <2>5
<1> QED BY <1>2, <1>3, <1>7, <1>8, <1>9, <1>10 DEF Chain, v

\* The entries of the chain form a queue.
LEMMA EntriesTyped ==
  ASSUME MapInv, NEW k \in Nat, NEW w \in [1..k -> Nodes]
  PROVE  /\ Entries(k, w) \in [1..k -> Queue!Entry]
         /\ Entries(k, w) \in Seq(Queue!Entry)
         /\ Len(Entries(k, w)) = k /\ DOMAIN Entries(k, w) = 1..k
         /\ \A i \in 1..k : Entries(k, w)[i].sig = Sig(w[i])
<1>1. \A n \in Nodes : Entry(n) \in Queue!Entry /\ Entry(n).sig = Sig(n)
  BY DEF MapInv, TypeOK, Order, Entry, Sig, Queue!Entry
<1>2. Entries(k, w) \in [1..k -> Queue!Entry]
  BY <1>1 DEF Entries
<1>3. \A i \in 1..k : Entries(k, w)[i].sig = Sig(w[i])
  BY <1>1 DEF Entries
<1> HIDE DEF Entries
<1> QED BY <1>2, <1>3

LEMMA EntriesPutIn ==
  ASSUME MapInv, NEW k \in Nat, NEW w \in [1..k -> Nodes], NEW p \in 0..k,
         NEW x \in Queue!Entry
  PROVE  LET q == Entries(k, w)
         IN  SubSeq(q, 1, p) \o <<x>> \o SubSeq(q, p+1, Len(q)) = PutIn(k, q, p, x)
<1>1. Entries(k, w) \in [1..k -> Queue!Entry]
  BY EntriesTyped
<1> QED BY <1>1, PutInIsConcat, Zenon

\* A node of the chain carries s exactly if the map leads from s to it.
LEMMA ChainNodeOf ==
  ASSUME ListInv, NEW k \in Nat, NEW w \in [1..k -> Nodes], Chain(k, w),
         NEW i \in 1..k, NEW s \in Signatures
  PROVE  Sig(w[i]) = s <=> Has(s) /\ nodeMap[s] = w[i]
<1>1. w[i] \in Mapped /\ w[i] # Nil
  BY ListAssumption DEF ListAssumption, Chain
<1> QED BY <1>1, MappedNode DEF ListInv, MapInv, MapConsistent, Has

\* An insertion into the list is one into the queue.
LEMMA InsertIsInsert ==
  ASSUME ListInv, ListInv', NEW k \in Nat, NEW w \in [1..k -> Nodes], Chain(k, w),
         NEW p \in 0..k, NEW n \in Nodes, NEW s \in Signatures,
         NEW filled \in 0..MaxFilled, CreateNode(n, s, filled),
         \A j \in 1..p : ~Queue!Precedes(s, Sig(w[j])),
         \A j \in p+1..k : Queue!Precedes(s, Sig(w[j])),
         Chain(k+1, PutIn(k, w, p, n))'
  PROVE  Queue!Insert(s, filled)
<1> DEFINE v == PutIn(k, w, p, n)
           q == Entries(k, w)
           x == [sig |-> s, filled |-> filled, tries |-> 0]
<1>1. Traversal = q
  BY TraversalIsChain
<1>2. v \in [1..k+1 -> Nodes] /\ k+1 \in Nat
  BY DEF PutIn
<1>3. Traversal' = Entries(k+1, v)'
  BY <1>2, TraversalIsChainNext
<1>4. /\ q \in [1..k -> Queue!Entry] /\ Len(q) = k /\ DOMAIN q = 1..k
      /\ \A i \in 1..k : q[i].sig = Sig(w[i])
  BY EntriesTyped DEF ListInv
<1>5. \A i \in 1..k : w[i] # n /\ Entry(w[i])' = Entry(w[i])
  <2> TAKE i \in 1..k
  <2>1. w[i] \in Mapped /\ w[i] \in Nodes
    BY DEF Chain
  <2>2. w[i] # n
    BY <2>1 DEF CreateNode, Unreferenced
  <2>3. order'[w[i]] = order[w[i]] /\ tries'[w[i]] = tries[w[i]]
    BY <2>1, <2>2 DEF CreateNode, ListInv, MapInv, TypeOK
  <2> QED BY <2>2, <2>3 DEF Entry, Sig
<1>6. Entry(n)' = x
  BY DEF CreateNode, Entry, Sig, ListInv, MapInv, TypeOK
<1>7. Entries(k+1, v)' = PutIn(k, q, p, x)
  <2>1. \A i \in 1..k+1 : Entry(v[i])' = PutIn(k, q, p, x)[i]
    <3> TAKE i \in 1..k+1
    <3>1. CASE i <= p
      <4>1. i \in 1..k /\ v[i] = w[i] /\ PutIn(k, q, p, x)[i] = q[i]
        BY <3>1 DEF PutIn
      <4>2. q[i] = Entry(w[i])
        BY <4>1 DEF Entries
      <4> QED BY <1>5, <4>1, <4>2
    <3>2. CASE i = p+1
      BY <1>6, <3>2 DEF PutIn
    <3>3. CASE i > p+1
      <4>1. i-1 \in 1..k /\ v[i] = w[i-1] /\ PutIn(k, q, p, x)[i] = q[i-1]
        BY <3>3 DEF PutIn
      <4>2. q[i-1] = Entry(w[i-1])
        BY <4>1 DEF Entries
      <4> QED BY <1>5, <4>1, <4>2
    <3> QED BY <3>1, <3>2, <3>3
  <2>2. PutIn(k, q, p, x) = [i \in 1..k+1 |-> PutIn(k, q, p, x)[i]]
    BY DEF PutIn
  <2> QED BY <2>1, <2>2 DEF Entries
<1>8. x \in Queue!Entry
  BY ListAssumption DEF ListAssumption, Queue!Entry
<1> HIDE DEF q, v, x
<1>9. Traversal' = SubSeq(q, 1, p) \o <<x>> \o SubSeq(q, p+1, Len(q))
  BY <1>3, <1>7, <1>8, EntriesPutIn DEF q, ListInv
<1>10. ~Queue!Holds(s)
  <2>1. \A i \in 1..k : Sig(w[i]) # s
    BY ChainNodeOf DEF CreateNode
  <2> QED BY <1>1, <1>4, <2>1 DEF Queue!Holds
<1>11. /\ p \in 0..Len(Traversal)
       /\ \A j \in 1..p : ~Queue!Precedes(s, Traversal[j].sig)
       /\ \A j \in p+1..Len(Traversal) : Queue!Precedes(s, Traversal[j].sig)
  BY <1>1, <1>4
<1> QED BY <1>1, <1>9, <1>10, <1>11 DEF Queue!Insert, x

\* A removal from the list is one from the queue.
LEMMA RemoveIsRemove ==
  ASSUME ListInv, ListInv', NEW k \in Nat, NEW w \in [1..k -> Nodes], Chain(k, w),
         NEW p \in 1..k, NEW s \in Signatures, Remove(s), w[p] = nodeMap[s],
         Chain(k-1, TakenOut(k, w, p))'
  PROVE  Queue!Remove(s)
<1> DEFINE v == TakenOut(k, w, p)
           q == Entries(k, w)
<1>1. Traversal = q
  BY TraversalIsChain
<1>2. v \in [1..k-1 -> Nodes] /\ k-1 \in Nat
  BY DEF TakenOut
<1>3. Traversal' = Entries(k-1, v)'
  BY <1>2, TraversalIsChainNext
<1>4. /\ q \in [1..k -> Queue!Entry] /\ Len(q) = k /\ DOMAIN q = 1..k
      /\ \A i \in 1..k : q[i].sig = Sig(w[i])
  BY EntriesTyped DEF ListInv
<1>5. Entries(k-1, v)' = TakenOut(k, q, p)
  <2>1. \A m \in Nodes : Entry(m)' = Entry(m)
    BY DEF Remove, Entry, Sig
  <2>2. \A i \in 1..k-1 : Entry(v[i])' = TakenOut(k, q, p)[i]
    <3> TAKE i \in 1..k-1
    <3>1. PICK j \in 1..k : v[i] = w[j] /\ TakenOut(k, q, p)[i] = q[j]
      <4>1. i \in 1..k /\ i+1 \in 1..k
        OBVIOUS
      <4>2. CASE i < p
        BY <4>1, <4>2 DEF TakenOut
      <4>3. CASE ~(i < p)
        BY <4>1, <4>3 DEF TakenOut
      <4> QED BY <4>2, <4>3
    <3>2. q[j] = Entry(w[j])
      BY DEF Entries
    <3> QED BY <2>1, <3>1, <3>2
  <2>3. TakenOut(k, q, p) = [i \in 1..k-1 |-> TakenOut(k, q, p)[i]]
    BY DEF TakenOut
  <2> QED BY <2>2, <2>3 DEF Entries
<1> HIDE DEF q, v
<1>6. Traversal' = SubSeq(q, 1, p-1) \o SubSeq(q, p+1, Len(q))
  BY <1>3, <1>4, <1>5, TakenOutIsConcat
<1>7. p \in DOMAIN Traversal /\ Traversal[p].sig = s
  <2>1. Sig(w[p]) = s
    BY ChainNodeOf DEF Remove
  <2> QED BY <1>1, <1>4, <2>1
<1> QED BY <1>1, <1>6, <1>7 DEF Queue!Remove

\* Operations that leave the links alone leave the chain alone.
LEMMA ChainUntouched ==
  ASSUME NEW k \in Nat, NEW w \in [1..k -> Nodes], Chain(k, w),
         UNCHANGED <<head, nodeMap, next>>, \A m \in Mapped : Sig(m)' = Sig(m)
  PROVE  Chain(k, w)'
<1>1. Mapped' = Mapped
  BY DEF Mapped
<1>2. \A i \in 1..k : Sig(w[i])' = Sig(w[i])
  BY DEF Chain
<1>3. \A i, j \in 1..k : i < j =>
        w[i] # w[j] /\ ~Queue!Precedes(Sig(w[j]), Sig(w[i]))'
  BY <1>2 DEF Chain, Queue!Precedes
<1> QED BY <1>1, <1>3 DEF Chain

\* Replacing an order where it stands, and counting an attempt.
LEMMA UpdateIsUpdate ==
  ASSUME ListInv, ListInv', NEW k \in Nat, NEW w \in [1..k -> Nodes],
         Chain(k, w), Chain(k, w)', NEW s \in Signatures,
         NEW filled \in 0..MaxFilled, Update(s, filled)
  PROVE  Queue!Update(s, filled)
<1> DEFINE q == Entries(k, w)
<1>1. Traversal = q /\ Traversal' = Entries(k, w)'
  BY TraversalIsChain, TraversalIsChainNext
<1>2. DOMAIN q = 1..k /\ \A i \in 1..k : q[i] = Entry(w[i])
  BY DEF Entries
<1>3. ASSUME NEW i \in 1..k
      PROVE  Entry(w[i])' = IF q[i].sig # s THEN q[i]
                            ELSE [sig |-> s, filled |-> filled,
                                  tries |-> IF q[i].filled = filled
                                            THEN q[i].tries ELSE 0]
  <2>1. q[i].sig = Sig(w[i]) /\ q[i].filled = order[w[i]].filled /\ q[i].tries = tries[w[i]]
    BY <1>2 DEF Entry
  <2>2. q[i].sig = s <=> nodeMap[s] = w[i]
    BY <2>1, ChainNodeOf DEF Update
  <2>3. CASE nodeMap[s] = w[i]
    <3>1. order'[w[i]] = [sig |-> s, filled |-> filled]
      BY <2>3 DEF Update, ListInv, MapInv, TypeOK
    <3>2. tries'[w[i]] = IF order[w[i]].filled = filled THEN tries[w[i]] ELSE 0
      BY <2>3 DEF Update, ListInv, MapInv, TypeOK
    <3> QED BY <2>1, <2>2, <2>3, <3>1, <3>2 DEF Entry, Sig
  <2>4. CASE nodeMap[s] # w[i]
    <3>1. order'[w[i]] = order[w[i]] /\ tries'[w[i]] = tries[w[i]]
      BY <2>4 DEF Update, ListInv, MapInv, TypeOK
    <3> QED BY <1>2, <2>2, <2>4, <3>1 DEF Entry, Sig
  <2> QED BY <2>3, <2>4
<1>4. Traversal' = [i \in 1..k |-> Entry(w[i])']
  BY <1>1 DEF Entries
<1>5. Queue!Holds(s)
  <2>1. nodeMap[s] \in Mapped
    BY ListAssumption DEF ListAssumption, Update, Has, Mapped, ListInv, MapInv, TypeOK
  <2>2. PICK i \in 1..k : w[i] = nodeMap[s]
    BY <2>1 DEF Chain
  <2>3. q[i].sig = s
    BY <1>2, <2>2, ChainNodeOf DEF Update, Entry
  <2> QED BY <1>1, <1>2, <2>3 DEF Queue!Holds
<1> HIDE DEF q
<1> QED BY <1>1, <1>2, <1>3, <1>4, <1>5 DEF Queue!Update

LEMMA TriesIsSetTries ==
  ASSUME ListInv, ListInv', NEW k \in Nat, NEW w \in [1..k -> Nodes],
         Chain(k, w), Chain(k, w)', NEW s \in Signatures, Has(s),
         UNCHANGED order, NEW t, tries' = [tries EXCEPT ![nodeMap[s]] = t]
  PROVE  Queue!SetTries(s, t)
<1> DEFINE q == Entries(k, w)
<1>1. Traversal = q /\ Traversal' = Entries(k, w)'
  BY TraversalIsChain, TraversalIsChainNext
<1>2. DOMAIN q = 1..k /\ \A i \in 1..k : q[i] = Entry(w[i])
  BY DEF Entries
<1>3. ASSUME NEW i \in 1..k
      PROVE  Entry(w[i])' = IF q[i].sig = s THEN [q[i] EXCEPT !.tries = t] ELSE q[i]
  <2>1. q[i].sig = s <=> nodeMap[s] = w[i]
    BY <1>2, ChainNodeOf DEF Entry
  <2>2. tries'[w[i]] = IF nodeMap[s] = w[i] THEN t ELSE tries[w[i]]
    BY DEF ListInv, MapInv, TypeOK
  <2>3. Entry(w[i])' = [sig |-> Sig(w[i]), filled |-> order[w[i]].filled,
                        tries |-> tries'[w[i]]]
    BY DEF Entry, Sig
  <2>4. q[i] = [sig |-> Sig(w[i]), filled |-> order[w[i]].filled, tries |-> tries[w[i]]]
    BY <1>2 DEF Entry
  <2> HIDE DEF q
  <2> QED BY <2>1, <2>2, <2>3, <2>4
<1>4. Traversal' = [i \in 1..k |-> Entry(w[i])']
  BY <1>1 DEF Entries
<1> HIDE DEF q
<1> QED BY <1>1, <1>2, <1>3, <1>4 DEF Queue!SetTries

\* A list without nodes is the empty queue.
LEMMA EmptyChain ==
  ASSUME ListInv, head = Nil, Mapped = {}
  PROVE  Chain(0, <<>>) /\ Traversal = <<>>
<1>1. <<>> \in [1..0 -> Nodes]
  OBVIOUS
<1>2. Chain(0, <<>>)
  BY <1>1 DEF Chain
<1>3. Traversal = Entries(0, <<>>)
  BY <1>1, <1>2, TraversalIsChain
<1> QED BY <1>2, <1>3 DEF Entries

LEMMA EmptyChainNext ==
  (ListInv /\ head = Nil /\ Mapped = {} => Chain(0, <<>>) /\ Traversal = <<>>)'
BY EmptyChain, PTL

\* The empty list is the empty queue.
THEOREM ChainInvInit == Init => ChainInv /\ Queue!Init
<1> SUFFICES ASSUME Init PROVE ChainInv /\ Queue!Init
  OBVIOUS
<1>1. ListInv
  BY ListInvInit
<1>2. head = Nil /\ Mapped = {}
  BY ListAssumption DEF ListAssumption, Init, Mapped
<1>3. Chain(0, <<>>) /\ Traversal = <<>> /\ <<>> \in [1..0 -> Nodes]
  BY <1>1, <1>2, EmptyChain
<1> QED BY <1>1, <1>3 DEF ChainInv, Queue!Init

\* Every operation of the list keeps the chain and is one of the queue.
THEOREM ChainInvNext ==
  DistinctOrderIds /\ ChainInv /\ [Next]_vars
    => ChainInv' /\ [Queue!Next]_Traversal
<1> SUFFICES ASSUME DistinctOrderIds, ChainInv, [Next]_vars
             PROVE  ChainInv' /\ [Queue!Next]_Traversal
  OBVIOUS
<1>1. ListInv /\ ListInv'
  BY ListInvNext DEF ChainInv
<1>0. PICK k \in Nat : \E w \in [1..k -> Nodes] : Chain(k, w)
  BY DEF ChainInv
<1>2. PICK w \in [1..k -> Nodes] : Chain(k, w)
  BY <1>0
<1>3. ASSUME NEW s \in Signatures, NEW filled \in 0..MaxFilled, Insert(s, filled)
      PROVE  ChainInv' /\ Queue!Next
  <2>1. PICK n \in Nodes :
          \/ InsertFirst(n, s, filled)
          \/ InsertAtHead(n, s, filled)
          \/ \E current \in Nodes : InsertAfter(n, current, s, filled)
    BY <1>3 DEF Insert
  <2>2. CreateNode(n, s, filled)
    BY <1>1, <1>2, <2>1, InsertPlace
  <2>3. PICK p \in 0..k : /\ \A j \in 1..p : ~Queue!Precedes(s, Sig(w[j]))
                          /\ \A j \in p+1..k : Queue!Precedes(s, Sig(w[j]))
                          /\ Chain(k+1, PutIn(k, w, p, n))'
    BY <1>1, <1>2, <2>1, InsertPlace
  <2>4. PutIn(k, w, p, n) \in [1..k+1 -> Nodes] /\ k+1 \in Nat
    BY DEF PutIn
  <2>5. ChainInv'
    BY <1>1, <2>3, <2>4 DEF ChainInv
  <2>6. Queue!Insert(s, filled)
    BY <1>1, <1>2, <2>2, <2>3, InsertIsInsert
  <2> QED BY <2>5, <2>6 DEF Queue!Next
<1>4. ASSUME NEW s \in Signatures, NEW filled \in 0..MaxFilled, Update(s, filled)
      PROVE  ChainInv' /\ Queue!Next
  <2>1. \A m \in Mapped : Sig(m)' = Sig(m)
    <3> TAKE m \in Mapped
    <3>1. m \in Nodes /\ order \in [Nodes -> Order]
      BY <1>1 DEF Mapped, ListInv, MapInv, TypeOK
    <3>2. nodeMap[s] # Nil /\ Sig(nodeMap[s]) = s
      BY <1>1, <1>4 DEF Update, Has, ListInv, MapInv, MapConsistent
    <3> QED BY <1>4, <3>1, <3>2 DEF Update, Sig
  <2>2. Chain(k, w)'
    BY <1>2, <1>4, <2>1, ChainUntouched DEF Update
  <2>3. Queue!Update(s, filled)
    BY <1>1, <1>2, <1>4, <2>2, UpdateIsUpdate
  <2> QED BY <1>1, <2>2, <2>3 DEF ChainInv, Queue!Next
<1>5. ASSUME NEW s \in Signatures, ResetTryFill(s) \/ TryFill(s)
      PROVE  ChainInv' /\ Queue!Next
  <2>1. PICK t \in 0..MaxTries : tries' = [tries EXCEPT ![nodeMap[s]] = t]
    <3>1. CASE ResetTryFill(s)
      <4>1. 0 \in 0..MaxTries
        BY ListAssumption DEF ListAssumption
      <4> QED BY <3>1, <4>1 DEF ResetTryFill
    <3>2. CASE TryFill(s)
      <4>1. nodeMap[s] \in Nodes /\ tries \in [Nodes -> 0..MaxTries]
        BY <1>1, <3>2 DEF TryFill, Has, ListInv, MapInv, TypeOK
      <4>2. tries[nodeMap[s]] + 1 \in 0..MaxTries
        BY <3>2, <4>1, ListAssumption DEF ListAssumption, TryFill
      <4> QED BY <3>2, <4>2 DEF TryFill
    <3> QED BY <1>5, <3>1, <3>2
  <2>2. Has(s) /\ UNCHANGED <<head, length, nodeMap, order, next, previous>>
    BY <1>5 DEF ResetTryFill, TryFill
  <2>3. Chain(k, w)'
    BY <1>2, <2>2, ChainUntouched DEF Sig
  <2>4. Queue!SetTries(s, t)
    BY <1>1, <1>2, <2>1, <2>2, <2>3, TriesIsSetTries
  <2> QED BY <1>1, <2>3, <2>4 DEF ChainInv, Queue!Next
<1>6. ASSUME NEW s \in Signatures, Remove(s)
      PROVE  ChainInv' /\ Queue!Next
  <2>1. PICK p \in 1..k : w[p] = nodeMap[s] /\ Chain(k-1, TakenOut(k, w, p))'
    BY <1>1, <1>2, <1>6, ChainWithoutNode
  <2>2. TakenOut(k, w, p) \in [1..k-1 -> Nodes] /\ k-1 \in Nat
    BY DEF TakenOut
  <2>3. ChainInv'
    BY <1>1, <2>1, <2>2 DEF ChainInv
  <2>4. Queue!Remove(s)
    BY <1>1, <1>2, <1>6, <2>1, RemoveIsRemove
  <2> QED BY <2>3, <2>4 DEF Queue!Next
<1>7. ASSUME Clear PROVE ChainInv' /\ Queue!Next
  <2>1. head' = Nil /\ Mapped' = {}
    BY <1>7, ListAssumption DEF ListAssumption, Clear, Mapped
  <2>2. Chain(0, <<>>)' /\ Traversal' = <<>> /\ <<>> \in [1..0 -> Nodes]
    BY <1>1, <2>1, EmptyChainNext
  <2>3. ChainInv'
    BY <1>1, <2>2 DEF ChainInv
  <2>4. Queue!Clear
    BY <2>2 DEF Queue!Clear
  <2> QED BY <2>3, <2>4 DEF Queue!Next
<1>8. ASSUME UNCHANGED vars PROVE ChainInv' /\ UNCHANGED Traversal
  <2>1. Chain(k, w)'
    BY <1>2, <1>8, ChainUntouched DEF vars, Sig
  <2>2. Traversal = Entries(k, w) /\ Traversal' = Entries(k, w)'
    BY <1>1, <1>2, <2>1, TraversalIsChain, TraversalIsChainNext
  <2>3. Entries(k, w)' = Entries(k, w)
    BY <1>8 DEF vars, Entries, Entry, Sig
  <2> QED BY <1>1, <2>1, <2>2, <2>3 DEF ChainInv
<1> QED BY <1>3, <1>4, <1>5, <1>6, <1>7, <1>8 DEF Next

\* As long as no two orders of the list share an order id, the linked list
\* with its map implements the price-time queue: whatever a caller reads from
\* the head on is what the same operations would have left in a sequence kept
\* in price-time priority.
THEOREM RefinesQueue ==
  ASSUME DistinctOrderIds PROVE Spec => ImplementsQueue
<1>1. Init => ChainInv /\ Queue!Init
  BY ChainInvInit
<1>2. ChainInv /\ [Next]_vars => ChainInv' /\ [Queue!Next]_Traversal
  BY ChainInvNext
<1> QED BY <1>1, <1>2, PTL DEF Spec, ImplementsQueue, Queue!Spec

-----------------------------------------------------------------------------
\* What is left of the links when two orders share an order id and Remove
\* mistakes another node for the head: nodes may be cut off and a link may
\* lead to a removed node, but over the whole heap every backward link still
\* has its forward link, ...
BackLinks == \A n \in Nodes : previous[n] # Nil => next[previous[n]] = n

\* ... every forward link leads to an order that does not go in front, ...
LinksInOrder ==
  \A n \in Nodes : next[n] # Nil => ~Queue!Precedes(Sig(next[n]), Sig(n))

\* ... and no set of nodes is closed under the links.
NoRing == \A S \in SUBSET Nodes : S # {} => \E n \in S : next[n] \notin S

HeapInv == MapInv /\ BackLinks /\ LinksInOrder /\ NoRing

\* Creating a node gives the heap one more signature in use and changes none.
LEMMA CreateNodeSigs ==
  ASSUME MapInv, NEW n \in Nodes, NEW s \in Signatures,
         NEW filled \in 0..MaxFilled, CreateNode(n, s, filled)
  PROVE  /\ Sig(n)' = s
         /\ \A m \in Nodes : m # n => Sig(m)' = Sig(m)
         /\ \A m \in Nodes : Sig(m) \in Signatures
         /\ n # head /\ \A m \in Nodes : next[m] # n /\ previous[m] # n
BY DEF CreateNode, Unreferenced, Sig, MapInv, TypeOK, Order

\* A link that the step leaves alone still leads to an order that does not go
\* in front.
LEMMA LinkStaysInOrder ==
  ASSUME LinksInOrder, NEW m \in Nodes, next[m] # Nil,
         Sig(m)' = Sig(m), next'[m] = next[m], Sig(next[m])' = Sig(next[m])
  PROVE  ~Queue!Precedes(Sig(next[m]), Sig(m))'
<1>1. ~Queue!Precedes(Sig(next[m]), Sig(m))
  BY DEF LinksInOrder
<1> QED BY <1>1 DEF Queue!Precedes

\* Insertion as the only node the head leads to: into an empty list, or after
\* the head was lost.
LEMMA FirstKeepsHeap ==
  ASSUME HeapInv, NEW n \in Nodes, NEW s \in Signatures,
         NEW filled \in 0..MaxFilled, InsertFirst(n, s, filled)
  PROVE  BackLinks' /\ LinksInOrder' /\ NoRing'
<1> USE ListAssumption DEF ListAssumption, HeapInv, MapInv, TypeOK
<1>1. /\ Sig(n)' = s
      /\ \A m \in Nodes : m # n => Sig(m)' = Sig(m)
      /\ \A m \in Nodes : next[m] # n /\ previous[m] # n
  BY CreateNodeSigs DEF InsertFirst
<1>2. /\ \A m \in Nodes : next'[m] = IF m = n THEN Nil ELSE next[m]
      /\ \A m \in Nodes : previous'[m] = IF m = n THEN Nil ELSE previous[m]
  BY DEF InsertFirst
<1>3. BackLinks'
  BY <1>1, <1>2 DEF BackLinks
<1>4. LinksInOrder'
  <2> SUFFICES ASSUME NEW m \in Nodes, next'[m] # Nil
               PROVE  ~Queue!Precedes(Sig(next[m]), Sig(m))'
    BY DEF LinksInOrder
  <2>1. m # n /\ next'[m] = next[m] /\ next[m] \in Nodes /\ next[m] # n
    BY <1>1, <1>2
  <2> QED BY <1>1, <2>1, LinkStaysInOrder
<1>5. NoRing'
  <2> SUFFICES ASSUME NEW S \in SUBSET Nodes, S # {}
               PROVE  \E m \in S : next'[m] \notin S
    BY DEF NoRing
  <2>1. CASE n \in S
    BY <1>2, <2>1
  <2>2. CASE n \notin S
    <3>1. PICK m \in S : next[m] \notin S
      BY DEF NoRing
    <3> QED BY <1>2, <2>2, <3>1
  <2> QED BY <2>1, <2>2
<1> QED BY <1>3, <1>4, <1>5

\* Insertion in front of the head.
LEMMA HeadKeepsHeap ==
  ASSUME HeapInv, NEW n \in Nodes, NEW s \in Signatures,
         NEW filled \in 0..MaxFilled, InsertAtHead(n, s, filled)
  PROVE  BackLinks' /\ LinksInOrder' /\ NoRing'
<1> USE ListAssumption DEF ListAssumption, HeapInv, MapInv, TypeOK
<1>1. /\ Sig(n)' = s
      /\ \A m \in Nodes : m # n => Sig(m)' = Sig(m)
      /\ \A m \in Nodes : Sig(m) \in Signatures
      /\ n # head /\ \A m \in Nodes : next[m] # n /\ previous[m] # n
  BY CreateNodeSigs DEF InsertAtHead
<1>2. head \in Nodes /\ PrependNode(head, s)
  BY DEF InsertAtHead
<1>3. /\ \A m \in Nodes : next'[m] = IF m = n THEN head ELSE next[m]
      /\ \A m \in Nodes : previous'[m] = IF m = n THEN Nil
                                         ELSE IF m = head THEN n ELSE previous[m]
  BY <1>2 DEF InsertAtHead
<1>4. BackLinks'
  BY <1>1, <1>2, <1>3 DEF BackLinks
<1>5. LinksInOrder'
  <2> SUFFICES ASSUME NEW m \in Nodes, next'[m] # Nil
               PROVE  ~Queue!Precedes(Sig(next[m]), Sig(m))'
    BY DEF LinksInOrder
  <2>1. CASE m = n
    <3>1. ~Queue!Precedes(Sig(head), s)
      BY <1>1, <1>2, PrependIsPriority, PriorityAsymmetric
    <3>2. Sig(next[m])' = Sig(head) /\ Sig(m)' = s
      BY <1>1, <1>2, <1>3, <2>1 DEF Sig
    <3> QED BY <3>1, <3>2 DEF Queue!Precedes
  <2>2. CASE m # n
    <3>1. next'[m] = next[m] /\ next[m] \in Nodes /\ next[m] # n
      BY <1>1, <1>3, <2>2
    <3> QED BY <1>1, <2>2, <3>1, LinkStaysInOrder
  <2> QED BY <2>1, <2>2
<1>6. NoRing'
  <2> SUFFICES ASSUME NEW S \in SUBSET Nodes, S # {}
               PROVE  \E m \in S : next'[m] \notin S
    BY DEF NoRing
  <2>1. CASE S = {n}
    BY <1>1, <1>3, <2>1
  <2>2. CASE S # {n}
    <3>1. PICK m \in S \ {n} : next[m] \notin S \ {n}
      <4>1. S \ {n} \in SUBSET Nodes /\ S \ {n} # {}
        BY <2>2
      <4> QED BY <4>1 DEF NoRing
    <3> QED BY <1>1, <1>3, <3>1
  <2> QED BY <2>1, <2>2
<1> QED BY <1>4, <1>5, <1>6

\* Insertion behind the node the loop stopped at, wherever that node leads.
LEMMA AfterKeepsHeap ==
  ASSUME HeapInv, NEW n \in Nodes, NEW s \in Signatures, NEW c \in Nodes,
         NEW filled \in 0..MaxFilled, InsertAfter(n, c, s, filled), c # n
  PROVE  BackLinks' /\ LinksInOrder' /\ NoRing'
<1> USE ListAssumption DEF ListAssumption, HeapInv, MapInv, TypeOK
<1>1. /\ Sig(n)' = s
      /\ \A m \in Nodes : m # n => Sig(m)' = Sig(m)
      /\ \A m \in Nodes : Sig(m) \in Signatures
      /\ \A m \in Nodes : next[m] # n /\ previous[m] # n
  BY CreateNodeSigs DEF InsertAfter
<1>2. /\ ~PrependNode(c, s)
      /\ next[c] # Nil => PrependNode(next[c], s)
  BY DEF InsertAfter, LoopStops, WalkWithin
<1>3. /\ \A m \in Nodes : next'[m] = IF m = c THEN n
                                     ELSE IF m = n THEN next[c] ELSE next[m]
      /\ \A m \in Nodes : previous'[m] = IF m = n THEN c
                                         ELSE IF m = next[c] THEN n ELSE previous[m]
  BY DEF InsertAfter
<1>4. BackLinks'
  BY <1>1, <1>3 DEF BackLinks
<1>5. LinksInOrder'
  <2> SUFFICES ASSUME NEW m \in Nodes, next'[m] # Nil
               PROVE  ~Queue!Precedes(Sig(next[m]), Sig(m))'
    BY DEF LinksInOrder
  <2>1. CASE m = n
    <3>1. next'[m] = next[c] /\ next[c] \in Nodes /\ next[c] # n
      BY <1>1, <1>3, <2>1
    <3>2. ~Queue!Precedes(Sig(next[c]), s)
      BY <1>1, <1>2, <3>1, PrependIsPriority, PriorityAsymmetric
    <3>3. Sig(next[m])' = Sig(next[c]) /\ Sig(m)' = s
      BY <1>1, <2>1, <3>1 DEF Sig
    <3> QED BY <3>2, <3>3 DEF Queue!Precedes
  <2>2. CASE m = c
    <3>1. ~Queue!Precedes(s, Sig(c))
      BY <1>2, PrependIsPriority
    <3>2. Sig(next[m])' = s /\ Sig(m)' = Sig(c)
      BY <1>1, <1>3, <2>2 DEF Sig
    <3> QED BY <3>1, <3>2 DEF Queue!Precedes
  <2>3. CASE m # n /\ m # c
    <3>1. next'[m] = next[m] /\ next[m] \in Nodes /\ next[m] # n
      BY <1>1, <1>3, <2>3
    <3> QED BY <1>1, <2>3, <3>1, LinkStaysInOrder
  <2> QED BY <2>1, <2>2, <2>3
<1>6. NoRing'
  <2> SUFFICES ASSUME NEW S \in SUBSET Nodes, S # {}
               PROVE  \E m \in S : next'[m] \notin S
    BY DEF NoRing
  <2>1. CASE S = {n}
    BY <1>1, <1>3, <2>1
  <2>2. CASE S # {n}
    <3>1. PICK m \in S \ {n} : next[m] \notin S \ {n}
      <4>1. S \ {n} \in SUBSET Nodes /\ S \ {n} # {}
        BY <2>2
      <4> QED BY <4>1 DEF NoRing
    <3>2. next[m] \notin S
      BY <1>1, <3>1
    <3>3. CASE m = c /\ n \in S
      BY <1>3, <3>2, <3>3
    <3>4. CASE m = c /\ n \notin S
      BY <1>3, <3>4
    <3>5. CASE m # c
      BY <1>3, <3>1, <3>2, <3>5
    <3> QED BY <3>3, <3>4, <3>5
  <2> QED BY <2>1, <2>2
<1> QED BY <1>4, <1>5, <1>6

\* Unlinking a node: the two neighbours it knew are joined, whichever node
\* the head test takes it for.
LEMMA RemoveKeepsHeap ==
  ASSUME HeapInv, NEW s \in Signatures, Remove(s)
  PROVE  BackLinks' /\ LinksInOrder' /\ NoRing'
<1> USE ListAssumption DEF ListAssumption, HeapInv, MapInv, TypeOK
<1>1. PICK n \in Nodes : n = nodeMap[s]
  BY DEF Remove, Has
<1>2. /\ \A m \in Nodes : next'[m] = IF m = n THEN Nil
                                     ELSE IF m = previous[n] THEN next[n]
                                     ELSE next[m]
      /\ \A m \in Nodes : previous'[m] = IF m = n THEN Nil
                                         ELSE IF m = next[n] THEN previous[n]
                                         ELSE previous[m]
      /\ order' = order
  BY <1>1 DEF Remove, NextWithout, PreviousWithout
<1>3. previous[n] # Nil => next[previous[n]] = n
  BY DEF BackLinks
<1>4. next[n] # n
  <2>1. {n} \in SUBSET Nodes /\ {n} # {}
    OBVIOUS
  <2> QED BY <2>1 DEF NoRing
<1>5. previous[n] # n
  BY <1>3, <1>4
<1>6. BackLinks'
  <2> SUFFICES ASSUME NEW m \in Nodes, previous'[m] # Nil
               PROVE  next'[previous'[m]] = m
    BY DEF BackLinks
  <2>1. CASE m = next[n]
    BY <1>2, <1>5, <2>1
  <2>2. CASE m # next[n]
    <3>1. m # n /\ previous'[m] = previous[m] /\ previous[m] \in Nodes
      BY <1>2, <2>2
    <3>2. next[previous[m]] = m
      BY <3>1, <2>2, <1>2 DEF BackLinks
    <3> QED BY <1>2, <1>3, <2>2, <3>1, <3>2
  <2> QED BY <2>1, <2>2
<1>7. LinksInOrder'
  <2> SUFFICES ASSUME NEW m \in Nodes, next'[m] # Nil
               PROVE  ~Queue!Precedes(Sig(next[m]), Sig(m))'
    BY DEF LinksInOrder
  <2>1. Sig(next[m])' = Sig(next'[m]) /\ Sig(m)' = Sig(m) /\ m # n
    BY <1>2 DEF Sig
  <2>2. ~Queue!Precedes(Sig(next'[m]), Sig(m))
    <3>1. CASE m = previous[n]
      <4>1. next'[m] = next[n] /\ next[n] \in Nodes /\ next[m] = n
        BY <1>2, <1>3, <2>1, <3>1
      <4>2. ~Queue!Precedes(Sig(n), Sig(m)) /\ ~Queue!Precedes(Sig(next[n]), Sig(n))
        BY <4>1 DEF LinksInOrder
      <4>3. Sig(m) \in Signatures /\ Sig(n) \in Signatures /\ Sig(next[n]) \in Signatures
        BY <4>1 DEF Sig, Order
      <4> QED BY <4>1, <4>2, <4>3, PriorityTransitive
    <3>2. CASE m # previous[n]
      BY <1>2, <2>1, <3>2 DEF LinksInOrder
    <3> QED BY <3>1, <3>2
  <2> QED BY <2>1, <2>2 DEF Queue!Precedes
<1>8. NoRing'
  <2> SUFFICES ASSUME NEW S \in SUBSET Nodes, S # {}
               PROVE  \E m \in S : next'[m] \notin S
    BY DEF NoRing
  <2>1. CASE n \in S
    BY <1>2, <2>1
  <2>2. CASE n \notin S /\ previous[n] \in S
    <3>1. PICK m \in S \cup {n} : next[m] \notin S \cup {n}
      <4>1. S \cup {n} \in SUBSET Nodes /\ S \cup {n} # {}
        OBVIOUS
      <4> QED BY <4>1 DEF NoRing
    <3>2. CASE m = n
      BY <1>2, <2>2, <3>1, <3>2
    <3>3. CASE m # n
      <4>1. m # previous[n]
        BY <1>3, <3>1
      <4> QED BY <1>2, <3>1, <3>3, <4>1
    <3> QED BY <3>2, <3>3
  <2>3. CASE n \notin S /\ previous[n] \notin S
    <3>1. PICK m \in S : next[m] \notin S
      BY DEF NoRing
    <3> QED BY <1>2, <2>3, <3>1
  <2> QED BY <2>1, <2>2, <2>3
<1> QED BY <1>6, <1>7, <1>8

\* Operations that leave the links and the signatures of the heap alone.
LEMMA HeapUntouched ==
  ASSUME HeapInv, UNCHANGED <<next, previous>>,
         \A m \in Nodes : Sig(m)' = Sig(m)
  PROVE  BackLinks' /\ LinksInOrder' /\ NoRing'
<1>1. BackLinks' /\ NoRing'
  BY DEF HeapInv, BackLinks, NoRing
<1>2. LinksInOrder'
  <2> SUFFICES ASSUME NEW m \in Nodes, next[m] # Nil
               PROVE  ~Queue!Precedes(Sig(next[m]), Sig(m))'
    BY DEF LinksInOrder
  <2>1. next[m] \in Nodes
    BY DEF HeapInv, MapInv, TypeOK
  <2> QED BY <2>1, LinkStaysInOrder DEF HeapInv
<1> QED BY <1>1, <1>2

\* The empty heap has no links.
THEOREM HeapInvInit == Init => HeapInv
<1> USE ListAssumption DEF ListAssumption
<1> SUFFICES ASSUME Init PROVE HeapInv
  OBVIOUS
<1>1. BackLinks /\ LinksInOrder /\ NoRing
  BY DEF Init, BackLinks, LinksInOrder, NoRing
<1> QED BY <1>1, MapInvInit DEF HeapInv

\* Every operation preserves the invariant of the heap, also when Remove takes
\* another node for the head and drops the nodes in front of it.
THEOREM HeapInvNext == HeapInv /\ [Next]_vars => HeapInv'
<1> SUFFICES ASSUME HeapInv, [Next]_vars PROVE HeapInv'
  OBVIOUS
<1> USE ListAssumption DEF ListAssumption
<1>1. MapInv'
  BY MapInvNext DEF HeapInv
<1>2. ASSUME NEW s \in Signatures, NEW filled \in 0..MaxFilled, Insert(s, filled)
      PROVE  BackLinks' /\ LinksInOrder' /\ NoRing'
  <2>1. ASSUME NEW n \in Nodes, NEW c \in Nodes, InsertAfter(n, c, s, filled)
        PROVE  c # n
    <3>1. n # head /\ \A m \in Nodes : next[m] # n
      BY <2>1 DEF InsertAfter, CreateNode, Unreferenced
    <3> DEFINE P == {m \in Nodes : ~PrependNode(m, s)}
    <3>2. head \in P \ {n} /\ P \ {n} \in SUBSET P
      BY <2>1, <3>1 DEF InsertAfter, HeapInv, MapInv, TypeOK
    <3>3. \A m \in P \ {n} : next[m] \in P => next[m] \in P \ {n}
      BY <3>1
    <3>4. c \in P \ {n}
      BY <2>1, <3>2, <3>3 DEF InsertAfter, LoopStops, WalkWithin
    <3> QED BY <3>4
  <2> QED BY <1>2, <2>1, FirstKeepsHeap, HeadKeepsHeap, AfterKeepsHeap DEF Insert
<1>3. ASSUME NEW s \in Signatures, NEW filled \in 0..MaxFilled, Update(s, filled)
      PROVE  BackLinks' /\ LinksInOrder' /\ NoRing'
  <2>1. \A m \in Nodes : Sig(m)' = Sig(m)
    <3> TAKE m \in Nodes
    <3>1. nodeMap[s] # Nil /\ Sig(nodeMap[s]) = s /\ order \in [Nodes -> Order]
      BY <1>3 DEF Update, Has, HeapInv, MapInv, TypeOK, MapConsistent
    <3> QED BY <1>3, <3>1 DEF Update, Sig
  <2> QED BY <1>3, <2>1, HeapUntouched DEF Update
<1>4. ASSUME NEW s \in Signatures, ResetTryFill(s) \/ TryFill(s)
      PROVE  BackLinks' /\ LinksInOrder' /\ NoRing'
  BY <1>4, HeapUntouched DEF ResetTryFill, TryFill, Sig
<1>5. ASSUME NEW s \in Signatures, Remove(s)
      PROVE  BackLinks' /\ LinksInOrder' /\ NoRing'
  BY <1>5, RemoveKeepsHeap
<1>6. ASSUME Clear PROVE BackLinks' /\ LinksInOrder' /\ NoRing'
  BY <1>6 DEF Clear, BackLinks, LinksInOrder, NoRing
<1>7. ASSUME UNCHANGED vars PROVE BackLinks' /\ LinksInOrder' /\ NoRing'
  BY <1>7, HeapUntouched DEF vars, Sig
<1> QED BY <1>1, <1>2, <1>3, <1>4, <1>5, <1>6, <1>7 DEF Next, HeapInv

\* An iteration meets the prices in order whatever order ids share the list:
\* what it may miss, it does not disorder.
THEOREM WalkOrderCorrect == Spec => []WalkInOrder
<1>1. HeapInv => WalkInOrder
  BY DEF HeapInv, LinksInOrder, WalkInOrder, Visited, WalkWithin
<1> QED BY <1>1, HeapInvInit, HeapInvNext, PTL DEF Spec

\* Every walk ends: neither a query nor the loop of Insert spins with the
\* DLOB's lock held, whatever order ids share the list.
THEOREM WalkEnds == Spec => []WalkTerminates
<1>1. HeapInv => WalkTerminates
  <2> SUFFICES ASSUME HeapInv, head # Nil
               PROVE  \E n \in WalkWithin(Nodes) : next[n] = Nil
    BY DEF WalkTerminates, Visited
  <2>1. head \in WalkWithin(Nodes)
    BY DEF HeapInv, MapInv, TypeOK, WalkWithin
  <2>2. \A m \in WalkWithin(Nodes) : next[m] \in Nodes => next[m] \in WalkWithin(Nodes)
    BY DEF WalkWithin
  <2>3. PICK m \in WalkWithin(Nodes) : next[m] \notin WalkWithin(Nodes)
    <3>1. WalkWithin(Nodes) \in SUBSET Nodes
      BY DEF WalkWithin
    <3> QED BY <2>1, <3>1 DEF HeapInv, NoRing
  <2>4. next[m] \in Nodes \cup {Nil}
    BY DEF WalkWithin, HeapInv, MapInv, TypeOK
  <2> QED BY <2>2, <2>3, <2>4
<1> QED BY <1>1, HeapInvInit, HeapInvNext, PTL DEF Spec
=============================================================================
