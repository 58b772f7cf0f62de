----------------------------- MODULE DLOBProofs -----------------------------
(***************************************************************************)
(* Proofs about DLOB, for any chain, any number of orders, users and       *)
(* handlers, any number of finders that move orders under each other, and  *)
(* messages delivered in any order or never: what the book holds was       *)
(* written, a tracked order is listed or in the hand of who moves it,      *)
(* orders that never move are in their list exactly while tracked, and     *)
(* stamps do not go back.                                                  *)
(***************************************************************************)
EXTENDS DLOB, FiniteSetTheorems, WellFoundedInduction, TLAPS

-----------------------------------------------------------------------------
(* The invariant.                                                          *)

Events == [kind : {"place", "trigger", "cancel"}, order : Orders]
            \cup [kind : {"fill"}, taker : Orders, takerFilled : Nat,
                  maker : Orders \cup {None}, makerFilled : Nat]
Writes == [slot : Slots, chain : [Orders -> Versions \cup {None}], event : Events]

\* An order that is placed is open, and only trigger orders are triggered.
EventOK(w) ==
  /\ w.event.kind = "place" => w.chain[w.event.order] # None
  /\ w.event.kind = "trigger" => MustBeTriggered(w.event.order)

\* Messages are about writes that have happened.
ChainInv ==
  /\ ledger \in Seq(Writes)
  /\ \A k \in DOMAIN ledger : EventOK(ledger[k])
  /\ \A message \in accounts : message[2] \in DOMAIN ledger
  /\ events \subseteq DOMAIN ledger

OpNames == {"insert", "rest", "update", "trigger", "delete"}
Items == [op : OpNames, pos : Nat, o : Orders \cup {None}, order : Versions \cup {None},
          slot : 0..MaxSlot, filled : Nat \cup {None}]

\* The chain wrote v for o, at slot s or before.
Written(o, v, s) ==
  \E k \in DOMAIN ledger : ledger[k].chain[o] = v /\ ledger[k].slot <= s

\* A classified order: whatever happens to the book before it is applied, it
\* carries a version written by its slot.
ItemOK(i) ==
  /\ i \in Items
  /\ i.op # "rest" => i.o \in Orders /\ i.order \in Versions
  /\ i.op = "trigger" => MustBeTriggered(i.o)
  /\ i.op \in {"insert", "update", "trigger"} => Written(i.o, i.order, i.slot)

TodoInv ==
  /\ todo \in [Processes -> SUBSET Items]
  /\ \A p \in Processes : \A i \in todo[p] : ItemOK(i)
  /\ reading # None => /\ reading.at \in DOMAIN ledger
                       /\ \A d \in reading.outdated : ItemOK(d) /\ d.op = "delete"

\* Nothing is tracked or pending before the subscriber has built the book.
QuietBefore ==
  ~subscribed => /\ tracked = [o \in Orders |-> None]
                 /\ \A p \in Processes : todo[p] = {}
                 /\ reading = None

BookInv ==
  /\ tracked \in [Orders -> Entries \cup {None}]
  /\ lists \in [Lists -> [Orders -> Versions \cup {None}]]
  /\ maxSlot \in 0..MaxSlot
  /\ known \subseteq Users
  /\ writer \in Processes \cup {None}
  /\ QuietBefore

Placement == TrackedIsListed /\ StaticInPlace

\* What a finder moves is an order whose list depends on the slot.
FinderInv ==
  /\ start \in Starts \cup {None}
  /\ asked \in [Finders -> FindSlots \cup {None}]
  /\ due \in [Finders -> SUBSET Moves]
  /\ hand \in [Finders -> Moves \cup {None}]
  /\ \A f \in Finders : /\ \A d \in due[f] : ~Static(d.o)
                        /\ hand[f] # None => ~Static(hand[f].o)

InHand(o) == \E f \in Finders : hand[f] # None /\ hand[f].o = o

IInv == ChainInv /\ TodoInv /\ BookInv /\ Placement /\ StampCoversContent /\ FinderInv

-----------------------------------------------------------------------------
(* Facts about the operators.                                              *)

LEMMA NodeTypeIsList ==
  \A o \in Orders : \A v, s : GetNodeType(o, v, s) \in Lists
BY DLOBAssumption DEF DLOBAssumption, Kinds, GetNodeType, Lists

\* The list of an order that never moves depends on neither version nor slot.
LEMMA StaticHome ==
  ASSUME NEW o \in Orders, Static(o), NEW v, NEW s
  PROVE  GetNodeType(o, v, s) = Home(o) /\ Home(o) \in Lists /\ Home(o) # "takingLimit"
BY DLOBAssumption DEF DLOBAssumption, Kinds, GetNodeType, Lists, Static, Home,
   MustBeTriggered, IsRestingLimitOrder, IsAuctionComplete

\* A non-empty set of slots has a greatest one: the slot of a bulk exists.
LEMMA Latest ==
  ASSUME NEW S \in SUBSET (0..MaxSlot), S # {}
  PROVE  \E s \in S : \A t \in S : t <= s
<1> DEFINE T == {MaxSlot - s : s \in S}
<1>1. T \subseteq Nat /\ T # {}
  <2>1. \A s \in 0..MaxSlot : MaxSlot - s \in Nat
    BY DLOBAssumption DEF DLOBAssumption
  <2>2. PICK s \in S : TRUE
    OBVIOUS
  <2>3. MaxSlot - s \in T
    OBVIOUS
  <2>4. \A x \in T : x \in Nat
    BY <2>1
  <2> QED BY <2>3, <2>4
<1>2. PICK x \in T : \A y \in T : <<y, x>> \notin OpToRel(<, Nat)
  <2> HIDE DEF T
  <2> QED BY <1>1, NatLessThanWellFounded, WFMin
<1>3. \A y \in T : ~(y < x)
  <2> HIDE DEF T
  <2> QED BY <1>1, <1>2 DEF OpToRel
<1>4. PICK s \in S : x = MaxSlot - s
  OBVIOUS
<1>5. ASSUME NEW t \in S PROVE t <= s
  <2>1. MaxSlot - t \in T
    OBVIOUS
  <2>2. ~(MaxSlot - t < MaxSlot - s)
    BY <2>1, <1>3, <1>4
  <2> QED BY <2>2, DLOBAssumption DEF DLOBAssumption
<1> QED BY <1>5

LEMMA OpsAreNames == {Ops[n] : n \in DOMAIN Ops} = OpNames
BY DEF Ops, OpNames

-----------------------------------------------------------------------------
(* The chain.                                                              *)

\* A write leaves earlier writes as they are, and so everything that is known
\* about them.
LEMMA WriteKeepsIInv ==
  ASSUME IInv, NEW slot \in Slots, NEW chain \in [Orders -> Versions \cup {None}],
         NEW event \in Events, NEW touched,
         EventOK([slot |-> slot, chain |-> chain, event |-> event]),
         Write(slot, chain, event, touched)
  PROVE  IInv'
<1> DEFINE w == [slot |-> slot, chain |-> chain, event |-> event]
           at == Len(ledger) + 1
<1>1. w \in Writes /\ ledger \in Seq(Writes) /\ ledger' = Append(ledger, w)
  BY DEF Write, Writes, IInv, ChainInv
<1>2. /\ ledger' \in Seq(Writes)
      /\ DOMAIN ledger = 1..Len(ledger) /\ DOMAIN ledger' = 1..at
      /\ \A k \in DOMAIN ledger : k \in DOMAIN ledger' /\ ledger'[k] = ledger[k]
      /\ ledger'[at] = w
      /\ Len(ledger) \in Nat
  <2> HIDE DEF w
  <2> QED BY <1>1
<1>3. ChainInv'
  <2>1. \A k \in DOMAIN ledger' : EventOK(ledger'[k])
    <3>1. \A k \in DOMAIN ledger' : k = at \/ k \in DOMAIN ledger
      BY <1>2
    <3>2. EventOK(w)
      OBVIOUS
    <3> HIDE DEF w, at
    <3> QED BY <1>2, <3>1, <3>2 DEF IInv, ChainInv
  <2>2. \A message \in accounts' : message[2] \in DOMAIN ledger'
    <3>1. \A message \in accounts' : message \in accounts \/ message[2] = at
      BY DEF Write
    <3> QED BY <1>2, <3>1 DEF IInv, ChainInv
  <2>3. events' \subseteq DOMAIN ledger'
    BY <1>2 DEF Write, IInv, ChainInv
  <2>4. ChainInv' = (/\ ledger' \in Seq(Writes)
                     /\ \A k \in DOMAIN ledger' : EventOK(ledger'[k])
                     /\ \A message \in accounts' : message[2] \in DOMAIN ledger'
                     /\ events' \subseteq DOMAIN ledger')
    BY DEF ChainInv, EventOK
  <2> QED BY <1>2, <2>1, <2>2, <2>3, <2>4
<1>4. ASSUME NEW o, NEW v, NEW s, Written(o, v, s) PROVE Written(o, v, s)'
  BY <1>2, <1>4 DEF Written
<1> HIDE DEF w, at
<1>5. UNCHANGED <<start, tracked, lists, maxSlot, known, writer, reading, todo,
                   asked, due, hand>>
  BY DEF Write, bookVars, moveVars
<1>6. \A i : ItemOK(i) => ItemOK(i)'
  BY <1>4 DEF ItemOK
<1>7. TodoInv'
  <2>1. reading' # None => reading'.at \in DOMAIN ledger'
    BY <1>2, <1>5 DEF IInv, TodoInv
  <2> QED BY <2>1, <1>5, <1>6 DEF IInv, TodoInv
<1>8. BookInv' /\ Placement' /\ FinderInv'
  BY <1>5 DEF FinderInv, Static, IInv, BookInv, QuietBefore, subscribed, Placement, TrackedIsListed, StaticInPlace, Homes
<1>9. StampCoversContent'
  <2>1. \A o \in Orders : tracked[o] # None
                             => Written(o, tracked[o].order, tracked[o].slot)
    BY DEF IInv, StampCoversContent, Written
  <2>2. \A o \in Orders : tracked'[o] # None
                             => Written(o, tracked[o].order, tracked[o].slot)'
    BY <2>1, <1>4, <1>5
  <2> QED BY <2>2 DEF StampCoversContent, Written
<1> QED BY <1>3, <1>7, <1>8, <1>9 DEF IInv

LEMMA ChainTyped ==
  ASSUME IInv
  PROVE  Chain \in [Orders -> Versions \cup {None}]
<1>1. CASE ledger = <<>>
  BY <1>1 DEF Chain
<1>2. CASE ledger # <<>>
  <2>1. ledger \in Seq(Writes) /\ Len(ledger) \in 1..Len(ledger)
    BY <1>2 DEF IInv, ChainInv
  <2>2. ledger[Len(ledger)] \in Writes
    BY <2>1
  <2> QED BY <1>2, <2>2 DEF Chain, Writes
<1> QED BY <1>1, <1>2

LEMMA ChainStepKeepsIInv ==
  ASSUME IInv, ChainStep
  PROVE  IInv'
<1>1. PICK slot \in NextSlots :
        \/ \E o \in Orders : Place(o, slot)
        \/ \E o \in Orders : Trigger(o, slot)
        \/ \E o \in Orders : Cancel(o, slot)
        \/ \E taker \in Orders, maker \in Orders \cup {None} :
              taker # maker /\ Fill(taker, maker, slot)
  BY DEF ChainStep
<1>2. slot \in Slots /\ slot \in Nat
  BY DLOBAssumption DEF DLOBAssumption, NextSlots, Slots
<1>3. Chain \in [Orders -> Versions \cup {None}]
  BY ChainTyped
<1>4. \A v \in Versions : v.filled \in Nat /\ v.triggered \in BOOLEAN /\ v.slot \in Nat
  BY DEF Versions
<1>5. CASE \E o \in Orders : Place(o, slot)
  <2>1. PICK o \in Orders : Place(o, slot)
    BY <1>5
  <2> DEFINE v == [filled |-> 0, triggered |-> FALSE, slot |-> slot]
             chain == [Chain EXCEPT ![o] = v]
             event == [kind |-> "place", order |-> o]
  <2>2. v \in Versions /\ v # None
    <3>1. v \in Versions
      BY <1>2 DEF Versions
    <3> HIDE DEF v
    <3> QED BY <3>1, NoneAssumption DEF NoneAssumption
  <2>3. chain \in [Orders -> Versions \cup {None}] /\ chain[o] # None
    BY <1>3, <2>2
  <2>4. event \in Events /\ event.kind = "place" /\ event.order = o
    BY DEF Events
  <2>5. Write(slot, chain, event, {o})
    BY <2>1 DEF Place
  <2> HIDE DEF v, chain, event
  <2>6. EventOK([slot |-> slot, chain |-> chain, event |-> event])
    BY <2>3, <2>4 DEF EventOK
  <2> QED BY <1>2, <2>3, <2>4, <2>5, <2>6, WriteKeepsIInv
<1>6. CASE \E o \in Orders : Trigger(o, slot)
  <2>1. PICK o \in Orders : Trigger(o, slot)
    BY <1>6
  <2> DEFINE chain == [Chain EXCEPT ![o].triggered = TRUE, ![o].slot = slot]
             event == [kind |-> "trigger", order |-> o]
  <2>2. Chain[o] \in Versions /\ MustBeTriggered(o)
    BY <1>3, <2>1 DEF Trigger
  <2>3. chain \in [Orders -> Versions \cup {None}]
    BY <1>2, <1>3, <2>2 DEF Versions
  <2>4. event \in Events /\ event.kind = "trigger" /\ event.order = o
    BY DEF Events
  <2>5. Write(slot, chain, event, {o})
    BY <2>1 DEF Trigger
  <2> HIDE DEF chain, event
  <2>6. EventOK([slot |-> slot, chain |-> chain, event |-> event])
    BY <2>2, <2>4 DEF EventOK
  <2> QED BY <1>2, <2>3, <2>4, <2>5, <2>6, WriteKeepsIInv
<1>7. CASE \E o \in Orders : Cancel(o, slot)
  <2>1. PICK o \in Orders : Cancel(o, slot)
    BY <1>7
  <2> DEFINE chain == [Chain EXCEPT ![o] = None]
             event == [kind |-> "cancel", order |-> o]
  <2>2. chain \in [Orders -> Versions \cup {None}]
    BY <1>3
  <2>3. event \in Events /\ event.kind = "cancel"
    BY DEF Events
  <2>4. Write(slot, chain, event, {o})
    BY <2>1 DEF Cancel
  <2> HIDE DEF chain, event
  <2>5. EventOK([slot |-> slot, chain |-> chain, event |-> event])
    BY <2>3 DEF EventOK
  <2> QED BY <1>2, <2>2, <2>3, <2>4, <2>5, WriteKeepsIInv
<1>8. CASE \E taker \in Orders, maker \in Orders \cup {None} :
             taker # maker /\ Fill(taker, maker, slot)
  <2>1. PICK taker \in Orders, maker \in Orders \cup {None} :
               taker # maker /\ Fill(taker, maker, slot)
    BY <1>8
  <2> DEFINE chain == [o \in Orders |-> IF o \in {taker, maker} THEN OneMore(o) ELSE Chain[o]]
             makerFilled == IF maker = None THEN 0 ELSE Chain[maker].filled + 1
             event == [kind |-> "fill", taker |-> taker,
                       takerFilled |-> Chain[taker].filled + 1,
                       maker |-> maker, makerFilled |-> makerFilled]
  <2>2. Chain[taker] \in Versions /\ (maker # None => Chain[maker] \in Versions)
    BY <1>3, <2>1 DEF Fill, Fillable
  <2>3. \A o \in Orders : Chain[o] \in Versions => OneMore(o) \in Versions \cup {None}
    BY DEF OneMore, Versions
  <2>4. None \notin Orders
    BY DLOBAssumption DEF DLOBAssumption
  <2>5. chain \in [Orders -> Versions \cup {None}]
    BY <1>3, <2>2, <2>3, <2>4
  <2>6. Chain[taker].filled + 1 \in Nat /\ makerFilled \in Nat
    BY <1>4, <2>2
  <2>7. event \in Events /\ event.kind = "fill"
    <3> HIDE DEF makerFilled
    <3> QED BY <2>1, <2>6 DEF Events
  <2>8. Write(slot, chain, event, {taker, maker} \ {None})
    BY <2>1 DEF Fill
  <2> HIDE DEF chain, event
  <2>9. EventOK([slot |-> slot, chain |-> chain, event |-> event])
    BY <2>7 DEF EventOK
  <2> QED BY <1>2, <2>5, <2>7, <2>8, <2>9, WriteKeepsIInv
<1> QED BY <1>1, <1>5, <1>6, <1>7, <1>8

-----------------------------------------------------------------------------
(* Classification.                                                         *)

LEMMA WritesTyped ==
  ASSUME IInv, NEW k \in DOMAIN ledger
  PROVE  /\ ledger[k].slot \in 0..MaxSlot /\ ledger[k].slot \in Nat
         /\ ledger[k].chain \in [Orders -> Versions \cup {None}]
         /\ ledger[k].event \in Events
         /\ EventOK(ledger[k])
<1>1. ledger \in Seq(Writes)
  BY DEF IInv, ChainInv
<1>2. ledger[k] \in Writes
  BY <1>1
<1>3. ledger[k].slot \in Slots
  BY <1>2 DEF Writes
<1> QED BY <1>2, <1>3, DLOBAssumption DEF DLOBAssumption, Writes, Slots, IInv, ChainInv

\* What a tracked order carries was written by its stamp, and so by any later
\* slot.
LEMMA TrackedWritten ==
  ASSUME IInv, NEW o \in Orders, tracked[o] # None, NEW s \in Nat, tracked[o].slot <= s
  PROVE  tracked[o].order \in Versions /\ Written(o, tracked[o].order, s)
<1>1. tracked[o] \in Entries
  BY DEF IInv, BookInv
<1>2. tracked[o].order \in Versions /\ tracked[o].slot \in Nat
  BY <1>1, DLOBAssumption DEF DLOBAssumption, Entries
<1>3. PICK k \in DOMAIN ledger : ledger[k].chain[o] = tracked[o].order
                                  /\ ledger[k].slot <= tracked[o].slot
  BY DEF IInv, StampCoversContent
<1>4. ledger[k].slot <= s
  BY <1>2, <1>3, WritesTyped
<1> QED BY <1>2, <1>3, <1>4 DEF Written

LEMMA RestOK ==
  ASSUME NEW items, \A i \in items : ItemOK(i), NEW slot \in 0..MaxSlot
  PROVE  \A i \in WithRest(items, slot) : ItemOK(i)
<1>1. ItemOK(Item("rest", 0, None, None, slot, None))
  BY DEF ItemOK, Item, Items, OpNames
<1> QED BY <1>1 DEF WithRest

LEMMA FillItemsOK ==
  ASSUME IInv, NEW pos \in Nat, NEW o \in Orders, NEW slot \in 0..MaxSlot,
         NEW takerFilled, NEW filled \in Nat
  PROVE  \A i \in FillItems(pos, o, slot, takerFilled, filled) : ItemOK(i)
<1> SUFFICES ASSUME tracked[o] # None, ~(tracked[o].slot >= slot)
             PROVE  /\ ItemOK(Item("delete", pos, o, tracked[o].order, slot, None))
                    /\ ItemOK(Item("update", pos, o, tracked[o].order, slot, filled))
  BY DEF FillItems
<1>1. tracked[o].slot \in Nat /\ slot \in Nat
  BY DLOBAssumption DEF DLOBAssumption, IInv, BookInv, Entries
<1>2. tracked[o].order \in Versions /\ Written(o, tracked[o].order, slot)
  BY <1>1, TrackedWritten
<1> QED BY <1>2 DEF ItemOK, Item, Items, OpNames

LEMMA EventItemsOK ==
  ASSUME IInv, NEW k \in DOMAIN ledger, NEW pos \in Nat
  PROVE  \A i \in EventItems(k, pos) : ItemOK(i)
<1> DEFINE e == ledger[k].event
           slot == ledger[k].slot
<1>1. /\ slot \in 0..MaxSlot /\ slot \in Nat /\ e \in Events
      /\ ledger[k].chain \in [Orders -> Versions \cup {None}]
      /\ EventOK(ledger[k])
  BY WritesTyped
<1>2. CASE e.kind = "place"
  <2> DEFINE v == ledger[k].chain[e.order]
  <2>1. e.order \in Orders
    BY <1>1, <1>2 DEF Events
  <2>2. v \in Versions
    BY <1>1, <1>2, <2>1 DEF EventOK
  <2>3. Written(e.order, v, slot)
    BY <1>1 DEF Written
  <2>4. EventItems(k, pos) \subseteq {Item("insert", pos, e.order, v, slot, None),
                                      Item("update", pos, e.order, v, slot, None)}
    BY <1>2 DEF EventItems
  <2> HIDE DEF v, e, slot
  <2>5. /\ ItemOK(Item("insert", pos, e.order, v, slot, None))
        /\ ItemOK(Item("update", pos, e.order, v, slot, None))
    BY <1>1, <2>1, <2>2, <2>3 DEF ItemOK, Item, Items, OpNames
  <2> QED BY <2>4, <2>5
<1>3. CASE e.kind = "trigger"
  <2>1. e.order \in Orders /\ MustBeTriggered(e.order)
    BY <1>1, <1>3 DEF Events, EventOK
  <2> DEFINE o == e.order
             item == Item("trigger", pos, o, tracked[o].order, slot, None)
  <2>2. EventItems(k, pos) \subseteq {item}
    BY <1>3 DEF EventItems
  <2>3. EventItems(k, pos) # {} => tracked[o] # None /\ tracked[o].slot <= slot
    BY <1>3 DEF EventItems
  <2> HIDE DEF e, slot
  <2>4. ASSUME tracked[o] # None, tracked[o].slot <= slot PROVE ItemOK(item)
    <3>1. tracked[o].order \in Versions /\ Written(o, tracked[o].order, slot)
      BY <1>1, <2>1, <2>4, TrackedWritten
    <3> QED BY <1>1, <2>1, <3>1 DEF ItemOK, Item, Items, OpNames
  <2> HIDE DEF item
  <2> QED BY <2>2, <2>3, <2>4
<1>4. CASE e.kind = "cancel"
  <2>1. e.order \in Orders
    BY <1>1, <1>4 DEF Events
  <2> DEFINE o == e.order
             item == Item("delete", pos, o, tracked[o].order, slot, None)
  <2>2. EventItems(k, pos) \subseteq {item}
    BY <1>4 DEF EventItems
  <2>3. EventItems(k, pos) # {} => tracked[o] # None
    BY <1>4 DEF EventItems
  <2> HIDE DEF e, slot
  <2>4. ASSUME tracked[o] # None PROVE ItemOK(item)
    <3>1. tracked[o].order \in Versions
      BY <2>1, <2>4 DEF IInv, BookInv, Entries
    <3> QED BY <1>1, <2>1, <3>1 DEF ItemOK, Item, Items, OpNames
  <2> HIDE DEF item
  <2> QED BY <2>2, <2>3, <2>4
<1>5. CASE e.kind = "fill"
  <2>1. e.taker \in Orders /\ e.maker \in Orders \cup {None}
        /\ e.takerFilled \in Nat /\ e.makerFilled \in Nat
    BY <1>1, <1>5 DEF Events
  <2>2. EventItems(k, pos) =
          FillItems(pos, e.taker, slot, e.takerFilled, e.takerFilled)
            \cup IF e.maker = None THEN {}
                 ELSE FillItems(pos + 1, e.maker, slot, e.takerFilled, e.makerFilled)
    BY <1>5 DEF EventItems
  <2> HIDE DEF e, slot
  <2>3. \A i \in FillItems(pos, e.taker, slot, e.takerFilled, e.takerFilled) : ItemOK(i)
    BY <1>1, <2>1, FillItemsOK
  <2>4. e.maker # None =>
          \A i \in FillItems(pos + 1, e.maker, slot, e.takerFilled, e.makerFilled) : ItemOK(i)
    BY <1>1, <2>1, FillItemsOK
  <2> QED BY <2>2, <2>3, <2>4
<1>6. e.kind \in {"place", "trigger", "cancel", "fill"}
  BY <1>1 DEF Events
<1> QED BY <1>2, <1>3, <1>4, <1>5, <1>6

\* Classified orders may be handed over to be applied.
LEMMA HandOverKeepsIInv ==
  ASSUME IInv, subscribed, NEW p \in Processes, NEW items, \A i \in items : ItemOK(i),
         todo' = [todo EXCEPT ![p] = items],
         accounts' \subseteq accounts, events' \subseteq events,
         UNCHANGED <<ledger, start, bookVars, writer, moveVars>>,
         reading' \in {reading, None}
  PROVE  IInv'
<1>1. \A i : ItemOK(i) => ItemOK(i)'
  BY DEF ItemOK, Written
<1>2. items \subseteq Items
  BY DEF ItemOK
<1>3. ChainInv'
  BY DEF IInv, ChainInv, EventOK
<1>4. TodoInv'
  <2>1. todo' \in [Processes -> SUBSET Items]
    BY <1>2 DEF IInv, TodoInv
  <2>2. \A q \in Processes : \A i \in todo'[q] : ItemOK(i)'
    BY <1>1 DEF IInv, TodoInv
  <2>3. reading' # None => /\ reading'.at \in DOMAIN ledger'
                           /\ \A d \in reading'.outdated : ItemOK(d)' /\ d.op = "delete"
    BY <1>1 DEF IInv, TodoInv
  <2> QED BY <2>1, <2>2, <2>3 DEF TodoInv
<1>5. BookInv'
  BY DEF IInv, BookInv, QuietBefore, subscribed, bookVars
<1>6. Placement' /\ StampCoversContent' /\ FinderInv'
  BY DEF moveVars, FinderInv, Static, IInv, Placement, TrackedIsListed, StaticInPlace, Homes, StampCoversContent, bookVars
<1> QED BY <1>3, <1>4, <1>5, <1>6 DEF IInv

LEMMA HandleOrderEventsKeepsIInv ==
  ASSUME IInv, NEW h \in Handlers, NEW n \in 1..BatchMax, NEW batch \in [1..n -> events],
         HandleOrderEvents(h, batch)
  PROVE  IInv'
<1> DEFINE taken == {batch[i] : i \in DOMAIN batch}
           times == {ledger[k].slot : k \in taken}
           newest == CHOOSE s \in times : \A k \in taken : ledger[k].slot <= s
           items == UNION {EventItems(batch[i], 2 * i) : i \in DOMAIN batch}
<1>1. n \in Nat /\ n >= 1 /\ DOMAIN batch = 1..n
  BY DLOBAssumption DEF DLOBAssumption
<1>2. taken \subseteq DOMAIN ledger /\ batch[1] \in taken
  BY <1>1 DEF IInv, ChainInv
<1>3. newest \in 0..MaxSlot
  <2>1. times \in SUBSET (0..MaxSlot) /\ times # {}
    BY <1>2, WritesTyped
  <2> HIDE DEF taken
  <2>2. \E s \in times : \A k \in taken : ledger[k].slot <= s
    <3>1. \A k \in taken : ledger[k].slot \in times
      OBVIOUS
    <3>2. PICK s \in times : \A t \in times : t <= s
      <4> HIDE DEF times
      <4> QED BY <2>1, Latest
    <3> QED BY <3>1, <3>2
  <2>3. newest \in times
    <3> HIDE DEF times
    <3> QED BY <2>2
  <2> QED BY <2>1, <2>3
<1>4. \A i \in items : ItemOK(i)
  <2>1. \A i \in 1..n : batch[i] \in DOMAIN ledger /\ 2 * i \in Nat
    BY <1>1 DEF IInv, ChainInv
  <2>2. \A i \in 1..n : \A x \in EventItems(batch[i], 2 * i) : ItemOK(x)
    BY <2>1, EventItemsOK
  <2> QED BY <1>1, <2>2
<1>5. /\ subscribed
      /\ todo' = [todo EXCEPT ![h] = WithRest(items, newest)]
      /\ events' \subseteq events /\ accounts' \subseteq accounts
      /\ UNCHANGED <<ledger, start, bookVars, writer, reading, moveVars>>
  BY DEF HandleOrderEvents
<1> HIDE DEF items, newest
<1>6. \A i \in WithRest(items, newest) : ItemOK(i)
  BY <1>3, <1>4, RestOK
<1> QED BY <1>5, <1>6, HandOverKeepsIInv DEF Processes

LEMMA ReadTrackedKeepsIInv ==
  ASSUME IInv, NEW message \in accounts, ReadTracked(message[1], message[2])
  PROVE  IInv'
<1> DEFINE u == message[1]
           k == message[2]
           outdated == {Item("delete", 0, o, tracked[o].order, ledger[k].slot, None) :
                    o \in {x \in Orders : /\ Owner[x] = u /\ tracked[x] # None
                                          /\ tracked[x].slot < ledger[k].slot}}
<1>1. k \in DOMAIN ledger
  BY DEF IInv, ChainInv
<1>2. \A d \in outdated : ItemOK(d) /\ d.op = "delete"
  <2> SUFFICES ASSUME NEW o \in Orders, tracked[o] # None
               PROVE  LET d == Item("delete", 0, o, tracked[o].order, ledger[k].slot, None)
                      IN  ItemOK(d) /\ d.op = "delete"
    OBVIOUS
  <2>1. tracked[o].order \in Versions /\ ledger[k].slot \in 0..MaxSlot
    BY <1>1, WritesTyped DEF IInv, BookInv, Entries
  <2> QED BY <2>1 DEF ItemOK, Item, Items, OpNames
<1>3. /\ reading' = [user |-> u, at |-> k, exists |-> u \in known, outdated |-> outdated]
      /\ accounts' \subseteq accounts /\ subscribed
      /\ UNCHANGED <<ledger, events, start, bookVars, writer, todo, moveVars>>
  BY DEF ReadTracked
<1>4. reading'.at = k /\ reading'.outdated = outdated
  BY <1>3
<1> HIDE DEF outdated, u, k
<1>5. \A i : ItemOK(i) => ItemOK(i)'
  BY <1>3 DEF ItemOK, Written
<1>6. ChainInv' /\ BookInv' /\ Placement' /\ StampCoversContent' /\ FinderInv'
  BY <1>3 DEF moveVars, FinderInv, Static, IInv, ChainInv, EventOK, BookInv, QuietBefore, subscribed, Placement, TrackedIsListed,
     StaticInPlace, Homes, StampCoversContent, bookVars
<1>7. TodoInv'
  BY <1>1, <1>2, <1>3, <1>4, <1>5 DEF IInv, TodoInv
<1> QED BY <1>6, <1>7 DEF IInv

LEMMA ClassifySnapshotKeepsIInv ==
  ASSUME IInv, ClassifySnapshot
  PROVE  IInv'
<1> DEFINE k == reading.at
           u == reading.user
           slot == ledger[k].slot
           orders == ledger[k].chain
           outdated == reading.outdated
           exists == reading.exists
<1>1. /\ reading # None /\ reading' = None
      /\ todo' = [todo EXCEPT ![Updater] = SnapshotItems(u, slot, orders, exists, outdated)]
      /\ UNCHANGED <<chainVars, start, bookVars, writer, moveVars>>
  BY DEF ClassifySnapshot
<1>2. subscribed
  BY <1>1 DEF IInv, BookInv, QuietBefore, subscribed
<1>3. k \in DOMAIN ledger /\ \A d \in outdated : ItemOK(d)
  BY <1>1 DEF IInv, TodoInv
<1>4. slot \in 0..MaxSlot /\ slot \in Nat /\ orders \in [Orders -> Versions \cup {None}]
  BY <1>3, WritesTyped
<1>5. ASSUME NEW o \in Orders, orders[o] # None, NEW op \in {"insert", "update", "delete"}
      PROVE  ItemOK(Item(op, 0, o, orders[o], slot, None))
  <2>1. orders[o] \in Versions
    BY <1>4, <1>5
  <2>2. Written(o, orders[o], slot)
    BY <1>3, <1>4 DEF Written
  <2> HIDE DEF slot, orders
  <2> QED BY <1>4, <2>1, <2>2 DEF ItemOK, Item, Items, OpNames
<1> DEFINE present == {o \in Orders : Owner[o] = u /\ orders[o] # None}
           seen == {o \in present : exists /\ tracked[o] # None}
           newer == {o \in seen : tracked[o].slot < slot}
           full == {o \in newer : orders[o].filled = Size[o]}
           items == {Item("insert", 0, o, orders[o], slot, None) : o \in present \ seen}
             \cup {Item("update", 0, o, orders[o], slot, None) : o \in newer \ full}
             \cup {d \in outdated : d.o \notin present \ full}
             \cup {Item("delete", 0, o, orders[o], slot, None) :
                     o \in {x \in full : \A d \in outdated : d.o # x}}
<1>6. SnapshotItems(u, slot, orders, exists, outdated) = WithRest(items, slot)
  BY DEF SnapshotItems
<1>7. \A i \in items : ItemOK(i)
  <2> HIDE DEF slot, orders, outdated
  <2> QED BY <1>3, <1>5
<1> HIDE DEF items, slot, orders, outdated, exists, u
<1>8. \A i \in WithRest(items, slot) : ItemOK(i)
  BY <1>4, <1>7, RestOK
<1> QED BY <1>1, <1>2, <1>6, <1>8, HandOverKeepsIInv DEF Processes, chainVars

-----------------------------------------------------------------------------
(* Application: what one item does to the book.                            *)

BookPart ==
  /\ tracked \in [Orders -> Entries \cup {None}]
  /\ lists \in [Lists -> [Orders -> Versions \cup {None}]]
  /\ maxSlot \in 0..MaxSlot
  /\ known \subseteq Users
  /\ Placement
  /\ StampCoversContent

Shelves == [Lists -> [Orders -> Versions \cup {None}]]

LEMMA InsertedInto ==
  ASSUME NEW ls \in Shelves, NEW l \in Lists, NEW o \in Orders, NEW v \in Versions
  PROVE  /\ Inserted(ls, l, o, v) \in Shelves
         /\ \A m \in Lists, x \in Orders :
              Inserted(ls, l, o, v)[m][x] =
                IF m = l /\ x = o /\ ls[m][x] = None THEN v ELSE ls[m][x]
BY DEF Inserted, Shelves

LEMMA UpdatedIn ==
  ASSUME NEW ls \in Shelves, NEW l \in Lists, NEW o \in Orders, NEW v \in Versions
  PROVE  /\ Updated(ls, l, o, v) \in Shelves
         /\ \A m \in Lists, x \in Orders :
              Updated(ls, l, o, v)[m][x] =
                IF m = l /\ x = o /\ ls[m][x] # None THEN v ELSE ls[m][x]
BY DEF Updated, Shelves

LEMMA RemovedFrom ==
  ASSUME NEW ls \in Shelves, NEW l \in Lists, NEW o \in Orders
  PROVE  /\ Removed(ls, l, o) \in Shelves
         /\ \A m \in Lists, x \in Orders :
              Removed(ls, l, o)[m][x] = IF m = l /\ x = o THEN None ELSE ls[m][x]
BY DEF Removed, Shelves

\* The entry an item leaves for its order.
LEMMA TrackedAfter ==
  ASSUME IInv, NEW i, ItemOK(i), i.op \in {"insert", "update", "trigger"}, Track(i)
  PROVE  /\ tracked' \in [Orders -> Entries \cup {None}]
         /\ tracked'[i.o] = [order |-> i.order, slot |-> i.slot]
         /\ tracked'[i.o] # None
         /\ \A o \in Orders : o # i.o => tracked'[o] = tracked[o]
<1>1. i.o \in Orders /\ i.order \in Versions /\ i.slot \in 0..MaxSlot
  BY DEF ItemOK, Items
<1>2. [order |-> i.order, slot |-> i.slot] \in Entries
  BY <1>1 DEF Entries
<1>3. \A e \in Entries : e # None
  BY NoneAssumption DEF NoneAssumption
<1>4. tracked' = [tracked EXCEPT ![i.o] = [order |-> i.order, slot |-> i.slot]]
  BY DEF Track
<1> QED BY <1>1, <1>2, <1>3, <1>4 DEF IInv, BookInv

\* The stamp an item leaves covers the version it carries.
LEMMA StampAfter ==
  ASSUME IInv, NEW i, ItemOK(i), i.op \in {"insert", "update", "trigger"},
         Track(i) \/ UNCHANGED tracked, UNCHANGED ledger
  PROVE  StampCoversContent'
<1>1. CASE UNCHANGED tracked
  BY <1>1 DEF IInv, StampCoversContent
<1>2. CASE Track(i)
  <2> SUFFICES ASSUME NEW o \in Orders, tracked'[o] # None
               PROVE  \E k \in DOMAIN ledger' : /\ ledger'[k].chain[o] = tracked'[o].order
                                                /\ ledger'[k].slot <= tracked'[o].slot
    BY DEF StampCoversContent
  <2>1. CASE o = i.o
    <3>1. tracked'[o] = [order |-> i.order, slot |-> i.slot]
      BY <1>2, <2>1, TrackedAfter
    <3>2. Written(o, i.order, i.slot)
      BY <2>1 DEF ItemOK
    <3>3. tracked'[o].order = i.order /\ tracked'[o].slot = i.slot
      BY <3>1
    <3> QED BY <3>2, <3>3 DEF Written
  <2>2. CASE o # i.o
    <3>1. tracked'[o] = tracked[o]
      BY <1>2, <2>2, TrackedAfter
    <3> QED BY <3>1 DEF IInv, StampCoversContent
  <2> QED BY <2>1, <2>2
<1> QED BY <1>1, <1>2

LEMMA InsertKeepsBook ==
  ASSUME IInv, NEW i, ItemOK(i), i.op = "insert", InsertOrder(i), UNCHANGED <<ledger, hand>>
  PROVE  BookPart'
<1> DEFINE l == ListOf(i)
<1>1. i.o \in Orders /\ i.order \in Versions /\ i.order # None
  BY NoneAssumption DEF NoneAssumption, ItemOK
<1>2. l \in Lists
  BY <1>1, NodeTypeIsList DEF ListOf
<1>3. /\ lists' \in Shelves /\ lists \in Shelves
      /\ \A m \in Lists, x \in Orders : lists'[m][x] =
           IF m = l /\ x = i.o /\ lists[m][x] = None THEN i.order ELSE lists[m][x]
  <2>1. lists \in Shelves /\ lists' = Inserted(lists, l, i.o, i.order)
    BY DEF IInv, BookInv, Shelves, InsertOrder
  <2> HIDE DEF l
  <2> QED BY <1>1, <1>2, <2>1, InsertedInto
<1>4. /\ tracked' \in [Orders -> Entries \cup {None}] /\ tracked'[i.o] # None
      /\ \A o \in Orders : o # i.o => tracked'[o] = tracked[o]
  <2>1. CASE Track(i)
    BY <2>1, TrackedAfter
  <2>2. CASE UNCHANGED tracked /\ tracked[i.o] # None
    BY <2>2 DEF IInv, BookInv
  <2> QED BY <2>1, <2>2 DEF InsertOrder
<1>5. StampCoversContent'
  <2>1. Track(i) \/ UNCHANGED tracked
    BY DEF InsertOrder
  <2> QED BY <2>1, StampAfter
<1>6. lists'[l][i.o] # None
  BY <1>1, <1>2, <1>3
<1>7. TrackedIsListed'
  BY <1>1, <1>2, <1>3, <1>4, <1>6 DEF TrackedIsListed, IInv, Placement
<1>8. StaticInPlace'
  <2> SUFFICES ASSUME NEW o \in Orders, Static(o)
               PROVE  Homes(o)' = IF tracked'[o] = None THEN {} ELSE {Home(o)}
    BY DEF StaticInPlace, Static, Home, Homes
  <2>1. Homes(o) = IF tracked[o] = None THEN {} ELSE {Home(o)}
    BY DEF IInv, Placement, StaticInPlace
  <2>2. CASE o = i.o
    <3>1. l = Home(o)
      BY <2>2, StaticHome DEF ListOf
    <3>2. \A m \in Lists : lists'[m][o] # None <=> m = Home(o)
      <4> HIDE DEF l
      <4> QED BY <1>1, <1>2, <1>3, <1>6, <2>1, <2>2, <3>1 DEF Homes
    <3>3. Homes(o)' = {Home(o)}
      BY <1>2, <3>1, <3>2 DEF Homes
    <3> QED BY <1>4, <2>2, <3>3
  <2>3. CASE o # i.o
    <3>1. Homes(o)' = Homes(o)
      BY <1>3, <2>3 DEF Homes
    <3> QED BY <1>4, <2>1, <2>3, <3>1
  <2> QED BY <2>2, <2>3
<1>9. maxSlot' \in 0..MaxSlot /\ known' \subseteq Users
  BY <1>1 DEF IInv, BookInv, InsertOrder, Users
<1> QED BY <1>3, <1>4, <1>5, <1>7, <1>8, <1>9 DEF BookPart, Shelves, Placement

LEMMA MoveRestingKeepsBook ==
  ASSUME IInv, NEW slot \in 0..MaxSlot, MoveResting(slot), UNCHANGED <<ledger, hand, tracked, known>>
  PROVE  BookPart'
<1> DEFINE taking == lists["takingLimit"]
           moved == AtRest(slot)
<1>1. /\ {"takingLimit", "restingLimit"} \subseteq Lists
      /\ lists \in Shelves
  BY DEF Lists, IInv, BookInv, Shelves
<1>2. /\ lists' = [lists EXCEPT
           !["takingLimit"] = [o \in Orders |-> IF o \in moved THEN None ELSE @[o]],
           !["restingLimit"] = [o \in Orders |-> IF o \in moved /\ @[o] = None
                                                 THEN taking[o] ELSE @[o]]]
      /\ maxSlot' = slot
  BY DEF MoveResting
<1>3. \A o \in moved : o \in Orders /\ taking[o] # None
  BY DEF AtRest
<1> HIDE DEF moved
<1>4. /\ lists' \in Shelves
      /\ \A m \in Lists, x \in Orders : lists'[m][x] =
           IF m = "takingLimit" /\ x \in moved THEN None
           ELSE IF m = "restingLimit" /\ x \in moved /\ lists[m][x] = None THEN taking[x]
           ELSE lists[m][x]
  BY <1>1, <1>2 DEF Shelves
<1>5. TrackedIsListed'
  <2> SUFFICES ASSUME NEW o \in Orders, tracked'[o] # None, ~InHand(o)
               PROVE  \E m \in Lists : lists'[m][o] # None
    BY DEF TrackedIsListed, InHand
  <2>1. PICK m \in Lists : lists[m][o] # None
    BY DEF IInv, Placement, TrackedIsListed, InHand
  <2>2. CASE m = "takingLimit" /\ o \in moved
    BY <1>1, <1>3, <1>4, <2>2
  <2>3. CASE ~(m = "takingLimit" /\ o \in moved)
    BY <1>3, <1>4, <2>1, <2>3
  <2> QED BY <2>2, <2>3
<1>6. StaticInPlace'
  <2> SUFFICES ASSUME NEW o \in Orders, Static(o) PROVE Homes(o)' = Homes(o)
    BY DEF StaticInPlace, Static, Home, Homes, IInv, Placement
  <2>1. Homes(o) \subseteq {Home(o)} /\ Home(o) # "takingLimit"
    BY StaticHome DEF IInv, Placement, StaticInPlace
  <2>2. taking[o] = None
    BY <1>1, <2>1 DEF Homes
  <2>3. \A m \in Lists : lists'[m][o] = lists[m][o]
    BY <1>3, <1>4, <2>2
  <2> QED BY <2>3 DEF Homes
<1>7. StampCoversContent'
  BY DEF IInv, StampCoversContent
<1> QED BY <1>2, <1>4, <1>5, <1>6, <1>7 DEF BookPart, Shelves, Placement, IInv, BookInv

LEMMA UpdateKeepsBook ==
  ASSUME IInv, NEW i, ItemOK(i), i.op = "update", UpdateOrder(i), UNCHANGED <<ledger, hand>>
  PROVE  BookPart'
<1> DEFINE l == ListOf(i)
<1>1. i.o \in Orders /\ i.order \in Versions /\ i.order # None
  BY NoneAssumption DEF NoneAssumption, ItemOK
<1>2. l \in Lists
  BY <1>1, NodeTypeIsList DEF ListOf
<1>3. /\ lists' \in Shelves /\ lists \in Shelves
      /\ \A m \in Lists, x \in Orders : lists'[m][x] # None <=> lists[m][x] # None
  <2>1. lists \in Shelves /\ (lists' = lists \/ lists' = Updated(lists, l, i.o, i.order))
    BY DEF IInv, BookInv, Shelves, UpdateOrder
  <2> HIDE DEF l
  <2> QED BY <1>1, <1>2, <2>1, UpdatedIn
<1>4. /\ tracked' \in [Orders -> Entries \cup {None}]
      /\ \A o \in Orders : tracked'[o] # None <=> tracked[o] # None
  <2>1. CASE Track(i) /\ tracked[i.o] # None
    BY <1>1, <2>1, TrackedAfter
  <2>2. CASE UNCHANGED tracked
    BY <2>2 DEF IInv, BookInv
  <2> QED BY <2>1, <2>2 DEF UpdateOrder, Updates
<1>5. StampCoversContent'
  <2>1. Track(i) \/ UNCHANGED tracked
    BY DEF UpdateOrder
  <2> QED BY <2>1, StampAfter
<1>6. \A o \in Orders : Homes(o)' = Homes(o)
  BY <1>3 DEF Homes
<1>7. TrackedIsListed'
  BY <1>3, <1>4 DEF TrackedIsListed, IInv, Placement
<1>8. StaticInPlace'
  <2> SUFFICES ASSUME NEW o \in Orders, Static(o)
               PROVE  Homes(o)' = IF tracked'[o] = None THEN {} ELSE {Home(o)}
    BY DEF StaticInPlace, Static, Home, Homes
  <2> QED BY <1>4, <1>6 DEF IInv, Placement, StaticInPlace
<1> QED BY <1>3, <1>4, <1>5, <1>7, <1>8 DEF BookPart, Shelves, Placement, IInv, BookInv,
       UpdateOrder

LEMMA TriggerKeepsBook ==
  ASSUME IInv, NEW i, ItemOK(i), i.op = "trigger", TriggerOrder(i), UNCHANGED <<ledger, hand>>
  PROVE  BookPart'
<1> DEFINE l == ListOf(i)
           from == IF Kind[i.o].trigger = "above" /\ ~IsTriggered(i.order)
                   THEN "triggerAbove" ELSE "triggerBelow"
           between == Removed(lists, from, i.o)
<1>1. i.o \in Orders /\ i.order \in Versions /\ i.order # None /\ MustBeTriggered(i.o)
  BY NoneAssumption DEF NoneAssumption, ItemOK
<1>2. l \in Lists /\ from \in Lists
  BY <1>1, NodeTypeIsList DEF ListOf, Lists
<1>3. /\ lists' \in Shelves
      /\ lists'[l][i.o] # None
      /\ \A m \in Lists, x \in Orders : x # i.o => lists'[m][x] = lists[m][x]
  <2>1. lists \in Shelves /\ lists' = Inserted(between, l, i.o, i.order)
    BY DEF IInv, BookInv, Shelves, TriggerOrder
  <2> HIDE DEF l, from
  <2>2. between \in Shelves
        /\ \A m \in Lists, x \in Orders : x # i.o => between[m][x] = lists[m][x]
    BY <1>1, <1>2, <2>1, InsertedInto, RemovedFrom
  <2> HIDE DEF between
  <2>3. /\ lists' \in Shelves
        /\ \A m \in Lists, x \in Orders : lists'[m][x] =
             IF m = l /\ x = i.o /\ between[m][x] = None THEN i.order ELSE between[m][x]
    BY <1>1, <1>2, <2>1, <2>2 DEF Inserted, Shelves
  <2> QED BY <1>1, <1>2, <2>2, <2>3
<1>4. /\ tracked' \in [Orders -> Entries \cup {None}]
      /\ \A o \in Orders : o # i.o => tracked'[o] = tracked[o]
  <2>1. CASE Track(i)
    BY <2>1, TrackedAfter
  <2>2. CASE UNCHANGED tracked
    BY <2>2 DEF IInv, BookInv
  <2> QED BY <2>1, <2>2 DEF TriggerOrder
<1>5. StampCoversContent'
  <2>1. Track(i) \/ UNCHANGED tracked
    BY DEF TriggerOrder
  <2> QED BY <2>1, StampAfter
<1>6. TrackedIsListed'
  <2> SUFFICES ASSUME NEW o \in Orders, tracked'[o] # None, ~InHand(o)
               PROVE  \E m \in Lists : lists'[m][o] # None
    BY DEF TrackedIsListed, InHand
  <2>1. CASE o = i.o
    BY <1>2, <1>3, <2>1
  <2>2. CASE o # i.o
    BY <1>3, <1>4, <2>2 DEF TrackedIsListed, InHand, IInv, Placement
  <2> QED BY <2>1, <2>2
<1>7. StaticInPlace'
  <2> SUFFICES ASSUME NEW o \in Orders, Static(o)
               PROVE  Homes(o)' = IF tracked'[o] = None THEN {} ELSE {Home(o)}
    BY DEF StaticInPlace, Static, Home, Homes
  <2>1. o # i.o
    BY <1>1 DEF Static, MustBeTriggered
  <2>2. Homes(o)' = Homes(o)
    BY <1>3, <2>1 DEF Homes
  <2> QED BY <1>4, <2>1, <2>2 DEF IInv, Placement, StaticInPlace
<1>8. maxSlot' \in 0..MaxSlot /\ known' \subseteq Users
  BY DEF IInv, BookInv, TriggerOrder
<1> QED BY <1>3, <1>4, <1>5, <1>6, <1>7, <1>8 DEF BookPart, Shelves, Placement

LEMMA DeleteKeepsBook ==
  ASSUME IInv, NEW i, ItemOK(i), i.op = "delete", DeleteOrder(i), UNCHANGED <<ledger, hand>>
  PROVE  BookPart'
<1> DEFINE l == ListOf(i)
<1>1. i.o \in Orders /\ i.order \in Versions
  BY DEF ItemOK
<1>2. l \in Lists
  BY <1>1, NodeTypeIsList DEF ListOf
<1>3. /\ lists' \in Shelves /\ lists \in Shelves
      /\ \A m \in Lists, x \in Orders :
           lists'[m][x] = IF m = l /\ x = i.o THEN None ELSE lists[m][x]
  <2>1. lists \in Shelves /\ lists' = Removed(lists, l, i.o)
    BY DEF IInv, BookInv, Shelves, DeleteOrder
  <2> HIDE DEF l
  <2> QED BY <1>1, <1>2, <2>1, RemovedFrom
<1>4. /\ tracked' \in [Orders -> Entries \cup {None}]
      /\ \A o \in Orders : tracked'[o] = IF o = i.o THEN None ELSE tracked[o]
  BY <1>1 DEF IInv, BookInv, DeleteOrder
<1>5. StampCoversContent'
  BY <1>4 DEF IInv, StampCoversContent
<1>6. \A o \in Orders : o # i.o => Homes(o)' = Homes(o)
  BY <1>3 DEF Homes
<1>7. TrackedIsListed'
  <2> HIDE DEF l
  <2> QED BY <1>3, <1>4 DEF TrackedIsListed, IInv, Placement
<1>8. StaticInPlace'
  <2> SUFFICES ASSUME NEW o \in Orders, Static(o)
               PROVE  Homes(o)' = IF tracked'[o] = None THEN {} ELSE {Home(o)}
    BY DEF StaticInPlace, Static, Home, Homes
  <2>1. CASE o = i.o
    <3>1. l = Home(o) /\ Homes(o) \subseteq {Home(o)}
      BY <2>1, StaticHome DEF ListOf, IInv, Placement, StaticInPlace
    <3>2. \A m \in Lists : lists'[m][o] = None
      <4> HIDE DEF l
      <4> QED BY <1>3, <2>1, <3>1 DEF Homes
    <3> QED BY <1>4, <2>1, <3>2 DEF Homes
  <2>2. CASE o # i.o
    BY <1>4, <1>6, <2>2 DEF IInv, Placement, StaticInPlace
  <2> QED BY <2>1, <2>2
<1>9. maxSlot' \in 0..MaxSlot /\ known' \subseteq Users
  BY DEF IInv, BookInv, DeleteOrder
<1> QED BY <1>3, <1>4, <1>5, <1>7, <1>8, <1>9 DEF BookPart, Shelves, Placement

LEMMA RestKeepsBook ==
  ASSUME IInv, NEW slot \in 0..MaxSlot, UpdateRestingLimitOrders(slot),
         UNCHANGED <<ledger, hand, tracked, known>>
  PROVE  BookPart'
<1>1. CASE MoveResting(slot)
  BY <1>1, MoveRestingKeepsBook
<1>2. CASE UNCHANGED <<lists, maxSlot>>
  BY <1>2 DEF IInv, BookInv, BookPart, Placement, TrackedIsListed, StaticInPlace, Homes,
     StampCoversContent
<1> QED BY <1>1, <1>2 DEF UpdateRestingLimitOrders

LEMMA ApplyKeepsIInv ==
  ASSUME IInv, NEW p \in Processes, Apply(p)
  PROVE  IInv'
<1>1. PICK i \in todo[p] :
        /\ \/ i.op = "insert" /\ InsertOrder(i)
           \/ i.op = "rest" /\ UpdateRestingLimitOrders(i.slot) /\ UNCHANGED <<tracked, known>>
           \/ i.op = "update" /\ UpdateOrder(i)
           \/ i.op = "trigger" /\ TriggerOrder(i)
           \/ i.op = "delete" /\ DeleteOrder(i)
        /\ todo' = [todo EXCEPT ![p] = @ \ {i}]
        /\ writer' = IF todo[p] = {i} THEN None ELSE p
  BY DEF Apply
<1>2. UNCHANGED <<ledger, accounts, events, start, reading, asked, due, hand>>
  BY DEF Apply, chainVars, moveVars
<1>3. ItemOK(i) /\ i.slot \in 0..MaxSlot
  BY DEF IInv, TodoInv, ItemOK, Items
<1>4. BookPart'
  BY <1>1, <1>2, <1>3, InsertKeepsBook, RestKeepsBook, UpdateKeepsBook, TriggerKeepsBook,
     DeleteKeepsBook
<1>5. ChainInv'
  BY <1>2 DEF IInv, ChainInv, EventOK
<1>6. TodoInv'
  <2>1. \A j : ItemOK(j) => ItemOK(j)'
    BY <1>2 DEF ItemOK, Written
  <2> QED BY <1>1, <1>2, <2>1 DEF IInv, TodoInv
<1>7. QuietBefore' /\ writer' \in Processes \cup {None}
  BY <1>1, <1>2 DEF IInv, BookInv, QuietBefore, subscribed
<1>8. FinderInv'
  BY <1>2 DEF IInv, FinderInv, Static
<1> QED BY <1>4, <1>5, <1>6, <1>7, <1>8 DEF IInv, BookInv, BookPart

\* A step of a finder touches the lists only.
FinderStep ==
  UNCHANGED <<ledger, accounts, events, start, tracked, known, writer, reading, todo>>

LEMMA FinderStepKeeps ==
  ASSUME IInv, FinderStep, maxSlot' \in 0..MaxSlot, lists' \in Shelves, Placement', FinderInv'
  PROVE  IInv'
<1>1. \A i : ItemOK(i) => ItemOK(i)'
  BY DEF FinderStep, ItemOK, Written
<1>2. ChainInv' /\ TodoInv'
  BY <1>1 DEF FinderStep, IInv, ChainInv, EventOK, TodoInv
<1>3. BookInv' /\ StampCoversContent'
  BY DEF FinderStep, IInv, BookInv, QuietBefore, subscribed, StampCoversContent, Shelves
<1> QED
  BY <1>2, <1>3 DEF IInv

LEMMA FindKeepsIInv ==
  ASSUME IInv, NEW f \in Finders, NEW slot \in FindSlots, Find(f, slot)
  PROVE  IInv'
<1>1. /\ FinderStep /\ UNCHANGED <<lists, maxSlot, due, hand>>
      /\ asked' = [asked EXCEPT ![f] = slot]
  BY DEF Find, FinderStep, chainVars, bookVars
<1>2. Placement'
  BY <1>1 DEF FinderStep, IInv, Placement, TrackedIsListed, StaticInPlace, Homes
<1>3. FinderInv'
  BY <1>1 DEF FinderStep, IInv, FinderInv, Static
<1> QED
  BY <1>1, <1>2, <1>3, FinderStepKeeps DEF IInv, BookInv, Shelves

LEMMA CollectKeepsIInv ==
  ASSUME IInv, NEW f \in Finders, Collect(f)
  PROVE  IInv'
<1> DEFINE met == {[o |-> o, order |-> lists["takingLimit"][o]] : o \in AtRest(asked[f])}
<1>1. /\ FinderStep /\ UNCHANGED <<lists, hand>>
      /\ asked[f] # None /\ maxSlot' = asked[f]
      /\ asked' = [asked EXCEPT ![f] = None]
  BY DEF Collect, FinderStep, chainVars
<1>2. PICK nodes \in SUBSET met : due' = [due EXCEPT ![f] = nodes]
  BY DEF Collect
<1>3. Placement'
  BY <1>1 DEF FinderStep, IInv, Placement, TrackedIsListed, StaticInPlace, Homes
<1>4. \A d \in met : d \in Moves /\ ~Static(d.o)
  <2> SUFFICES ASSUME NEW o \in AtRest(asked[f])
               PROVE  /\ [o |-> o, order |-> lists["takingLimit"][o]] \in Moves
                      /\ ~Static(o)
    OBVIOUS
  <2>1. o \in Orders /\ "takingLimit" \in Lists /\ lists["takingLimit"][o] # None
    BY DEF AtRest, Lists
  <2>2. lists["takingLimit"][o] \in Versions
    BY <2>1 DEF IInv, BookInv
  <2>3. ASSUME Static(o) PROVE FALSE
    <3>1. "takingLimit" \in Homes(o)
      BY <2>1 DEF Homes
    <3>2. Home(o) = "takingLimit"
      BY <2>1, <2>3, <3>1 DEF IInv, Placement, StaticInPlace
    <3> QED
      BY <2>1, <2>3, <3>2, StaticHome
  <2> QED
    BY <2>1, <2>2, <2>3 DEF Moves
<1> HIDE DEF met
<1>5. FinderInv'
  BY <1>1, <1>2, <1>4 DEF FinderStep, IInv, FinderInv, Static
<1>6. maxSlot' \in 0..MaxSlot
  BY <1>1, DLOBAssumption DEF DLOBAssumption, IInv, FinderInv
<1> QED
  BY <1>1, <1>3, <1>5, <1>6, FinderStepKeeps DEF IInv, BookInv, Shelves

LEMMA RemoveDueKeepsIInv ==
  ASSUME IInv, NEW f \in Finders, RemoveDue(f)
  PROVE  IInv'
<1>1. /\ FinderStep /\ UNCHANGED <<maxSlot, asked>> /\ hand[f] = None
  BY DEF RemoveDue, FinderStep, chainVars
<1>2. PICK d \in due[f] : /\ lists' = Removed(lists, "takingLimit", d.o)
                          /\ hand' = [hand EXCEPT ![f] = d]
                          /\ due' = [due EXCEPT ![f] = @ \ {d}]
  BY DEF RemoveDue
<1>3. /\ d \in Moves /\ d.o \in Orders /\ ~Static(d.o) /\ d # None
      /\ hand \in [Finders -> Moves \cup {None}] /\ due \in [Finders -> SUBSET Moves]
  BY NoneAssumption DEF NoneAssumption, IInv, FinderInv, Moves
<1>4. /\ lists' \in Shelves
      /\ \A m \in Lists, x \in Orders :
           lists'[m][x] = IF m = "takingLimit" /\ x = d.o THEN None ELSE lists[m][x]
  BY <1>2, <1>3 DEF Removed, IInv, BookInv, Shelves
<1>5. TrackedIsListed'
  <2> SUFFICES ASSUME NEW o \in Orders, tracked[o] # None
               PROVE  (\E l \in Lists : lists'[l][o] # None)
                      \/ \E g \in Finders : hand'[g] # None /\ hand'[g].o = o
    BY <1>1 DEF TrackedIsListed, FinderStep
  <2>1. CASE o = d.o
    BY <1>2, <1>3, <2>1
  <2>2. CASE o # d.o
    <3>1. \A l \in Lists : lists'[l][o] = lists[l][o]
      BY <1>4, <2>2
    <3>2. \A g \in Finders : hand[g] # None => hand'[g] = hand[g]
      BY <1>1, <1>2, <1>3
    <3> QED
      BY <3>1, <3>2 DEF IInv, Placement, TrackedIsListed
  <2> QED
    BY <2>1, <2>2
<1>6. StaticInPlace'
  <2> SUFFICES ASSUME NEW o \in Orders, Static(o) PROVE Homes(o)' = Homes(o)
    BY <1>1 DEF StaticInPlace, Static, Home, Homes, IInv, Placement, FinderStep
  <2>1. o # d.o
    BY <1>3
  <2> QED
    BY <1>4, <2>1 DEF Homes
<1>7. FinderInv'
  BY <1>1, <1>2, <1>3 DEF FinderStep, IInv, FinderInv, Static
<1> QED
  BY <1>1, <1>4, <1>5, <1>6, <1>7, FinderStepKeeps DEF Placement, IInv, BookInv

LEMMA InsertDueKeepsIInv ==
  ASSUME IInv, NEW f \in Finders, InsertDue(f)
  PROVE  IInv'
<1> DEFINE o == hand[f].o
           v == hand[f].order
<1>1. /\ FinderStep /\ UNCHANGED <<maxSlot, asked, due>> /\ hand[f] # None
      /\ lists' = Inserted(lists, "restingLimit", o, v)
      /\ hand' = [hand EXCEPT ![f] = None]
  BY DEF InsertDue, FinderStep, chainVars
<1>2. /\ o \in Orders /\ v \in Versions /\ v # None /\ ~Static(o)
      /\ hand \in [Finders -> Moves \cup {None}]
  BY <1>1, NoneAssumption DEF NoneAssumption, IInv, FinderInv, Moves
<1>3. /\ "restingLimit" \in Lists /\ lists' \in Shelves
      /\ \A m \in Lists, x \in Orders :
           lists'[m][x] = IF m = "restingLimit" /\ x = o /\ lists[m][x] = None
                          THEN v ELSE lists[m][x]
  <2>1. lists \in Shelves /\ "restingLimit" \in Lists
    BY DEF IInv, BookInv, Shelves, Lists
  <2> HIDE DEF o, v
  <2> QED
    BY <1>1, <1>2, <2>1, InsertedInto
<1> HIDE DEF o, v
<1>4. TrackedIsListed'
  <2> SUFFICES ASSUME NEW x \in Orders, tracked[x] # None
               PROVE  (\E l \in Lists : lists'[l][x] # None)
                      \/ \E g \in Finders : hand'[g] # None /\ hand'[g].o = x
    BY <1>1 DEF TrackedIsListed, FinderStep
  <2>1. CASE x = o
    BY <1>2, <1>3, <2>1
  <2>2. CASE \E l \in Lists : lists[l][x] # None
    BY <1>2, <1>3, <2>2
  <2>3. CASE \E g \in Finders \ {f} : hand[g] # None /\ hand[g].o = x
    BY <1>1, <1>2, <2>3
  <2> QED
    BY <2>1, <2>2, <2>3 DEF IInv, Placement, TrackedIsListed, o
<1>5. StaticInPlace'
  <2> SUFFICES ASSUME NEW x \in Orders, Static(x) PROVE Homes(x)' = Homes(x)
    BY <1>1 DEF StaticInPlace, Static, Home, Homes, IInv, Placement, FinderStep
  <2>1. x # o
    BY <1>2
  <2> QED
    BY <1>3, <2>1 DEF Homes
<1>6. FinderInv'
  BY <1>1, <1>2 DEF FinderStep, IInv, FinderInv, Static
<1> QED
  BY <1>1, <1>3, <1>4, <1>5, <1>6, FinderStepKeeps DEF Placement, IInv, BookInv

LEMMA MoveKeepsIInv ==
  ASSUME IInv, NEW f \in Finders, Move(f)
  PROVE  IInv'
BY FindKeepsIInv, CollectKeepsIInv, RemoveDueKeepsIInv, InsertDueKeepsIInv DEF Move

LEMMA SubscribeKeepsIInv ==
  ASSUME IInv, NEW slot \in 0..MaxSlot, Subscribe(slot)
  PROVE  IInv'
<1>1. Chain \in [Orders -> Versions \cup {None}]
  BY ChainTyped
<1> DEFINE entry(o) == [order |-> Chain[o], slot |-> slot]
<1>2. /\ start' = [at |-> Len(ledger), slot |-> slot]
      /\ tracked' = [o \in Orders |-> IF Chain[o] = None THEN None ELSE entry(o)]
      /\ lists' = [l \in Lists |-> [o \in Orders |->
                     IF Chain[o] # None /\ GetNodeType(o, Chain[o], slot) = l
                     THEN Chain[o] ELSE None]]
      /\ known' = {Owner[o] : o \in {x \in Orders : Chain[x] # None}}
      /\ accounts' \subseteq accounts /\ events' \subseteq events
      /\ UNCHANGED <<ledger, maxSlot, writer, reading, todo, moveVars>>
  BY DEF Subscribe
<1>3. \A o \in Orders : Chain[o] # None => entry(o) \in Entries /\ entry(o) # None
  <2>1. \A o \in Orders : Chain[o] # None => entry(o) \in Entries
    BY <1>1 DEF Entries
  <2>2. \A e \in Entries : e # None
    BY NoneAssumption DEF NoneAssumption
  <2> HIDE DEF entry
  <2> QED BY <2>1, <2>2
<1>4. \A o \in Orders : Chain[o] # None => Written(o, Chain[o], slot)
  <2> SUFFICES ASSUME NEW o \in Orders, Chain[o] # None PROVE Written(o, Chain[o], slot)
    OBVIOUS
  <2>1. ledger # <<>>
    BY DEF Chain
  <2>2. ledger \in Seq(Writes)
    BY DEF IInv, ChainInv
  <2>3. Len(ledger) \in DOMAIN ledger
    BY <2>1, <2>2
  <2>4. ledger[Len(ledger)].chain = Chain /\ ledger[Len(ledger)].slot = LastSlot
    BY <2>1 DEF Chain, LastSlot
  <2>5. LastSlot <= slot
    <3>1. LastSlot \in Nat /\ slot \in Nat
      BY <2>3, <2>4, WritesTyped, DLOBAssumption DEF DLOBAssumption
    <3> QED BY <3>1 DEF Subscribe
  <2> QED BY <2>3, <2>4, <2>5 DEF Written
<1>5. ChainInv'
  BY <1>2 DEF IInv, ChainInv, EventOK
<1>6. TodoInv'
  <2>1. \A i : ItemOK(i) => ItemOK(i)'
    BY <1>2 DEF ItemOK, Written
  <2> QED BY <1>2, <2>1 DEF IInv, TodoInv
<1>7. \A o \in Orders : tracked'[o] # None <=> Chain[o] # None
  BY <1>2, <1>3
<1>12. start' \in Starts /\ subscribed'
  <2>1. Len(ledger) \in Nat
    BY DEF IInv, ChainInv
  <2>2. start' \in Starts
    BY <1>2, <2>1 DEF Starts
  <2> QED BY <2>2, NoneAssumption DEF NoneAssumption, subscribed
<1>13. FinderInv'
  BY <1>2, <1>12 DEF IInv, FinderInv, Static, moveVars
<1>8. BookInv'
  <2>1. tracked' \in [Orders -> Entries \cup {None}]
    BY <1>2, <1>3
  <2>2. lists' \in [Lists -> [Orders -> Versions \cup {None}]]
    BY <1>1, <1>2
  <2>3. known' \subseteq Users
    BY <1>2 DEF Users
  <2> QED BY <1>2, <1>12, <2>1, <2>2, <2>3 DEF IInv, BookInv, QuietBefore
<1>9. TrackedIsListed'
  BY <1>1, <1>2, <1>7, NodeTypeIsList DEF TrackedIsListed
<1>10. StaticInPlace'
  <2> SUFFICES ASSUME NEW o \in Orders, Static(o)
               PROVE  Homes(o)' = IF tracked'[o] = None THEN {} ELSE {Home(o)}
    BY DEF StaticInPlace, Static, Home, Homes
  <2>1. GetNodeType(o, Chain[o], slot) = Home(o) /\ Home(o) \in Lists
    BY StaticHome
  <2>2. \A l \in Lists : lists'[l][o] # None <=> Chain[o] # None /\ l = Home(o)
    BY <1>2, <2>1
  <2> QED BY <1>7, <2>1, <2>2 DEF Homes
<1>11. StampCoversContent'
  <2> SUFFICES ASSUME NEW o \in Orders, tracked'[o] # None
               PROVE  \E k \in DOMAIN ledger' : /\ ledger'[k].chain[o] = tracked'[o].order
                                                /\ ledger'[k].slot <= tracked'[o].slot
    BY DEF StampCoversContent
  <2>1. tracked'[o].order = Chain[o] /\ tracked'[o].slot = slot
    BY <1>2, <1>7
  <2>2. Written(o, Chain[o], slot)
    BY <1>4, <1>7
  <2> QED BY <1>2, <2>1, <2>2 DEF Written
<1> QED BY <1>5, <1>6, <1>8, <1>9, <1>10, <1>11, <1>13 DEF IInv, Placement

-----------------------------------------------------------------------------
(* The theorems.                                                           *)

LEMMA InitIInv == Init => IInv
<1> SUFFICES ASSUME Init PROVE IInv
  OBVIOUS
<1>1. ChainInv
  BY DEF Init, ChainInv
<1>2. TodoInv
  BY DEF Init, TodoInv
<1>3. BookInv
  BY DLOBAssumption DEF DLOBAssumption, Init, BookInv, QuietBefore, subscribed
<1>4. Placement /\ StampCoversContent
  BY DEF Init, Placement, TrackedIsListed, StaticInPlace, Homes, StampCoversContent
<1>5. FinderInv
  BY DEF Init, FinderInv
<1> QED BY <1>1, <1>2, <1>3, <1>4, <1>5 DEF IInv

LEMMA NextKeepsIInv ==
  ASSUME IInv, [Next]_vars
  PROVE  IInv'
<1>1. CASE ChainStep
  BY <1>1, ChainStepKeepsIInv
<1>2. CASE \E slot \in 0..MaxSlot : Subscribe(slot)
  BY <1>2, SubscribeKeepsIInv
<1>3. CASE Receive
  <2>1. CASE \E h \in Handlers, n \in 1..BatchMax : \E batch \in [1..n -> events] :
                HandleOrderEvents(h, batch)
    BY <2>1, HandleOrderEventsKeepsIInv
  <2>2. CASE \E message \in accounts : ReadTracked(message[1], message[2])
    BY <2>2, ReadTrackedKeepsIInv
  <2> QED BY <1>3, <2>1, <2>2 DEF Receive
<1>4. CASE ClassifySnapshot
  BY <1>4, ClassifySnapshotKeepsIInv
<1>5. CASE \E p \in Processes : Apply(p)
  BY <1>5, ApplyKeepsIInv
<1>6. CASE \E f \in Finders : Move(f)
  BY <1>6, MoveKeepsIInv
<1>7. CASE UNCHANGED vars
  <2>1. \A i : ItemOK(i) => ItemOK(i)'
    BY <1>7 DEF vars, chainVars, ItemOK, Written
  <2>2. ChainInv' /\ TodoInv'
    BY <1>7, <2>1 DEF vars, chainVars, IInv, ChainInv, EventOK, TodoInv
  <2>3. BookInv' /\ Placement' /\ StampCoversContent' /\ FinderInv'
    BY <1>7 DEF moveVars, FinderInv, Static, vars, chainVars, bookVars, IInv, BookInv, QuietBefore, subscribed, Placement,
       TrackedIsListed, StaticInPlace, Homes, StampCoversContent
  <2> QED BY <2>2, <2>3 DEF IInv
<1> QED BY <1>1, <1>2, <1>3, <1>4, <1>5, <1>6, <1>7 DEF Next

LEMMA IInvHolds == Spec => []IInv
BY InitIInv, NextKeepsIInv, PTL DEF Spec

\* What the maps hold are orders and slots the chain has written, and the
\* keys of UserOrderMap are user accounts.
THEOREM TypeCorrect == Spec => []TypeOK
<1>1. IInv => TypeOK
  <2> SUFFICES ASSUME IInv PROVE TypeOK
    OBVIOUS
  <2>1. \A p \in Processes : \A i \in todo[p] : i.op \in {Ops[n] : n \in DOMAIN Ops}
    BY OpsAreNames DEF IInv, TodoInv, Items
  <2>2. \A o \in Orders : tracked[o] # None => /\ tracked[o].order \in Versions
                                               /\ tracked[o].slot \in 0..MaxSlot
    BY DEF IInv, BookInv, Entries
  <2>3. \A f \in Finders : /\ asked[f] \in FindSlots \cup {None}
                          /\ due[f] \subseteq Moves /\ hand[f] \in Moves \cup {None}
    BY DEF IInv, FinderInv
  <2> QED BY <2>1, <2>2, <2>3 DEF IInv, BookInv, FinderInv, TypeOK
<1> QED BY <1>1, IInvHolds, PTL

\* A tracked order always has a node in some list or in the hand of a finder,
\* however many finders move what the others move.
THEOREM TrackedOrdersAreListed == Spec => []TrackedIsListed
<1>1. IInv => TrackedIsListed
  BY DEF IInv, Placement
<1> QED BY <1>1, IInvHolds, PTL

\* An order that never moves is in its list exactly while it is tracked.
THEOREM StaticOrdersInPlace == Spec => []StaticInPlace
<1>1. IInv => StaticInPlace
  BY DEF IInv, Placement
<1> QED BY <1>1, IInvHolds, PTL

\* No entry is stamped earlier than the version it holds was written.
THEOREM StampsCoverContent == Spec => []StampCoversContent
<1>1. IInv => StampCoversContent
  BY DEF IInv
<1> QED BY <1>1, IInvHolds, PTL

\* Classification may be stale, application is guarded by the stamp.
LEMMA StepKeepsStamps ==
  ASSUME IInv, [Next]_vars, NEW o \in Orders, tracked[o] # None, tracked'[o] # None
  PROVE  tracked[o].slot <= tracked'[o].slot
<1>1. tracked[o].slot \in Nat
  BY DLOBAssumption DEF DLOBAssumption, IInv, BookInv, Entries
<1>2. CASE UNCHANGED tracked
  BY <1>1, <1>2
<1>3. CASE \E slot \in 0..MaxSlot : Subscribe(slot)
  <2>1. tracked[o] = None
    BY <1>3 DEF Subscribe, IInv, BookInv, QuietBefore, subscribed
  <2> QED BY <2>1
<1>4. CASE \E p \in Processes : Apply(p)
  <2>0. PICK p \in Processes : Apply(p)
    BY <1>4
  <2>1. PICK i \in todo[p] :
          \/ i.op = "insert" /\ InsertOrder(i)
          \/ i.op = "rest" /\ UNCHANGED <<tracked, known>>
          \/ i.op = "update" /\ UpdateOrder(i)
          \/ i.op = "trigger" /\ TriggerOrder(i)
          \/ i.op = "delete" /\ DeleteOrder(i)
    BY <2>0 DEF Apply
  <2>2. ItemOK(i)
    BY DEF IInv, TodoInv
  <2>3. CASE Track(i) /\ Updates(i) /\ i.op \in {"insert", "update", "trigger"}
    <3>1. tracked'[i.o] = [order |-> i.order, slot |-> i.slot]
          /\ (o # i.o => tracked'[o] = tracked[o])
      BY <2>2, <2>3, TrackedAfter
    <3>2. CASE o = i.o
      <4>1. tracked'[o].slot = i.slot /\ i.slot \in Nat
        BY <2>2, <3>1, <3>2, DLOBAssumption DEF DLOBAssumption, ItemOK, Items
      <4> QED BY <1>1, <2>3, <3>2, <4>1 DEF Updates
    <3> QED BY <1>1, <3>1, <3>2
  <2>4. CASE Track(i) /\ tracked[i.o] = None /\ i.op = "insert"
    <3>1. o # i.o
      BY <2>4
    <3>2. tracked'[o] = tracked[o]
      BY <2>2, <2>4, <3>1, TrackedAfter
    <3> QED BY <1>1, <3>2
  <2>5. CASE i.op = "delete" /\ DeleteOrder(i)
    <3>1. tracked' = [tracked EXCEPT ![i.o] = None]
      BY <2>5 DEF DeleteOrder
    <3>2. tracked'[o] = tracked[o]
      BY <3>1 DEF IInv, BookInv
    <3> QED BY <1>1, <3>2
  <2> QED BY <1>2, <2>1, <2>3, <2>4, <2>5 DEF InsertOrder, UpdateOrder, TriggerOrder
<1>5. ChainStep => UNCHANGED tracked
  BY DEF ChainStep, Place, Trigger, Cancel, Fill, Write, bookVars
<1>6. Receive \/ ClassifySnapshot \/ (\E f \in Finders : Move(f)) => UNCHANGED tracked
  BY DEF Receive, HandleOrderEvents, ReadTracked, ClassifySnapshot, bookVars, Move, Find,
     Collect, RemoveDue, InsertDue
<1>7. UNCHANGED vars => UNCHANGED tracked
  BY DEF vars, bookVars
<1> QED BY <1>2, <1>3, <1>4, <1>5, <1>6, <1>7 DEF Next

\* While an order stays tracked its stamp does not go back.
THEOREM SlotsNeverRegress == Spec => SlotNeverRegresses
<1>1. IInv /\ [Next]_vars =>
        [\A o \in Orders : tracked[o] # None /\ tracked'[o] # None
                             => tracked[o].slot <= tracked'[o].slot]_vars
  BY StepKeepsStamps
<1> QED BY <1>1, IInvHolds, PTL DEF Spec, SlotNeverRegresses
=============================================================================
