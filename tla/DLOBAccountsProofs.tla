------------------------- MODULE DLOBAccountsProofs -------------------------
(***************************************************************************)
(* Proofs about DLOB when account snapshots are its only source, for any   *)
(* chain and any number of orders: when snapshots overtake each other or   *)
(* get lost, an order that stays tracked never loses a fill; when they     *)
(* come in order, to a book that no finder changes, an order is in one     *)
(* list exactly while it is tracked.                                       *)
(*                                                                         *)
(* A snapshot's item carries the version of a write, and that write's slot *)
(* exactly; an entry carries the version of a write of its stamp's slot or *)
(* before.  An update needs a later slot than the stamp, so it is about a  *)
(* later write, although nothing compares positions; and the chain never   *)
(* takes a fill back, since an order is placed once.  An event's item may  *)
(* carry an old version under a new slot: hence the condition.             *)
(***************************************************************************)
EXTENDS DLOBProofs

-----------------------------------------------------------------------------
(* The invariant.                                                          *)

SlotsGrow == \A j, k \in DOMAIN ledger : j <= k => ledger[j].slot <= ledger[k].slot

OpenWasPlaced == \A o \in Orders, k \in DOMAIN ledger : ledger[k].chain[o] # None => Placed(o)

FillsGrow ==
  \A o \in Orders : \A j, k \in DOMAIN ledger :
    j <= k /\ ledger[j].chain[o] # None /\ ledger[k].chain[o] # None
      => ledger[j].chain[o].filled <= ledger[k].chain[o].filled

\* The slot in an order is that of its placement, or of its triggering.
Plain(o) == Kind[o].trigger = "no"

OrderSlots ==
  \A o \in Orders : \A j, k \in DOMAIN ledger :
    ledger[j].chain[o] # None /\ ledger[k].chain[o] # None
      => /\ ledger[k].chain[o].slot <= ledger[k].slot
         /\ Plain(o) => ledger[j].chain[o].slot = ledger[k].chain[o].slot

\* The chain wrote v for o, at slot s.
WrittenAt(o, v, s) ==
  \E k \in DOMAIN ledger : ledger[k].chain[o] = v /\ ledger[k].slot = s

SnapshotsOnly ==
  \A p \in Processes : \A i \in todo[p] :
    i.op \in {"rest", "delete"} \/ (i.op \in {"insert", "update"} /\ WrittenAt(i.o, i.order, i.slot))

ForwardInv == SlotsGrow /\ OpenWasPlaced /\ FillsGrow /\ OrderSlots /\ SnapshotsOnly

-----------------------------------------------------------------------------
(* The chain.                                                              *)

\* What a write does to each order: it is untouched, placed, gone, or carries
\* at least what it carried.
Onward(o, v, slot) ==
  v # None => /\ v.slot <= slot
              /\ \/ /\ Chain[o] # None /\ Chain[o].filled <= v.filled
                    /\ Plain(o) => v.slot = Chain[o].slot
                 \/ ~Placed(o)

LEMMA LastWrite ==
  ASSUME IInv
  PROVE  /\ ledger \in Seq(Writes) /\ Len(ledger) \in Nat /\ DOMAIN ledger = 1..Len(ledger)
         /\ ledger # <<>> => /\ Len(ledger) \in DOMAIN ledger
                             /\ Chain = ledger[Len(ledger)].chain
                             /\ LastSlot = ledger[Len(ledger)].slot
         /\ ledger = <<>> => Chain = [o \in Orders |-> None] /\ LastSlot = 0
BY DEF IInv, ChainInv, Chain, LastSlot

LEMMA WriteGoesOn ==
  ASSUME IInv, ForwardInv, NEW slot \in NextSlots, NEW event \in Events,
         NEW chain \in [Orders -> Versions \cup {None}],
         \A o \in Orders : Onward(o, chain[o], slot),
         \A o \in Orders : chain[o] # None =>
           Placed(o) \/ event = [kind |-> "place", order |-> o],
         NEW touched, Write(slot, chain, event, touched)
  PROVE  ForwardInv'
<1> DEFINE w == [slot |-> slot, chain |-> chain, event |-> event]
           at == Len(ledger) + 1
<1>1. /\ ledger \in Seq(Writes) /\ Len(ledger) \in Nat /\ DOMAIN ledger = 1..Len(ledger)
      /\ ledger # <<>> => /\ Len(ledger) \in DOMAIN ledger
                          /\ Chain = ledger[Len(ledger)].chain
                          /\ LastSlot = ledger[Len(ledger)].slot
  BY LastWrite
<1>2. ledger' = Append(ledger, w) /\ todo' = todo
  BY DEF Write
<1>3. slot \in Nat /\ w \in Writes
  BY DLOBAssumption DEF DLOBAssumption, NextSlots, Slots, Writes
<1>4. w.slot = slot /\ w.chain = chain /\ w.event = event
  OBVIOUS
<1> HIDE DEF w
<1>5. /\ DOMAIN ledger' = 1..at /\ ledger'[at] = w
      /\ \A k \in DOMAIN ledger : k \in DOMAIN ledger' /\ ledger'[k] = ledger[k]
      /\ \A k \in DOMAIN ledger' : k = at \/ k \in DOMAIN ledger
  BY <1>1, <1>2, <1>3
<1>6. \A k \in DOMAIN ledger : k \in Nat /\ k <= Len(ledger) /\ ledger # <<>>
  BY <1>1
<1>7. \A k \in DOMAIN ledger : ledger[k].slot \in Nat
  BY WritesTyped
<1>8. SlotsGrow'
  <2>1. \A k \in DOMAIN ledger : ledger[k].slot <= slot
    <3> SUFFICES ASSUME NEW k \in DOMAIN ledger PROVE ledger[k].slot <= slot
      OBVIOUS
    <3>1. ledger[k].slot <= LastSlot /\ LastSlot \in Nat
      BY <1>1, <1>6, <1>7 DEF ForwardInv, SlotsGrow
    <3>2. LastSlot <= slot
      BY <1>3, <3>1 DEF NextSlots
    <3> QED
      BY <1>3, <1>7, <3>1, <3>2
  <2>2. ASSUME NEW j \in DOMAIN ledger', NEW k \in DOMAIN ledger', j <= k
        PROVE  ledger'[j].slot <= ledger'[k].slot
    <3>1. CASE k = at
      BY <1>3, <1>4, <1>5, <2>1, <3>1
    <3>2. CASE k \in DOMAIN ledger
      <4>1. j \in DOMAIN ledger
        BY <1>1, <1>5, <2>2, <3>2
      <4> QED
        BY <1>5, <2>2, <3>2, <4>1 DEF ForwardInv, SlotsGrow
    <3> QED
      BY <1>5, <3>1, <3>2
  <2> QED
    BY <2>2 DEF SlotsGrow
<1>9. \A o \in Orders : Placed(o) => Placed(o)'
  BY <1>5 DEF Placed
<1>10. OpenWasPlaced'
  <2> SUFFICES ASSUME NEW o \in Orders, NEW k \in DOMAIN ledger', ledger'[k].chain[o] # None
               PROVE  Placed(o)'
    BY DEF OpenWasPlaced
  <2>1. CASE k \in DOMAIN ledger
    BY <1>5, <1>9, <2>1 DEF ForwardInv, OpenWasPlaced
  <2>2. CASE k = at
    <3>1. Placed(o) \/ event = [kind |-> "place", order |-> o]
      BY <1>4, <1>5, <2>2
    <3>2. at \in DOMAIN ledger' /\ ledger'[at].event = event
      BY <1>4, <1>5, <2>2
    <3> QED
      BY <1>9, <3>1, <3>2 DEF Placed
  <2> QED
    BY <1>5, <2>1, <2>2
<1>11. FillsGrow'
  <2> SUFFICES ASSUME NEW o \in Orders, NEW j \in DOMAIN ledger', NEW k \in DOMAIN ledger',
                      j <= k, ledger'[j].chain[o] # None, ledger'[k].chain[o] # None
               PROVE  ledger'[j].chain[o].filled <= ledger'[k].chain[o].filled
    BY DEF FillsGrow
  <2>1. CASE k \in DOMAIN ledger
    <3>1. j \in DOMAIN ledger
      BY <1>1, <1>5, <2>1
    <3> QED
      BY <1>5, <2>1, <3>1 DEF ForwardInv, FillsGrow
  <2>2. CASE j = at /\ k = at
    <3>1. ledger'[at].chain[o].filled \in Nat
      BY <1>4, <1>5, <2>2 DEF Versions
    <3> QED
      BY <2>2, <3>1
  <2>3. CASE j \in DOMAIN ledger /\ k = at
    <3>1. ledger[j].chain[o] # None /\ chain[o] # None
          /\ ledger'[j].chain[o] = ledger[j].chain[o] /\ ledger'[k].chain[o] = chain[o]
      BY <1>4, <1>5, <2>3
    <3>2. Chain[o] # None /\ Chain[o].filled <= chain[o].filled
      BY <2>3, <3>1 DEF Onward, ForwardInv, OpenWasPlaced
    <3>3. ledger[j].chain[o].filled <= Chain[o].filled
      BY <1>1, <1>6, <2>3, <3>1, <3>2 DEF ForwardInv, FillsGrow
    <3>4. ledger[j].chain[o] \in Versions /\ chain[o] \in Versions /\ Chain[o] \in Versions
      BY <2>3, <3>1, <3>2, WritesTyped, ChainTyped
    <3> QED
      BY <3>1, <3>2, <3>3, <3>4 DEF Versions
  <2> QED
    BY <1>5, <2>1, <2>2, <2>3
<1>14. OrderSlots'
  <2>1. \A k \in DOMAIN ledger : ledger'[k].chain = ledger[k].chain /\ ledger'[k].slot = ledger[k].slot
    BY <1>5
  <2>2. ledger'[at].chain = chain /\ ledger'[at].slot = slot
    BY <1>4, <1>5
  <2>3. \A o \in Orders : chain[o] # None => chain[o].slot <= slot
    BY DEF Onward
  <2>4. ASSUME NEW o \in Orders, NEW j \in DOMAIN ledger, chain[o] # None,
               ledger[j].chain[o] # None, Plain(o)
        PROVE  ledger[j].chain[o].slot = chain[o].slot
    <3>1. Chain[o] # None /\ chain[o].slot = Chain[o].slot
      BY <2>4 DEF Onward, ForwardInv, OpenWasPlaced
    <3> QED
      BY <1>1, <1>6, <2>4, <3>1 DEF ForwardInv, OrderSlots
  <2>5. ASSUME NEW o \in Orders, NEW j \in DOMAIN ledger', NEW k \in DOMAIN ledger',
               ledger'[j].chain[o] # None, ledger'[k].chain[o] # None
        PROVE  /\ ledger'[k].chain[o].slot <= ledger'[k].slot
               /\ Plain(o) => ledger'[j].chain[o].slot = ledger'[k].chain[o].slot
    <3>1. CASE j \in DOMAIN ledger /\ k \in DOMAIN ledger
      BY <2>1, <2>5, <3>1 DEF ForwardInv, OrderSlots
    <3>2. CASE j = at /\ k = at
      BY <2>2, <2>3, <2>5, <3>2
    <3>3. CASE j = at /\ k \in DOMAIN ledger
      BY <2>1, <2>2, <2>4, <2>5, <3>3 DEF ForwardInv, OrderSlots
    <3>4. CASE j \in DOMAIN ledger /\ k = at
      BY <2>1, <2>2, <2>3, <2>4, <2>5, <3>4
    <3> QED
      BY <1>5, <3>1, <3>2, <3>3, <3>4
  <2> QED
    BY <2>5 DEF OrderSlots, Plain
<1>12. \A o, v, s : WrittenAt(o, v, s) => WrittenAt(o, v, s)'
  BY <1>5 DEF WrittenAt
<1>13. SnapshotsOnly'
  BY <1>2, <1>12 DEF ForwardInv, SnapshotsOnly
<1> QED
  BY <1>8, <1>10, <1>11, <1>13, <1>14 DEF ForwardInv

\* Every step of the chain is such a write.
Advance ==
  \E slot \in NextSlots, event \in Events, touched \in SUBSET Orders :
    \E chain \in [Orders -> Versions \cup {None}] :
      /\ Write(slot, chain, event, touched)
      /\ \A o \in Orders : Onward(o, chain[o], slot)
      /\ \A o \in Orders : chain[o] # None =>
           Placed(o) \/ event = [kind |-> "place", order |-> o]

LEMMA ChainAdvances ==
  ASSUME IInv, ForwardInv, ChainStep
  PROVE  Advance
<1>1. PICK slot \in NextSlots :
        \/ \E o \in Orders : Place(o, slot)
        \/ \E o \in Orders : Trigger(o, slot)
        \/ \E o \in Orders : Cancel(o, slot)
        \/ \E taker \in Orders, maker \in Orders \cup {None} :
              taker # maker /\ Fill(taker, maker, slot)
  BY DEF ChainStep
<1>2. slot \in Nat
  BY DLOBAssumption DEF DLOBAssumption, NextSlots, Slots
<1>3. Chain \in [Orders -> Versions \cup {None}]
  BY ChainTyped
<1>4. \A o \in Orders : Chain[o] # None =>
        /\ Placed(o) /\ Chain[o] \in Versions /\ Chain[o].filled \in Nat
        /\ Chain[o].slot \in Nat /\ Chain[o].slot <= slot
  <2> SUFFICES ASSUME NEW o \in Orders, Chain[o] # None
               PROVE  Placed(o) /\ Chain[o].slot <= slot
    BY <1>3 DEF Versions
  <2>1. ledger # <<>>
    BY LastWrite
  <2>2. Placed(o) /\ Chain[o].slot <= LastSlot
    BY <2>1, LastWrite DEF ForwardInv, OpenWasPlaced, OrderSlots
  <2>3. LastSlot \in Nat /\ Chain[o].slot \in Nat
    BY <1>3, <2>1, LastWrite, WritesTyped DEF Versions
  <2>4. LastSlot <= slot
    BY <1>2, <2>3 DEF NextSlots
  <2> QED
    BY <1>2, <2>2, <2>3, <2>4
<1>5. ASSUME NEW o \in Orders, Place(o, slot) PROVE Advance
  <2> DEFINE v == [filled |-> 0, triggered |-> FALSE, slot |-> slot]
             chain == [Chain EXCEPT ![o] = v]
             event == [kind |-> "place", order |-> o]
  <2>1. v \in Versions
    BY <1>2 DEF Versions
  <2>2. chain \in [Orders -> Versions \cup {None}] /\ event \in Events
    BY <1>3, <2>1 DEF Events
  <2>3. Write(slot, chain, event, {o}) /\ ~Placed(o)
    BY <1>5 DEF Place
  <2>4. \A x \in Orders : x # o => chain[x] = Chain[x]
    BY <1>3
  <2>5. \A x \in Orders : Onward(x, chain[x], slot)
    <3>1. chain[o].slot <= slot
      BY <1>2, <1>3
    <3> HIDE DEF chain
    <3> QED
      BY <1>4, <2>3, <2>4, <3>1 DEF Onward
  <2>6. \A x \in Orders : chain[x] # None => Placed(x) \/ event = [kind |-> "place", order |-> x]
    <3> HIDE DEF chain
    <3> QED
      BY <1>4, <2>4
  <2> HIDE DEF v, chain, event
  <2> QED
    BY <2>2, <2>3, <2>5, <2>6 DEF Advance
<1>6. ASSUME NEW chain \in [Orders -> Versions \cup {None}], NEW event \in Events, NEW touched \in SUBSET Orders,
             \A o \in Orders : chain[o] # None =>
               /\ Chain[o] # None /\ Chain[o].filled <= chain[o].filled
               /\ chain[o].slot <= slot /\ (Plain(o) => chain[o].slot = Chain[o].slot),
             Write(slot, chain, event, touched)
      PROVE  Advance
  <2>1. \A o \in Orders : Onward(o, chain[o], slot)
    BY <1>6 DEF Onward
  <2>2. \A o \in Orders : chain[o] # None => Placed(o)
    BY <1>4, <1>6
  <2> QED
    BY <1>6, <2>1, <2>2 DEF Advance
<1>7. ASSUME NEW o \in Orders, Trigger(o, slot) PROVE Advance
  <2> DEFINE chain == [Chain EXCEPT ![o].triggered = TRUE, ![o].slot = slot]
             event == [kind |-> "trigger", order |-> o]
  <2>1. Chain[o] \in Versions /\ Chain[o] # None
    BY <1>3, <1>7 DEF Trigger
  <2>2. chain \in [Orders -> Versions \cup {None}] /\ event \in Events
    BY <1>2, <1>3, <2>1 DEF Versions, Events
  <2>3. \A x \in Orders : IF x = o THEN chain[x].filled = Chain[x].filled /\ chain[x].slot = slot
                         ELSE chain[x] = Chain[x]
    BY <1>3, <2>1 DEF Versions
  <2>4. Write(slot, chain, event, {o})
    BY <1>7 DEF Trigger
  <2>6. ~Plain(o)
    BY <1>7 DEF Trigger, MustBeTriggered, Plain
  <2> HIDE DEF chain, event
  <2>5. \A x \in Orders : chain[x] # None =>
          /\ Chain[x] # None /\ Chain[x].filled <= chain[x].filled
          /\ chain[x].slot <= slot /\ (Plain(x) => chain[x].slot = Chain[x].slot)
    BY <1>2, <1>4, <2>1, <2>3, <2>6
  <2> QED
    BY <1>6, <2>2, <2>4, <2>5
<1>8. ASSUME NEW o \in Orders, Cancel(o, slot) PROVE Advance
  <2> DEFINE chain == [Chain EXCEPT ![o] = None]
             event == [kind |-> "cancel", order |-> o]
  <2>1. chain \in [Orders -> Versions \cup {None}] /\ event \in Events
    BY <1>3 DEF Events
  <2>2. \A x \in Orders : chain[x] # None => chain[x] = Chain[x]
    BY <1>3
  <2>3. Write(slot, chain, event, {o})
    BY <1>8 DEF Cancel
  <2> HIDE DEF chain, event
  <2>4. \A x \in Orders : chain[x] # None =>
          /\ Chain[x] # None /\ Chain[x].filled <= chain[x].filled
          /\ chain[x].slot <= slot /\ (Plain(x) => chain[x].slot = Chain[x].slot)
    BY <1>4, <2>2
  <2> QED
    BY <1>6, <2>1, <2>3, <2>4
<1>9. ASSUME NEW taker \in Orders, NEW maker \in Orders \cup {None}, Fill(taker, maker, slot)
      PROVE  Advance
  <2> DEFINE chain == [o \in Orders |-> IF o \in {taker, maker} THEN OneMore(o) ELSE Chain[o]]
             makerFilled == IF maker = None THEN 0 ELSE Chain[maker].filled + 1
             event == [kind |-> "fill", taker |-> taker,
                       takerFilled |-> Chain[taker].filled + 1,
                       maker |-> maker, makerFilled |-> makerFilled]
  <2>1. Chain[taker] # None /\ (maker # None => Chain[maker] # None)
    BY <1>9 DEF Fill, Fillable
  <2>2. \A o \in Orders : Chain[o] # None /\ OneMore(o) # None =>
            /\ OneMore(o) \in Versions /\ OneMore(o).filled = Chain[o].filled + 1
            /\ OneMore(o).slot = Chain[o].slot
    BY <1>4 DEF OneMore, Versions
  <2>3. \A o \in Orders : o \in {taker, maker} => Chain[o] # None
    BY <2>1, DLOBAssumption DEF DLOBAssumption
  <2>4. chain \in [Orders -> Versions \cup {None}]
    BY <1>3, <2>2, <2>3
  <2>5. Chain[taker].filled + 1 \in Nat /\ makerFilled \in Nat
    BY <1>4, <2>1
  <2>6. event \in Events
    <3> HIDE DEF makerFilled
    <3> QED
      BY <2>5 DEF Events
  <2>7. Write(slot, chain, event, {taker, maker} \ {None}) /\ {taker, maker} \ {None} \in SUBSET Orders
    BY <1>9 DEF Fill
  <2>8. \A x \in Orders : chain[x] = IF x \in {taker, maker} THEN OneMore(x) ELSE Chain[x]
    OBVIOUS
  <2> HIDE DEF chain, event, makerFilled
  <2>9. \A x \in Orders : chain[x] # None =>
          /\ Chain[x] # None /\ Chain[x].filled <= chain[x].filled
          /\ chain[x].slot <= slot /\ (Plain(x) => chain[x].slot = Chain[x].slot)
    <3> SUFFICES ASSUME NEW x \in Orders, chain[x] # None
                 PROVE  /\ Chain[x] # None /\ Chain[x].filled <= chain[x].filled
                        /\ chain[x].slot <= slot /\ chain[x].slot = Chain[x].slot
      OBVIOUS
    <3>1. CASE x \in {taker, maker}
      BY <1>4, <2>2, <2>3, <2>8, <3>1
    <3>2. CASE x \notin {taker, maker}
      BY <1>4, <2>8, <3>2
    <3> QED
      BY <3>1, <3>2
  <2> QED
    BY <1>6, <2>4, <2>6, <2>7, <2>9
<1> QED
  BY <1>1, <1>5, <1>7, <1>8, <1>9

LEMMA ChainGoesOn ==
  ASSUME IInv, ForwardInv, ChainStep
  PROVE  ForwardInv'
BY ChainAdvances, WriteGoesOn DEF Advance

-----------------------------------------------------------------------------
(* The book.                                                               *)

\* A step that writes nothing and adds no item.
LEMMA ForwardSame ==
  ASSUME ForwardInv, ledger' = ledger, \A p \in Processes : todo'[p] \subseteq todo[p]
  PROVE  ForwardInv'
<1>1. SlotsGrow' /\ OpenWasPlaced' /\ FillsGrow' /\ OrderSlots'
  BY DEF ForwardInv, SlotsGrow, OpenWasPlaced, FillsGrow, OrderSlots, Placed
<1>2. \A o, v, s : WrittenAt(o, v, s) => WrittenAt(o, v, s)'
  BY DEF WrittenAt
<1> QED
  BY <1>1, <1>2 DEF ForwardInv, SnapshotsOnly

LEMMA ClassifyGoesOn ==
  ASSUME IInv, ForwardInv, ClassifySnapshot
  PROVE  ForwardInv'
<1> DEFINE k == reading.at
           slot == ledger[k].slot
           orders == ledger[k].chain
           items == SnapshotItems(reading.user, slot, orders, reading.exists, reading.outdated)
           Good(i) == i.op \in {"rest", "delete"}
                      \/ (i.op \in {"insert", "update"} /\ WrittenAt(i.o, i.order, i.slot))
<1>1. /\ reading # None /\ ledger' = ledger /\ todo' = [todo EXCEPT ![Updater] = items]
  BY DEF ClassifySnapshot, chainVars
<1>2. k \in DOMAIN ledger /\ \A d \in reading.outdated : d.op = "delete"
  BY <1>1 DEF IInv, TodoInv
<1>3. \A o : WrittenAt(o, orders[o], slot)
  BY <1>2 DEF WrittenAt
<1>4. \A i \in items : Good(i)
  <2>1. \A o : /\ Good(Item("insert", 0, o, orders[o], slot, None))
               /\ Good(Item("update", 0, o, orders[o], slot, None))
               /\ Good(Item("delete", 0, o, orders[o], slot, None))
    BY <1>3 DEF Item
  <2>2. Good(Item("rest", 0, None, None, slot, None))
    BY DEF Item
  <2>3. \A d \in reading.outdated : Good(d)
    BY <1>2
  <2> HIDE DEF Good, slot, orders
  <2> QED
    BY <2>1, <2>2, <2>3 DEF SnapshotItems, WithRest
<1>5. SnapshotsOnly'
  <2>1. \A o, v, s : WrittenAt(o, v, s) => WrittenAt(o, v, s)'
    BY <1>1 DEF WrittenAt
  <2>2. todo \in [Processes -> SUBSET Items]
    BY DEF IInv, TodoInv
  <2> HIDE DEF items
  <2>3. \A p \in Processes : todo'[p] = IF p = Updater THEN items ELSE todo[p]
    BY <1>1, <2>2
  <2> QED
    BY <1>4, <2>1, <2>3 DEF ForwardInv, SnapshotsOnly
<1>6. SlotsGrow' /\ OpenWasPlaced' /\ FillsGrow' /\ OrderSlots'
  BY <1>1 DEF ForwardInv, SlotsGrow, OpenWasPlaced, FillsGrow, OrderSlots, Placed
<1> QED
  BY <1>5, <1>6 DEF ForwardInv

LEMMA NextGoesOn ==
  ASSUME Handlers = {}, IInv, ForwardInv, [Next]_vars
  PROVE  ForwardInv'
<1>1. CASE ChainStep
  BY <1>1, ChainGoesOn
<1>2. CASE \E slot \in 0..MaxSlot : Subscribe(slot)
  BY <1>2, ForwardSame DEF Subscribe
<1>3. CASE Receive
  <2>1. PICK message \in accounts : ReadTracked(message[1], message[2])
    BY <1>3 DEF Receive
  <2> QED
    BY <2>1, ForwardSame DEF ReadTracked
<1>4. CASE ClassifySnapshot
  BY <1>4, ClassifyGoesOn
<1>5. CASE \E p \in Processes : Apply(p)
  <2>1. PICK p \in Processes : \E i \in todo[p] :
          ledger' = ledger /\ todo' = [todo EXCEPT ![p] = @ \ {i}]
    BY <1>5 DEF Apply, chainVars
  <2>2. \A q \in Processes : todo'[q] \subseteq todo[q]
    BY <2>1 DEF IInv, TodoInv
  <2> QED
    BY <2>1, <2>2, ForwardSame
<1>6. CASE \E f \in Finders : Move(f)
  BY <1>6, ForwardSame DEF Move, Find, Collect, RemoveDue, InsertDue, chainVars
<1>7. CASE UNCHANGED vars
  BY <1>7, ForwardSame DEF vars, chainVars
<1> QED
  BY <1>1, <1>2, <1>3, <1>4, <1>5, <1>6, <1>7 DEF Next

LEMMA ForwardInvInitially == Init => ForwardInv
<1> SUFFICES ASSUME Init PROVE ForwardInv
  OBVIOUS
<1>1. DOMAIN ledger = {} /\ \A p \in Processes : todo[p] = {}
  BY DEF Init
<1> QED
  BY <1>1 DEF ForwardInv, SlotsGrow, OpenWasPlaced, FillsGrow, OrderSlots, SnapshotsOnly

-----------------------------------------------------------------------------
(* The theorem.                                                            *)

\* An update that the stamp lets through is about a later write.
LEMMA LaterSlotLaterFill ==
  ASSUME IInv, ForwardInv, NEW o \in Orders, tracked[o] # None,
         NEW v \in Versions, NEW s \in Nat, tracked[o].slot < s, WrittenAt(o, v, s)
  PROVE  tracked[o].order.filled <= v.filled
<1>1. PICK j \in DOMAIN ledger : /\ ledger[j].chain[o] = tracked[o].order
                                 /\ ledger[j].slot <= tracked[o].slot
  BY DEF IInv, StampCoversContent
<1>2. PICK k \in DOMAIN ledger : ledger[k].chain[o] = v /\ ledger[k].slot = s
  BY DEF WrittenAt
<1>3. tracked[o].order \in Versions /\ tracked[o].slot \in Nat /\ None \notin Versions
  BY DLOBAssumption, NoneAssumption
  DEF DLOBAssumption, NoneAssumption, IInv, BookInv, Entries
<1>4. j \in Nat /\ k \in Nat /\ ledger[j].slot \in Nat
  BY LastWrite, WritesTyped
<1>5. j <= k
  BY <1>1, <1>2, <1>3, <1>4 DEF ForwardInv, SlotsGrow
<1> QED
  BY <1>1, <1>2, <1>3, <1>5 DEF ForwardInv, FillsGrow

LEMMA StepKeepsFills ==
  ASSUME Handlers = {}, IInv, ForwardInv, [Next]_vars,
         NEW o \in Orders, tracked[o] # None, tracked'[o] # None
  PROVE  tracked[o].order.filled <= tracked'[o].order.filled
<1>1. tracked[o].order.filled \in Nat
  BY DEF IInv, BookInv, Entries, Versions
<1>2. CASE UNCHANGED tracked
  BY <1>1, <1>2
<1>3. CASE \E slot \in 0..MaxSlot : Subscribe(slot)
  <2>1. tracked[o] = None
    BY <1>3 DEF Subscribe, IInv, BookInv, QuietBefore, subscribed
  <2> QED
    BY <2>1
<1>4. CASE \E p \in Processes : Apply(p)
  <2>0. PICK p \in Processes : Apply(p)
    BY <1>4
  <2>1. PICK i \in todo[p] :
          \/ i.op = "insert" /\ InsertOrder(i)
          \/ i.op = "rest" /\ UNCHANGED <<tracked, known>>
          \/ i.op = "update" /\ UpdateOrder(i)
          \/ i.op = "trigger" /\ TriggerOrder(i)
          \/ i.op = "delete" /\ DeleteOrder(i)
    BY <2>0 DEF Apply
  <2>2. ItemOK(i) /\ (i.op \in {"rest", "delete"} \/ WrittenAt(i.o, i.order, i.slot))
        /\ i.op # "trigger"
    BY DEF IInv, TodoInv, ForwardInv, SnapshotsOnly
  <2>3. CASE Track(i) /\ Updates(i) /\ i.op \in {"insert", "update"}
    <3>1. tracked'[i.o] = [order |-> i.order, slot |-> i.slot]
          /\ (o # i.o => tracked'[o] = tracked[o])
      BY <2>2, <2>3, TrackedAfter
    <3>2. CASE o = i.o
      <4>1. i.order \in Versions /\ i.slot \in Nat /\ WrittenAt(o, i.order, i.slot)
        BY <2>2, <2>3, <3>2, DLOBAssumption DEF DLOBAssumption, ItemOK, Items
      <4>2. tracked[o].order.filled <= i.order.filled
        BY <2>3, <3>2, <4>1, LaterSlotLaterFill DEF Updates
      <4> QED
        BY <3>1, <3>2, <4>2
    <3> QED
      BY <1>1, <3>1, <3>2
  <2>4. CASE Track(i) /\ tracked[i.o] = None /\ i.op = "insert"
    <3>1. o # i.o
      BY <2>4
    <3>2. tracked'[o] = tracked[o]
      BY <2>2, <2>4, <3>1, TrackedAfter
    <3> QED
      BY <1>1, <3>2
  <2>5. CASE i.op = "delete" /\ DeleteOrder(i)
    <3>1. tracked' = [tracked EXCEPT ![i.o] = None]
      BY <2>5 DEF DeleteOrder
    <3>2. tracked'[o] = tracked[o]
      BY <3>1 DEF IInv, BookInv
    <3> QED
      BY <1>1, <3>2
  <2> QED
    BY <1>2, <2>1, <2>2, <2>3, <2>4, <2>5 DEF InsertOrder, UpdateOrder
<1>5. ChainStep => UNCHANGED tracked
  BY DEF ChainStep, Place, Trigger, Cancel, Fill, Write, bookVars
<1>6. Receive \/ ClassifySnapshot \/ (\E f \in Finders : Move(f)) => UNCHANGED tracked
  BY DEF Receive, HandleOrderEvents, ReadTracked, ClassifySnapshot, bookVars, Move, Find,
     Collect, RemoveDue, InsertDue
<1>7. UNCHANGED vars => UNCHANGED tracked
  BY DEF vars, bookVars
<1> QED
  BY <1>2, <1>3, <1>4, <1>5, <1>6, <1>7 DEF Next

\* Fed by snapshots alone, whatever is lost and whichever overtakes, an order
\* that stays tracked never loses a fill it was seen to have.
THEOREM FillsNeverRegress ==
  ASSUME Handlers = {}
  PROVE  Spec => FilledNeverRegresses
<1>1. IInv /\ ForwardInv /\ [Next]_vars => ForwardInv'
  BY NextGoesOn
<1>2. IInv /\ ForwardInv /\ [Next]_vars =>
        [\A o \in Orders : tracked[o] # None /\ tracked'[o] # None
                             => tracked[o].order.filled <= tracked'[o].order.filled]_vars
  BY StepKeepsFills
<1> QED
  BY <1>1, <1>2, IInvHolds, ForwardInvInitially, PTL DEF Spec, FilledNeverRegresses

-----------------------------------------------------------------------------
(* Snapshots in order.                                                     *)
(*                                                                         *)
(* The slot a bulk carries is then not behind any version the book has     *)
(* seen or the last move, though it may be behind the stamps of a book     *)
(* that was built ahead of the accounts; and the bulk moves what has come  *)
(* to rest by that slot before it looks for the nodes it updates or        *)
(* deletes, which have no later stamp: each is in the list that its        *)
(* version and the bulk's slot imply.                                      *)

InOrder == Handlers = {} /\ Finders = {} /\ Tidy

\* Every version the book has seen and all it is about to do is of slot s or
\* before.
Reached(s) ==
  /\ maxSlot <= s
  /\ \A o \in Orders : tracked[o] # None => tracked[o].order.slot <= s
  /\ reading # None => ledger[reading.at].slot <= s
  /\ \A i \in todo[Updater] : i.slot <= s

\* What is still to come is not behind it; neither is what is under way.
NothingBehind ==
  /\ Reached(LastSlot)
  /\ \A message \in accounts : Reached(ledger[message[2]].slot)
  /\ reading # None => Reached(ledger[reading.at].slot)
  /\ \A i \in todo[Updater] : Reached(i.slot)

\* Between its two loops UpdateByUser has nothing to apply, and has seen all
\* there is of its user.
ReadingOK ==
  reading # None =>
    /\ todo[Updater] = {}
    /\ \A o \in Orders : Owner[o] = reading.user /\ tracked[o] # None => reading.exists
    /\ \A d \in reading.outdated : /\ d.o \in Orders /\ d.slot = ledger[reading.at].slot
                                   /\ Written(d.o, d.order, d.slot)
                                   /\ tracked[d.o] # None => tracked[d.o].slot <= d.slot

\* What is classified still applies, and changes to lists wait for the move.
PlanOK ==
  \A i \in todo[Updater] :
    /\ i.op # "rest" => Written(i.o, i.order, i.slot)
    /\ i.op = "insert" =>
         /\ tracked[i.o] = None
         /\ \A j \in todo[Updater] : j.op = "insert" /\ j.o = i.o => j = i
    /\ i.op = "update" => i.filled = None
    /\ i.op = "delete" /\ tracked[i.o] # None => tracked[i.o].slot <= i.slot
    /\ i.op \in {"update", "delete"} =>
         maxSlot = i.slot \/ \E j \in todo[Updater] : j.op = "rest"

UsersKnown == \A o \in Orders : tracked[o] # None => Owner[o] \in known

\* Where the node of an entry e of o may be: where it was put when it was learnt,
\* or where the last move has left it.
Rightly(o, l, e) ==
  /\ \E t \in {maxSlot, e.slot} : e.order.slot <= t /\ l = GetNodeType(o, e.order, t)
  /\ l = "takingLimit" => maxSlot < e.order.slot \/ l = GetNodeType(o, e.order, maxSlot)

Located(o) ==
  IF tracked[o] = None THEN Homes(o) = {}
  ELSE \E l \in Lists : /\ Homes(o) = {l} /\ lists[l][o] = tracked[o].order
                        /\ Rightly(o, l, tracked[o])

AllLocated == \A o \in Orders : Plain(o) => Located(o)

\* Before it is built the book is as new.
NewBefore == ~subscribed => maxSlot = 0 /\ \A l \in Lists, o \in Orders : lists[l][o] = None

OrderlyInv ==
  NothingBehind /\ ReadingOK /\ PlanOK /\ UsersKnown /\ AllLocated /\ NewBefore

LEMMA SmallRemainder ==
  ASSUME NEW a \in Nat, NEW w \in Nat, a < w
  PROVE  a % w = a
OBVIOUS

\* An order that is not taking at a slot is not taking later.
LEMMA Settles ==
  ASSUME NEW o \in Orders, Plain(o), NEW v \in Versions, NEW s \in 0..MaxSlot,
         NEW t \in 0..MaxSlot, v.slot <= t, t <= s, GetNodeType(o, v, t) # "takingLimit"
  PROVE  GetNodeType(o, v, s) = GetNodeType(o, v, t)
<1>1. v.slot \in Nat /\ s \in Nat /\ t \in Nat /\ Word \in Nat /\ s < Word /\ t < Word
      /\ Kind[o].duration \in Nat
  BY DLOBAssumption DEF DLOBAssumption, Versions, Kinds
<1>2. s - v.slot \in Nat /\ t - v.slot \in Nat /\ s - v.slot < Word /\ t - v.slot < Word
      /\ t - v.slot <= s - v.slot
  BY <1>1
<1>3. (s - v.slot) % Word = s - v.slot /\ (t - v.slot) % Word = t - v.slot
  BY <1>1, <1>2, SmallRemainder
<1>4. IsAuctionComplete(o, v, t) => IsAuctionComplete(o, v, s)
  BY <1>1, <1>2, <1>3 DEF IsAuctionComplete
<1>5. IsRestingLimitOrder(o, v, t) => IsRestingLimitOrder(o, v, s)
  BY <1>4 DEF IsRestingLimitOrder
<1> QED
  BY <1>5 DEF GetNodeType, Plain, MustBeTriggered

LEMMA SlotDecides ==
  ASSUME NEW o \in Orders, Plain(o), NEW v, NEW w, v.slot = w.slot, NEW s
  PROVE  GetNodeType(o, v, s) = GetNodeType(o, w, s)
BY DEF GetNodeType, Plain, MustBeTriggered, IsRestingLimitOrder, IsAuctionComplete

\* The slot in a version is not after a slot by which it was written, and is the
\* same in all versions of a plain order.
LEMMA SlotOfVersion ==
  ASSUME IInv, ForwardInv, NEW o \in Orders, NEW v \in Versions, NEW s \in Nat, Written(o, v, s)
  PROVE  /\ v.slot \in Nat /\ v.slot <= s
         /\ Plain(o) /\ tracked[o] # None => v.slot = tracked[o].order.slot
<1>1. PICK k \in DOMAIN ledger : ledger[k].chain[o] = v /\ ledger[k].slot <= s
  BY DEF Written
<1>2. v # None /\ v.slot \in Nat /\ ledger[k].slot \in Nat
  BY NoneAssumption, WritesTyped DEF NoneAssumption, Versions
<1>3. v.slot <= ledger[k].slot
  BY <1>1, <1>2 DEF ForwardInv, OrderSlots
<1>4. ASSUME Plain(o), tracked[o] # None PROVE v.slot = tracked[o].order.slot
  <2>1. PICK j \in DOMAIN ledger : ledger[j].chain[o] = tracked[o].order
    BY <1>4 DEF IInv, StampCoversContent
  <2>2. tracked[o].order # None
    BY <1>4, NoneAssumption DEF NoneAssumption, IInv, BookInv, Entries
  <2> QED
    BY <1>1, <1>2, <1>4, <2>1, <2>2 DEF ForwardInv, OrderSlots
<1> QED
  BY <1>1, <1>2, <1>3, <1>4

LEMMA EntryType ==
  ASSUME IInv, ForwardInv, NEW o \in Orders, tracked[o] # None
  PROVE  /\ tracked[o].order \in Versions /\ tracked[o].slot \in 0..MaxSlot
         /\ tracked[o].slot \in Nat
         /\ tracked[o].order.slot \in Nat /\ tracked[o].order.slot <= tracked[o].slot
<1>1. tracked[o].order \in Versions /\ tracked[o].slot \in 0..MaxSlot
  BY DEF IInv, BookInv, Entries
<1>2. tracked[o].slot \in Nat
  BY <1>1, DLOBAssumption DEF DLOBAssumption
<1>3. Written(o, tracked[o].order, tracked[o].slot)
  BY <1>2, TrackedWritten
<1> QED
  BY <1>1, <1>2, <1>3, SlotOfVersion

\* Once the move to slot s is done, the node is in the list that s implies.
LEMMA StaysRight ==
  ASSUME IInv, ForwardInv, NEW o \in Orders, Plain(o), tracked[o] # None,
         tracked[o].slot <= maxSlot, NEW l \in Lists, Rightly(o, l, tracked[o])
  PROVE  l = GetNodeType(o, tracked[o].order, maxSlot)
<1>1. PICK t \in {maxSlot, tracked[o].slot} :
        tracked[o].order.slot <= t /\ l = GetNodeType(o, tracked[o].order, t)
  BY DEF Rightly
<1>2. /\ maxSlot \in 0..MaxSlot /\ maxSlot \in Nat /\ t \in 0..MaxSlot /\ t <= maxSlot
      /\ tracked[o].order.slot \in Nat /\ tracked[o].order \in Versions
  BY <1>1, EntryType, DLOBAssumption DEF DLOBAssumption, IInv, BookInv
<1>3. CASE l # "takingLimit"
  BY <1>1, <1>2, <1>3, Settles
<1>4. CASE l = "takingLimit"
  <2>1. ~(maxSlot < tracked[o].order.slot)
    BY <1>2, EntryType
  <2> QED
    BY <1>4, <2>1 DEF Rightly
<1> QED
  BY <1>3, <1>4

\* An order may be put where its slot s implies, if the last move was not later.
LEMMA PutRightly ==
  ASSUME IInv, ForwardInv, NEW o \in Orders, Plain(o), NEW v \in Versions,
         NEW s \in 0..MaxSlot, v.slot <= s, maxSlot <= s
  PROVE  Rightly(o, GetNodeType(o, v, s), [order |-> v, slot |-> s])
<1> DEFINE e == [order |-> v, slot |-> s]
           l == GetNodeType(o, v, s)
<1>1. maxSlot \in 0..MaxSlot /\ maxSlot \in Nat /\ v.slot \in Nat
  BY DLOBAssumption DEF DLOBAssumption, IInv, BookInv, Versions
<1>2. e.order = v /\ e.slot = s
  OBVIOUS
<1>3. ASSUME l = "takingLimit", ~(maxSlot < v.slot) PROVE l = GetNodeType(o, v, maxSlot)
  <2>1. v.slot <= maxSlot
    BY <1>1, <1>3
  <2> QED
    BY <1>1, <1>3, <2>1, Settles
<1> HIDE DEF e, l
<1>4. Rightly(o, l, e)
  BY <1>2, <1>3 DEF Rightly, l
<1> QED
  BY <1>4 DEF e, l

\* The node of an order that no step has touched is where it was.
LEMMA LocatedSame ==
  ASSUME NEW o \in Orders, Located(o), tracked'[o] = tracked[o], maxSlot' = maxSlot,
         \A l \in Lists : lists'[l][o] = lists[l][o]
  PROVE  Located(o)'
<1>1. Homes(o)' = Homes(o)
  BY DEF Homes
<1>2. \A l : Rightly(o, l, tracked[o]) => Rightly(o, l, tracked[o])'
  BY DEF Rightly
<1> QED
  BY <1>1, <1>2 DEF Located

LEMMA PutLocates ==
  ASSUME IInv, ForwardInv, NEW o \in Orders, Plain(o), NEW v \in Versions,
         NEW s \in 0..MaxSlot, v.slot <= s, maxSlot <= s, maxSlot' = maxSlot,
         tracked'[o] = [order |-> v, slot |-> s],
         \A l \in Lists : lists'[l][o] = IF l = GetNodeType(o, v, s) THEN v ELSE None
  PROVE  Located(o)'
<1> DEFINE l == GetNodeType(o, v, s)
           e == [order |-> v, slot |-> s]
<1>1. Rightly(o, l, e) /\ l \in Lists
  BY PutRightly, NodeTypeIsList
<1>2. e \in Entries /\ e.order = v /\ v # None
  BY NoneAssumption DEF NoneAssumption, Entries
<1>3. e # None
  BY <1>2, NoneAssumption DEF NoneAssumption
<1> HIDE DEF l
<1>4. Homes(o)' = {l} /\ lists'[l][o] = v
  BY <1>1, <1>2 DEF Homes, l
<1> HIDE DEF e
<1>5. Rightly(o, l, e)'
  BY <1>1 DEF Rightly, l, e
<1>6. tracked'[o] = e
  BY DEF e
<1> QED
  BY <1>1, <1>2, <1>3, <1>4, <1>5, <1>6 DEF Located

LEMMA InsertLocates ==
  ASSUME IInv, ForwardInv, AllLocated, NEW i, ItemOK(i), i.op = "insert", InsertOrder(i),
         tracked[i.o] = None, Reached(i.slot), Written(i.o, i.order, i.slot)
  PROVE  AllLocated'
<1>1. /\ i.o \in Orders /\ i.order \in Versions /\ i.slot \in 0..MaxSlot /\ i.slot \in Nat
      /\ maxSlot <= i.slot
  BY DLOBAssumption DEF DLOBAssumption, ItemOK, Items, Reached
<1>2. /\ tracked' = [tracked EXCEPT ![i.o] = [order |-> i.order, slot |-> i.slot]]
      /\ lists' = Inserted(lists, ListOf(i), i.o, i.order) /\ maxSlot' = maxSlot
  BY DEF InsertOrder, Track
<1>3. /\ tracked \in [Orders -> Entries \cup {None}] /\ lists \in Shelves
      /\ ListOf(i) = GetNodeType(i.o, i.order, i.slot) /\ ListOf(i) \in Lists
  BY <1>1, NodeTypeIsList DEF IInv, BookInv, Shelves, ListOf
<1>4. \A l \in Lists, o \in Orders :
        lists'[l][o] = IF l = ListOf(i) /\ o = i.o /\ lists[l][o] = None
                       THEN i.order ELSE lists[l][o]
  BY <1>1, <1>2, <1>3, InsertedInto
<1>5. ASSUME NEW o \in Orders, Plain(o) PROVE Located(o)'
  <2>1. Located(o)
    BY <1>5 DEF AllLocated
  <2>2. CASE o # i.o
    <3>1. tracked'[o] = tracked[o] /\ \A l \in Lists : lists'[l][o] = lists[l][o]
      BY <1>2, <1>3, <1>4, <2>2
    <3> QED
      BY <1>2, <2>1, <3>1, LocatedSame
  <2>3. CASE o = i.o
    <3>1. \A l \in Lists : lists[l][o] = None
      BY <2>1, <2>3 DEF Located, Homes
    <3>2. /\ tracked'[o] = [order |-> i.order, slot |-> i.slot]
          /\ \A l \in Lists : lists'[l][o] = IF l = GetNodeType(o, i.order, i.slot)
                                             THEN i.order ELSE None
      BY <1>1, <1>2, <1>3, <1>4, <2>3, <3>1
    <3>3. i.order.slot <= i.slot
      BY <1>1, SlotOfVersion
    <3> QED
      BY <1>1, <1>2, <1>5, <3>2, <3>3, PutLocates
  <2> QED
    BY <2>2, <2>3
<1> QED
  BY <1>5 DEF AllLocated, Plain

\* The list that an item finds once the move is done is where the node is.
LEMMA FoundAtHome ==
  ASSUME IInv, ForwardInv, AllLocated, NEW i, ItemOK(i), i.op \in {"update", "delete"},
         Plain(i.o), tracked[i.o] # None, tracked[i.o].slot <= i.slot, maxSlot = i.slot,
         Written(i.o, i.order, i.slot)
  PROVE  \A l \in Lists : lists[l][i.o] # None <=> l = ListOf(i)
<1>1. /\ i.o \in Orders /\ i.order \in Versions /\ i.slot \in 0..MaxSlot /\ i.slot \in Nat
      /\ tracked[i.o].slot <= maxSlot
  BY DLOBAssumption DEF DLOBAssumption, ItemOK, Items
<1>2. i.order.slot = tracked[i.o].order.slot
  BY <1>1, SlotOfVersion
<1>3. PICK l \in Lists : Homes(i.o) = {l} /\ Rightly(i.o, l, tracked[i.o])
  BY <1>1 DEF AllLocated, Located
<1>4. l = GetNodeType(i.o, tracked[i.o].order, i.slot)
  BY <1>1, <1>3, StaysRight
<1>5. l = ListOf(i)
  BY <1>1, <1>2, <1>4, SlotDecides DEF ListOf
<1> QED
  BY <1>3, <1>5 DEF Homes

LEMMA UpdateLocates ==
  ASSUME IInv, ForwardInv, AllLocated, NEW i, ItemOK(i), i.op = "update", UpdateOrder(i),
         i.filled = None, maxSlot = i.slot, Written(i.o, i.order, i.slot)
  PROVE  AllLocated'
<1>1. i.o \in Orders /\ i.order \in Versions /\ i.slot \in 0..MaxSlot /\ i.slot \in Nat
  BY DLOBAssumption DEF DLOBAssumption, ItemOK, Items
<1>2. /\ tracked \in [Orders -> Entries \cup {None}] /\ lists \in Shelves
      /\ ListOf(i) = GetNodeType(i.o, i.order, i.slot) /\ ListOf(i) \in Lists
      /\ maxSlot' = maxSlot
  BY <1>1, NodeTypeIsList DEF IInv, BookInv, Shelves, ListOf, UpdateOrder
<1>3. CASE ~Updates(i)
  <2>1. tracked' = tracked /\ lists' = lists
    BY <1>3 DEF UpdateOrder
  <2> QED
    BY <1>2, <2>1, LocatedSame DEF AllLocated, Plain
<1>4. CASE Updates(i)
  <2>1. /\ tracked' = [tracked EXCEPT ![i.o] = [order |-> i.order, slot |-> i.slot]]
        /\ lists' = Updated(lists, ListOf(i), i.o, i.order)
        /\ tracked[i.o] # None
    BY <1>4 DEF UpdateOrder, Track, Updates
  <2>2. \A l \in Lists, o \in Orders :
          lists'[l][o] = IF l = ListOf(i) /\ o = i.o /\ lists[l][o] # None
                         THEN i.order ELSE lists[l][o]
    BY <1>1, <1>2, <2>1, UpdatedIn
  <2>3. ASSUME NEW o \in Orders, Plain(o) PROVE Located(o)'
    <3>1. CASE o # i.o
      <4>1. tracked'[o] = tracked[o] /\ \A l \in Lists : lists'[l][o] = lists[l][o]
        BY <1>2, <2>1, <2>2, <3>1
      <4> QED
        BY <1>2, <2>3, <4>1, LocatedSame DEF AllLocated
    <3>2. CASE o = i.o
      <4>1. \A l \in Lists : lists[l][o] # None <=> l = ListOf(i)
        <5>1. tracked[i.o].slot \in Nat /\ tracked[i.o].slot <= i.slot
          BY <1>1, <1>4, <2>1, EntryType DEF Updates
        <5> QED
          BY <2>1, <2>3, <3>2, <5>1, FoundAtHome
      <4>2. /\ tracked'[o] = [order |-> i.order, slot |-> i.slot]
            /\ \A l \in Lists : lists'[l][o] = IF l = GetNodeType(o, i.order, i.slot)
                                               THEN i.order ELSE None
        BY <1>1, <1>2, <2>1, <2>2, <3>2, <4>1
      <4>3. i.order.slot <= i.slot /\ maxSlot <= i.slot
        BY <1>1, SlotOfVersion
      <4> QED
        BY <1>1, <1>2, <2>3, <4>2, <4>3, PutLocates
    <3> QED
      BY <3>1, <3>2
  <2> QED
    BY <2>3 DEF AllLocated, Plain
<1> QED
  BY <1>3, <1>4

LEMMA DeleteLocates ==
  ASSUME IInv, ForwardInv, AllLocated, NEW i, ItemOK(i), i.op = "delete", DeleteOrder(i),
         tracked[i.o] # None => tracked[i.o].slot <= i.slot, maxSlot = i.slot,
         Written(i.o, i.order, i.slot)
  PROVE  AllLocated'
<1>1. i.o \in Orders /\ i.order \in Versions
  BY DEF ItemOK, Items
<1>2. /\ tracked \in [Orders -> Entries \cup {None}] /\ lists \in Shelves
      /\ ListOf(i) \in Lists /\ maxSlot' = maxSlot
      /\ tracked' = [tracked EXCEPT ![i.o] = None] /\ lists' = Removed(lists, ListOf(i), i.o)
  BY <1>1, NodeTypeIsList DEF IInv, BookInv, Shelves, ListOf, DeleteOrder
<1>3. \A l \in Lists, o \in Orders :
        lists'[l][o] = IF l = ListOf(i) /\ o = i.o THEN None ELSE lists[l][o]
  <2> DEFINE l == ListOf(i)
  <2>1. l \in Lists /\ lists' = Removed(lists, l, i.o)
    BY <1>2
  <2> HIDE DEF l
  <2>2. \A m \in Lists, o \in Orders :
          lists'[m][o] = IF m = l /\ o = i.o THEN None ELSE lists[m][o]
    BY <1>1, <1>2, <2>1 DEF Removed, Shelves
  <2> QED
    BY <2>2 DEF l
<1>4. ASSUME NEW o \in Orders, Plain(o) PROVE Located(o)'
  <2>1. CASE o # i.o
    <3>1. tracked'[o] = tracked[o] /\ \A l \in Lists : lists'[l][o] = lists[l][o]
      BY <1>2, <1>3, <2>1
    <3> QED
      BY <1>2, <1>4, <3>1, LocatedSame DEF AllLocated
  <2>2. CASE o = i.o
    <3>1. tracked[o] # None => \A l \in Lists : lists[l][o] # None <=> l = ListOf(i)
      BY <1>4, <2>2, FoundAtHome
    <3>2. tracked[o] = None => \A l \in Lists : lists[l][o] = None
      BY <1>4 DEF AllLocated, Located, Homes
    <3>3. tracked'[o] = None /\ \A l \in Lists : lists'[l][o] = None
      BY <1>1, <1>2, <1>3, <2>2, <3>1, <3>2
    <3> QED
      BY <3>3 DEF Located, Homes
  <2> QED
    BY <2>1, <2>2
<1> QED
  BY <1>4 DEF AllLocated, Plain

\* The move takes to the resting list exactly what its slot says is resting.
LEMMA RestLocates ==
  ASSUME IInv, ForwardInv, AllLocated, NEW s \in 0..MaxSlot, Reached(s),
         UpdateRestingLimitOrders(s), UNCHANGED tracked
  PROVE  AllLocated' /\ maxSlot' = s
<1>0. maxSlot \in 0..MaxSlot /\ maxSlot <= s /\ s \in Nat /\ maxSlot \in Nat
  BY DLOBAssumption DEF DLOBAssumption, IInv, BookInv, Reached
<1>1. CASE s <= maxSlot /\ UNCHANGED <<lists, maxSlot>>
  BY <1>0, <1>1, LocatedSame DEF AllLocated, Plain
<1>2. CASE MoveResting(s)
  <2> DEFINE taking == lists["takingLimit"]
             moved == AtRest(s)
  <2>1. /\ s > maxSlot /\ maxSlot' = s
        /\ lists' = [lists EXCEPT
             !["takingLimit"] = [o \in Orders |-> IF o \in moved THEN None ELSE @[o]],
             !["restingLimit"] = [o \in Orders |-> IF o \in moved /\ @[o] = None
                                                   THEN taking[o] ELSE @[o]]]
    BY <1>2 DEF MoveResting
  <2>2. lists \in Shelves /\ {"takingLimit", "restingLimit"} \subseteq Lists
    BY DEF IInv, BookInv, Shelves, Lists
  <2> HIDE DEF moved
  <2>3. \A l \in Lists, o \in Orders :
          lists'[l][o] = CASE l = "takingLimit" -> IF o \in moved THEN None ELSE lists[l][o]
                         [] l = "restingLimit" -> IF o \in moved /\ lists[l][o] = None
                                                  THEN taking[o] ELSE lists[l][o]
                         [] OTHER -> lists[l][o]
    BY <2>1, <2>2 DEF Shelves
  <2>4. ASSUME NEW o \in Orders, Plain(o) PROVE Located(o)'
    <3>1. Located(o) /\ tracked'[o] = tracked[o]
      BY <2>4 DEF AllLocated
    <3>2. CASE tracked[o] = None
      <4>1. \A l \in Lists : lists[l][o] = None
        BY <3>1, <3>2 DEF Located, Homes
      <4>2. o \notin moved
        BY <2>2, <4>1 DEF moved, AtRest
      <4>3. \A l \in Lists : lists'[l][o] = None
        BY <2>3, <4>1, <4>2
      <4> QED
        BY <3>1, <3>2, <4>3 DEF Located, Homes
    <3>3. CASE tracked[o] # None
      <4> DEFINE e == tracked[o]
      <4>1. PICK l \in Lists : Homes(o) = {l} /\ lists[l][o] = e.order /\ Rightly(o, l, e)
        BY <3>1, <3>3 DEF Located
      <4>2. /\ e.order \in Versions /\ e.slot \in 0..MaxSlot /\ e.slot \in Nat
            /\ e.order.slot \in Nat /\ e.order.slot <= e.slot /\ e.order.slot <= s /\ e.order # None
        BY <3>3, EntryType, NoneAssumption DEF NoneAssumption, Reached
      <4>3. \A m \in Lists : m # l => lists[m][o] = None
        BY <4>1 DEF Homes
      <4>4. PICK t \in {maxSlot, e.slot} :
              e.order.slot <= t /\ l = GetNodeType(o, e.order, t)
        BY <4>1 DEF Rightly
      <4>6. CASE l # "takingLimit"
        <5>1. o \notin moved
          BY <2>2, <4>3, <4>6 DEF moved, AtRest
        <5>2. \A m \in Lists : lists'[m][o] = lists[m][o]
          BY <2>3, <5>1
        <5>3. Homes(o)' = {l} /\ lists'[l][o] = e.order
          BY <4>1, <5>2 DEF Homes
        <5>4. e' = e /\ maxSlot' = s
          BY <2>1, <3>1
        <5>5. \E u \in {s, e.slot} : e.order.slot <= u /\ l = GetNodeType(o, e.order, u)
          <6>1. CASE t = e.slot
            BY <4>4, <6>1
          <6>2. CASE t = maxSlot
            <7>1. l = GetNodeType(o, e.order, s)
              BY <1>0, <2>4, <4>2, <4>4, <4>6, <6>2, Settles
            <7> QED
              BY <4>2, <7>1
          <6> QED
            BY <4>4, <6>1, <6>2
        <5>6. Rightly(o, l, e)'
          BY <4>6, <5>4, <5>5 DEF Rightly
        <5> QED
          BY <3>1, <3>3, <5>3, <5>6 DEF Located
      <4>7. CASE l = "takingLimit" /\ o \in moved
        <5>1. IsRestingLimitOrder(o, e.order, s)
          BY <4>1, <4>7 DEF moved, AtRest
        <5>2. GetNodeType(o, e.order, s) = "restingLimit"
          BY <2>4, <4>4, <4>7, <5>1 DEF GetNodeType, Plain, MustBeTriggered
        <5>3. \A m \in Lists : lists'[m][o] = IF m = "restingLimit" THEN e.order ELSE None
          BY <2>3, <4>1, <4>3, <4>7
        <5>4. Homes(o)' = {"restingLimit"} /\ lists'["restingLimit"][o] = e.order
          BY <2>2, <4>2, <5>3 DEF Homes
        <5>5. Rightly(o, "restingLimit", e)'
          BY <2>1, <3>1, <4>2, <5>2 DEF Rightly
        <5> QED
          BY <2>2, <3>1, <3>3, <5>4, <5>5 DEF Located
      <4>8. CASE l = "takingLimit" /\ o \notin moved
        <5>1. ~IsRestingLimitOrder(o, e.order, s)
          BY <4>1, <4>2, <4>8 DEF moved, AtRest
        <5>2. GetNodeType(o, e.order, s) = l
          BY <2>4, <4>4, <4>8, <5>1 DEF GetNodeType, Plain, MustBeTriggered
        <5>3. \A m \in Lists : lists'[m][o] = lists[m][o]
          BY <2>3, <4>8
        <5>4. Homes(o)' = {l} /\ lists'[l][o] = e.order
          BY <4>1, <5>3 DEF Homes
        <5>5. Rightly(o, l, e)'
          BY <2>1, <3>1, <4>2, <5>2 DEF Rightly
        <5> QED
          BY <3>1, <3>3, <5>4, <5>5 DEF Located
      <4> QED
        BY <4>6, <4>7, <4>8
    <3> QED
      BY <3>2, <3>3
  <2> QED
    BY <2>1, <2>4 DEF AllLocated, Plain
<1> QED
  BY <1>1, <1>2 DEF UpdateRestingLimitOrders

LEMMA ReachedLater ==
  ASSUME IInv, ForwardInv, NEW s \in Nat, NEW t \in Nat, Reached(s), s <= t
  PROVE  Reached(t)
<1>1. maxSlot \in Nat
  BY DLOBAssumption DEF DLOBAssumption, IInv, BookInv
<1>2. \A o \in Orders : tracked[o] # None => tracked[o].order.slot \in Nat
  BY EntryType
<1>3. reading # None => ledger[reading.at].slot \in Nat
  BY WritesTyped DEF IInv, TodoInv
<1>4. \A i \in todo[Updater] : i.slot \in Nat
  BY DLOBAssumption DEF DLOBAssumption, IInv, TodoInv, Items, ItemOK, Processes
<1> QED
  BY <1>1, <1>2, <1>3, <1>4 DEF Reached

LEMMA ReachedSame ==
  ASSUME NEW s, Reached(s), UNCHANGED <<maxSlot, tracked, reading>>,
         reading # None => ledger'[reading.at] = ledger[reading.at],
         todo'[Updater] \subseteq todo[Updater]
  PROVE  Reached(s)'
BY DEF Reached

LEMMA OrderlyAfterChain ==
  ASSUME IInv, ForwardInv, OrderlyInv, ChainStep
  PROVE  OrderlyInv'
<1>1. PICK slot \in NextSlots, event \in Events, touched \in SUBSET Orders,
           chain \in [Orders -> Versions \cup {None}] : Write(slot, chain, event, touched)
  BY ChainAdvances DEF Advance
<1> DEFINE w == [slot |-> slot, chain |-> chain, event |-> event]
           at == Len(ledger) + 1
<1>2. /\ ledger \in Seq(Writes) /\ Len(ledger) \in Nat /\ DOMAIN ledger = 1..Len(ledger)
  BY LastWrite
<1>3. /\ ledger' = Append(ledger, w)
      /\ \A message \in accounts' : message \in accounts \/ message[2] = at
      /\ UNCHANGED <<start, tracked, lists, maxSlot, known, reading, todo>>
  BY <1>1 DEF Write, bookVars
<1>4. slot \in Nat /\ w \in Writes
  BY DLOBAssumption DEF DLOBAssumption, NextSlots, Slots, Writes
<1>5. w.slot = slot
  OBVIOUS
<1> HIDE DEF w
<1>6. /\ ledger' # <<>> /\ Len(ledger') = at /\ ledger'[at] = w
      /\ \A k \in DOMAIN ledger : k \in DOMAIN ledger' /\ ledger'[k] = ledger[k]
  BY <1>2, <1>3, <1>4
<1> HIDE DEF at
<1>7. LastSlot' = slot
  BY <1>5, <1>6 DEF LastSlot
<1>8. LastSlot \in Nat
  BY LastWrite, WritesTyped
<1>9. Reached(slot)
  <2>1. Reached(LastSlot)
    BY DEF OrderlyInv, NothingBehind
  <2>2. LastSlot <= slot
    BY <1>4, <1>8 DEF NextSlots
  <2> QED
    BY <1>4, <1>8, <2>1, <2>2, ReachedLater
<1>10. reading # None => reading.at \in DOMAIN ledger
  BY DEF IInv, TodoInv
<1>11. \A s : Reached(s) => Reached(s)'
  BY <1>3, <1>6, <1>10 DEF Reached
<1>12. NothingBehind'
  <2>1. Reached(LastSlot)'
    BY <1>7, <1>9, <1>11
  <2>2. \A message \in accounts' : Reached(ledger[message[2]].slot)'
    <3> SUFFICES ASSUME NEW message \in accounts' PROVE Reached(ledger[message[2]].slot)'
      OBVIOUS
    <3>1. CASE message \in accounts
      <4>1. message[2] \in DOMAIN ledger /\ Reached(ledger[message[2]].slot)
        BY <3>1 DEF IInv, ChainInv, OrderlyInv, NothingBehind
      <4> QED
        BY <1>6, <1>11, <4>1
    <3>2. CASE message[2] = at
      BY <1>5, <1>6, <1>9, <1>11, <3>2
    <3> QED
      BY <1>3, <3>1, <3>2
  <2>3. (reading # None => Reached(ledger[reading.at].slot))'
    BY <1>3, <1>6, <1>10, <1>11 DEF OrderlyInv, NothingBehind
  <2>4. (\A i \in todo[Updater] : Reached(i.slot))'
    BY <1>3, <1>11 DEF OrderlyInv, NothingBehind
  <2> QED
    BY <2>1, <2>2, <2>3, <2>4 DEF NothingBehind
<1>13. \A o, v, s : Written(o, v, s) => Written(o, v, s)'
  BY <1>6 DEF Written
<1>14. ReadingOK'
  BY <1>3, <1>6, <1>10, <1>13 DEF OrderlyInv, ReadingOK
<1>15. PlanOK'
  BY <1>3, <1>13 DEF OrderlyInv, PlanOK
<1>16. AllLocated'
  BY <1>3, LocatedSame DEF OrderlyInv, AllLocated, Plain
<1> QED
  BY <1>3, <1>12, <1>14, <1>15, <1>16 DEF OrderlyInv, UsersKnown, NewBefore, subscribed

LEMMA OrderlyAfterSubscribe ==
  ASSUME Tidy, IInv, ForwardInv, OrderlyInv, NEW slot \in 0..MaxSlot, Subscribe(slot)
  PROVE  OrderlyInv'
<1>1. /\ ~subscribed /\ start' = [at |-> Len(ledger), slot |-> slot]
      /\ slot >= LastSlot /\ accounts' = {}
      /\ tracked' = [o \in Orders |-> IF Chain[o] = None THEN None
                                      ELSE [order |-> Chain[o], slot |-> slot]]
      /\ lists' = [l \in Lists |-> [o \in Orders |->
                     IF Chain[o] # None /\ GetNodeType(o, Chain[o], slot) = l
                     THEN Chain[o] ELSE None]]
      /\ known' = {Owner[o] : o \in {x \in Orders : Chain[x] # None}}
      /\ UNCHANGED <<ledger, maxSlot, reading, todo>>
  BY DEF Subscribe
<1>2. /\ reading = None /\ todo[Updater] = {} /\ maxSlot = 0
  BY <1>1 DEF IInv, BookInv, QuietBefore, subscribed, OrderlyInv, NewBefore, Processes
<1>3. slot \in Nat /\ maxSlot <= slot
  BY <1>2, DLOBAssumption DEF DLOBAssumption
<1>4. Chain \in [Orders -> Versions \cup {None}]
  BY ChainTyped
<1>5. \A o \in Orders : tracked'[o] # None => Chain[o] # None /\ tracked'[o].order = Chain[o]
  BY <1>1
<1>11. subscribed'
  <2>1. start' \in Starts
    BY <1>1, LastWrite DEF Starts
  <2> QED
    BY <2>1, NoneAssumption DEF NoneAssumption, subscribed
<1>12. LastSlot \in Nat
  BY LastWrite, WritesTyped
<1>13. \A o \in Orders : Chain[o] # None => Written(o, Chain[o], LastSlot)
  <2> SUFFICES ASSUME NEW o \in Orders, Chain[o] # None PROVE Written(o, Chain[o], LastSlot)
    OBVIOUS
  <2>1. ledger # <<>>
    BY LastWrite
  <2> QED
    BY <1>12, <2>1, LastWrite DEF Written
<1>14. \A o \in Orders : Chain[o] # None =>
         Chain[o] \in Versions /\ Chain[o].slot \in Nat /\ Chain[o].slot <= LastSlot
  BY <1>4, <1>12, <1>13, SlotOfVersion
<1>6. NothingBehind'
  <2>1. LastSlot' = LastSlot
    BY <1>1 DEF LastSlot
  <2>2. maxSlot' <= LastSlot
    BY <1>1, <1>2, <1>12
  <2>4. \A o \in Orders : tracked'[o] # None => tracked'[o].order.slot <= LastSlot
    BY <1>5, <1>14
  <2>3. Reached(LastSlot)'
    BY <1>1, <1>2, <2>1, <2>2, <2>4 DEF Reached
  <2> QED
    BY <1>1, <1>2, <2>3 DEF NothingBehind
<1>7. ReadingOK' /\ PlanOK' /\ NewBefore'
  BY <1>1, <1>2, <1>11 DEF ReadingOK, PlanOK, NewBefore
<1>8. UsersKnown'
  BY <1>1, <1>5 DEF UsersKnown
<1>9. ASSUME NEW o \in Orders, Plain(o) PROVE Located(o)'
  <2>1. CASE Chain[o] = None
    BY <1>1, <2>1 DEF Located, Homes
  <2>2. CASE Chain[o] # None
    <3>2. Chain[o] \in Versions /\ Chain[o].slot <= slot
      BY <1>1, <1>3, <1>12, <1>14, <2>2
    <3>3. /\ tracked'[o] = [order |-> Chain[o], slot |-> slot]
          /\ \A l \in Lists : lists'[l][o] = IF l = GetNodeType(o, Chain[o], slot)
                                             THEN Chain[o] ELSE None
      BY <1>1, <2>2
    <3> QED
      BY <1>1, <1>3, <1>9, <3>2, <3>3, PutLocates
  <2> QED
    BY <2>1, <2>2
<1>10. AllLocated'
  BY <1>9 DEF AllLocated, Plain
<1> QED
  BY <1>6, <1>7, <1>8, <1>10 DEF OrderlyInv

LEMMA OrderlyAfterRead ==
  ASSUME Tidy, IInv, ForwardInv, OrderlyInv, NEW message \in accounts,
         ReadTracked(message[1], message[2])
  PROVE  OrderlyInv'
<1> DEFINE u == message[1]
           k == message[2]
           s == ledger[k].slot
           outdated == {Item("delete", 0, o, tracked[o].order, s, None) :
                    o \in {x \in Orders : /\ Owner[x] = u /\ tracked[x] # None
                                          /\ tracked[x].slot < s}}
<1>1. /\ todo[Updater] = {} /\ accounts' \subseteq accounts
      /\ \A other \in accounts : k <= other[2]
      /\ UNCHANGED <<ledger, start, tracked, lists, maxSlot, known, todo>>
  BY DEF ReadTracked, bookVars
<1>2. reading' = [user |-> u, at |-> k, exists |-> u \in known, outdated |-> outdated]
  BY DEF ReadTracked
<1>3. \A other \in accounts : other[2] \in DOMAIN ledger
  BY DEF IInv, ChainInv
<1>4. s \in Nat /\ Reached(s)
  BY <1>3, WritesTyped DEF OrderlyInv, NothingBehind
<1>5. \A d \in outdated : /\ d.o \in Orders /\ d.slot = s /\ Written(d.o, d.order, d.slot)
                          /\ tracked[d.o].slot <= s
  <2> SUFFICES ASSUME NEW o \in Orders, tracked[o] # None, tracked[o].slot < s
               PROVE  LET d == Item("delete", 0, o, tracked[o].order, s, None)
                      IN  /\ d.o \in Orders /\ d.slot = s /\ Written(d.o, d.order, d.slot)
                          /\ tracked[d.o].slot <= s
    OBVIOUS
  <2>1. tracked[o].slot <= s
    BY <1>4, EntryType
  <2>2. Written(o, tracked[o].order, s)
    BY <1>4, <2>1, TrackedWritten
  <2> HIDE DEF s
  <2> QED
    BY <2>1, <2>2 DEF Item
<1> HIDE DEF outdated
<1>6. /\ reading' # None => reading'.user = u /\ reading'.at = k
      /\ reading'.exists = (u \in known) /\ reading'.outdated = outdated
  BY <1>2
<1>7. ledger'[reading'.at].slot = s
  BY <1>1, <1>2
<1> HIDE DEF s
<1>8. \A t : Reached(t) /\ s <= t => Reached(t)'
  BY <1>1, <1>7 DEF Reached
<1>9. NothingBehind'
  <2>1. \A other \in accounts : s <= ledger[other[2]].slot
    BY <1>1, <1>3 DEF ForwardInv, SlotsGrow, s
  <2>2. s <= LastSlot /\ LastSlot' = LastSlot
    <3>1. ledger # <<>> /\ k <= Len(ledger)
      BY <1>3, LastWrite
    <3> QED
      BY <1>1, <1>3, <3>1, LastWrite DEF ForwardInv, SlotsGrow, s, LastSlot
  <2>3. Reached(LastSlot)'
    BY <1>8, <2>2 DEF OrderlyInv, NothingBehind
  <2>4. \A other \in accounts : Reached(ledger[other[2]].slot)'
    BY <1>1, <1>8, <2>1 DEF OrderlyInv, NothingBehind
  <2>5. Reached(ledger[reading.at].slot)'
    BY <1>4, <1>7, <1>8
  <2> QED
    BY <1>1, <2>3, <2>4, <2>5 DEF NothingBehind
<1>10. ReadingOK'
  <2>1. \A o, v, t : Written(o, v, t) => Written(o, v, t)'
    BY <1>1 DEF Written
  <2>2. \A o \in Orders : Owner[o] = u /\ tracked[o] # None => u \in known
    BY DEF OrderlyInv, UsersKnown
  <2> QED
    BY <1>1, <1>5, <1>6, <1>7, <2>1, <2>2 DEF ReadingOK
<1>11. PlanOK' /\ UsersKnown' /\ NewBefore'
  BY <1>1 DEF OrderlyInv, PlanOK, UsersKnown, NewBefore, subscribed
<1>12. AllLocated'
  BY <1>1, LocatedSame DEF OrderlyInv, AllLocated, Plain
<1> QED
  BY <1>9, <1>10, <1>11, <1>12 DEF OrderlyInv

LEMMA OrderlyAfterClassify ==
  ASSUME IInv, ForwardInv, OrderlyInv, ClassifySnapshot
  PROVE  OrderlyInv'
<1> DEFINE at == reading.at
           u == reading.user
           s == ledger[at].slot
           orders == ledger[at].chain
           outdated == reading.outdated
           exists == reading.exists
           present == {o \in Orders : Owner[o] = u /\ orders[o] # None}
           seen == {o \in present : exists /\ tracked[o] # None}
           newer == {o \in seen : tracked[o].slot < s}
           full == {o \in newer : orders[o].filled = Size[o]}
           inserts == {Item("insert", 0, o, orders[o], s, None) : o \in present \ seen}
           updates == {Item("update", 0, o, orders[o], s, None) : o \in newer \ full}
           kept == {d \in outdated : d.o \notin present \ full}
           deletes == {Item("delete", 0, o, orders[o], s, None) :
                         o \in {x \in full : \A d \in outdated : d.o # x}}
           rest == Item("rest", 0, None, None, s, None)
           others == updates \cup kept \cup deletes
           items == SnapshotItems(u, s, orders, exists, outdated)
<1>1. /\ reading # None /\ reading' = None /\ todo' = [todo EXCEPT ![Updater] = items]
      /\ UNCHANGED <<chainVars, start, bookVars, writer>>
  BY DEF ClassifySnapshot
<1>2. /\ at \in DOMAIN ledger /\ \A d \in outdated : d.op = "delete"
      /\ todo \in [Processes -> SUBSET Items]
  BY <1>1 DEF IInv, TodoInv
<1>3. /\ todo[Updater] = {}
      /\ \A o \in Orders : Owner[o] = u /\ tracked[o] # None => exists
      /\ \A d \in outdated : /\ d.slot = s /\ Written(d.o, d.order, s)
                             /\ tracked[d.o] # None => tracked[d.o].slot <= s
  BY <1>1 DEF OrderlyInv, ReadingOK
<1>4. s \in Nat /\ Reached(s) /\ \A o : Written(o, orders[o], s)
  BY <1>1, <1>2, WritesTyped DEF OrderlyInv, NothingBehind, Written
<1>5. /\ items \subseteq inserts \cup others \cup {rest}
      /\ others # {} => rest \in items
  <2>1. \A i \in others : i.op # "insert"
    BY <1>2 DEF Item
  <2>2. items = WithRest(inserts \cup others, s)
    BY DEF SnapshotItems
  <2> HIDE DEF inserts, others, items, s
  <2> QED
    BY <2>1, <2>2 DEF WithRest
<1>6. \A i \in items : i.slot = s
  <2>1. \A i \in inserts \cup updates \cup deletes \cup {rest} : i.slot = s
    <3> HIDE DEF s, orders, present, seen, newer, full, outdated
    <3> QED
      BY DEF Item
  <2> HIDE DEF inserts, updates, deletes, rest, items, s
  <2> QED
    BY <1>3, <1>5, <2>1
<1>7. \A i \in items : i.op # "rest" => Written(i.o, i.order, i.slot)
  <2>1. \A i \in inserts \cup updates \cup deletes : Written(i.o, i.order, i.slot)
    <3> HIDE DEF s, orders, present, seen, newer, full, outdated
    <3> QED
      BY <1>4 DEF Item
  <2>2. rest.op = "rest"
    BY DEF Item
  <2> HIDE DEF inserts, updates, deletes, rest, items
  <2> QED
    BY <1>3, <1>5, <2>1, <2>2
<1>8. \A i \in items : i.op = "insert" =>
        tracked[i.o] = None /\ i = Item("insert", 0, i.o, orders[i.o], s, None)
  <2>1. \A i \in inserts : tracked[i.o] = None /\ i = Item("insert", 0, i.o, orders[i.o], s, None)
    <3> HIDE DEF s, orders, outdated
    <3> QED
      BY <1>3 DEF Item
  <2>2. \A i \in others \cup {rest} : i.op # "insert"
    BY <1>2 DEF Item
  <2> HIDE DEF inserts, others, rest, items, s, orders
  <2> QED
    BY <1>5, <2>1, <2>2
<1>9. \A i \in items : i.op = "update" => i.filled = None
  <2>1. \A i \in inserts \cup kept \cup deletes \cup {rest} : i.op # "update"
    BY <1>2 DEF Item
  <2>2. \A i \in updates : i.filled = None
    BY DEF Item
  <2> HIDE DEF inserts, updates, kept, deletes, rest, items
  <2> QED
    BY <1>5, <2>1, <2>2
<1>17. \A i \in items : i.op = "delete" /\ tracked[i.o] # None => tracked[i.o].slot <= s
  <2>1. \A i \in inserts \cup updates \cup {rest} : i.op # "delete"
    BY DEF Item
  <2>2. \A i \in deletes : tracked[i.o].slot <= s
    <3> SUFFICES ASSUME NEW o \in full PROVE tracked[o].slot <= s
      BY DEF Item
    <3>1. o \in Orders /\ tracked[o] # None /\ tracked[o].slot < s
      OBVIOUS
    <3>2. tracked[o].slot \in Nat
      BY <3>1, EntryType
    <3> HIDE DEF s
    <3> QED
      BY <1>4, <3>1, <3>2
  <2> HIDE DEF inserts, updates, deletes, rest, items, s
  <2> QED
    BY <1>3, <1>5, <2>1, <2>2
<1>10. \A i \in items : i.op \in {"update", "delete"} => \E j \in items : j.op = "rest"
  <2>1. \A i \in inserts \cup {rest} : i.op \notin {"update", "delete"}
    BY DEF Item
  <2>2. rest.op = "rest"
    BY DEF Item
  <2> HIDE DEF inserts, others, rest, items
  <2> QED
    BY <1>5, <2>1, <2>2
<1> HIDE DEF items, s, orders
<1>11. todo'[Updater] = items
  BY <1>1, <1>2 DEF Processes
<1>12. \A t : Reached(t) => Reached(t)'
  <2>1. \A t : Reached(t) => s <= t
    BY <1>1 DEF Reached, s
  <2> QED
    BY <1>1, <1>6, <1>11, <2>1 DEF Reached, bookVars
<1>13. NothingBehind'
  <2>1. Reached(LastSlot)'
    BY <1>1, <1>12 DEF OrderlyInv, NothingBehind, LastSlot, chainVars
  <2>2. \A message \in accounts : Reached(ledger[message[2]].slot)'
    BY <1>1, <1>12 DEF OrderlyInv, NothingBehind, chainVars
  <2>3. \A i \in items : Reached(i.slot)
    BY <1>4, <1>6
  <2> QED
    BY <1>1, <1>11, <1>12, <2>1, <2>2, <2>3 DEF NothingBehind, chainVars
<1>14. PlanOK'
  <2>1. \A o, v, t : Written(o, v, t) => Written(o, v, t)'
    BY <1>1 DEF Written, chainVars
  <2> QED
    BY <1>1, <1>6, <1>7, <1>8, <1>9, <1>10, <1>11, <1>17, <2>1 DEF PlanOK, bookVars
<1>15. ReadingOK' /\ UsersKnown' /\ NewBefore'
  BY <1>1 DEF OrderlyInv, ReadingOK, UsersKnown, NewBefore, subscribed, bookVars
<1>16. AllLocated'
  BY <1>1, LocatedSame DEF OrderlyInv, AllLocated, Plain, bookVars
<1> QED
  BY <1>13, <1>14, <1>15, <1>16 DEF OrderlyInv

LEMMA RankOrder ==
  Rank("insert") = 1 /\ Rank("rest") = 2 /\ Rank("update") = 3 /\ Rank("delete") = 5
BY DEF Rank, Ops

\* What one item leaves behind, whatever its kind.
LEMMA ItemLeaves ==
  ASSUME IInv, NEW i, ItemOK(i),
         \/ i.op = "insert" /\ InsertOrder(i)
         \/ i.op = "rest" /\ UpdateRestingLimitOrders(i.slot) /\ UNCHANGED <<tracked, known>>
         \/ i.op = "update" /\ UpdateOrder(i)
         \/ i.op = "delete" /\ DeleteOrder(i)
  PROVE  /\ maxSlot' = maxSlot \/ (i.op = "rest" /\ maxSlot' = i.slot)
         /\ \A o \in Orders : tracked'[o] # None =>
              \/ tracked'[o] = tracked[o]
              \/ /\ o = i.o /\ tracked'[o].slot = i.slot /\ tracked'[o].order = i.order
                 /\ i.op \in {"insert", "update"}
                 /\ tracked[o] # None \/ i.op = "insert"
         /\ known \subseteq known' /\ (i.op = "insert" => Owner[i.o] \in known')
<1>1. maxSlot' = maxSlot \/ (i.op = "rest" /\ maxSlot' = i.slot)
  BY DEF InsertOrder, UpdateRestingLimitOrders, MoveResting, UpdateOrder, DeleteOrder
<1>2. known \subseteq known' /\ (i.op = "insert" => Owner[i.o] \in known')
  BY DEF InsertOrder, UpdateOrder, DeleteOrder
<1>3. ASSUME NEW o \in Orders, tracked'[o] # None
      PROVE  \/ tracked'[o] = tracked[o]
             \/ /\ o = i.o /\ tracked'[o].slot = i.slot /\ tracked'[o].order = i.order
                /\ i.op \in {"insert", "update"}
                /\ tracked[o] # None \/ i.op = "insert"
  <2>1. CASE UNCHANGED tracked
    BY <2>1
  <2>2. CASE Track(i) /\ i.op \in {"insert", "update"}
            /\ (i.op = "update" => tracked[i.o] # None)
    <3>1. tracked'[i.o] = [order |-> i.order, slot |-> i.slot]
          /\ (o # i.o => tracked'[o] = tracked[o])
      BY <2>2, TrackedAfter
    <3> QED
      BY <2>2, <3>1
  <2>3. CASE i.op = "delete" /\ DeleteOrder(i)
    <3>1. tracked' = [tracked EXCEPT ![i.o] = None]
      BY <2>3 DEF DeleteOrder
    <3>2. tracked'[o] = tracked[o]
      BY <1>3, <3>1 DEF IInv, BookInv
    <3> QED
      BY <3>2
  <2> QED
    BY <2>1, <2>2, <2>3 DEF InsertOrder, UpdateOrder, Updates
<1> QED
  BY <1>1, <1>2, <1>3

\* Nothing that waits for the move is applied before it.
LEMMA OrderlyAfterApply ==
  ASSUME Handlers = {}, IInv, ForwardInv, OrderlyInv, NEW p \in Processes, Apply(p)
  PROVE  OrderlyInv'
<1>1. p = Updater
  BY DEF Processes
<1>2. PICK i \in todo[Updater] :
        /\ \A j \in todo[Updater] : Rank(i.op) < Rank(j.op) \/ i.op = j.op
        /\ \/ i.op = "insert" /\ InsertOrder(i)
           \/ i.op = "rest" /\ UpdateRestingLimitOrders(i.slot) /\ UNCHANGED <<tracked, known>>
           \/ i.op = "update" /\ UpdateOrder(i)
           \/ i.op = "trigger" /\ TriggerOrder(i)
           \/ i.op = "delete" /\ DeleteOrder(i)
        /\ todo' = [todo EXCEPT ![Updater] = @ \ {i}]
        /\ UNCHANGED <<chainVars, start, reading>>
  BY <1>1 DEF Apply
<1>3. /\ ItemOK(i) /\ i.op # "trigger" /\ reading = None /\ start # None
      /\ todo \in [Processes -> SUBSET Items]
  BY <1>2 DEF IInv, TodoInv, BookInv, QuietBefore, subscribed, ForwardInv, SnapshotsOnly, OrderlyInv,
     ReadingOK, Processes
<1>4. todo'[Updater] = todo[Updater] \ {i} /\ ledger' = ledger /\ accounts' = accounts
  BY <1>1, <1>2, <1>3 DEF chainVars
<1>5. /\ maxSlot' = maxSlot \/ (i.op = "rest" /\ maxSlot' = i.slot)
      /\ \A o \in Orders : tracked'[o] # None =>
           \/ tracked'[o] = tracked[o]
           \/ /\ o = i.o /\ tracked'[o].slot = i.slot /\ tracked'[o].order = i.order
              /\ i.op \in {"insert", "update"}
              /\ tracked[o] # None \/ i.op = "insert"
      /\ known \subseteq known' /\ (i.op = "insert" => Owner[i.o] \in known')
  BY <1>2, <1>3, ItemLeaves
<1>6. Reached(i.slot) /\ i.slot \in 0..MaxSlot
  BY <1>3 DEF OrderlyInv, NothingBehind, ItemOK, Items
<1>7. \A j \in todo[Updater] : j.slot = i.slot
  <2> SUFFICES ASSUME NEW j \in todo[Updater] PROVE j.slot = i.slot
    OBVIOUS
  <2>1. i.slot <= j.slot /\ j.slot <= i.slot
    BY <1>2 DEF OrderlyInv, NothingBehind, Reached
  <2>2. i.slot \in Nat /\ j.slot \in Nat
    BY <1>1, <1>3, <1>6, DLOBAssumption DEF DLOBAssumption, Items
  <2> QED
    BY <2>1, <2>2
<1>8. /\ LastSlot \in Nat /\ \A j \in todo[Updater] : j.slot \in Nat
       /\ \A message \in accounts : ledger[message[2]].slot \in Nat
  <2>1. \A message \in accounts : message[2] \in DOMAIN ledger
    BY <1>2 DEF IInv, ChainInv
  <2>2. LastSlot \in Nat
    BY LastWrite, WritesTyped
  <2>3. \A message \in accounts : ledger[message[2]].slot \in Nat
    BY <2>1, WritesTyped
  <2> QED
    BY <1>6, <1>7, <2>2, <2>3, DLOBAssumption DEF DLOBAssumption
<1>9. \A t \in Nat : Reached(t) => Reached(t)'
  <2> SUFFICES ASSUME NEW t \in Nat, Reached(t) PROVE Reached(t)'
    OBVIOUS
  <2>1. i.slot <= t
    BY <1>2 DEF Reached
  <2>2. maxSlot' <= t
    BY <1>5, <2>1 DEF Reached
  <2>3. \A o \in Orders : tracked'[o] # None => tracked'[o].order.slot <= t
    <3> SUFFICES ASSUME NEW o \in Orders, tracked'[o] # None, tracked'[o] # tracked[o]
                 PROVE  tracked'[o].order.slot <= t
      BY DEF Reached
    <3>1. o = i.o /\ tracked'[o].order = i.order /\ i.op \in {"insert", "update"}
      BY <1>5
    <3>2. i.order \in Versions /\ Written(o, i.order, i.slot) /\ i.slot \in Nat
      BY <1>3, <1>6, <3>1, DLOBAssumption DEF DLOBAssumption, ItemOK
    <3>3. i.order.slot <= i.slot /\ i.order.slot \in Nat
      BY <3>2, SlotOfVersion
    <3>4. i.order.slot <= t
      BY <1>6, <2>1, <3>2, <3>3
    <3> QED
      BY <3>1, <3>4
  <2> QED
    BY <1>2, <1>3, <1>4, <2>2, <2>3 DEF Reached
<1>10. NothingBehind'
  <2>1. Reached(LastSlot)'
    BY <1>4, <1>8, <1>9 DEF OrderlyInv, NothingBehind, LastSlot
  <2>2. \A message \in accounts : Reached(ledger[message[2]].slot)'
    BY <1>4, <1>8, <1>9 DEF OrderlyInv, NothingBehind
  <2>3. \A j \in todo[Updater] : Reached(j.slot)'
    BY <1>8, <1>9 DEF OrderlyInv, NothingBehind
  <2> QED
    BY <1>2, <1>3, <1>4, <2>1, <2>2, <2>3 DEF NothingBehind
<1>11. PlanOK'
  <2> SUFFICES ASSUME NEW j \in todo[Updater], j # i
               PROVE  /\ j.op # "rest" => Written(j.o, j.order, j.slot)
                      /\ j.op = "insert" =>
                           /\ tracked'[j.o] = None
                           /\ \A h \in todo[Updater] : h.op = "insert" /\ h.o = j.o => h = j
                      /\ j.op = "update" => j.filled = None
                      /\ j.op = "delete" /\ tracked'[j.o] # None
                           => tracked'[j.o].slot <= j.slot
                      /\ j.op \in {"update", "delete"} =>
                           \/ maxSlot' = j.slot
                           \/ \E h \in todo[Updater] \ {i} : h.op = "rest"
    BY <1>4 DEF PlanOK, Written
  <2>1. ASSUME j.op = "insert" PROVE tracked'[j.o] = None
    <3>1. tracked[j.o] = None /\ j.o \in Orders
      BY <1>1, <2>1 DEF OrderlyInv, PlanOK, IInv, TodoInv, ItemOK
    <3>2. ~(i.op = "insert" /\ i.o = j.o)
      BY <1>2, <2>1 DEF OrderlyInv, PlanOK
    <3> QED
      BY <1>5, <3>1, <3>2
  <2>2. ASSUME j.op \in {"update", "delete"}
        PROVE  maxSlot' = j.slot \/ \E h \in todo[Updater] \ {i} : h.op = "rest"
    <3>1. CASE i.op = "rest"
      <4>1. maxSlot' = i.slot
        BY <1>2, <1>6, <3>1, RestLocates DEF OrderlyInv
      <4> QED
        BY <1>7, <4>1
    <3>2. CASE i.op # "rest"
      <4>1. maxSlot' = maxSlot
        BY <1>5, <3>2
      <4> QED
        BY <2>2, <3>2, <4>1 DEF OrderlyInv, PlanOK
    <3> QED
      BY <3>1, <3>2
  <2>3. ASSUME j.op = "delete", tracked'[j.o] # None PROVE tracked'[j.o].slot <= j.slot
    <3>1. j.o \in Orders /\ j.slot = i.slot /\ i.slot \in Nat
      BY <1>1, <1>6, <1>7, <2>3, DLOBAssumption DEF DLOBAssumption, IInv, TodoInv, ItemOK
    <3>2. CASE tracked'[j.o] = tracked[j.o]
      BY <2>3, <3>2 DEF OrderlyInv, PlanOK
    <3>3. CASE tracked'[j.o].slot = i.slot
      BY <3>1, <3>3
    <3> QED
      BY <1>5, <2>3, <3>1, <3>2, <3>3
  <2> QED
    BY <2>1, <2>2, <2>3 DEF OrderlyInv, PlanOK
<1>12. AllLocated'
  <2>1. i.op # "rest" => Written(i.o, i.order, i.slot)
    BY <1>2 DEF OrderlyInv, PlanOK
  <2>2. ASSUME i.op \in {"update", "delete"} PROVE maxSlot = i.slot
    <3>1. \A j \in todo[Updater] : j.op # "rest"
      BY <1>2, <2>2, RankOrder
    <3> QED
      BY <1>2, <2>2, <3>1 DEF OrderlyInv, PlanOK
  <2>3. CASE i.op = "insert" /\ InsertOrder(i)
    BY <1>2, <1>3, <1>6, <2>1, <2>3, InsertLocates DEF OrderlyInv, PlanOK
  <2>4. CASE i.op = "rest" /\ UpdateRestingLimitOrders(i.slot) /\ UNCHANGED tracked
    BY <1>6, <2>4, RestLocates DEF OrderlyInv
  <2>5. CASE i.op = "update" /\ UpdateOrder(i)
    BY <1>2, <1>3, <1>6, <2>1, <2>2, <2>5, UpdateLocates DEF OrderlyInv, PlanOK
  <2>6. CASE i.op = "delete" /\ DeleteOrder(i)
    BY <1>2, <1>3, <1>6, <2>1, <2>2, <2>6, DeleteLocates DEF OrderlyInv, PlanOK
  <2> QED
    BY <1>2, <1>3, <2>3, <2>4, <2>5, <2>6
<1>13. UsersKnown'
  BY <1>5 DEF OrderlyInv, UsersKnown
<1>14. ReadingOK' /\ NewBefore'
  BY <1>2, <1>3 DEF ReadingOK, NewBefore, subscribed
<1> QED
  BY <1>10, <1>11, <1>12, <1>13, <1>14 DEF OrderlyInv

LEMMA OrderlyInitially == Init => OrderlyInv
<1> SUFFICES ASSUME Init PROVE OrderlyInv
  OBVIOUS
<1>1. /\ accounts = {} /\ LastSlot = 0 /\ maxSlot = 0 /\ reading = None /\ todo[Updater] = {}
      /\ \A o \in Orders : tracked[o] = None
      /\ \A l \in Lists, o \in Orders : lists[l][o] = None
  BY DEF Init, LastSlot, Processes
<1>2. NothingBehind
  BY <1>1 DEF NothingBehind, Reached
<1>3. AllLocated
  BY <1>1 DEF AllLocated, Located, Homes
<1> QED
  BY <1>1, <1>2, <1>3 DEF OrderlyInv, ReadingOK, PlanOK, UsersKnown, NewBefore

LEMMA NextKeepsOrderly ==
  ASSUME InOrder, IInv, ForwardInv, OrderlyInv, [Next]_vars
  PROVE  OrderlyInv'
<1>1. Handlers = {} /\ Finders = {} /\ Tidy
  BY DEF InOrder
<1>2. CASE ChainStep
  BY <1>2, OrderlyAfterChain
<1>3. CASE \E slot \in 0..MaxSlot : Subscribe(slot)
  BY <1>1, <1>3, OrderlyAfterSubscribe
<1>4. CASE Receive
  <2>1. PICK message \in accounts : ReadTracked(message[1], message[2])
    BY <1>1, <1>4 DEF Receive
  <2> QED
    BY <1>1, <2>1, OrderlyAfterRead
<1>5. CASE ClassifySnapshot
  BY <1>5, OrderlyAfterClassify
<1>6. CASE \E p \in Processes : Apply(p)
  BY <1>1, <1>6, OrderlyAfterApply
<1>7. CASE UNCHANGED vars
  <2> USE <1>7 DEF vars, chainVars, bookVars
  <2>1. \A s : Reached(s) => Reached(s)'
    BY DEF Reached
  <2>2. NothingBehind'
    BY <2>1 DEF OrderlyInv, NothingBehind, LastSlot
  <2>3. ReadingOK' /\ PlanOK' /\ UsersKnown' /\ NewBefore'
    BY DEF OrderlyInv, ReadingOK, PlanOK, UsersKnown, NewBefore, subscribed, Written
  <2>4. AllLocated'
    BY LocatedSame DEF OrderlyInv, AllLocated, Plain
  <2> QED
    BY <2>2, <2>3, <2>4 DEF OrderlyInv
<1> QED
  BY <1>1, <1>2, <1>3, <1>4, <1>5, <1>6, <1>7 DEF Next

\* Fed by snapshots that arrive in order from when it was built, with no events
\* and no finder at work, every order without a trigger is in one list of the
\* book, with the content the map has, exactly while it is tracked: whatever slot
\* ahead of the accounts it was stamped with, and however many writes share one.
THEOREM OrdersInPlace ==
  ASSUME InOrder
  PROVE  Spec => []InPlace
<1>1. Handlers = {}
  BY DEF InOrder
<1>2. IInv /\ ForwardInv /\ [Next]_vars => ForwardInv'
  BY <1>1, NextGoesOn
<1>3. IInv /\ ForwardInv /\ OrderlyInv /\ [Next]_vars => OrderlyInv'
  BY NextKeepsOrderly
<1>4. OrderlyInv => InPlace
  BY DEF OrderlyInv, AllLocated, Located, Plain, InPlace
<1> QED
  BY <1>2, <1>3, <1>4, IInvHolds, ForwardInvInitially, OrderlyInitially, PTL DEF Spec
=============================================================================
