-------------------------------- MODULE DLOB --------------------------------
(***************************************************************************)
(* dlob/DLOB.go: the order book a program keeps of everybody's open        *)
(* orders.  It is fed by two streams that may run together: snapshots of   *)
(* user accounts (UpdateByUser) and decoded order events                   *)
(* (HandleOrderEvents).  Both classify what they received against the      *)
(* orders tracked at that moment and apply the outcome later, under the    *)
(* book's lock; finders, which share it, move orders between lists as      *)
(* slots pass.                                                             *)
(*                                                                         *)
(* A list is what NodeList proves it to be for its caller: a map from      *)
(* orders to the version it carries, in priority order.  Market and side   *)
(* of an order never change, so one set of lists stands for all of them.   *)
(* OpenOrders and UserSlotMap are written and never read, and left out.    *)
(*                                                                         *)
(* The ledger is the chain the orders live on, outside this repository:    *)
(* every write has a slot, the open orders after it and the event logged.  *)
(* A message in flight is a position in the ledger; a lost one stays there *)
(* for ever.                                                               *)
(***************************************************************************)
EXTENDS Integers, Sequences, FiniteSets

CONSTANTS
  Orders,      \* order signatures
  Owner,       \* Owner[o]: the user account of o
  Kind,        \* Kind[o]: what is fixed when the order is placed
  Size,        \* Size[o]: BaseAssetAmount
  MaxSlot,     \* bound on slots
  MaxWrites,   \* bound on the chain's writes
  Word,        \* 2^64 in the code: slots are subtracted unsigned
  Accounts,    \* TRUE unless disableChangeByUserOrderUpdate
  Handlers,    \* goroutines in HandleOrderEvents; none if disableHandleOrderRecord
  BatchMax,    \* bound on the events of one HandleOrderEvents call
  Finders,     \* callers of the book's Find... functions
  FindSlots,   \* slots they pass
  Tidy,        \* the messages arrive in the order of the writes
  Updater,     \* the goroutine in UpdateByUser, one at a time (subscriber's mxState)
  None

Kinds == [class: {"limit", "floating", "market"},
          trigger: {"no", "above", "below"},
          postOnly: BOOLEAN,
          duration: Nat]

ASSUME DLOBAssumption ==
  /\ Kind \in [Orders -> Kinds]
  /\ Size \in [Orders -> Nat \ {0}]
  /\ MaxSlot \in Nat /\ MaxWrites \in Nat /\ BatchMax \in Nat
  /\ FindSlots \subseteq 0..MaxSlot
  /\ Word \in Nat /\ Word > 2 * MaxSlot
  /\ Accounts \in BOOLEAN /\ Tidy \in BOOLEAN
  /\ Updater \notin Handlers /\ None \notin Handlers \cup {Updater}
  /\ None \notin Orders

VARIABLES
  ledger,      \* the chain's writes so far
  accounts,    \* snapshots in flight: <<user, position>>
  events,      \* events in flight: positions
  start,       \* what the book was built from: the writes the user map had
               \* seen and the slot it was stamped with; None before
  tracked,     \* UserOrderMap: the order and the slot it was learnt in
  lists,       \* OrderLists: lists[l][o] is the version the node of o carries
  maxSlot,     \* MaxSlotForRestingLimitOrders
  known,       \* users with an entry in UserOrderMap, possibly an empty one
  writer,      \* who holds the lock for writing
  reading,     \* what UpdateByUser has read in its first loop
  todo,        \* todo[p]: classified orders p has yet to apply
  asked,       \* asked[f]: the slot f will set maxSlot to, None otherwise
  due,         \* due[f]: nodesToUpdate, the nodes f has yet to move
  hand         \* hand[f]: the node f has removed and not yet inserted

chainVars == <<ledger, accounts, events>>
bookVars == <<tracked, lists, maxSlot, known>>
moveVars == <<asked, due, hand>>
vars == <<chainVars, start, bookVars, writer, reading, todo, moveVars>>

subscribed == start # None

Processes == Handlers \cup {Updater}
Users == {Owner[o] : o \in Orders}
Slots == 1..MaxSlot
Lists == {"restingLimit", "takingLimit", "floatingLimit", "market",
          "triggerAbove", "triggerBelow"}
\* What may change in an order: order.Slot restarts when it is triggered.
Versions == [filled: Nat, triggered: BOOLEAN, slot: Nat]
Entries == [order: Versions, slot: 0..MaxSlot]

Moves == [o: Orders, order: Versions]
Starts == [at: Nat, slot: 0..MaxSlot]

ASSUME NoneAssumption == None \notin Versions \cup Entries \cup Moves \cup Starts

-----------------------------------------------------------------------------
(* Where an order belongs.                                                 *)

IsTriggered(v) == v.triggered
MustBeTriggered(o) == Kind[o].trigger # "no"

\* The unsigned difference: a slot before the order's own is a huge distance.
IsAuctionComplete(o, v, slot) ==
  Kind[o].duration = 0 \/ (slot - v.slot) % Word > Kind[o].duration

IsRestingLimitOrder(o, v, slot) ==
  Kind[o].class # "market" /\ (Kind[o].postOnly \/ IsAuctionComplete(o, v, slot))

GetNodeType(o, v, slot) ==
  IF MustBeTriggered(o) /\ ~IsTriggered(v)
  THEN IF Kind[o].trigger = "below" THEN "triggerBelow" ELSE "triggerAbove"
  ELSE CASE Kind[o].class = "market"   -> "market"
         [] Kind[o].class = "floating" -> "floatingLimit"
         [] OTHER -> IF IsRestingLimitOrder(o, v, slot)
                     THEN "restingLimit" ELSE "takingLimit"

\* NodeList.Insert keeps a node that is there, Update needs one.
Inserted(ls, l, o, v) == [ls EXCEPT ![l][o] = IF @ = None THEN v ELSE @]
Updated(ls, l, o, v)  == [ls EXCEPT ![l][o] = IF @ = None THEN None ELSE v]
Removed(ls, l, o)     == [ls EXCEPT ![l][o] = None]

-----------------------------------------------------------------------------
(* The chain.                                                              *)

LastSlot == IF ledger = <<>> THEN 0 ELSE ledger[Len(ledger)].slot
Chain == IF ledger = <<>> THEN [o \in Orders |-> None] ELSE ledger[Len(ledger)].chain
Placed(o) == \E k \in DOMAIN ledger : ledger[k].event = [kind |-> "place", order |-> o]

\* Several writes may share a slot.
NextSlots == {slot \in Slots : slot >= LastSlot}

Write(slot, chain, event, touched) ==
  LET at == Len(ledger) + 1
  IN /\ at <= MaxWrites
     /\ ledger' = Append(ledger, [slot |-> slot, chain |-> chain, event |-> event])
     /\ accounts' = IF Accounts THEN accounts \cup {<<Owner[o], at>> : o \in touched}
                    ELSE accounts
     /\ events' = IF Handlers = {} THEN events ELSE events \cup {at}
     /\ UNCHANGED <<start, bookVars, writer, reading, todo, moveVars>>

Place(o, slot) ==
  /\ ~Placed(o)
  /\ Write(slot, [Chain EXCEPT ![o] = [filled |-> 0, triggered |-> FALSE, slot |-> slot]],
           [kind |-> "place", order |-> o], {o})

Trigger(o, slot) ==
  /\ Chain[o] # None /\ MustBeTriggered(o) /\ ~IsTriggered(Chain[o])
  /\ Write(slot, [Chain EXCEPT ![o].triggered = TRUE, ![o].slot = slot],
           [kind |-> "trigger", order |-> o], {o})

Cancel(o, slot) ==
  /\ Chain[o] # None
  /\ Write(slot, [Chain EXCEPT ![o] = None], [kind |-> "cancel", order |-> o], {o})

Fillable(o) == Chain[o] # None /\ (MustBeTriggered(o) => IsTriggered(Chain[o]))

\* A filled order leaves the account.
OneMore(o) == IF Chain[o].filled + 1 = Size[o] THEN None
              ELSE [Chain[o] EXCEPT !.filled = @ + 1]

\* A unit of the taker is filled, against a maker's order or the AMM.
Fill(taker, maker, slot) ==
  /\ Fillable(taker)
  /\ maker # None => Fillable(maker) /\ Owner[maker] # Owner[taker]
  /\ Write(slot, [o \in Orders |-> IF o \in {taker, maker} THEN OneMore(o) ELSE Chain[o]],
           [kind |-> "fill", taker |-> taker, takerFilled |-> Chain[taker].filled + 1,
            maker |-> maker,
            makerFilled |-> IF maker = None THEN 0 ELSE Chain[maker].filled + 1],
           {taker, maker} \ {None})

-----------------------------------------------------------------------------
(* Classification.                                                         *)

\* One order of a bulk; filled is BaseAmountFilled, None for nil.
Item(op, pos, o, order, slot, filled) ==
  [op |-> op, pos |-> pos, o |-> o, order |-> order, slot |-> slot, filled |-> filled]

Ops == <<"insert", "rest", "update", "trigger", "delete">>
Rank(op) == CHOOSE i \in DOMAIN Ops : Ops[i] = op

\* Mutant: the orders that came to rest are not moved first.
WithoutRest(items, slot) == items

\* UpdateRestingLimitOrders is called if anything but insertions follows.
WithRest(items, slot) ==
  IF \E i \in items : i.op # "insert"
  THEN items \cup {Item("rest", 0, None, None, slot, None)} ELSE items

FillItems(pos, o, slot, takerFilled, filled) ==
  IF tracked[o] = None \/ tracked[o].slot >= slot THEN {}
  ELSE IF Size[o] = takerFilled
       THEN {Item("delete", pos, o, tracked[o].order, slot, None)}
       ELSE {Item("update", pos, o, tracked[o].order, slot, filled)}

\* What one event of the batch, the pos-th, asks for.  Both sides of a fill
\* are compared with the taker's cumulative amount.
EventItems(k, pos) ==
  LET e == ledger[k].event
      slot == ledger[k].slot
  IN CASE e.kind = "place" ->
            LET v == ledger[k].chain[e.order]
            IN IF tracked[e.order] = None
               THEN {Item("insert", pos, e.order, v, slot, None)}
               ELSE IF tracked[e.order].slot < slot
                    THEN {Item("update", pos, e.order, v, slot, None)} ELSE {}
       [] e.kind = "trigger" ->
            IF /\ tracked[e.order] # None
               /\ tracked[e.order].slot <= slot
               /\ IsTriggered(tracked[e.order].order)
            THEN {Item("trigger", pos, e.order, tracked[e.order].order, slot, None)} ELSE {}
       [] e.kind = "cancel" ->
            IF tracked[e.order] # None
            THEN {Item("delete", pos, e.order, tracked[e.order].order, slot, None)} ELSE {}
       [] e.kind = "fill" ->
            FillItems(pos, e.taker, slot, e.takerFilled, e.takerFilled)
              \cup IF e.maker = None THEN {}
                   ELSE FillItems(pos + 1, e.maker, slot, e.takerFilled, e.makerFilled)

\* HandleOrderEvents up to the call of HandleBulkOrders: the read lock covers
\* the classification and is given back before the write lock is taken.
HandleOrderEvents(h, batch) ==
  LET taken == {batch[i] : i \in DOMAIN batch}
      newest == CHOOSE s \in {ledger[k].slot : k \in taken} :
                  \A k \in taken : ledger[k].slot <= s
  IN /\ subscribed
     /\ writer = None
     /\ todo[h] = {}
     /\ Cardinality(taken) = Len(batch)
     /\ Tidy => /\ \A i, j \in DOMAIN batch : i < j => batch[i] < batch[j]
                /\ \A k \in taken, l \in events \ taken : k < l
     /\ events' = events \ taken
     /\ todo' = [todo EXCEPT ![h] =
          WithRest(UNION {EventItems(batch[i], 2 * i) : i \in DOMAIN batch}, newest)]
     /\ UNCHANGED <<ledger, accounts, start, bookVars, writer, reading, moveVars>>

\* The first loop of UpdateByUser, over the orders tracked for the user.  No
\* lock is held until the end of the classification.
ReadTracked(u, k) ==
  /\ subscribed
  /\ reading = None
  /\ todo[Updater] = {}
  /\ Tidy => \A other \in accounts : k <= other[2]
  /\ accounts' = accounts \ {<<u, k>>}
  /\ reading' = [user |-> u, at |-> k, exists |-> u \in known,
                 outdated |-> {Item("delete", 0, o, tracked[o].order, ledger[k].slot, None) :
                    o \in {x \in Orders : /\ Owner[x] = u /\ tracked[x] # None
                                          /\ tracked[x].slot < ledger[k].slot}}]
  /\ UNCHANGED <<ledger, events, start, bookVars, writer, todo, moveVars>>

\* Mutant: a tracked order missing from the snapshot is kept.
SnapshotItemsNoDelete(u, slot, orders, exists, outdated) ==
  LET present == {o \in Orders : Owner[o] = u /\ orders[o] # None}
      seen == {o \in present : exists /\ tracked[o] # None}
  IN WithRest({Item("insert", 0, o, orders[o], slot, None) : o \in present \ seen}
       \cup {Item("update", 0, o, orders[o], slot, None) :
               o \in {x \in seen : tracked[x].slot < slot}}, slot)

\* The second loop: over the orders of the snapshot.
SnapshotItems(u, slot, orders, exists, outdated) ==
  LET present == {o \in Orders : Owner[o] = u /\ orders[o] # None}
      seen == {o \in present : exists /\ tracked[o] # None}
      newer == {o \in seen : tracked[o].slot < slot}
      full == {o \in newer : orders[o].filled = Size[o]}
  IN WithRest(
       {Item("insert", 0, o, orders[o], slot, None) : o \in present \ seen}
       \cup {Item("update", 0, o, orders[o], slot, None) : o \in newer \ full}
       \cup {d \in outdated : d.o \notin present \ full}
       \cup {Item("delete", 0, o, orders[o], slot, None) :
               o \in {x \in full : \A d \in outdated : d.o # x}}, slot)

ClassifySnapshot ==
  /\ reading # None
  /\ todo' = [todo EXCEPT ![Updater] =
       SnapshotItems(reading.user, ledger[reading.at].slot, ledger[reading.at].chain,
                     reading.exists, reading.outdated)]
  /\ reading' = None
  /\ UNCHANGED <<chainVars, start, bookVars, writer, moveVars>>

-----------------------------------------------------------------------------
(* Application, one item at a time while the lock is held.                 *)

\* Mutant: an order learnt later is overwritten.
UpdatesAnything(i) == tracked[i.o] # None

\* addUserOrderMap and updateUserOrderMap only accept a later slot.
Updates(i) == tracked[i.o] # None /\ tracked[i.o].slot < i.slot

\* GetListForOrder
ListOf(i) == GetNodeType(i.o, i.order, i.slot)

\* Mutant: the slot of the entry is left as it was.
TrackKeepsSlot(i) ==
  tracked' = [tracked EXCEPT ![i.o] =
                [order |-> i.order, slot |-> IF @ = None THEN i.slot ELSE @.slot]]

Track(i) == tracked' = [tracked EXCEPT ![i.o] = [order |-> i.order, slot |-> i.slot]]

\* Mutant: the entry is filed under the order's signature, not its user.
InsertOrderBySignature(i) ==
  /\ IF tracked[i.o] = None \/ Updates(i) THEN Track(i) ELSE UNCHANGED tracked
  /\ lists' = Inserted(lists, ListOf(i), i.o, i.order)
  /\ known' = known \cup {i.o}
  /\ UNCHANGED maxSlot

InsertOrder(i) ==
  /\ IF tracked[i.o] = None \/ Updates(i) THEN Track(i) ELSE UNCHANGED tracked
  /\ lists' = Inserted(lists, ListOf(i), i.o, i.order)
  /\ known' = known \cup {Owner[i.o]}
  /\ UNCHANGED maxSlot

\* The taking orders whose auction is complete.
AtRest(slot) ==
  {o \in Orders : /\ lists["takingLimit"][o] # None
                  /\ IsRestingLimitOrder(o, lists["takingLimit"][o], slot)}

\* They move to the resting list.
MoveResting(slot) ==
  LET taking == lists["takingLimit"]
  IN /\ slot > maxSlot
     /\ lists' = [lists EXCEPT
          !["takingLimit"] = [o \in Orders |-> IF o \in AtRest(slot) THEN None ELSE @[o]],
          !["restingLimit"] = [o \in Orders |-> IF o \in AtRest(slot) /\ @[o] = None
                                                THEN taking[o] ELSE @[o]]]
     /\ maxSlot' = slot

UpdateRestingLimitOrders(slot) ==
  \/ MoveResting(slot)
  \/ slot <= maxSlot /\ UNCHANGED <<lists, maxSlot>>

UpdateOrder(i) ==
  /\ IF Updates(i) THEN Track(i) ELSE UNCHANGED tracked
  /\ lists' = IF Updates(i) /\ (i.filled = None \/ i.order.filled # i.filled)
              THEN Updated(lists, ListOf(i), i.o, i.order) ELSE lists
  /\ UNCHANGED <<maxSlot, known>>

\* Mutant: the triggered order is not inserted again.
TriggerOrderLost(i) ==
  /\ lists' = Removed(lists, "triggerBelow", i.o)
  /\ UNCHANGED <<tracked, maxSlot, known>>

\* The order carries the condition it was triggered with, which is neither
\* Above nor Below: its node is looked for in the list of the latter.
TriggerOrder(i) ==
  LET from == IF Kind[i.o].trigger = "above" /\ ~IsTriggered(i.order)
              THEN "triggerAbove" ELSE "triggerBelow"
  IN /\ IF Updates(i) THEN Track(i) ELSE UNCHANGED tracked
     /\ lists' = Inserted(Removed(lists, from, i.o), ListOf(i), i.o, i.order)
     /\ UNCHANGED <<maxSlot, known>>

\* Mutant: the node stays when the order is no longer tracked.
DeleteOrderOnly(i) ==
  /\ tracked' = [tracked EXCEPT ![i.o] = None]
  /\ UNCHANGED <<lists, maxSlot, known>>

DeleteOrder(i) ==
  /\ tracked' = [tracked EXCEPT ![i.o] = None]
  /\ lists' = Removed(lists, ListOf(i), i.o)
  /\ UNCHANGED <<maxSlot, known>>

\* f moves nothing; it may be in a search or not.
Idle(f) == asked[f] = None /\ due[f] = {} /\ hand[f] = None

\* HandleBulkOrders, and UpdateByUser once it holds the lock.
Apply(p) ==
  /\ todo[p] # {}
  /\ writer \in {None, p}
  /\ \A f \in Finders : Idle(f)
  /\ \E i \in todo[p] :
       /\ \A j \in todo[p] : \/ Rank(i.op) < Rank(j.op)
                             \/ i.op = j.op /\ i.pos <= j.pos
       /\ \/ i.op = "insert" /\ InsertOrder(i)
          \/ i.op = "rest" /\ UpdateRestingLimitOrders(i.slot) /\ UNCHANGED <<tracked, known>>
          \/ i.op = "update" /\ UpdateOrder(i)
          \/ i.op = "trigger" /\ TriggerOrder(i)
          \/ i.op = "delete" /\ DeleteOrder(i)
       /\ todo' = [todo EXCEPT ![p] = @ \ {i}]
       /\ writer' = IF todo[p] = {i} THEN None ELSE p
  /\ UNCHANGED <<chainVars, start, reading, moveVars>>

\* A finder holds the read lock, which others hold with it, and yet moves the
\* orders that came to rest: it finds its slot to be the latest, ...
Find(f, slot) ==
  /\ subscribed
  /\ writer = None
  /\ Idle(f)
  /\ slot > maxSlot
  /\ asked' = [asked EXCEPT ![f] = slot]
  /\ UNCHANGED <<chainVars, start, bookVars, writer, reading, todo, due, hand>>

\* ... stores it and collects the nodes, if it meets them: another may be
\* removing nodes from the list it walks, ...
Collect(f) ==
  LET alone == \A g \in Finders \ {f} : due[g] = {} /\ hand[g] = None
      met == {[o |-> o, order |-> lists["takingLimit"][o]] : o \in AtRest(asked[f])}
  IN /\ asked[f] # None
     /\ maxSlot' = asked[f]
     /\ \E nodes \in IF alone THEN {met} ELSE SUBSET met : due' = [due EXCEPT ![f] = nodes]
     /\ asked' = [asked EXCEPT ![f] = None]
     /\ UNCHANGED <<chainVars, start, tracked, lists, known, writer, reading, todo, hand>>

\* ... removes one of them, which is then in no list, ...
RemoveDue(f) ==
  /\ hand[f] = None
  /\ \E d \in due[f] :
       /\ lists' = Removed(lists, "takingLimit", d.o)
       /\ hand' = [hand EXCEPT ![f] = d]
       /\ due' = [due EXCEPT ![f] = @ \ {d}]
  /\ UNCHANGED <<chainVars, start, tracked, maxSlot, known, writer, reading, todo, asked>>

\* Mutant: the node is left to another finder that is about to move orders, too.
InsertLeft(f) ==
  /\ hand[f] # None
  /\ lists' = IF \E g \in Finders \ {f} : asked[g] # None THEN lists
              ELSE Inserted(lists, "restingLimit", hand[f].o, hand[f].order)
  /\ hand' = [hand EXCEPT ![f] = None]
  /\ UNCHANGED <<chainVars, start, tracked, maxSlot, known, writer, reading, todo, asked, due>>

\* ... and inserts it before it turns to the next.
InsertDue(f) ==
  /\ hand[f] # None
  /\ lists' = Inserted(lists, "restingLimit", hand[f].o, hand[f].order)
  /\ hand' = [hand EXCEPT ![f] = None]
  /\ UNCHANGED <<chainVars, start, tracked, maxSlot, known, writer, reading, todo, asked, due>>

\* InitFromUserMap: what the user map holds is stamped with the slot source's
\* slot, which runs ahead of the accounts.  Messages emitted before had nobody
\* to listen; one still in flight may come later, or never.  If they come in
\* order, the user map passes over what it has seen and announces the rest.
Subscribe(slot) ==
  /\ ~subscribed
  /\ slot >= LastSlot
  /\ start' = [at |-> Len(ledger), slot |-> slot]
  /\ tracked' = [o \in Orders |-> IF Chain[o] = None THEN None
                                  ELSE [order |-> Chain[o], slot |-> slot]]
  /\ lists' = [l \in Lists |-> [o \in Orders |->
                 IF Chain[o] # None /\ GetNodeType(o, Chain[o], slot) = l
                 THEN Chain[o] ELSE None]]
  /\ known' = {Owner[o] : o \in {x \in Orders : Chain[x] # None}}
  /\ IF Tidy THEN accounts' = {} /\ events' = {} ELSE UNCHANGED <<accounts, events>>
  /\ UNCHANGED <<ledger, maxSlot, writer, reading, todo, moveVars>>

-----------------------------------------------------------------------------
Init ==
  /\ ledger = <<>> /\ accounts = {} /\ events = {}
  /\ start = None
  /\ tracked = [o \in Orders |-> None]
  /\ lists = [l \in Lists |-> [o \in Orders |-> None]]
  /\ maxSlot = 0
  /\ known = {}
  /\ writer = None
  /\ reading = None
  /\ todo = [p \in Processes |-> {}]
  /\ asked = [f \in Finders |-> None]
  /\ due = [f \in Finders |-> {}]
  /\ hand = [f \in Finders |-> None]

ChainStep ==
  \E slot \in NextSlots :
    \/ \E o \in Orders : Place(o, slot)
    \/ \E o \in Orders : Trigger(o, slot)
    \/ \E o \in Orders : Cancel(o, slot)
    \/ \E taker \in Orders, maker \in Orders \cup {None} :
          taker # maker /\ Fill(taker, maker, slot)

Receive ==
  \/ \E h \in Handlers, n \in 1..BatchMax : \E batch \in [1..n -> events] : HandleOrderEvents(h, batch)
  \/ \E message \in accounts : ReadTracked(message[1], message[2])

Move(f) ==
  \/ \E slot \in FindSlots : Find(f, slot)
  \/ Collect(f)
  \/ RemoveDue(f)
  \/ InsertDue(f)

Next ==
  \/ ChainStep
  \/ \E slot \in 0..MaxSlot : Subscribe(slot)
  \/ Receive
  \/ ClassifySnapshot
  \/ \E p \in Processes : Apply(p)
  \/ \E f \in Finders : Move(f)

\* The stream delivers, callbacks run to their end: nothing makes the chain
\* write or a finder search.
Spec == Init /\ [][Next]_vars
FairSpec ==
  /\ Spec
  /\ WF_vars(\E slot \in 0..MaxSlot : Subscribe(slot))
  /\ WF_vars(Receive) /\ WF_vars(ClassifySnapshot)
  /\ \A p \in Processes : WF_vars(Apply(p))

-----------------------------------------------------------------------------
\* The maps hold orders and slots the chain has written, the lock has at most
\* one writer, and UserOrderMap has no key that is not a user account.
TypeOK ==
  /\ \A o \in Orders : tracked[o] # None => /\ tracked[o].order \in Versions
                                            /\ tracked[o].slot \in 0..MaxSlot
  /\ \A l \in Lists, o \in Orders : lists[l][o] # None => lists[l][o] \in Versions
  /\ maxSlot \in 0..MaxSlot
  /\ known \subseteq Users
  /\ writer \in Processes \cup {None}
  /\ \A p \in Processes : \A i \in todo[p] : i.op \in {Ops[n] : n \in DOMAIN Ops}
  /\ start \in Starts \cup {None}
  /\ \A f \in Finders : /\ asked[f] \in FindSlots \cup {None}
                        /\ due[f] \subseteq Moves /\ hand[f] \in Moves \cup {None}

\* A tracked order has a node in some list, or a finder has it in hand: whatever
\* the two streams do to the map and the finders to each other's lists, an order
\* is missing from the lists no longer than its move takes.
TrackedIsListed ==
  \A o \in Orders : tracked[o] # None =>
    \/ \E l \in Lists : lists[l][o] # None
    \/ \E f \in Finders : hand[f] # None /\ hand[f].o = o

Homes(o) == {l \in Lists : lists[l][o] # None}

\* Orders that never change lists: no trigger, and a resting or a taking
\* nature that does not depend on the slot.
Static(o) == Kind[o].trigger = "no" /\ (\/ Kind[o].class \in {"market", "floating"}
                                        \/ Kind[o].postOnly
                                        \/ Kind[o].duration = 0)
Home(o) == CASE Kind[o].class = "market"   -> "market"
             [] Kind[o].class = "floating" -> "floatingLimit"
             [] OTHER                      -> "restingLimit"

\* Such an order is in its list exactly while it is tracked: a query sees no
\* order that is gone, and misses none that is there.
StaticInPlace ==
  \A o \in Orders :
    Static(o) => Homes(o) = IF tracked[o] = None THEN {} ELSE {Home(o)}

\* An entry is not stamped earlier than the version it holds was written: the
\* slot guards, which compare stamps, do not mistake new content for old.
StampCoversContent ==
  \A o \in Orders : tracked[o] # None =>
    \E k \in DOMAIN ledger : /\ ledger[k].chain[o] = tracked[o].order
                             /\ ledger[k].slot <= tracked[o].slot

\* While an order stays tracked its stamp does not go back, whichever stream
\* classified first and applied last.
SlotNeverRegresses ==
  [][\A o \in Orders : tracked[o] # None /\ tracked'[o] # None
                          => tracked[o].slot <= tracked'[o].slot]_vars

\* Fed by snapshots alone, in any order, an order that stays tracked never
\* loses a fill it was seen to have.
FilledNeverRegresses ==
  [][\A o \in Orders : tracked[o] # None /\ tracked'[o] # None
                          => tracked[o].order.filled <= tracked'[o].order.filled]_vars

\* Fed by snapshots in order, while no finder moves anything, every order without
\* a trigger is in one list while it is tracked, with the content the map has, and
\* in none afterwards.
InPlace ==
  \A o \in Orders : Kind[o].trigger = "no" =>
    IF tracked[o] = None THEN Homes(o) = {}
    ELSE \E l \in Lists : Homes(o) = {l} /\ lists[l][o] = tracked[o].order

\* The writes to u's account since the book was built.
News(u) ==
  {k \in DOMAIN ledger :
     LET e == ledger[k].event
     IN /\ k > start.at
        /\ IF e.kind = "fill" THEN \E o \in {e.taker, e.maker} \ {None} : Owner[o] = u
                              ELSE Owner[e.order] = u}

\* The last of them is later than the book's stamp and than the others: a
\* snapshot is not looked at below the stamp of what is tracked, nor in its slot.
Covered(u) ==
  \/ News(u) = {}
  \/ \E k \in News(u) : /\ ledger[k].slot > start.slot
                         /\ \A j \in News(u) \ {k} : j < k /\ ledger[j].slot < ledger[k].slot

Mirrored(o) == IF Chain[o] = None THEN tracked[o] = None
               ELSE tracked[o] # None /\ tracked[o].order = Chain[o]

\* Fed by snapshots in order, the book ends up with the orders a user has on the
\* chain, if the last write to the account shows in its slot.
EventuallyMirrored == <>[](subscribed /\ \A o \in Orders : Covered(Owner[o]) => Mirrored(o))
=============================================================================
