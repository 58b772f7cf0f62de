------------------------------ MODULE Matching ------------------------------
(***************************************************************************)
(* FindNodesToFill of dlob/DLOB.go: which orders of one market a filler    *)
(* can match, with each other or with the AMM.  A search holds the book's  *)
(* read lock only, yet it records the fills it simulates in the nodes, so  *)
(* that a later pair starts from what is left; searches of several callers *)
(* interleave, updates from the chain do not.                              *)
(*                                                                         *)
(* Every loop runs over a Generator whose producer, a goroutine, merges    *)
(* two lists ahead of the consumer.                                        *)
(*                                                                         *)
(* A search whose slot is the highest so far first moves the orders that   *)
(* came to rest, node by node, while the others read and write the same    *)
(* lists: they may hold a node that is gone, walk past one that comes, and *)
(* miss the order they write to.  Two that meet in a list's Go map while   *)
(* one of them changes it end the program.                                 *)
(***************************************************************************)
EXTENDS Integers, Sequences, FiniteSetsExt

CONSTANTS
  Orders,       \* the orders of the market
  Books,        \* the books considered: functions from Orders to Order
  Finders,      \* callers of FindNodesToFill
  SearchSlots,  \* the slots they pass
  Fresh,        \* TRUE: no search passes a slot below MaxSlotForRestingLimitOrders
  Spot,         \* marketType = MarketType_Spot
  FallbackBid,  \* the AMM's quotes, None for nil or a paused AMM, ...
  FallbackAsk,
  BidBuffered,  \* ... and less the maker's rebate
  AskBuffered,
  MinDuration,  \* minAuctionDuration
  Word,         \* 2^64 in the code: slots are subtracted unsigned
  Ahead,        \* values a producer is ahead: one in the channel, one in hand
  None

Lists == {"restingLimit", "takingLimit", "floatingLimit", "market"}

\* price is GetPrice at the search: None if there is no limit; key is
\* order.Price, zero for an order that floats with the oracle.
Order == [user: Nat, side: {"bid", "ask"}, class: {"limit", "floating", "market"},
          key: Nat, price: Nat \cup {None}, slot: Nat, duration: Nat,
          postOnly: BOOLEAN, size: Nat \ {0}]

ASSUME MatchingAssumption ==
  /\ IsFiniteSet(Orders)
  /\ Books \subseteq [Orders -> Order]
  /\ SearchSlots \subseteq Nat
  /\ Fresh \in BOOLEAN /\ Spot \in BOOLEAN
  /\ {FallbackBid, FallbackAsk, BidBuffered, AskBuffered} \subseteq Nat \cup {None}
  /\ MinDuration \in Nat /\ Word \in Nat \ {0} /\ Ahead \in Nat \ {0}
  /\ None \notin Orders \cup Nat /\ None \notin Lists

VARIABLES
  book,       \* what does not change of an order
  confirmed,  \* confirmed[o]: the amount filled that the chain last told
  filled,     \* filled[o]: BaseAssetAmountFilled of the order its node carries
  maxSlot,    \* MaxSlotForRestingLimitOrders
  place,      \* place[o]: the list that has o's node, None while it is moved
  due,        \* due[f]: nodesToUpdate, the orders f has yet to move
  hand,       \* hand[f]: the order f has removed and not yet inserted
  gone,       \* gone[f][o]: the amount the node of o carried when another
              \* search removed it from a list f walks, None if none did
  loose,      \* loose[f]: another search has changed a list f walks
  ended,      \* Go's runtime has ended the program
  phase,      \* phase[f]: the part of FindNodesToFill f is in
  slot,       \* slot[f]: the slot it was called with
  outer,      \* outer[f]: the generator of the outer loop
  current,    \* current[f]: the order the outer loop is at
  inner,      \* inner[f]: the generator of the inner loop
  writes,     \* writes[f]: the updates of a match that are not done yet
  found,      \* found[f]: the matches so far, with the base amount simulated
  offered     \* offered[f]: the orders to be filled by the AMM

moveVars == <<place, due, hand, gone, loose, ended>>
vars == <<book, confirmed, filled, maxSlot, moveVars, phase, slot, outer, current,
          inner, writes, found, offered>>

Phases == <<"crossing", "restingAsksFallback", "restingBidsFallback", "takingAsks",
            "takingAsksFallback", "takingBids", "takingBidsFallback", "return">>
Looping == {"crossing", "takingAsks", "takingBids"}
After(p) == LET i == CHOOSE j \in DOMAIN Phases : Phases[j] = p
            IN IF i = Len(Phases) THEN "idle" ELSE Phases[i + 1]

-----------------------------------------------------------------------------
(* The lists.                                                              *)

Past(o, s, duration) == duration = 0 \/ (s - book[o].slot) % Word > duration
IsAuctionComplete(o, s) == Past(o, s, book[o].duration)
IsRestingLimitOrder(o, s) ==
  book[o].class = "limit" /\ (book[o].postOnly \/ IsAuctionComplete(o, s))

GetNodeType(o, s) ==
  CASE book[o].class = "market"   -> "market"
    [] book[o].class = "floating" -> "floatingLimit"
    [] OTHER -> IF IsRestingLimitOrder(o, s) THEN "restingLimit" ELSE "takingLimit"

\* AddOrderList creates every list as one of resting orders: GetSortValue is
\* the price in all of them.  Only resting and floating bids descend.
CreatedAs(list) == "restingLimit"
SortValue(list, o) ==
  IF CreatedAs(list) \in {"market", "takingLimit"} THEN book[o].slot ELSE book[o].key
\* Mutant: the bids, too, are sorted from the cheapest.
NeverDescending(list, side) == FALSE
Descending(list, side) == side = "bid" /\ list \in {"restingLimit", "floatingLimit"}

Precedes(list, a, b) ==
  IF SortValue(list, a) # SortValue(list, b)
  THEN IF Descending(list, book[a].side) THEN SortValue(list, a) > SortValue(list, b)
                                         ELSE SortValue(list, a) < SortValue(list, b)
  ELSE book[a].slot < book[b].slot

IsBaseFilled(o) == filled[o] = book[o].size
\* Mutant: filled orders are not passed over.
EvenFilled == Orders
Unfilled == {o \in Orders : ~IsBaseFilled(o)}

Listed(lists, side) == {o \in Orders : book[o].side = side /\ place[o] \in lists}
Taking(side) == Listed({"market", "takingLimit"}, side)
Resting(side) == Listed({"restingLimit", "floatingLimit"}, side)

\* A walk may meet a node that is in the list no more, with the amount it
\* carried when it was removed.
TakingOf(f, side) ==
  Taking(side) \cup {o \in Orders : book[o].side = side /\ gone[f][o] # None}
Carried(f, o) == IF gone[f][o] # None THEN gone[f][o] ELSE filled[o]

-----------------------------------------------------------------------------
(* Generators: GetBestNode over two lists.                                 *)

\* what the producer has passed, and what it has put by for the consumer
NewGenerator == [passed |-> {}, ready |-> <<>>]

\* The heads of the two lists that are not passed yet: any of several that came
\* to the same place of a list, since orders that are moved are inserted again.
Heads(members, passed) ==
  {o \in members \ passed :
     \A x \in members \ passed : place[x] = place[o] => ~Precedes(place[o], x, o)}

\* compareFn: a is the head of the first list, b of the second; on a tie the
\* second is taken.
Better(a, b) ==
  IF a \in Taking(book[a].side) THEN book[a].slot < book[b].slot
  ELSE IF book[a].side = "ask" THEN book[a].price < book[b].price
       ELSE book[a].price > book[b].price

Best(heads) ==
  {o \in heads :
     LET others == {x \in heads : place[x] # place[o]}
     IN others = {} \/ \E x \in others :
          IF place[o] \in {"market", "restingLimit"} THEN Better(o, x) ELSE ~Better(x, o)}

\* Mutant: filled orders are yielded like the others.
YieldAll(g, o, amount) == [passed |-> g.passed \cup {o}, ready |-> Append(g.ready, o)]

\* One round of the producer: a filled order is passed over.
Yield(g, o, amount) ==
  [passed |-> g.passed \cup {o},
   ready |-> IF amount = book[o].size THEN g.ready ELSE Append(g.ready, o)]

\* What a producer may take next: nothing while it is ahead enough.  A list that
\* changes under the walk keeps its order, but what the walk meets of it is open.
Produces(g, members, anywhere) ==
  {o \in IF anywhere THEN members \ g.passed ELSE Best(Heads(members, g.passed)) :
     Len(g.ready) < Ahead}
\* Mutant: the producer does not close the channel.
NeverClosed(g, members, anywhere) == FALSE
Exhausted(g, members, anywhere) == (anywhere \/ members \subseteq g.passed) /\ g.ready = <<>>

OuterMembers(f) == CASE phase[f] = "crossing"   -> Resting("ask")
                     [] phase[f] = "takingAsks" -> TakingOf(f, "ask")
                     [] OTHER                   -> TakingOf(f, "bid")
\* The makers of taking bids, too, are taken from the resting bids.
InnerMembers == Resting("bid")

-----------------------------------------------------------------------------
(* The conditions of the loops.                                            *)

\* Mutant: what is filled already is not subtracted.
WholeSize(o, amount) == book[o].size
Remaining(o, amount) == book[o].size - amount
\* Mutant: the simulated fill replaces the earlier ones.
NewAmountOnly(amount, base) == base
NewAmount(amount, base) == amount + base
SameUser(a, b) == book[a].user = book[b].user

\* The spot market only looks at makers that beat the AMM.
Crosses(p, taker, maker) ==
  LET limit == book[taker].price
      price == book[maker].price
  IN CASE p = "crossing"   -> price >= limit
       [] p = "takingAsks" ->
            /\ Spot => limit # None /\ (FallbackBid # None => price >= FallbackBid)
            /\ limit # None => limit <= price
       [] p = "takingBids" ->
            /\ Spot => limit # None /\ (FallbackAsk # None => price <= FallbackAsk)
            /\ limit # None => limit >= price

\* Mutant: the younger order takes, post-only or not.
DetermineByAge(ask, bid) ==
  IF book[ask].slot + book[ask].duration > book[bid].slot + book[bid].duration
  THEN {[node |-> ask, maker |-> bid]} ELSE {[node |-> bid, maker |-> ask]}

\* DetermineMakerAndTaker: a post-only order makes, else the one whose
\* auction ended first.
DetermineMakerAndTaker(ask, bid) ==
  LET done(o) == book[o].slot + book[o].duration
  IN IF book[bid].postOnly /\ book[ask].postOnly THEN {}
     ELSE IF book[bid].postOnly \/ (~book[ask].postOnly /\ done(ask) > done(bid))
          THEN {[node |-> ask, maker |-> bid]}
          ELSE {[node |-> bid, maker |-> ask]}

\* The pair a match reports; none if the two cannot be matched.
Pairs(p, taker, maker) ==
  IF SameUser(taker, maker) THEN {}
  ELSE IF p = "crossing" THEN DetermineMakerAndTaker(taker, maker)
       ELSE {[node |-> taker, maker |-> maker]}

\* The crossing loop compares prices first, the others users.
Stops(p, taker, maker) ==
  (p = "crossing" \/ ~SameUser(taker, maker)) /\ ~Crosses(p, taker, maker)

-----------------------------------------------------------------------------
Init ==
  /\ book \in Books
  /\ confirmed = [o \in Orders |-> 0]
  /\ filled = [o \in Orders |-> 0]
  /\ maxSlot = 0
  /\ place = [o \in Orders |-> GetNodeType(o, book[o].slot)]
  /\ due = [f \in Finders |-> {}]
  /\ hand = [f \in Finders |-> None]
  /\ gone = [f \in Finders |-> [o \in Orders |-> None]]
  /\ loose = [f \in Finders |-> FALSE]
  /\ ended = FALSE
  /\ phase = [f \in Finders |-> "idle"]
  /\ slot = [f \in Finders |-> 0]
  /\ outer = [f \in Finders |-> NewGenerator]
  /\ current = [f \in Finders |-> None]
  /\ inner = [f \in Finders |-> NewGenerator]
  /\ writes = [f \in Finders |-> <<>>]
  /\ found = [f \in Finders |-> {}]
  /\ offered = [f \in Finders |-> {}]

\* FindNodesToFill is called, under the read lock.  If the slot is the highest
\* so far its first generator is preceded by moving what has come to rest.
Search(f, s) ==
  /\ ~ended
  /\ phase[f] = "idle"
  /\ Fresh => s >= maxSlot
  /\ phase' = [phase EXCEPT ![f] = IF s > maxSlot THEN "collecting" ELSE "crossing"]
  /\ slot' = [slot EXCEPT ![f] = s]
  /\ maxSlot' = IF s > maxSlot THEN s ELSE maxSlot
  /\ UNCHANGED <<book, confirmed, filled, moveVars, outer, current, inner, writes, found,
                 offered>>

\* What f knows of the changes of the lists it walked is of the past.
Forget(f) ==
  /\ gone' = [gone EXCEPT ![f] = [o \in Orders |-> None]]
  /\ loose' = [loose EXCEPT ![f] = FALSE]

\* A walk over the taking orders collects the nodes to move; it may miss some
\* if another search removes nodes meanwhile.
Collect(f) ==
  /\ phase[f] = "collecting"
  /\ LET met == {o \in Orders : /\ place[o] = "takingLimit" \/ gone[f][o] # None
                               /\ IsRestingLimitOrder(o, slot[f])}
     IN \E os \in IF loose[f] THEN SUBSET met ELSE {met} : due' = [due EXCEPT ![f] = os]
  /\ phase' = [phase EXCEPT ![f] = "moving"]
  /\ Forget(f)
  /\ UNCHANGED <<book, confirmed, filled, maxSlot, place, hand, ended, slot, outer, current,
                 inner, writes, found, offered>>

\* A collected node is removed, if the list still has it; who walks the list
\* may have it in hand, or come to it later.
RemoveDue(f) ==
  /\ hand[f] = None
  /\ \E o \in due[f] :
       LET walking == {g \in Finders \ {f} : /\ phase[g] \in {"collecting", "takingAsks", "takingBids"}
                                            /\ place[o] = "takingLimit"}
       IN /\ place' = [place EXCEPT ![o] = IF @ = "takingLimit" THEN None ELSE @]
          /\ due' = [due EXCEPT ![f] = @ \ {o}]
          /\ hand' = [hand EXCEPT ![f] = o]
          /\ gone' = [g \in Finders |-> IF g \in walking THEN [gone[g] EXCEPT ![o] = filled[o]]
                                                          ELSE gone[g]]
          /\ loose' = [g \in Finders |-> loose[g] \/ g \in walking]
  /\ UNCHANGED <<book, confirmed, filled, maxSlot, ended, phase, slot, outer, current, inner,
                 writes, found, offered>>

\* ... and inserted into the resting list, unless another search has done so.
InsertDue(f) ==
  /\ hand[f] # None
  /\ LET o == hand[f]
     IN /\ place' = [place EXCEPT ![o] = IF @ = None THEN "restingLimit" ELSE @]
        /\ loose' = [g \in Finders |->
             loose[g] \/ (g # f /\ phase[g] \in Looping /\ place[o] = None)]
  /\ hand' = [hand EXCEPT ![f] = None]
  /\ UNCHANGED <<book, confirmed, filled, maxSlot, due, gone, ended, phase, slot, outer,
                 current, inner, writes, found, offered>>

Moved(f) ==
  /\ phase[f] = "moving"
  /\ due[f] = {} /\ hand[f] = None
  /\ phase' = [phase EXCEPT ![f] = "crossing"]
  /\ UNCHANGED <<book, confirmed, filled, maxSlot, moveVars, slot, outer, current, inner,
                 writes, found, offered>>

ProduceOuter(f) ==
  /\ phase[f] \in Looping
  /\ \E o \in Produces(outer[f], OuterMembers(f), loose[f]) :
       outer' = [outer EXCEPT ![f] = Yield(@, o, Carried(f, o))]
  /\ UNCHANGED <<book, confirmed, filled, maxSlot, moveVars, phase, slot, current, inner,
                 writes, found, offered>>

ProduceInner(f) ==
  /\ current[f] # None
  /\ \E o \in Produces(inner[f], InnerMembers, loose[f]) :
       inner' = [inner EXCEPT ![f] = Yield(@, o, filled[o])]
  /\ UNCHANGED <<book, confirmed, filled, maxSlot, moveVars, phase, slot, outer, current,
                 writes, found, offered>>

\* The outer loop takes its next order and opens a new inner loop.
Take(f) ==
  /\ phase[f] \in Looping
  /\ current[f] = None
  /\ outer[f].ready # <<>>
  /\ current' = [current EXCEPT ![f] = Head(outer[f].ready)]
  /\ outer' = [outer EXCEPT ![f].ready = Tail(@)]
  /\ inner' = [inner EXCEPT ![f] = NewGenerator]
  /\ UNCHANGED <<book, confirmed, filled, maxSlot, moveVars, phase, slot, writes, found,
                 offered>>

\* A cancelled generator yields to nobody any more.
LeaveInner(f) ==
  /\ current' = [current EXCEPT ![f] = None]
  /\ inner' = [inner EXCEPT ![f] = NewGenerator]

\* The inner loop looks at its next maker: it stops, passes over it, or
\* reports a match of what both have left.
Look(f) ==
  /\ current[f] # None
  /\ writes[f] = <<>>
  /\ inner[f].ready # <<>>
  /\ LET taker == current[f]
         maker == Head(inner[f].ready)
         has == Carried(f, taker)
         base == Min({Remaining(taker, has), Remaining(maker, filled[maker])})
         pairs == Pairs(phase[f], taker, maker)
     IN IF Stops(phase[f], taker, maker)
        THEN LeaveInner(f) /\ UNCHANGED <<writes, found>>
        ELSE /\ inner' = [inner EXCEPT ![f].ready = Tail(@)]
             /\ found' = [found EXCEPT ![f] = @ \cup
                  {[node |-> p.node, maker |-> p.maker, base |-> base] : p \in pairs}]
             /\ writes' = IF pairs = {} THEN writes
                          ELSE [writes EXCEPT ![f] =
                            <<[o |-> maker, amount |-> NewAmount(filled[maker], base)],
                              [o |-> taker, amount |-> NewAmount(has, base)]>>]
             /\ UNCHANGED current
  /\ UNCHANGED <<book, confirmed, filled, maxSlot, moveVars, phase, slot, outer, offered>>

\* GetListForOrder(...).Update(...): the list is looked up at the search's slot
\* and does nothing if the node is elsewhere.  The copy written for the outer
\* order, if full, ends the inner loop.
Write(f) ==
  /\ writes[f] # <<>>
  /\ LET w == Head(writes[f])
     IN /\ filled' = IF GetNodeType(w.o, slot[f]) = place[w.o]
                     THEN [filled EXCEPT ![w.o] = w.amount] ELSE filled
        /\ IF w.o = current[f] /\ w.amount = book[w.o].size
           THEN LeaveInner(f) ELSE UNCHANGED <<current, inner>>
  /\ writes' = [writes EXCEPT ![f] = Tail(@)]
  /\ UNCHANGED <<book, confirmed, maxSlot, moveVars, phase, slot, outer, found, offered>>

EndInner(f) ==
  /\ current[f] # None
  /\ writes[f] = <<>>
  /\ Exhausted(inner[f], InnerMembers, loose[f])
  /\ LeaveInner(f)
  /\ UNCHANGED <<book, confirmed, filled, maxSlot, moveVars, phase, slot, outer, writes,
                 found, offered>>

\* Mutant: the loop ends while its last order is still being matched.
EndOuterEarly(f) ==
  /\ phase[f] \in Looping
  /\ Exhausted(outer[f], OuterMembers(f), loose[f])
  /\ writes[f] = <<>>
  /\ phase' = [phase EXCEPT ![f] = After(@)]
  /\ outer' = [outer EXCEPT ![f] = NewGenerator]
  /\ Forget(f)
  /\ UNCHANGED <<book, confirmed, filled, maxSlot, place, due, hand, ended, slot, current,
                 inner, writes, found, offered>>

EndOuter(f) ==
  /\ phase[f] \in Looping
  /\ current[f] = None
  /\ Exhausted(outer[f], OuterMembers(f), loose[f])
  /\ writes[f] = <<>>
  /\ phase' = [phase EXCEPT ![f] = After(@)]
  /\ outer' = [outer EXCEPT ![f] = NewGenerator]
  /\ Forget(f)
  /\ UNCHANGED <<book, confirmed, filled, maxSlot, place, due, hand, ended, slot, current,
                 inner, writes, found, offered>>

\* FindNodesCrossingFallbackLiquidity: the orders the AMM can fill.
FallbackOrders(f) ==
  LET open(os, quote, crosses(_)) ==
        IF quote = None THEN {}
        ELSE {o \in os \cap Unfilled :
                /\ Spot => ~book[o].postOnly
                /\ book[o].price = None \/ crosses(book[o].price)
                /\ Spot \/ Past(o, slot[f], MinDuration)}
  IN CASE phase[f] = "restingAsksFallback" ->
            open(Resting("ask"), FallbackBid, LAMBDA price : price <= BidBuffered)
       [] phase[f] = "restingBidsFallback" ->
            open(Resting("bid"), FallbackAsk, LAMBDA price : price >= AskBuffered)
       [] phase[f] = "takingAsksFallback"  ->
            open(Taking("ask"), FallbackBid, LAMBDA price : price <= FallbackBid)
       [] phase[f] = "takingBidsFallback"  ->
            open(Taking("bid"), FallbackAsk, LAMBDA price : price >= FallbackAsk)

\* These loops write nothing, so each is one step; what a search that runs
\* besides changes under them is not told apart, and offered is looked at in
\* searches that run alone.
Offer(f) ==
  /\ phase[f] \notin Looping \cup {"idle", "collecting", "moving", "return"}
  /\ phase' = [phase EXCEPT ![f] = After(@)]
  /\ offered' = [offered EXCEPT ![f] = @ \cup FallbackOrders(f)]
  /\ UNCHANGED <<book, confirmed, filled, maxSlot, moveVars, slot, outer, current, inner,
                 writes, found>>

\* The matches are merged by taker and go to the caller, with the orders past
\* their time, which FindExpiredNodesToFill picks without touching anything.
Return(f) ==
  /\ phase[f] = "return"
  /\ phase' = [phase EXCEPT ![f] = "idle"]
  /\ slot' = [slot EXCEPT ![f] = 0]
  /\ found' = [found EXCEPT ![f] = {}]
  /\ offered' = [offered EXCEPT ![f] = {}]
  /\ UNCHANGED <<book, confirmed, filled, maxSlot, moveVars, outer, current, inner, writes>>

\* An update from the chain takes the write lock: no search is under way.
Update(o, amount) ==
  /\ \A f \in Finders : phase[f] = "idle"
  /\ amount >= confirmed[o]
  /\ confirmed' = [confirmed EXCEPT ![o] = amount]
  /\ filled' = [filled EXCEPT ![o] = amount]
  /\ UNCHANGED <<book, maxSlot, moveVars, phase, slot, outer, current, inner, writes, found,
                 offered>>

\* What f does next with the map of a list, other than walk it: the list, its
\* side, and whether its keys change.
Touches(f) ==
  {<<"takingLimit", book[o].side, place[o] = "takingLimit">> :
      o \in IF hand[f] = None THEN due[f] ELSE {}}
  \cup {<<"restingLimit", book[o].side, place[o] = None>> : o \in {hand[f]} \ {None}}
  \cup {<<GetNodeType(writes[f][i].o, slot[f]), book[writes[f][i].o].side, FALSE>> :
           i \in DOMAIN writes[f] \cap {1}}

\* Two that do so at once while one changes the keys: "concurrent map writes",
\* or "concurrent map read and map write".
Race(f, g) ==
  /\ ~ended
  /\ f # g
  /\ \E a \in Touches(f), b \in Touches(g) : a[1] = b[1] /\ a[2] = b[2] /\ (a[3] \/ b[3])
  /\ ended' = TRUE
  /\ UNCHANGED <<book, confirmed, filled, maxSlot, place, due, hand, gone, loose, phase, slot,
                 outer, current, inner, writes, found, offered>>

Work(f) ==
  /\ ~ended
  /\ \/ Collect(f)
     \/ RemoveDue(f)
     \/ InsertDue(f)
     \/ Moved(f)
     \/ ProduceOuter(f)
     \/ ProduceInner(f)
     \/ Take(f)
     \/ Look(f)
     \/ Write(f)
     \/ EndInner(f)
     \/ EndOuter(f)
     \/ Offer(f)
     \/ Return(f)

Next ==
  \/ \E f \in Finders : Work(f) \/ \E s \in SearchSlots : Search(f, s)
  \/ \E f, g \in Finders : Race(f, g)
  \/ \E o \in Orders : \E amount \in 0..book[o].size - 1 : Update(o, amount)

\* A search that began runs on; nobody has to begin one.
Spec == Init /\ [][Next]_vars
FairSpec == Spec /\ \A f \in Finders : WF_vars(Work(f))

-----------------------------------------------------------------------------
(* Properties.                                                             *)

\* The amounts are natural numbers, the loops are at orders of their lists or at
\* such that were there, and nothing is left in hand between two loops.
TypeOK ==
  /\ confirmed \in [Orders -> Nat] /\ filled \in [Orders -> Nat]
  /\ maxSlot \in Nat
  /\ place \in [Orders -> Lists \cup {None}] /\ ended \in BOOLEAN
  /\ \A f \in Finders :
       /\ phase[f] \in {Phases[i] : i \in DOMAIN Phases} \cup {"idle", "collecting", "moving"}
       /\ due[f] \subseteq Orders /\ hand[f] \in Orders \cup {None}
       /\ phase[f] # "moving" => due[f] = {} /\ hand[f] = None
       /\ gone[f] \in [Orders -> Nat \cup {None}] /\ loose[f] \in BOOLEAN
       /\ slot[f] \in SearchSlots \cup {0}
       /\ phase[f] \in Looping => current[f] \in OuterMembers(f) \cup {None}
       /\ phase[f] \notin Looping => current[f] = None /\ writes[f] = <<>>
       /\ outer[f].passed \subseteq Orders /\ inner[f].passed \subseteq InnerMembers
       /\ Len(outer[f].ready) <= Ahead /\ Len(inner[f].ready) <= Ahead
       /\ \A m \in found[f] : m.node \in Orders /\ m.maker \in Orders /\ m.base \in Nat
       /\ offered[f] \subseteq Orders

MatchesOf(f, o) == {m \in found[f] : o \in {m.node, m.maker}}

\* A single search with a current slot simulates no more fills of an order
\* than the chain has left: the result can be executed as it stands.
WithinSize ==
  \A f \in Finders, o \in Orders :
    confirmed[o] + MapThenSumSet(LAMBDA m : m.base, MatchesOf(f, o)) <= book[o].size

\* No match is reported that has nothing left to fill.
EveryMatchFills == \A f \in Finders : \A m \in found[f] : m.base > 0

\* A post-only order is never reported as the taker of a maker's order, and
\* between two resting orders the one whose auction ended first makes.
MakerMayMake ==
  [][\A f \in Finders : \A m \in found'[f] \ found[f] :
       /\ ~book[m.node].postOnly
       /\ phase[f] = "crossing" /\ ~book[m.maker].postOnly
          => book[m.maker].slot + book[m.maker].duration <= book[m.node].slot + book[m.node].duration]_vars

\* An ask is offered to the AMM only with something left for it once it has
\* been matched; the makers of taking asks are found after their own offer.
LeftForAMM ==
  \A f \in Finders : \A o \in offered[f] : book[o].side = "ask" => ~IsBaseFilled(o)

\* Two open orders the loop compares and may match.
LeftOver(p, taker, maker) ==
  /\ taker \in Unfilled /\ maker \in Unfilled
  /\ ~SameUser(taker, maker)
  /\ Crosses(p, taker, maker)
  /\ Pairs(p, taker, maker) # {}

\* The price of a limit order is the one it is sorted by.  Floating bids are
\* sorted as if their price were zero, in the order they came: they are in the
\* order of their prices while the oracle offsets they have are the same.
SortedByPrice ==
  \A b \in Books : \A o \in Orders :
    /\ b[o].class # "market" => b[o].price \in Nat
    /\ b[o].class = "limit" => b[o].price = b[o].key
    /\ b[o].class = "floating" /\ b[o].side = "bid" =>
         \A x \in Orders : b[x].class = "floating" /\ b[x].side = "bid" => b[x].price = b[o].price

\* When a loop over asks ends it has overlooked nothing, although it stops at
\* the first bid that does not cross and the producers ran ahead of the updates.
\* The loop over taking bids is not meant: it takes its makers from the bids,
\* from the dearest down, and stops at the first that is too dear.
NothingOverlooked ==
  [][\A f \in Finders :
       phase[f] \in {"crossing", "takingAsks"} /\ phase'[f] # phase[f] =>
         \A taker \in OuterMembers(f), maker \in InnerMembers : ~LeftOver(phase[f], taker, maker)]_vars

\* However searches interleave, whatever slots they pass and whatever they move
\* under each other, what is left of an order stays a natural number (it is
\* subtracted unsigned) ...
NeverOverfilled == \A o \in Orders : filled[o] <= book[o].size

\* ... and no fill the chain has confirmed is forgotten.
KeepsConfirmed == \A o \in Orders : confirmed[o] <= filled[o]

\* A search comes to its end, whatever the others do to the lists it walks,
\* unless two of them meet in a map that one of them changes.
SearchEnds == \A f \in Finders : phase[f] # "idle" ~> phase[f] = "idle" \/ ended

\* The orders of a market list are yielded in the order of their slots.
MarketByTime ==
  [][\A f \in Finders : phase[f] = "takingBids" /\ current[f] = None /\ current'[f] # None =>
       \A o \in Listed({"market"}, "bid") \ outer[f].passed :
         book[current'[f]].class = "market" => book[current'[f]].slot <= book[o].slot]_vars
=============================================================================
